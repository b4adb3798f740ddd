----------------------------- MODULE FaultTests -----------------------------
(***************************************************************************)
(* The directed tests of errors: commands out of place, memories that do   *)
(* not answer, keys that cannot be fetched, corrupted tags, a failed cache *)
(* and what it takes to leave it.                                          *)
(***************************************************************************)
EXTENDS TestLang, SincParams

\* The first block past the RAM, and the last one of the external memory.
PastRam   == NSets * NWays
LastBlock == CHOOSE b \in Blocks : \A c \in Blocks : c <= b

\* A failed cache cannot be read or written, and says so through the MPU; past
\* the RAM it is the bus that does.
check_write_read_in_cache_failed ==
  <<Poke(0, Data(1, 0)), Differs(0, Data(1, 0)), Irq("bus", 0), Irq("mpu", 2),
    Poke(PastRam, Data(1, 0)), Differs(PastRam, Data(1, 0)), Irq("bus", 2), Irq("mpu", 2)>>

failed_state_setup == Configure(0, 0, 0, 1)

\* The cache has failed; SINC_RESET leads out and the nonce is written anew.
Failed        == <<State("CACHE_FAILED"), NonceCleared>>
Recover(n)    == SincReset \o <<Reg("nonce", n)>>

failed_by_hw_fault ==
  <<Set("inject", "hw"), Sleep, Expect("HW_FAULT"), State("CACHE_FAILED"),
    Set("inject", "none"),
    NonceCleared>>
  \o check_write_read_in_cache_failed \o Recover(2)

failed_by_block_read ==
  transition_to_initialized \o <<Reg("src", 2), Reg("cnt", 1)>>
  \o Call("ENCR_BLOCK", "CACHE_BLOCK_R_ERR") \o Failed \o Recover(3)

failed_by_fetch ==
  transition_to_initialized \o transition_to_cache_active
  \o <<Set("perm", {"tag"}), Touch(0), Expect("CACHE_BLOCK_R_ERR")>> \o Failed
  \o SincReset \o <<Set("perm", {"blk", "tag"}), Reg("nonce", 4)>>

failed_by_tag_mismatch ==
  transition_to_initialized \o <<Reg("src", 1), FillSrc(0, Data(0, 0)), Reg("cnt", 1)>>
  \o call_encrypt_block \o <<CorruptTag(0)>> \o transition_to_cache_active
  \o <<Touch(0), Expect("AUTH_TAG_CHK_ERR")>> \o Failed \o Recover(5)

failed_by_tag_read ==
  transition_to_initialized \o transition_to_cache_active
  \o <<Set("perm", {"blk"}), Touch(0), Expect("AUTH_TAG_R_ERR")>> \o Failed
  \o SincReset \o <<Set("perm", {"blk", "tag"}), Reg("nonce", 6)>>

failed_by_aes ==
  transition_to_initialized \o <<Reg("cnt", 1), Set("inject", "aes")>>
  \o Call("ENCR_BLOCK", "AES_ERR") \o Failed \o <<Set("inject", "none")>> \o Recover(7)

\* And the cache works again.
failed_state_good ==
  transition_to_initialized \o <<Reg("cnt", 1), FillSrc(0, Data(1, 0))>>
  \o call_encrypt_block \o transition_to_cache_active \o <<Peek(0, Data(1, 0)), HwDone>>

sinc_cache_failed_state ==
  << failed_state_setup \o failed_by_hw_fault \o failed_by_block_read \o failed_by_fetch
     \o failed_by_tag_mismatch \o failed_by_tag_read \o failed_by_aes \o failed_state_good >>

\* The random number generator is off when SET_INIT seeds the AES core.
sinc_cache_failed_state_rng ==
  << Configure(0, 0, 0, 1) \o <<Set("inject", "rng")>>
     \o Call("SET_INIT", "RNG_SEED_R_ERR") \o <<State("CACHE_FAILED")>> \o Recover(2)
     \o <<Set("inject", "none")>> \o failed_state_good >>

-----------------------------------------------------------------------------
\* A block is read, its tag corrupted, the block read from the cache again; the
\* next blocks of its set push it out, and the third read finds the bad tag.
auth_tag_setup(noEncr) == Configure(0, 16, 0, 1) \o Opt(noEncr, <<Set("noEncr", TRUE)>>)

auth_tag_blocks(T, it) ==
  transition_to_initialized
  \o For(1, Len(T), LAMBDA i : <<Reg("num", T[i]), Reg("cnt", 1),
                                 FillSrc(0, Data(it, T[i]))>> \o call_encrypt_block)
  \o transition_to_cache_active

auth_tag_corrupt(T, sel, it) ==
  LET b == T[sel] IN
  <<OrReturn(Peek(b, Data(it, b))), State("CACHE_ACTIVE"), CorruptTag(b),
    OrReturn(Peek(b, Data(it, b))), State("CACHE_ACTIVE")>>
  \o For(1, NWays, LAMBDA i : <<Touch(T[((sel + i - 1) % Len(T)) + 1])>>)

auth_tag_reread(b, it, noEncr) ==
  IF noEncr THEN <<OrReturn(Peek(b, Data(it, b))), State("CACHE_ACTIVE")>>
            ELSE <<OrReturn(Differs(b, Data(it, b))), State("CACHE_FAILED")>>

sinc_auth_tag_mismatch(T, sel, noEncr) ==
  << auth_tag_setup(noEncr)
     \o For(1, 3, LAMBDA it : auth_tag_blocks(T, it) \o auth_tag_corrupt(T, sel, it)
                              \o auth_tag_reread(T[sel], it, noEncr)
                              \o call_sinc_reset \o <<Reg("nonce", it + 1)>>)
     \o <<HwDone>> >>

-----------------------------------------------------------------------------
\* Nobody may access the external memory: a write error, one interrupt.
sinc_bus_err ==
  << <<Set("perm", {})>> \o Configure(0, 2, 0, 0) \o transition_to_initialized
     \o <<FillSrc(0, Data(1, 0)), FillSrc(1, Data(1, 1))>>
     \o Call("ENCR_BLOCK", "CACHE_BLOCK_W_ERR_ENCR_BLOCK") \o <<Irq("err", 1), HwDone>> >>

Invalid(c) == Call(c, "INVALID_CMD")

command_err_setup == Configure(0, 0, 0, 0)

\* Every command in every mode that has no use for it.
command_err_modes ==
  <<State("DISABLED")>> \o Invalid("ENCR_BLOCK") \o Invalid("SET_CACHE_ACTIVE")
  \o <<State("DISABLED")>> \o Invalid("SINC_RESET") \o Invalid("SINC_REINIT")
  \o transition_to_initialized
  \o Invalid("SET_INIT") \o <<State("INITIALIZATION")>> \o Invalid("AES_TEST")
  \o Invalid("SINC_REINIT") \o transition_to_cache_active
  \o Invalid("SET_INIT") \o <<State("CACHE_ACTIVE")>> \o Invalid("SET_CACHE_ACTIVE")
  \o <<State("CACHE_ACTIVE")>> \o Invalid("AES_TEST") \o Invalid("ENCR_BLOCK")

\* Mutant: the state is not checked, so the status of the failed fetch is unread.
command_err_failed_Mut ==
  <<Set("perm", {}), Touch(0)>> \o Invalid("AES_TEST") \o <<State("CACHE_FAILED"), HwDone>>

command_err_failed ==
  <<Set("perm", {}), Touch(0), State("CACHE_FAILED")>>
  \o Invalid("AES_TEST") \o Invalid("SET_INIT") \o <<State("CACHE_FAILED")>>
  \o Invalid("ENCR_BLOCK") \o Invalid("SET_CACHE_ACTIVE") \o <<State("CACHE_FAILED")>>
  \o Invalid("SINC_REINIT") \o <<State("CACHE_FAILED"), HwDone>>

sinc_command_err == << command_err_setup \o command_err_modes \o command_err_failed >>

\* check_sp_bus_and_mpu_err: its result is not added to the errors.
check_sp_bus_and_mpu_err == <<Ignored(Irq("bus", 0)), Ignored(Irq("mpu", 0))>>

non_severe_setup == Configure(0, 0, 0, 1)

\* A write that fails is reported and the command can be given again.
non_severe_run ==
  transition_to_initialized
  \o <<Set("perm", {"tag"}), Reg("src", 1), FillSrc(0, Data(0, 0)), Reg("cnt", 1)>>
  \o Call("ENCR_BLOCK", "CACHE_BLOCK_W_ERR_ENCR_BLOCK") \o <<State("INITIALIZATION")>>
  \o check_sp_bus_and_mpu_err \o <<Set("perm", {"blk", "tag"})>> \o call_encrypt_block
  \o <<Set("perm", {"blk"})>> \o Call("ENCR_BLOCK", "AUTH_TAG_W_ERR")
  \o <<State("INITIALIZATION")>> \o check_sp_bus_and_mpu_err \o <<HwDone>>

sinc_non_severe_err == << non_severe_setup \o non_severe_run >>

\* The last block, at a base address no memory answers.
sinc_axi_mgr_toggle ==
  << <<KeyGen(0), Reg("num", LastBlock), Reg("cnt", 1), Reg("src", 1), Reg("slot", 0),
       Reg("nonce", 1), Reg("base", 2)>>
     \o transition_to_initialized \o Call("ENCR_BLOCK", "CACHE_BLOCK_W_ERR_ENCR_BLOCK")
     \o transition_to_cache_active
     \o <<Touch(LastBlock), Expect("CACHE_BLOCK_R_ERR"), State("CACHE_FAILED"), HwDone>> >>

-----------------------------------------------------------------------------
\* A key with attributes that allow its use, or not.
check_key_fetch(ok, err) ==
  <<KeyGen(0), Set("attrOk", ok)>>
  \o (IF err THEN Call("SET_INIT", "KEY_FETCH_ERR") \o <<State("CACHE_FAILED")>>
             ELSE transition_to_initialized)
  \o SincReset

\* One key that may be used and four that may not, then with the check bypassed.
sinc_ksu_access ==
  << Regs(0, 0, 0, 0) \o check_key_fetch(TRUE, FALSE)
     \o For(1, 4, LAMBDA i : check_key_fetch(FALSE, TRUE)) \o <<Set("bypass", TRUE)>>
     \o check_key_fetch(TRUE, FALSE)
     \o For(1, 4, LAMBDA i : check_key_fetch(FALSE, FALSE)) \o <<HwDone>> >>

-----------------------------------------------------------------------------
intr_setup == Configure(0, 2, 0, 0)

\* Everything that succeeds raises the done interrupt once: five commands, the
\* end of AES test mode, the erasure of the RAM.
intr_run ==
  transition_to_initialized \o <<Irq("done", 1), FillSrc(0, Data(1, 0))>>
  \o call_encrypt_block \o <<Irq("done", 2)>>
  \o transition_to_cache_active \o <<Irq("done", 3)>>
  \o call_sinc_reinit \o <<Irq("done", 4)>> \o call_sinc_reset \o <<Irq("done", 5)>>
  \o <<Cmd("AES_TEST"), Cmd("NONE"), Sleep, Irq("done", 6)>>
  \o <<EraseStart, EraseWait, Sleep, Irq("done", 7), HwDone>>

sinc_intr == << intr_setup \o intr_run >>

erase_busy_setup == Configure(0, 0, 0, 1)

\* A read of the RAM while it is erased is an error, cached or not.
erase_busy_active ==
  transition_to_initialized \o <<Reg("src", 1), FillSrc(0, Data(0, 0)), Reg("cnt", 1)>>
  \o call_encrypt_block \o transition_to_cache_active
  \o <<EraseStart, Touch(0), EraseWait, EraseErrSet, Sleep>> \o SincReset

erase_busy_disabled ==
  <<EraseStart, Touch(0), EraseWait, EraseStart, EraseErrSet, HwDone>>

sinc_erase_busy == << erase_busy_setup \o erase_busy_active \o erase_busy_disabled >>
=============================================================================
