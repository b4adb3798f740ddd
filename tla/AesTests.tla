------------------------------ MODULE AesTests ------------------------------
(***************************************************************************)
(* The directed tests of AES test mode, in which firmware drives the AES   *)
(* core through registers.  The result of a block depends on the key and,  *)
(* in GCM, on the nonce; the direction is left out.                        *)
(***************************************************************************)
EXTENDS TestLang

\* Blocks of one payload; data_in_last goes with the last one.
aes_blocks(k, iv, gcm, reuse, nb) ==
  For(1, nb, LAMBDA i : <<AesMode(gcm, reuse), AesWait("DIN"), AesIn(i = nb), AesWait("OUT"),
                          AesCompare(k, IF gcm THEN iv ELSE 0), AesAckOut>>)
  \o Opt(gcm, <<AesWait("TAG"), AesCompare(k, iv), AesAckOut>>)

aes_payload(slot, k, iv, gcm, reuse, nb) ==
  <<Cmd("AES_TEST"), Reg("slot", slot)>> \o Opt(gcm, <<Reg("nonce", iv)>>)
  \o <<AesWait("CFG")>> \o aes_blocks(k, iv, gcm, reuse, nb)

\* Mutant: the status of the command that leaves the mode is not read.
do_aes_test_mode_cmd_Mut(slot, k, iv, gcm, reuse, nb) ==
  aes_payload(slot, k, iv, gcm, reuse, nb) \o <<Cmd("NONE")>>

\* sinc_aes_test_mode.c leaves the mode and reads the status.
do_aes_test_mode_cmd(slot, k, iv, gcm, reuse, nb) ==
  aes_payload(slot, k, iv, gcm, reuse, nb) \o <<Cmd("NONE"), Expect("CMD_SUC")>>

\* Its copies in the other tests leave the mode and do not.
do_aes_unread_reuse(slot, k, iv, gcm, reuse, nb) ==
  aes_payload(slot, k, iv, gcm, reuse, nb) \o <<Cmd("NONE")>>
do_aes_unread_gcm(slot, k, iv, gcm, reuse, nb) ==
  aes_payload(slot, k, iv, gcm, reuse, nb) \o <<Cmd("NONE")>>
do_aes_unread_l1(slot, k, iv, gcm, reuse, nb) ==
  aes_payload(slot, k, iv, gcm, reuse, nb) \o <<Cmd("NONE")>>

\* Both modes, twice, each with a new key.
aes_modes ==
  For(1, 4, LAMBDA i : <<KeySet(i % 2, 10 + i)>>
                       \o do_aes_test_mode_cmd(i % 2, 10 + i, i, i > 2, FALSE, (i % 2) + 1)
                       \o <<Bail>>)

\* The key of payload i; aes_modes leaves the fourth one of its own.
reuse_loop_key(i) == IF i = 0 THEN 14 ELSE 20 + i

\* Every other payload uses the key of the one before, whatever the slot says.
\* ms[i] is what iteration i draws: mode and number of blocks.
aes_reuse(ms) ==
  For(1, Len(ms), LAMBDA i :
    (IF i % 2 = 1
     THEN do_aes_test_mode_cmd(1, reuse_loop_key(i - 1), 4 + i, ms[i].gcm, TRUE, ms[i].nb)
     ELSE <<KeySet(0, reuse_loop_key(i))>>
          \o do_aes_test_mode_cmd(0, reuse_loop_key(i), 4 + i, ms[i].gcm, FALSE, ms[i].nb))
    \o <<Bail>>)

\* After test mode the cache comes up as ever.
aes_then_cache ==
  Regs(0, 1, 0, 3) \o transition_to_initialized
  \o <<Reg("cnt", 1), FillSrc(0, Data(1, 0))>> \o call_encrypt_block
  \o transition_to_cache_active \o <<Peek(0, Data(1, 0)), HwDone>>

aes_test_mode(ms) == << aes_modes \o aes_reuse(ms) \o aes_then_cache >>

\* A key loaded, used again, loaded again.
aes_reuse_key ==
  << <<KeySet(0, 10)>> \o do_aes_unread_reuse(0, 10, 1, FALSE, FALSE, 1)
     \o do_aes_unread_reuse(1, 10, 1, FALSE, TRUE, 2)
     \o <<KeySet(1, 10)>> \o do_aes_unread_reuse(1, 10, 1, FALSE, FALSE, 2) \o <<HwDone>> >>

aes_reuse_key_gcm ==
  << <<KeySet(0, 10)>> \o do_aes_unread_gcm(0, 10, 1, FALSE, FALSE, 1)
     \o do_aes_unread_gcm(1, 10, 2, TRUE, TRUE, 3)
     \o <<KeySet(1, 10)>> \o do_aes_unread_gcm(1, 10, 2, TRUE, FALSE, 3) \o <<HwDone>> >>

aes_l1_debug ==
  << <<KeySet(0, 10)>> \o do_aes_unread_l1(0, 10, 1, TRUE, FALSE, 1) \o <<HwDone>> >>
=============================================================================
