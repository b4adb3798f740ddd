----------------------------- MODULE ResetTests -----------------------------
(***************************************************************************)
(* The directed tests of SINC_RESET, SINC_REINIT and of the resets of the  *)
(* security processor.  A test is the sequence of the programs its         *)
(* successive boots run (hsp_reset_count_rpc).  T is the block table the   *)
(* test draws, gate the gating its parameters ask for.                     *)
(***************************************************************************)
EXTENDS TestLang

sinc_reset_setup == Configure(0, 0, 0, 0)

\* A reset empties the RAM; once disabled, it is refused for good.
sinc_reset_boot0 ==
  sinc_reset_setup \o transition_to_initialized \o <<Poke(0, Data(1, 0))>>
  \o SincReset \o <<Peek(0, Data(0, 0)), Cmd("DIS_RESET"), Ignored(Bits({"SINC_RESET"}))>>
  \o transition_to_initialized \o Call("SINC_RESET", "INVALID_CMD")
  \o <<State("INITIALIZATION"), Cmd("NONE"), Ignored(Bits({"SINC_RESET"}))>>
  \o Call("SINC_RESET", "INVALID_CMD") \o <<State("INITIALIZATION"), Bail, HspReset, Spin>>

\* Until the security processor is reset.
sinc_reset_boot1 ==
  sinc_reset_setup \o <<Ignored(NotBits({"SINC_RESET"}))>> \o transition_to_initialized
  \o <<Cmd("DIS_RESET"), Ignored(Bits({"SINC_RESET"}))>>
  \o Call("SINC_RESET", "INVALID_CMD") \o <<State("INITIALIZATION"), Bail, HspReset, Spin>>

sinc_reset_boot2 ==
  sinc_reset_setup \o transition_to_initialized \o <<Poke(0, Data(1, 0))>>
  \o transition_to_cache_active \o SincReset \o <<Peek(0, Data(0, 0))>>
  \o transition_to_initialized \o transition_to_cache_active
  \o <<Cmd("DIS_RESET"), Ignored(Bits({"SINC_RESET"}))>>
  \o Call("SINC_RESET", "INVALID_CMD")
  \o <<State("CACHE_ACTIVE"), Cmd("NONE"), Ignored(Bits({"SINC_RESET"}))>>
  \o Call("SINC_RESET", "INVALID_CMD") \o <<State("CACHE_ACTIVE"), HwDone>>

sinc_reset == <<sinc_reset_boot0, sinc_reset_boot1, sinc_reset_boot2>>

-----------------------------------------------------------------------------
sinc_reinit_setup == Configure(0, 0, 0, 0)

sinc_reinit_boot0 ==
  sinc_reinit_setup \o transition_to_initialized
  \o <<Poke(0, Data(1, 0)), Peek(0, Data(1, 0))>>
  \o transition_to_cache_active \o call_sinc_reinit
  \o <<State("INITIALIZATION"), Peek(0, Data(0, 0)), Cmd("DIS_REINIT"), Bits({"SINC_REINIT"})>>
  \o transition_to_cache_active \o Call("SINC_REINIT", "INVALID_CMD")
  \o <<State("CACHE_ACTIVE"), Cmd("NONE"), Bits({"SINC_REINIT"})>>
  \o Call("SINC_REINIT", "INVALID_CMD") \o <<State("CACHE_ACTIVE"), Bail, HspReset, Spin>>

\* Disabled from DISABLED on ...
sinc_reinit_boot1 ==
  sinc_reinit_setup
  \o <<Ignored(NotBits({"SINC_REINIT"})), Cmd("DIS_REINIT"), Ignored(Bits({"SINC_REINIT"}))>>
  \o transition_to_initialized \o transition_to_cache_active
  \o Call("SINC_REINIT", "INVALID_CMD") \o <<State("CACHE_ACTIVE"), Bail, HspReset, Spin>>

\* ... and from CACHE_ACTIVE on.
sinc_reinit_boot2 ==
  sinc_reinit_setup \o <<Ignored(NotBits({"SINC_REINIT"}))>>
  \o transition_to_initialized \o transition_to_cache_active
  \o <<Cmd("DIS_REINIT"), Ignored(Bits({"SINC_REINIT"}))>>
  \o Call("SINC_REINIT", "INVALID_CMD") \o <<State("CACHE_ACTIVE"), HwDone>>

sinc_reinit == <<sinc_reinit_boot0, sinc_reinit_boot1, sinc_reinit_boot2>>

-----------------------------------------------------------------------------
\* Half of the table encrypted and read, the first time through.
reset_after_gate_setup ==
  <<KeyGen(1), Reg("cnt", 1), Reg("src", 1), Reg("slot", 1), Reg("nonce", 1),
    Reg("base", 1)>>

reset_after_gate_first(T) ==
  transition_to_initialized \o Encrypt(T, 1, Len(T) \div 2)
  \o transition_to_cache_active \o ReadBack(T, 1, Len(T) \div 2)

\* The gated registers are written again.
gate_in_disabled(gate) ==
  Opt(gate = "CLK", <<ClkGate>>)
  \o Opt(gate = "PWR", <<PwrGate, Reg("src", 1), Reg("cnt", 1), Reg("slot", 1),
                         Reg("nonce", 1)>>)

reset_after_gate_second(T) ==
  transition_to_initialized \o Encrypt(T, Len(T) \div 2 + 1, Len(T))
  \o transition_to_cache_active \o ReadBack(T, 1, Len(T)) \o <<HwDone>>

sinc_reset_after_gate(T, gate) ==
  << reset_after_gate_setup \o reset_after_gate_first(T) \o SincReset
     \o gate_in_disabled(gate) \o reset_after_gate_second(T) >>

\* The same around SINC_REINIT, which keeps the key: slot and nonce are not
\* written again.
reinit_after_gate_first(T) ==
  reset_after_gate_setup \o transition_to_initialized \o Encrypt(T, 1, Len(T) \div 2)
  \o transition_to_cache_active \o ReadBack(T, 1, Len(T) \div 2)

gate_in_initialization(gate) ==
  Opt(gate = "CLK", <<ClkGate>>) \o Opt(gate = "PWR", <<PwrGate, Reg("src", 1), Reg("cnt", 1)>>)

reinit_after_gate_second(T) ==
  Encrypt(T, Len(T) \div 2 + 1, Len(T))
  \o transition_to_cache_active \o ReadBack(T, 1, Len(T)) \o <<HwDone>>

sinc_reinit_after_gate(T, gate) ==
  << reinit_after_gate_first(T) \o call_sinc_reinit \o <<State("INITIALIZATION")>>
     \o gate_in_initialization(gate) \o reinit_after_gate_second(T) >>

-----------------------------------------------------------------------------
\* The key is wrapped and kept across a reset of the security processor, which
\* the test asks for without waiting for it.
restore_key(boot) ==
  <<KeyGen(1)>> \o Opt(boot = 0, <<KeySave(1)>>) \o Opt(boot = 1, <<KeyLoad(1)>>)

restore_regs ==
  <<Reg("cnt", 1), Reg("src", 1), Reg("slot", 1), Reg("nonce", 1), Reg("base", 1)>>

restore_blocks(T, boot) ==
  transition_to_initialized \o Opt(boot = 0, Encrypt(T, 1, Len(T)))
  \o transition_to_cache_active \o ReadBack(T, 1, Len(T)) \o <<Bail>>

restore_end(boot) == Opt(boot = 0, <<HspReset>>) \o <<HwDone>>

sinc_restore_after_reset(T) ==
  [i \in 1 .. 2 |-> restore_key(i - 1) \o restore_regs
                    \o restore_blocks(T, i - 1) \o restore_end(i - 1)]
=============================================================================
