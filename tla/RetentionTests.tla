--------------------------- MODULE RetentionTests ---------------------------
(***************************************************************************)
(* The directed tests of what survives a power gating, and of the hit and  *)
(* miss counters.  T is the block table a test draws (blocks of one set in *)
(* the retention tests), n the random accesses of a loop, dis what the     *)
(* test disables: re-init, reset or both.                                  *)
(***************************************************************************)
EXTENDS TestLang, SincParams

Elements(T) == {T[i] : i \in DOMAIN T}

dis_bits(dis) ==
  CASE dis = 0 -> {"SINC_REINIT"}
    [] dis = 1 -> {"SINC_RESET"}
    [] dis = 2 -> {"SINC_REINIT", "SINC_RESET"}

\* switch(dis_val): the commands, each with its bit read back.
disable_some(dis) ==
  Opt(dis \in {0, 2}, <<Cmd("DIS_REINIT"), Bits({"SINC_REINIT"})>>)
  \o Opt(dis \in {1, 2}, <<Cmd("DIS_RESET"), Bits({"SINC_RESET"})>>)

\* Mutant: what check_mpu_pages finds is not added to the errors either.
check_after_gate_Mut(dis) ==
  <<Ignored(MpuCheck(1)), Bits(dis_bits(dis)), Ignored(CheckAllRegs)>>

\* After the gating: the MPU pages, the disable bits, and every register; the
\* result of the last check is not added to the errors.
check_after_gate(dis) == <<MpuCheck(1), Bits(dis_bits(dis)), Ignored(CheckAllRegs)>>

-----------------------------------------------------------------------------
ret_active_setup == Configure(5, 16, 1, 1) \o transition_to_initialized

ret_active_blocks(T) ==
  For(1, Len(T), LAMBDA i : <<Reg("num", T[i]), Reg("cnt", 1),
                              FillSrc(0, Data(1, T[i]))>> \o call_encrypt_block)
  \o transition_to_cache_active \o <<PerfEnable>>

\* access_rand_word: one word, its value and both counters checked.
access_rand_word(bs) == <<Access(bs, 1, "PREDICTED")>>

\* The last block of the table is not read before the gating.
ret_active_before(T, n, dis) ==
  For(1, n, LAMBDA i : access_rand_word(Elements(T) \ {T[Len(T)]}))
  \o <<MpuModify(1)>> \o disable_some(dis)

\* The key in the key store is another one when the power comes back.
ret_active_gate == <<Record, KeyGen(1), PwrGate>>

\* Cache and tags are as they were, the counters start again from zero.
ret_active_after(T, n, dis) ==
  check_after_gate(dis) \o <<PerfEnable, PerfCheck, Again>>
  \o access_rand_word({T[Len(T)]})
  \o For(1, n, LAMBDA i : access_rand_word(Elements(T))) \o <<HwDone>>

ret_check_active(T, n, dis) ==
  << ret_active_setup \o ret_active_blocks(T) \o ret_active_before(T, n, dis)
     \o ret_active_gate \o ret_active_after(T, n, dis) >>

-----------------------------------------------------------------------------
\* Known data in the first way of every set but s.
OtherSets(s)  == [i \in 1 .. NSets - 1 |-> (s + i) % NSets]
poke_sets(s)  == [i \in 1 .. NSets - 1 |-> Poke(OtherSets(s)[i], Data(1, 0))]
check_sets(s) == [i \in 1 .. NSets - 1 |-> Peek(OtherSets(s)[i], Data(1, 0))]

ret_initialized_setup == Configure(5, 16, 1, 1) \o transition_to_initialized

ret_initialized_blocks(T) ==
  For(1, Len(T), LAMBDA i : <<Reg("num", T[i]), Reg("cnt", 1),
                              FillSrc(0, Data(1, T[i]))>> \o call_encrypt_block)

ret_initialized_before(T, dis) ==
  poke_sets(SetOf(T[1])) \o <<MpuModify(1)>> \o disable_some(dis)

ret_initialized_gate == <<Record, KeyGen(1), PwrGate>>

\* The RAM, and then the blocks under the key loaded before the gating.
ret_initialized_after(T, n, dis) ==
  check_after_gate(dis) \o check_sets(SetOf(T[1])) \o transition_to_cache_active
  \o For(1, n, LAMBDA i : <<ReadAny([b \in Elements(T) |-> Data(1, b)])>>) \o <<HwDone>>

ret_check_initialized(T, n, dis) ==
  << ret_initialized_setup \o ret_initialized_blocks(T) \o ret_initialized_before(T, dis)
     \o ret_initialized_gate \o ret_initialized_after(T, n, dis) >>

ret_disabled_before(dis) ==
  Regs(5, 16, 1, 1) \o poke_sets(0) \o <<MpuModify(1)>> \o disable_some(dis)

ret_disabled_after(dis) ==
  <<Record, PwrGate>> \o check_after_gate(dis) \o check_sets(0)
  \o <<State("DISABLED"), HwDone>>

ret_check_disabled(dis) == << ret_disabled_before(dis) \o ret_disabled_after(dis) >>

-----------------------------------------------------------------------------
perf_check_setup == Configure(0, 16, 0, 1) \o transition_to_initialized

perf_check_blocks(T) ==
  For(1, Len(T), LAMBDA i : <<Reg("num", T[i]), Reg("cnt", 1),
                              FillSrc(0, Data(1, T[i]))>> \o call_encrypt_block)
  \o transition_to_cache_active \o <<PerfEnable>>

\* Random words, the first wrong one ending the test.
perf_check_random(T, n) ==
  For(1, n, LAMBDA i : <<OrReturn(Access(Elements(T), 1, "PREDICTED"))>>)

\* Then every word of every block.
perf_check_sweep(T) ==
  For(1, Len(T), LAMBDA i : <<OrReturn(Access({T[i]}, BlockWords, "PREDICTED"))>>)
  \o <<HwDone>>

performance_counter_check(T, n) ==
  << perf_check_setup \o perf_check_blocks(T) \o perf_check_random(T, n)
     \o perf_check_sweep(T) >>

\* The blocks of set 0, one more than it has ways: the test says itself which
\* reads hit.
check_block(i, isHit) == <<Access({i * NSets}, 1, IF isHit THEN "HIT" ELSE "MISS")>>

perf_simple_blocks ==
  Configure(0, 1, 0, 1) \o transition_to_initialized
  \o For(0, NWays, LAMBDA i : <<Reg("num", i * NSets), Reg("cnt", 1),
                                FillSrc(0, Data(1, i * NSets))>> \o call_encrypt_block)
  \o transition_to_cache_active \o <<PerfEnable>>

perf_simple_reads ==
  For(0, NWays, LAMBDA i : check_block(i, FALSE))
  \o For(1, NWays, LAMBDA i : check_block(i, TRUE)) \o check_block(0, FALSE) \o <<HwDone>>

performance_counter_check_simple == << perf_simple_blocks \o perf_simple_reads >>
=============================================================================
