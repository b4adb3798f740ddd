--------------------------- MODULE DirectedTests ---------------------------
(***************************************************************************)
(* The directed tests of verif/l3, by name.  A job is one run of a test:   *)
(* its name, the parameters it is started with (TestParams) and what it    *)
(* draws with rand() before its first access.                              *)
(***************************************************************************)
EXTENDS ResetTests, FaultTests, MemoryTests, RetentionTests, AesTests

CONSTANTS
  Jobs,      \* the runs that are checked
  Accesses   \* bound: random accesses of a loop, 10 to 200 in the C code

ASSUME AccessesAssumption == Accesses \in Nat

\* The programs of the boots of a job.  j.T is a block table, j.gate a gating,
\* j.dis what is disabled, j.sel the block drawn, j.ms the payloads.
Program(j) ==
  CASE j.test = "sinc_reset"              -> sinc_reset
    [] j.test = "sinc_reinit"             -> sinc_reinit
    [] j.test = "sinc_reset_after_gate"   -> sinc_reset_after_gate(j.T, j.gate.kind)
    [] j.test = "sinc_reinit_after_gate"  -> sinc_reinit_after_gate(j.T, j.gate.kind)
    [] j.test = "sinc_restore_after_reset" -> sinc_restore_after_reset(j.T)
    [] j.test = "sinc_cache_failed_state" -> sinc_cache_failed_state
    [] j.test = "sinc_cache_failed_state_rng" -> sinc_cache_failed_state_rng
    [] j.test = "sinc_auth_tag_mismatch"  -> sinc_auth_tag_mismatch(j.T, j.sel, j.noEncr)
    [] j.test = "sinc_bus_err"            -> sinc_bus_err
    [] j.test = "sinc_command_err"        -> sinc_command_err
    [] j.test = "sinc_non_severe_err"     -> sinc_non_severe_err
    [] j.test = "sinc_axi_mgr_toggle"     -> sinc_axi_mgr_toggle
    [] j.test = "sinc_ksu_access"         -> sinc_ksu_access
    [] j.test = "sinc_intr"               -> sinc_intr
    [] j.test = "sinc_erase_busy"         -> sinc_erase_busy
    [] j.test = "sinc_cache_disabled_mem_access"    -> disabled_mem_access
    [] j.test = "sinc_cache_initialized_mem_access" -> initialized_mem_access
    [] j.test = "sinc_cache_transition_initialized_runtime" -> transition_initialized_runtime
    [] j.test = "sinc_cache_initialized_encrypt" -> initialized_encrypt(j.gate, j.noEncr)
    [] j.test = "sinc_cache_active_mem_access" ->
         active_mem_access(j.gate, j.noEncr, Accesses)
    [] j.test = "sinc_cache_active_mem_access_short" -> active_mem_access_short
    [] j.test = "sinc_reg_access_by_state" -> reg_access_by_state
    [] j.test = "sinc_onoff_ret_check_active" -> ret_check_active(j.T, Accesses, j.dis)
    [] j.test = "sinc_onoff_ret_check_initialized" ->
         ret_check_initialized(j.T, Accesses, j.dis)
    [] j.test = "sinc_onoff_ret_check_disabled" -> ret_check_disabled(j.dis)
    [] j.test = "sinc_performance_counter_check" -> performance_counter_check(j.T, Accesses)
    [] j.test = "sinc_performance_counter_check_simple" -> performance_counter_check_simple
    [] j.test = "sinc_aes_test_mode"      -> aes_test_mode(j.ms)
    [] j.test = "sinc_aes_test_mode_reuse_key"     -> aes_reuse_key
    [] j.test = "sinc_aes_test_mode_reuse_key_gcm" -> aes_reuse_key_gcm
    [] j.test = "sinc_aes_test_mode_l1_debug"      -> aes_l1_debug

Code == [j \in Jobs |-> Program(j)]
=============================================================================
