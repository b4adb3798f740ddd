----------------------------- MODULE MCFirmware -----------------------------
(* Two sets of two ways and eight blocks: the RAM holds blocks 0 to 3, and  *)
(* a set has four blocks for its two ways.                                  *)
EXTENDS Firmware

ExtBlocks == 0 .. 7

Job(t)  == [test |-> t]
OneSet  == <<0, 2, 4, 6>>       \* retention and tag tests draw one set
TwoSets == <<0, 1, 4, 3, 6>>
Spread  == <<5, 0, 7, 4>>

Gate(k, n) == [kind |-> k, at |-> n]
Gates(n)   == {Gate("NONE", 0)} \cup {Gate(k, i) : k \in {"CLK", "PWR"}, i \in 1 .. n}

Payload(gcm, nb) == [gcm |-> gcm, nb |-> nb]
Payloads == {Payload(g, n) : g \in BOOLEAN, n \in 1 .. 2}

\* Tests without parameters.
PlainJobs ==
  {Job(t) : t \in {"sinc_reset", "sinc_reinit", "sinc_cache_failed_state",
     "sinc_cache_failed_state_rng", "sinc_bus_err", "sinc_command_err",
     "sinc_non_severe_err", "sinc_axi_mgr_toggle", "sinc_ksu_access", "sinc_intr",
     "sinc_erase_busy", "sinc_cache_disabled_mem_access",
     "sinc_cache_initialized_mem_access", "sinc_cache_transition_initialized_runtime",
     "sinc_cache_active_mem_access_short", "sinc_reg_access_by_state",
     "sinc_performance_counter_check_simple", "sinc_aes_test_mode_l1_debug"}}

GateJobs ==
  {[test |-> t, T |-> Spread, gate |-> g] :
     t \in {"sinc_reset_after_gate", "sinc_reinit_after_gate"}, g \in Gates(1)}
  \cup {[test |-> "sinc_cache_initialized_encrypt", gate |-> g, noEncr |-> e] :
          g \in Gates(2), e \in BOOLEAN}
  \cup {[test |-> "sinc_cache_active_mem_access", gate |-> g, noEncr |-> e] :
          g \in Gates(4), e \in BOOLEAN}

RetentionJobs ==
  {[test |-> t, T |-> OneSet, dis |-> d] :
     t \in {"sinc_onoff_ret_check_active", "sinc_onoff_ret_check_initialized"}, d \in 0 .. 2}

DisabledJobs == {[test |-> "sinc_onoff_ret_check_disabled", dis |-> d] : d \in 0 .. 2}

TableJobs ==
  {[test |-> "sinc_performance_counter_check", T |-> TwoSets]}
  \cup {[test |-> "sinc_auth_tag_mismatch", T |-> OneSet, sel |-> i, noEncr |-> e] :
          i \in 1 .. 4, e \in BOOLEAN}

AesJobs ==
  {[test |-> "sinc_aes_test_mode", ms |-> <<p, q, r>>] :
     p \in Payloads, q \in Payloads, r \in Payloads}

ActiveJobs  == {j \in RetentionJobs : j.test = "sinc_onoff_ret_check_active"}
RestoreJobs == {[test |-> "sinc_restore_after_reset", T |-> Spread]}
ReuseJobs   == {Job("sinc_aes_test_mode_reuse_key"), Job("sinc_aes_test_mode_reuse_key_gcm")}
SweepJobs   == {Job("sinc_reg_access_by_state")}

AllJobs == PlainJobs \cup GateJobs \cup RetentionJobs \cup DisabledJobs \cup TableJobs
           \cup AesJobs \cup RestoreJobs

\* Losses at a power gating that the retention tests are there to find: of either
\* mode, of CACHE_ACTIVE alone.
RetentionDefects == {"nonceLost", "keyLost", "baseLost", "disLost", "modeLost", "mpuLost", "ramLost"}
CacheDefects     == {"tagsLost", "cntrKept"}

FoundBy(j) ==
  {"none"}
  \cup (IF j \in RetentionJobs THEN RetentionDefects ELSE {})
  \cup (IF j \in ActiveJobs THEN CacheDefects ELSE {})

NoDefect(j) == {"none"}
OpenRegs(j) == {"openRegs"}
RegsKept(j) == {"regsKept"}
=============================================================================
