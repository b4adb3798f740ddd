------------------------------ MODULE RefCache ------------------------------
(***************************************************************************)
(* The cache as the directed tests predict it, beside the cache itself.    *)
(* sinc_onoff_ret_check_active.c and sinc_performance_counter_check.c keep *)
(* a table of the tags a set should hold and count the hits and misses of  *)
(* their reads; after every read they compare the counts with the hit and  *)
(* miss counters of the device (check_perf_counters).  The device half is  *)
(* sinc_ciu_vtag.sv and the counters of sinc_cmu_reg_ctrl.sv, one step per *)
(* read; a tag is written as the number of the block it names in its set.  *)
(***************************************************************************)
EXTENDS SincParams

CONSTANTS
  CntrMax,   \* where the counters stop: 2^48 - 1 in the hardware
  MaxWords   \* bound: words a test reads between two resets of its counts

ASSUME CntrAssumption == CntrMax \in Nat /\ MaxWords \in Nat

VARIABLES
  vtag,       \* vtag[s][w]: the block whose tag is valid there, or NoTag
  fifoSta,    \* the next way to replace in each set
  cntrEn,     \* perf_cntr_ctrl: the hit and miss counters are enabled
  hitCntr, missCntr,
  tag_table, valid_table, tag_table_counter,   \* the C test's prediction
  exp_hit, exp_miss

cacheVars == <<vtag, fifoSta>>
cntrVars  == <<cntrEn, hitCntr, missCntr>>
tableVars == <<tag_table, valid_table, tag_table_counter>>
expVars   == <<exp_hit, exp_miss>>
refVars   == <<vtag, fifoSta, cntrEn, hitCntr, missCntr,
               tag_table, valid_table, tag_table_counter, exp_hit, exp_miss>>

NoTag == -1

-----------------------------------------------------------------------------
(* The device.                                                              *)

\* block_hit: exactly one way of the block's set holds its tag.
CacheHit(b) ==
  \E w \in Ways : /\ vtag[SetOf(b)][w] = b
                  /\ \A v \in Ways : vtag[SetOf(b)][v] = b => v = w

\* A completed fetch writes the tag at the replacement pointer and moves it.
Fill(b) ==
  /\ vtag' = [vtag EXCEPT ![SetOf(b)][fifoSta[SetOf(b)]] = b]
  /\ fifoSta' = [fifoSta EXCEPT ![SetOf(b)] = (@ + 1) % NWays]

\* Mutant: the counter wraps at its limit.
Count_Mut(c, n) == (c + n) % (CntrMax + 1)

\* hit_cntr_max, miss_cntr_max: n pulses, none of which passes the limit.
Count(c, n) == IF c + n > CntrMax THEN CntrMax ELSE c + n

\* n words of a block: the first one may miss, and then it is no hit, because
\* cache_miss_r is still set when the fetched word is read.
CountRead(b, n) ==
  LET hit == CacheHit(b) IN
  /\ hitCntr'  = IF cntrEn THEN Count(hitCntr, IF hit THEN n ELSE n - 1)
                 ELSE hitCntr
  /\ missCntr' = IF cntrEn /\ ~hit THEN Count(missCntr, 1) ELSE missCntr

\* The CPU reads n words of block b of an active cache, with no error.
DeviceRead(b, n) ==
  /\ IF CacheHit(b) THEN UNCHANGED cacheVars ELSE Fill(b)
  /\ CountRead(b, n)
  /\ UNCHANGED cntrEn

-----------------------------------------------------------------------------
(* The C test.                                                              *)

block_in_tag_table(b) ==
  \E w \in Ways : valid_table[SetOf(b)][w] = 1 /\ tag_table[SetOf(b)][w] = b

NextCounter(c) == IF c = NWays - 1 THEN 0 ELSE c + 1

\* check_hit updates the tables when it answers that the block misses.
check_hit(b) ==
  LET s == SetOf(b)
      c == tag_table_counter[s] IN
  IF block_in_tag_table(b)
  THEN UNCHANGED tableVars
  ELSE /\ tag_table' = [tag_table EXCEPT ![s][c] = b]
       /\ valid_table' = [valid_table EXCEPT ![s][c] = 1]
       /\ tag_table_counter' = [tag_table_counter EXCEPT ![s] = NextCounter(c)]

\* exp_hit, exp_miss: a block read in full costs one miss at most.
CountExpected(b, n) ==
  IF block_in_tag_table(b)
  THEN exp_hit' = exp_hit + n /\ UNCHANGED exp_miss
  ELSE exp_hit' = exp_hit + n - 1 /\ exp_miss' = exp_miss + 1

\* access_rand_word: predict, then read one word.
AccessWord(b) ==
  /\ exp_hit + exp_miss < MaxWords
  /\ check_hit(b) /\ CountExpected(b, 1)
  /\ DeviceRead(b, 1)

\* The sweep at the end of the counter test reads every word of a block.
AccessBlock(b) ==
  /\ exp_hit + exp_miss + BlockWords <= MaxWords
  /\ check_hit(b) /\ CountExpected(b, BlockWords)
  /\ DeviceRead(b, BlockWords)

\* write_perf_cntr_ctrl after a reset of the counters, and exp_hit = exp_miss = 0.
EnableCounters ==
  /\ ~cntrEn
  /\ cntrEn' = TRUE /\ exp_hit' = 0 /\ exp_miss' = 0
  /\ UNCHANGED <<cacheVars, hitCntr, missCntr, tableVars>>

\* Mutant: the replacement pointers lie in the gated domain.
GateCache_Mut == fifoSta' = [s \in Sets |-> 0] /\ UNCHANGED vtag

\* Tags and pointers are retained.
GateCache == UNCHANGED cacheVars

\* lp_rstn_i: the counters and their control register are not retained.
GateCounters == cntrEn' = FALSE /\ hitCntr' = 0 /\ missCntr' = 0

\* pcu_pwrgate_checks: the low-power domain is switched off and on.
PowerGate == GateCache /\ GateCounters /\ UNCHANGED <<tableVars, expVars>>

\* A reset of the security processor, and the tables of the next RUN_TEST.
Restart ==
  /\ vtag' = [s \in Sets |-> [w \in Ways |-> NoTag]]
  /\ fifoSta' = [s \in Sets |-> 0]
  /\ GateCounters
  /\ valid_table' = [s \in Sets |-> [w \in Ways |-> 0]]
  /\ tag_table_counter' = [s \in Sets |-> 0]
  /\ UNCHANGED <<tag_table, expVars>>

-----------------------------------------------------------------------------
RefInit ==
  /\ vtag = [s \in Sets |-> [w \in Ways |-> NoTag]]
  /\ fifoSta = [s \in Sets |-> 0]
  /\ cntrEn = FALSE /\ hitCntr = 0 /\ missCntr = 0
  /\ tag_table = [s \in Sets |-> [w \in Ways |-> 0]]
  /\ valid_table = [s \in Sets |-> [w \in Ways |-> 0]]
  /\ tag_table_counter = [s \in Sets |-> 0]
  /\ exp_hit = 0 /\ exp_miss = 0

RefNext ==
  \/ \E b \in Blocks : AccessWord(b) \/ AccessBlock(b)
  \/ EnableCounters \/ PowerGate \/ Restart

RefSpec == RefInit /\ [][RefNext]_refVars

-----------------------------------------------------------------------------
\* Device and prediction have their types.
RefTypeOK ==
  /\ vtag \in [Sets -> [Ways -> Blocks \cup {NoTag}]]
  /\ fifoSta \in [Sets -> Ways]
  /\ cntrEn \in BOOLEAN /\ hitCntr \in Nat /\ missCntr \in Nat
  /\ tag_table \in [Sets -> [Ways -> Blocks]]
  /\ valid_table \in [Sets -> [Ways -> {0, 1}]]
  /\ tag_table_counter \in [Sets -> Ways]
  /\ exp_hit \in Nat /\ exp_miss \in Nat

\* The prediction of the next read is right for every block, in whatever order
\* blocks were read and wherever the power was gated: block_in_tag_table of the
\* test and block_hit of the tag array answer the same.
PredictionIsRight == \A b \in Blocks : block_in_tag_table(b) <=> CacheHit(b)

AtMost(max, n) == IF n > max THEN max ELSE n

\* The comparison of check_perf_counters holds after every read: an enabled
\* counter shows the test's count, up to the limit where it stops.
CountersAgree ==
  cntrEn => /\ hitCntr = AtMost(CntrMax, exp_hit)
            /\ missCntr = AtMost(CntrMax, exp_miss)
=============================================================================
