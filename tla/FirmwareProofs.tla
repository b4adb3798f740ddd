--------------------------- MODULE FirmwareProofs ---------------------------
(***************************************************************************)
(* The cache the directed tests predict, and the device they run on.       *)
(*                                                                         *)
(* The prediction is right for every geometry of the cache, every set of   *)
(* blocks and every counter width.  The tables agree way by way            *)
(* (TablesAgree) only as long as no tag is held twice, and the counters    *)
(* only as long as disabled ones are clear.                                *)
(*                                                                         *)
(* The device of SincDevice implements Lifecycle until it is reset, for    *)
(* every program and not only for those of verif/l3: nothing below looks   *)
(* at the statement a step executes.  The mode alone does not carry that   *)
(* argument, since a command that ends writes its new mode whatever the    *)
(* old one is: DevFits adds that the command that runs is one the mode     *)
(* admits, which every failure has to respect by ending it.                *)
(***************************************************************************)
EXTENDS Firmware, TLAPS

-----------------------------------------------------------------------------
(* The prediction of the cache.                                             *)

\* The test's table and the tag array agree way by way.
TablesAgree ==
  \A s \in Sets :
    /\ tag_table_counter[s] = fifoSta[s]
    /\ \A w \in Ways : /\ valid_table[s][w] = 1 => vtag[s][w] = tag_table[s][w]
                       /\ valid_table[s][w] = 0 => vtag[s][w] = NoTag

\* No set holds a tag in two ways.
NoTagTwice ==
  \A s \in Sets : \A v, w \in Ways :
    vtag[s][v] = vtag[s][w] /\ vtag[s][v] # NoTag => v = w

\* Disabled counters have just been reset.
DisabledIsClear == ~cntrEn => hitCntr = 0 /\ missCntr = 0

RefIInv == /\ RefTypeOK /\ TablesAgree /\ NoTagTwice
           /\ CountersAgree /\ DisabledIsClear

-----------------------------------------------------------------------------
\* Every block has a set.
LEMMA SetOfType == \A b \in Blocks : SetOf(b) \in Sets
  BY BlocksAssumption, GeometryAssumption DEF SetOf, Sets

\* The two-bit replacement pointer and the test's counter advance alike.
LEMMA PointerStep == \A c \in Ways : (c + 1) % NWays = NextCounter(c) /\ NextCounter(c) \in Ways
  BY GeometryAssumption DEF Ways, NextCounter

\* Counting in two goes is counting in one, and stays within the naturals.
LEMMA CountAdds ==
  \A m, n \in Nat : /\ Count(m, n) \in Nat
                    /\ Count(AtMost(CntrMax, m), n) = AtMost(CntrMax, m + n)
  BY CntrAssumption DEF Count, AtMost

\* What a tag array that agrees with the tables answers.
LEMMA PredictionFollows ==
  ASSUME RefTypeOK, TablesAgree, NoTagTwice PROVE PredictionIsRight
<1> SUFFICES ASSUME NEW b \in Blocks PROVE block_in_tag_table(b) <=> CacheHit(b)
  BY DEF PredictionIsRight
<1> DEFINE s == SetOf(b)
<1>1. s \in Sets /\ b # NoTag
  BY SetOfType, BlocksAssumption DEF NoTag
<1>2. ASSUME block_in_tag_table(b) PROVE CacheHit(b)
  <2>1. PICK w \in Ways : valid_table[s][w] = 1 /\ tag_table[s][w] = b
    BY <1>2 DEF block_in_tag_table
  <2>2. vtag[s][w] = b
    BY <1>1, <2>1 DEF TablesAgree
  <2>3. \A v \in Ways : vtag[s][v] = b => v = w
    BY <1>1, <2>2 DEF NoTagTwice
  <2> QED BY <2>2, <2>3 DEF CacheHit
<1>3. ASSUME CacheHit(b) PROVE block_in_tag_table(b)
  <2>1. PICK w \in Ways : vtag[s][w] = b
    BY <1>3 DEF CacheHit
  <2>2. valid_table[s][w] \in {0, 1}
    BY <1>1 DEF RefTypeOK
  <2>3. valid_table[s][w] = 1 /\ tag_table[s][w] = b
    BY <1>1, <2>1, <2>2 DEF TablesAgree
  <2> QED BY <2>3 DEF block_in_tag_table
<1> QED BY <1>2, <1>3

\* A read of n words keeps tables and tag array in step: both hit and nothing
\* moves, or both miss and the same way takes the block.
LEMMA ReadKeepsTables ==
  ASSUME RefIInv, NEW b \in Blocks, NEW n \in Nat \ {0},
         check_hit(b), CountExpected(b, n), DeviceRead(b, n)
  PROVE  RefIInv'
<1> DEFINE s == SetOf(b)
           c == fifoSta[s]
<1>1. /\ s \in Sets /\ b # NoTag /\ c \in Ways /\ tag_table_counter[s] = c
      /\ (c + 1) % NWays = NextCounter(c) /\ NextCounter(c) \in Ways
  <2>1. s \in Sets /\ b # NoTag
    BY SetOfType, BlocksAssumption DEF NoTag
  <2>2. c \in Ways /\ tag_table_counter[s] = c
    BY <2>1 DEF RefIInv, RefTypeOK, TablesAgree
  <2> QED BY <2>1, <2>2, PointerStep
<1>2. block_in_tag_table(b) <=> CacheHit(b)
  BY PredictionFollows DEF RefIInv, PredictionIsRight
<1>3. CountersAgree' /\ DisabledIsClear' /\ cntrEn' = cntrEn /\ cntrEn \in BOOLEAN
      /\ hitCntr' \in Nat /\ missCntr' \in Nat /\ exp_hit' \in Nat /\ exp_miss' \in Nat
  <2>1. /\ cntrEn' = cntrEn /\ cntrEn \in BOOLEAN
        /\ hitCntr \in Nat /\ missCntr \in Nat /\ exp_hit \in Nat /\ exp_miss \in Nat
    BY DEF RefIInv, RefTypeOK, DeviceRead
  <2>2. n - 1 \in Nat /\ 1 \in Nat
    OBVIOUS
  <2>3. CASE CacheHit(b)
    <3>1. /\ exp_hit' = exp_hit + n /\ exp_miss' = exp_miss
          /\ hitCntr' = IF cntrEn THEN Count(hitCntr, n) ELSE hitCntr
          /\ missCntr' = missCntr
      BY <1>2, <2>3 DEF CountExpected, DeviceRead, CountRead
    <3>2. cntrEn => hitCntr' = AtMost(CntrMax, exp_hit')
      BY <2>1, <3>1, CountAdds DEF RefIInv, CountersAgree
    <3>3. CountersAgree'
      BY <2>1, <3>1, <3>2 DEF RefIInv, CountersAgree
    <3>4. hitCntr' \in Nat /\ missCntr' \in Nat /\ exp_hit' \in Nat /\ exp_miss' \in Nat
      BY <2>1, <3>1, CountAdds
    <3>5. DisabledIsClear'
      BY <2>1, <3>1 DEF RefIInv, DisabledIsClear
    <3> QED BY <2>1, <3>3, <3>4, <3>5
  <2>4. CASE ~CacheHit(b)
    <3>1. /\ exp_hit' = exp_hit + (n - 1) /\ exp_miss' = exp_miss + 1
          /\ hitCntr' = IF cntrEn THEN Count(hitCntr, n - 1) ELSE hitCntr
          /\ missCntr' = IF cntrEn THEN Count(missCntr, 1) ELSE missCntr
      BY <1>2, <2>1, <2>4 DEF CountExpected, DeviceRead, CountRead
    <3>2. cntrEn => hitCntr' = AtMost(CntrMax, exp_hit') /\ missCntr' = AtMost(CntrMax, exp_miss')
      BY <2>1, <2>2, <3>1, CountAdds DEF RefIInv, CountersAgree
    <3>3. CountersAgree'
      BY <2>1, <3>1, <3>2 DEF RefIInv, CountersAgree
    <3>4. hitCntr' \in Nat /\ missCntr' \in Nat /\ exp_hit' \in Nat /\ exp_miss' \in Nat
      BY <2>1, <2>2, <3>1, CountAdds
    <3>5. DisabledIsClear'
      BY <2>1, <3>1 DEF RefIInv, DisabledIsClear
    <3> QED BY <2>1, <3>3, <3>4, <3>5
  <2> QED BY <2>3, <2>4
<1>4. CASE CacheHit(b)
  <2>1. UNCHANGED <<cacheVars, tableVars>>
    BY <1>2, <1>4 DEF check_hit, DeviceRead
  <2> QED BY <1>3, <2>1 DEF RefIInv, RefTypeOK, TablesAgree, NoTagTwice,
                           cacheVars, tableVars
<1>5. CASE ~CacheHit(b)
  <2>1. /\ vtag' = [vtag EXCEPT ![s][c] = b]
        /\ fifoSta' = [fifoSta EXCEPT ![s] = NextCounter(c)]
        /\ tag_table' = [tag_table EXCEPT ![s][c] = b]
        /\ valid_table' = [valid_table EXCEPT ![s][c] = 1]
        /\ tag_table_counter' = [tag_table_counter EXCEPT ![s] = NextCounter(c)]
    BY <1>1, <1>2, <1>5 DEF check_hit, DeviceRead, Fill
  <2>2. RefTypeOK'
    BY <1>1, <1>3, <2>1 DEF RefIInv, RefTypeOK
  <2>3. TablesAgree'
    BY <1>1, <2>1 DEF RefIInv, RefTypeOK, TablesAgree
  <2>4. \A w \in Ways : vtag[s][w] # b
    <3>1. SUFFICES ASSUME NEW w \in Ways, vtag[s][w] = b PROVE FALSE
      OBVIOUS
    <3>2. \A v \in Ways : vtag[s][v] = b => v = w
      BY <1>1, <3>1 DEF RefIInv, NoTagTwice
    <3> QED BY <1>5, <3>1, <3>2 DEF CacheHit
  <2>5. NoTagTwice'
    BY <1>1, <2>1, <2>4 DEF RefIInv, RefTypeOK, NoTagTwice
  <2> QED BY <1>3, <2>2, <2>3, <2>5 DEF RefIInv
<1> QED BY <1>4, <1>5

\* The tables start as the reset leaves the tag array.
LEMMA RefInitInv == RefInit => RefIInv
<1> SUFFICES ASSUME RefInit PROVE RefIInv
  OBVIOUS
<1>1. 0 \in Ways /\ 0 \in Blocks
  BY GeometryAssumption, BlocksAssumption DEF Ways
<1>2. RefTypeOK
  BY <1>1 DEF RefInit, RefTypeOK
<1>3. TablesAgree /\ NoTagTwice
  BY DEF RefInit, TablesAgree, NoTagTwice
<1>4. CountersAgree /\ DisabledIsClear
  BY DEF RefInit, CountersAgree, DisabledIsClear
<1> QED BY <1>2, <1>3, <1>4 DEF RefIInv

\* Every step of a test keeps prediction and device in step.
LEMMA RefStep == RefIInv /\ [RefNext]_refVars => RefIInv'
<1> SUFFICES ASSUME RefIInv, [RefNext]_refVars PROVE RefIInv'
  OBVIOUS
<1>1. ASSUME NEW b \in Blocks, AccessWord(b) PROVE RefIInv'
  BY <1>1, ReadKeepsTables DEF AccessWord
<1>2. ASSUME NEW b \in Blocks, AccessBlock(b) PROVE RefIInv'
  BY <1>2, ReadKeepsTables, GeometryAssumption DEF AccessBlock
<1>3. CASE EnableCounters
  <2>1. AtMost(CntrMax, 0) = 0
    BY CntrAssumption DEF AtMost
  <2>2. CountersAgree' /\ DisabledIsClear'
    <3>1. hitCntr = 0 /\ missCntr = 0
      BY <1>3 DEF EnableCounters, RefIInv, DisabledIsClear
    <3> QED BY <1>3, <2>1, <3>1 DEF EnableCounters, CountersAgree, DisabledIsClear, Count
  <2> QED BY <1>3, <2>2 DEF EnableCounters, RefIInv, RefTypeOK, TablesAgree,
                           NoTagTwice, cacheVars, tableVars
<1>4. CASE PowerGate
  BY <1>4 DEF PowerGate, GateCache, GateCounters, RefIInv, RefTypeOK, TablesAgree,
              NoTagTwice, CountersAgree, DisabledIsClear, cacheVars, tableVars, expVars
<1>5. CASE Restart
  <2>1. 0 \in Ways
    BY GeometryAssumption DEF Ways
  <2>2. RefTypeOK'
    BY <1>5, <2>1 DEF Restart, GateCounters, RefIInv, RefTypeOK, expVars
  <2>3. TablesAgree' /\ NoTagTwice'
    BY <1>5 DEF Restart, TablesAgree, NoTagTwice
  <2>4. CountersAgree' /\ DisabledIsClear'
    BY <1>5 DEF Restart, GateCounters, CountersAgree, DisabledIsClear
  <2> QED BY <2>2, <2>3, <2>4 DEF RefIInv
<1>6. CASE UNCHANGED refVars
  BY <1>6 DEF refVars, RefIInv, RefTypeOK, TablesAgree, NoTagTwice,
              CountersAgree, DisabledIsClear, Count
<1> QED BY <1>1, <1>2, <1>3, <1>4, <1>5, <1>6 DEF RefNext

\* The inductive invariant holds throughout every test.
THEOREM RefInvariant == RefSpec => []RefIInv
  BY RefInitInv, RefStep, PTL DEF RefSpec

\* Device and prediction keep their types, for every geometry of the cache.
THEOREM RefTypesHold == RefSpec => []RefTypeOK
<1>1. RefIInv => RefTypeOK
  BY DEF RefIInv
<1> QED BY <1>1, RefInvariant, PTL

\* The hit or miss a directed test predicts is the one the tag array answers,
\* after any reads, resets and power gatings.
THEOREM PredictionHolds == RefSpec => []PredictionIsRight
<1>1. RefIInv => PredictionIsRight
  BY PredictionFollows DEF RefIInv
<1> QED BY <1>1, RefInvariant, PTL

\* check_perf_counters never fails on the device, for any counter width.
THEOREM CountersHold == RefSpec => []CountersAgree
<1>1. RefIInv => CountersAgree
  BY DEF RefIInv
<1> QED BY <1>1, RefInvariant, PTL

-----------------------------------------------------------------------------
(* The life cycle of the device.                                            *)

\* The operations of the life cycle.
LcOps == {"SET_INIT", "SET_CACHE_ACTIVE", "SINC_RESET", "SINC_REINIT", "DIS_RESET", "DIS_REINIT"}

\* d is a device: a record with the fields of DevReset.
IsDevice(d) == d = [f \in DOMAIN DevReset |-> d[f]]

\* A device in a mode, with a command its mode admits.
DevFits(d) ==
  /\ IsDevice(d)
  /\ d.mode \in Modes /\ d.dis \subseteq {"SINC_RESET", "SINC_REINIT"}
  /\ d.run \in LcOps => d.run \in ModeCommands[d.mode]

\* The test counts its boots.
BootFits == fw = [f \in DOMAIN FwReset |-> fw[f]] /\ fw.boot \in Nat

\* The inductive invariant.
FwIInv == DevFits(dev) /\ BootFits

\* How a step of the device may change mode, command and disable bits: not at
\* all, by ending a command, by a failure, by a start or by the effect of an
\* operation.
Same(d)   == IsDevice(d) /\ d.mode = dev.mode /\ d.run = dev.run /\ d.dis = dev.dis
Ended(d)  == IsDevice(d) /\ d.mode = dev.mode /\ d.run = "NONE" /\ d.dis = dev.dis
Broken(d) == IsDevice(d) /\ d.mode = "CACHE_FAILED" /\ d.run = "NONE" /\ d.dis = dev.dis
Began(d)  == /\ IsDevice(d) /\ d.mode = dev.mode /\ d.dis = dev.dis
             /\ dev.run = "NONE" /\ d.run \in ModeCommands[dev.mode] \ dev.dis
Finished(d) ==
  /\ IsDevice(d) /\ dev.run \in LcOps /\ d.run = "NONE"
  /\ d.mode = LC!LeadsTo(dev.run, dev.mode)
  /\ d.dis = dev.dis \cup (CASE dev.run = "DIS_RESET" -> {"SINC_RESET"}
                             [] dev.run = "DIS_REINIT" -> {"SINC_REINIT"}
                             [] OTHER -> {})
Moved(d) == Same(d) \/ Ended(d) \/ Broken(d) \/ Began(d) \/ Finished(d)

\* The fields the life cycle is about are fields of the device.
LEMMA LifecycleFields == {"mode", "run", "dis"} \subseteq DOMAIN DevReset
  BY DEF DevReset

\* The device after a reset.
LEMMA ResetFits == DevFits(DevReset)
<1>1. DevReset.mode = "DISABLED" /\ DevReset.dis = {} /\ DevReset.run = "NONE"
  BY DEF DevReset
<1>2. IsDevice(DevReset)
  BY DEF IsDevice, DevReset
<1>3. DevReset.mode \in Modes
  BY <1>1 DEF Modes, ModeCommands
<1> QED BY <1>1, <1>2, <1>3 DEF DevFits, LcOps

\* A command that ends well writes no field of the life cycle but its own end.
LEMMA DoneKeeps ==
  ASSUME NEW d, IsDevice(d)
  PROVE  /\ IsDevice(Done(d)) /\ Done(d).run = "NONE"
         /\ Done(d).mode = d.mode /\ Done(d).dis = d.dis
  BY DEF Done, IsDevice, DevReset

\* A command that ends with a reported error keeps the mode.
LEMMA EndNonSevere == ASSUME NEW d, NEW e, Same(d) PROVE Ended(NonSevere(d, e))
  BY DEF Same, Ended, NonSevere, IsDevice, DevReset

\* So does one that ends well, unless it asks for a mode.
LEMMA EndDone == ASSUME NEW d, Same(d) PROVE Ended(Done(d))
  BY DEF Same, Ended, Done, IsDevice, DevReset

\* A severe error fails the cache and ends what runs.
LEMMA EndSevere == ASSUME NEW d, NEW e, Same(d) PROVE Broken(Severe(d, e))
<1>1. Ended(NonSevere(d, e))
  BY EndNonSevere
<1> QED BY <1>1 DEF Ended, Broken, Severe, IsDevice, DevReset

\* However a command ends that asks for no mode.
LEMMA EndOfCmd == ASSUME NEW d, NEW e, Same(d) PROVE Ended(EndCmd(d, e)) \/ Broken(EndCmd(d, e))
  BY EndNonSevere, EndDone, EndSevere DEF EndCmd

\* A field that no property of the life cycle reads is written.
LEMMA Bystander ==
  ASSUME NEW d, Same(d), NEW f \in DOMAIN DevReset \ {"mode", "run", "dis"}, NEW v
  PROVE  Same([d EXCEPT ![f] = v])
  BY DEF Same, IsDevice, DevReset

\* A write of the command register starts a command its mode admits and firmware
\* has not disabled, ends AES test mode, or is refused.
LEMMA Starting == ASSUME FwIInv, NEW c PROVE Moved(WriteCmd(c))
<1>0. Same(dev)
  BY DEF Same, FwIInv, DevFits
<1>1. CASE ~CmdAccepted
  BY <1>0, <1>1 DEF WriteCmd, Moved
<1>2. CASE CmdAccepted /\ dev.run = "AES_TEST"
  <2>1. Same([dev EXCEPT !.aes.ph = "OFF"])
    BY <1>0 DEF Same, IsDevice, DevReset
  <2> QED BY <1>2, <2>1, EndNonSevere, EndDone DEF WriteCmd, StartCmd, Moved
<1>3. CASE CmdAccepted /\ dev.run # "AES_TEST" /\ Refused(c)
  BY <1>0, <1>3, EndNonSevere DEF WriteCmd, StartCmd, Moved
<1>4. CASE CmdAccepted /\ dev.run # "AES_TEST" /\ ~Refused(c)
  <2>1. WriteCmd(c) = [dev EXCEPT !.run = c, !.aes.ph = IF c = "AES_TEST" THEN "CFG" ELSE @]
    BY <1>4 DEF WriteCmd, StartCmd
  <2>2. dev.run = "NONE" /\ c \in ModeCommands[dev.mode] \ dev.dis
    BY <1>4 DEF CmdAccepted, Refused
  <2>3. Began(WriteCmd(c))
    BY <1>0, <2>1, <2>2 DEF Same, Began, IsDevice, DevReset
  <2> QED BY <2>3 DEF Moved
<1> QED BY <1>1, <1>2, <1>3, <1>4

\* The end of a command: an operation of the life cycle leads where Lifecycle says,
\* because it still runs in the mode it was started in.
LEMMA Finishing == ASSUME FwIInv, FinishCmd PROVE Moved(dev')
<1> USE DEF LC!LeadsTo, LC!Failure, Finished, LcOps, IsDevice, DevReset, FwIInv, DevFits, Done
<1>0. Same(dev)
  BY DEF Same
<1>1. CASE dev.run = "SET_INIT" /\ dev' = FinishInit
  <2>1. dev.mode = "DISABLED"
    BY <1>1 DEF Modes, ModeCommands, Forever
  <2>2. CASE InitErr = "OK"
    <3> HIDE DEF Done
    <3> DEFINE d == [dev EXCEPT !.mode = "INITIALIZATION", !.seeded = TRUE,
                                !.key = env.ksu[dev.slot]]
    <3>0. dev' = EndCmd(d, "OK")
      BY <1>1, <2>2 DEF FinishInit
    <3>1. dev' = Done(d)
      <4> HIDE DEF d
      <4> QED BY <3>0 DEF EndCmd, SevereSts
    <3>2. IsDevice(d) /\ d.mode = "INITIALIZATION" /\ d.dis = dev.dis
      OBVIOUS
    <3>3. IsDevice(dev') /\ dev'.run = "NONE" /\ dev'.mode = "INITIALIZATION"
          /\ dev'.dis = dev.dis
      <4> HIDE DEF d
      <4> QED BY <3>1, <3>2, DoneKeeps
    <3> QED BY <1>1, <2>1, <3>3 DEF Moved
  <2>3. CASE InitErr # "OK"
    BY <1>0, <1>1, <2>3, EndOfCmd DEF FinishInit, Moved
  <2> QED BY <2>2, <2>3
<1>2. CASE dev.run = "SET_CACHE_ACTIVE" /\ dev' = FinishActive
  <2>1. dev.mode = "INITIALIZATION"
    BY <1>2 DEF Modes, ModeCommands, Forever
  <2> QED BY <1>2, <2>1 DEF FinishActive, Moved
<1>3. CASE dev.run = "ENCR_BLOCK" /\ dev' = FinishEncr
  <2>1. Same([dev EXCEPT !.seeded = ~SeedFails])
    BY <1>0 DEF Same
  <2> QED BY <1>3, <2>1, EndOfCmd DEF FinishEncr, Moved
<1>4. CASE dev.run = "SINC_RESET" /\ dev' = FinishReset
  BY <1>4 DEF FinishReset, Moved
<1>5. CASE dev.run = "SINC_REINIT" /\ dev' = FinishReinit
  <2>1. dev.mode = "CACHE_ACTIVE"
    BY <1>5 DEF Modes, ModeCommands, Forever
  <2> QED BY <1>5, <2>1 DEF FinishReinit, Moved
<1>6. CASE dev.run = "DIS_RESET" /\ dev' = FinishDisable("SINC_RESET")
  BY <1>6 DEF FinishDisable, Moved
<1>7. CASE dev.run = "DIS_REINIT" /\ dev' = FinishDisable("SINC_REINIT")
  BY <1>7 DEF FinishDisable, Moved
<1> QED BY <1>1, <1>2, <1>3, <1>4, <1>5, <1>6, <1>7 DEF FinishCmd

\* A read of the cached memory fails the cache or leaves the life cycle alone.
LEMMA Reading == ASSUME FwIInv, NEW b, NEW n, ReadMem(b, n) PROVE Moved(dev')
<1>0. Same(dev)
  BY DEF Same, FwIInv, DevFits
<1> DEFINE k == ReadKind(b)
           s == SetOf(b)
<1>1. \/ dev' = [dev EXCEPT !.eraseErr = TRUE]
      \/ dev' = [dev EXCEPT !.irq.bus = @ + 1]
      \/ dev' = [dev EXCEPT !.irq.mpu = @ + 1]
      \/ dev' = [dev EXCEPT !.ram[s][fifoSta[s]] = ext[b].val, !.seeded = TRUE]
      \/ dev' = Severe(dev, FetchErr(b))
      \/ dev' = dev
  BY DEF ReadMem
<1>2. CASE dev' = Severe(dev, FetchErr(b))
  BY <1>0, <1>2, EndSevere DEF Moved
<1>3. CASE dev' # Severe(dev, FetchErr(b))
  <2>1. Same(dev')
    BY <1>0, <1>1, <1>3 DEF Same, IsDevice, DevReset
  <2> QED BY <2>1 DEF Moved
<1> QED BY <1>2, <1>3

\* A write to the cached memory leaves the life cycle alone, refused or not.
LEMMA Writing == ASSUME FwIInv, NEW b, NEW v PROVE Same(WriteMem(b, v))
<1>1. \/ WriteMem(b, v) = [dev EXCEPT !.irq.mpu = @ + 1]
      \/ WriteMem(b, v) = [dev EXCEPT !.irq.bus = @ + 1]
      \/ WriteMem(b, v) = [dev EXCEPT !.ram[SetOf(b)][WayOf(b)] = v]
  BY DEF WriteMem
<1> QED BY <1>1 DEF Same, IsDevice, DevReset, FwIInv, DevFits

\* AES test mode can fail the cache (its key cannot be fetched) and nothing else.
LEMMA Testing ==
  ASSUME FwIInv, NEW gcm, NEW reuse, NEW last
  PROVE  Moved(AesConfig(gcm, reuse)) /\ Same(AesData(last)) /\ Same(AesAck)
<1>0. Same(dev) /\ Same([dev EXCEPT !.aes.ph = "OFF"])
  BY DEF Same, FwIInv, DevFits, IsDevice, DevReset
<1>1. Moved(AesConfig(gcm, reuse))
  <2>1. \/ AesConfig(gcm, reuse) = dev
        \/ AesConfig(gcm, reuse) = EndCmd([dev EXCEPT !.aes.ph = "OFF"], "KEY_FETCH_ERR")
        \/ AesConfig(gcm, reuse) =
             [dev EXCEPT !.aes = [ph |-> "DIN", gcm |-> gcm, last |-> FALSE],
                         !.key = IF reuse THEN @ ELSE env.ksu[dev.slot]]
    BY DEF AesConfig
  <2>2. Same([dev EXCEPT !.aes = [ph |-> "DIN", gcm |-> gcm, last |-> FALSE],
                         !.key = IF reuse THEN @ ELSE env.ksu[dev.slot]])
    BY <1>0 DEF Same, IsDevice, DevReset
  <2> QED BY <1>0, <2>1, <2>2, EndOfCmd DEF Moved
<1>2. Same(AesData(last))
  BY <1>0 DEF AesData, Same, IsDevice, DevReset
<1>3. Same(AesAck)
  <2>1. \E p : AesAck = [dev EXCEPT !.aes.ph = p]
    BY DEF AesAck
  <2> QED BY <1>0, <2>1 DEF Same, IsDevice, DevReset
<1> QED BY <1>1, <1>2, <1>3

\* Power gating ends what runs; no retained field changes without a defect.
LEMMA Gating ==
  ASSUME FwIInv
  PROVE  DevFits(GatedDev) /\ (defect = "none" => Ended(GatedDev))
<1>0. IsDevice(dev) /\ DOMAIN dev = DOMAIN DevReset
  BY DEF FwIInv, DevFits, IsDevice
<1>1. IsDevice(GatedDev)
  BY <1>0 DEF GatedDev, IsDevice
<1>2. /\ GatedDev.run = "NONE"
      /\ GatedDev.mode \in {dev.mode, "DISABLED"} /\ GatedDev.dis \in {dev.dis, {}}
  <2>1. Gated("run") /\ DevReset.run = "NONE" /\ DevReset.mode = "DISABLED" /\ DevReset.dis = {}
    BY DEF Gated, DevReset
  <2> QED BY <1>0, <2>1, LifecycleFields DEF GatedDev
<1>3. defect = "none" => GatedDev.mode = dev.mode /\ GatedDev.dis = dev.dis
  BY <1>0, LifecycleFields DEF GatedDev, Gated, LostBy
<1>4. "DISABLED" \in Modes
  BY DEF Modes, ModeCommands
<1> QED BY <1>1, <1>2, <1>3, <1>4 DEF DevFits, Ended, FwIInv, LcOps

\* No register a program writes is a field of the life cycle.
LEMMA RegisterWrites ==
  ASSUME FwIInv, NEW r, NEW v PROVE Same(WriteReg(r, v))
<1>0. Same(dev)
  BY DEF Same, FwIInv, DevFits
<1>1. CASE Idle /\ RegWritable(r)
  BY <1>0, <1>1, Bystander DEF WriteReg, RegWritable, Registers, DevReset
<1>2. CASE ~(Idle /\ RegWritable(r))
  BY <1>0, <1>2 DEF WriteReg
<1> QED BY <1>1, <1>2

\* What every statement of a test but a power gating does to the device.
LEMMA StatementMoves == ASSUME FwIInv, FwStep, ~PowerGateHsp PROVE Moved(dev')
<1> USE DEF DevOnly, EnvOnly
<1>0. Same(dev)
  BY DEF Same, FwIInv, DevFits
<1>a. Same(ReadStatus(dev))
  BY <1>0 DEF Same, IsDevice, DevReset, ReadStatus
<1>1. CASE WriteRegister
  BY <1>1, RegisterWrites DEF WriteRegister, Moved
<1>2. CASE IssueCommand
  BY <1>2, Starting DEF IssueCommand
<1>3. CASE AwaitResult \/ CheckState \/ CheckBits \/ record_all_sinc_regs \/ check_all_sinc_regs
  BY <1>a, <1>3 DEF AwaitResult, CheckState, CheckBits, record_all_sinc_regs,
                    check_all_sinc_regs, Moved
<1>4. CASE write_read_all_regs
  <2>1. dev' = [dev EXCEPT !.num = Swept("num"), !.cnt = Swept("cnt"), !.src = Swept("src"),
                           !.slot = Swept("slot"), !.nonce = Swept("nonce"),
                           !.base = Swept("base")]
    BY <1>4 DEF write_read_all_regs
  <2>2. Same(dev')
    BY <1>0, <2>1 DEF Same, IsDevice, DevReset
  <2> QED BY <2>2 DEF Moved
<1>5. CASE modify_mpu_pages \/ check_mpu_pages \/ StartErase \/ CheckEraseErr
  <2>1. \E f \in {"mpu", "erase", "eraseErr"} : \E v : dev' = [dev EXCEPT ![f] = v]
    BY <1>5 DEF modify_mpu_pages, check_mpu_pages, StartErase, CheckEraseErr
  <2>2. PICK f \in {"mpu", "erase", "eraseErr"} : \E v : dev' = [dev EXCEPT ![f] = v]
    BY <2>1
  <2>3. f \in DOMAIN DevReset \ {"mode", "run", "dis"}
    BY DEF DevReset
  <2>4. PICK v : dev' = [dev EXCEPT ![f] = v]
    BY <2>2
  <2> QED BY <1>0, <2>3, <2>4, Bystander DEF Moved
<1>6. CASE PokeMem
  BY <1>6, Writing DEF PokeMem, Moved
<1>7. CASE PeekMem \/ TouchMem \/ AccessWords \/ AccessKnown \/ ReadRandom
  BY <1>7, Reading DEF PeekMem, TouchMem, AccessWords, AccessKnown, ReadRandom, ReadCounted
<1>8. CASE DriveAes
  BY <1>0, <1>8, Testing DEF DriveAes, Moved
<1>9. CASE \/ CheckNonceCleared \/ CheckIrq \/ FillSource \/ CorruptExtTag \/ CheckCipher
           \/ EnablePerfCounters \/ check_perf_counters \/ AwaitErase \/ SetEnv \/ ManageKey
           \/ Pause \/ BailOut \/ hw_done \/ hsp_reset_rpc
  <2>1. dev' = dev
    BY <1>9 DEF CheckNonceCleared, CheckIrq, FillSource, CorruptExtTag, CheckCipher,
         EnablePerfCounters, check_perf_counters, AwaitErase, SetEnv, ManageKey, Pause,
         BailOut, hw_done, hsp_reset_rpc
  <2> QED BY <1>0, <2>1 DEF Moved
<1> QED BY <1>1, <1>2, <1>3, <1>4, <1>5, <1>6, <1>7, <1>8, <1>9 DEF FwStep

\* What the device does on its own.
LEMMA DeviceMoves == ASSUME FwIInv, DeviceStep PROVE Moved(dev')
<1>0. Same(dev)
  BY DEF Same, FwIInv, DevFits
<1>1. CASE FinishCmd
  BY <1>1, Finishing
<1>2. CASE HwFault
  BY <1>0, <1>2, EndSevere DEF HwFault, Moved
<1>3. CASE EraseEnd
  <2>1. Same(dev')
    BY <1>0, <1>3 DEF EraseEnd, Same, IsDevice, DevReset
  <2> QED BY <2>1 DEF Moved
<1> QED BY <1>1, <1>2, <1>3 DEF DeviceStep

\* A move leaves a device in a mode that admits its command.
LEMMA MovedFits == ASSUME FwIInv, Moved(dev') PROVE DevFits(dev')
<1> USE DEF FwIInv, DevFits, Modes, ModeCommands, Forever, LcOps
<1>1. CASE Same(dev')
  BY <1>1 DEF Same
<1>2. CASE Ended(dev')
  BY <1>2 DEF Ended
<1>3. CASE Broken(dev')
  BY <1>3 DEF Broken
<1>4. CASE Began(dev')
  BY <1>4 DEF Began
<1>5. CASE Finished(dev')
  <2>1. dev'.mode \in Modes
    BY <1>5 DEF Finished, LC!LeadsTo
  <2>2. dev'.dis \subseteq {"SINC_RESET", "SINC_REINIT"}
    BY <1>5 DEF Finished
  <2> QED BY <1>5, <2>1, <2>2 DEF Finished
<1> QED BY <1>1, <1>2, <1>3, <1>4, <1>5 DEF Moved

\* A move of the device is a step of the life cycle.
LEMMA MovedIsLifecycle ==
  ASSUME FwIInv, Moved(dev') PROVE LC!LcNext \/ UNCHANGED LC!lcVars
<1> USE DEF FwIInv, DevFits, LcOps, LC!Becomes, LC!Failure
<1>1. CASE Same(dev')
  BY <1>1 DEF Same, LC!lcVars
<1>2. CASE Ended(dev')
  <2>1. CASE dev.run \in LcOps
    BY <1>2, <2>1 DEF Ended, LC!LcNext, LC!Abort
  <2>2. CASE dev.run \notin LcOps
    BY <1>2, <2>2 DEF Ended, LC!lcVars
  <2> QED BY <2>1, <2>2
<1>3. CASE Broken(dev')
  <2>1. CASE dev.run \in LcOps
    BY <1>3, <2>1 DEF Broken, LC!LcNext, LC!Abort
  <2>2. CASE dev.run \notin LcOps
    BY <1>3, <2>2 DEF Broken, LC!LcNext, LC!Fail
  <2> QED BY <2>1, <2>2
<1>4. CASE Began(dev')
  <2>1. CASE dev'.run \in LcOps
    <3>1. dev.mode \in LC!AdmittedIn(dev'.run) \cup {"CACHE_FAILED"}
      BY <1>4, <2>1 DEF Began, LC!AdmittedIn, Modes, ModeCommands, Forever
    <3>2. LC!Start(dev'.run)
      BY <1>4, <2>1, <3>1 DEF Began, LC!Start
    <3> QED BY <2>1, <3>2 DEF LC!LcNext, LC!Ops
  <2>2. CASE dev'.run \notin LcOps
    BY <1>4, <2>2 DEF Began, LC!lcVars
  <2> QED BY <2>1, <2>2
<1>5. CASE Finished(dev')
  BY <1>5 DEF Finished, LC!LcNext, LC!Finish
<1> QED BY <1>1, <1>2, <1>3, <1>4, <1>5 DEF Moved

\* No statement starts a boot.
LEMMA BootKept == ASSUME BootFits, FwStep \/ DeviceStep PROVE BootFits' /\ fw'.boot = fw.boot
<1> USE DEF BootFits, FwReset
<1>1. ASSUME NEW ok, Judge(ok) PROVE BootFits' /\ fw'.boot = fw.boot
  BY <1>1 DEF Judge, Judged
<1>2. ASSUME NEW ok, NEW same, NEW b, NEW v, JudgeRead(same, ok, b, v)
      PROVE  BootFits' /\ fw'.boot = fw.boot
  BY <1>2 DEF JudgeRead, Judged
<1>3. ASSUME Advance PROVE BootFits' /\ fw'.boot = fw.boot
  BY <1>3 DEF Advance
<1>4. CASE \/ modify_mpu_pages \/ FillSource \/ PokeMem \/ TouchMem \/ CorruptExtTag
           \/ EnablePerfCounters \/ StartErase \/ AwaitErase \/ SetEnv \/ ManageKey
           \/ Pause \/ PowerGateHsp
  BY <1>3, <1>4 DEF modify_mpu_pages, FillSource, PokeMem, TouchMem, CorruptExtTag,
       EnablePerfCounters, StartErase, AwaitErase, SetEnv, ManageKey, Pause, PowerGateHsp
<1>5. CASE \/ AwaitResult \/ CheckState \/ CheckBits \/ CheckNonceCleared \/ CheckIrq
           \/ write_read_all_regs \/ check_all_sinc_regs \/ check_mpu_pages \/ CheckCipher
           \/ check_perf_counters \/ CheckEraseErr
  BY <1>1, <1>5 DEF AwaitResult, CheckState, CheckBits, CheckNonceCleared, CheckIrq,
       write_read_all_regs, check_all_sinc_regs, check_mpu_pages, CheckCipher,
       check_perf_counters, CheckEraseErr
<1>6. CASE PeekMem \/ AccessWords \/ AccessKnown \/ ReadRandom
  BY <1>2, <1>6 DEF PeekMem, AccessWords, AccessKnown, ReadRandom, ReadCounted
<1>7. CASE WriteRegister \/ IssueCommand \/ record_all_sinc_regs \/ BailOut \/ hw_done
           \/ hsp_reset_rpc
  BY <1>7 DEF WriteRegister, IssueCommand, record_all_sinc_regs, BailOut, hw_done,
       hsp_reset_rpc
<1>8. CASE DriveAes
  BY <1>1, <1>3, <1>8 DEF DriveAes
<1>9. CASE DeviceStep
  BY <1>9 DEF DeviceStep
<1> QED BY <1>4, <1>5, <1>6, <1>7, <1>8, <1>9 DEF FwStep

\* The device starts reset, in the first boot.
LEMMA FwStart == FwInit => FwIInv
<1> SUFFICES ASSUME FwInit PROVE FwIInv
  OBVIOUS
<1>1. DevFits(dev)
  BY ResetFits DEF FwInit, DevInit
<1>2. BootFits
  BY DEF FwInit, BootFits, FwReset
<1> QED BY <1>1, <1>2 DEF FwIInv

\* Every step of a test, of the device and every reset keeps the invariant.
LEMMA FwStepKeeps == FwIInv /\ [FwNext]_fwVars => FwIInv'
<1> SUFFICES ASSUME FwIInv, [FwNext]_fwVars PROVE FwIInv'
  OBVIOUS
<1>1. CASE FwStep /\ PowerGateHsp
  <2>1. DevFits(dev')
    BY <1>1, Gating DEF PowerGateHsp, GateDevice
  <2> QED BY <1>1, <2>1, BootKept DEF FwIInv
<1>2. CASE FwStep /\ ~PowerGateHsp
  BY <1>2, StatementMoves, MovedFits, BootKept DEF FwIInv
<1>3. CASE DeviceStep
  BY <1>3, DeviceMoves, MovedFits, BootKept DEF FwIInv
<1>4. CASE HspResets
  <2>1. DevFits(dev')
    BY <1>4, ResetFits DEF HspResets, ResetDevice
  <2>2. BootFits'
    <3>1. fw' = [FwReset EXCEPT !.boot = fw.boot + 1, !.dropped = fw.dropped, !.lost = fw.lost]
      BY <1>4 DEF HspResets
    <3>2. fw'.boot = fw.boot + 1
      BY <3>1 DEF FwReset
    <3>3. FwReset = [f \in DOMAIN FwReset |-> FwReset[f]]
      BY DEF FwReset
    <3>4. fw' = [f \in DOMAIN FwReset |-> fw'[f]]
      BY <3>1, <3>3
    <3> QED BY <3>2, <3>4 DEF FwIInv, BootFits
  <2> QED BY <2>1, <2>2 DEF FwIInv
<1>5. CASE UNCHANGED fwVars
  BY <1>5 DEF fwVars, FwIInv, DevFits, IsDevice, BootFits
<1> QED BY <1>1, <1>2, <1>3, <1>4, <1>5 DEF FwNext

\* On every device, the defective ones included, and under every program, the
\* operation that runs is one its mode admits: no fault, read error, power gating
\* or reset leaves a command of the old mode running in the new one.
THEOREM DeviceInvariant == FwSpec => []FwIInv
  BY FwStart, FwStepKeeps, PTL DEF FwSpec

\* A device without a defect implements Lifecycle until the security processor is
\* reset, whatever the program, the faults the testbench raises and the power
\* gatings: the mode changes only where an operation its mode admits finishes or
\* the cache fails, and what DIS_RESET or DIS_REINIT turned off never starts again.
THEOREM LifecycleHolds == FwSpec => LifecycleUntilReset
<1>1. FwInit => LC!LcInit
  BY DEF FwInit, DevInit, DevReset, LC!LcInit
<1>2. FwIInv /\ [FwNext]_fwVars
      => [LC!LcNext \/ fw'.boot # fw.boot \/ defect # "none"]_(LC!lcVars)
  <2> SUFFICES ASSUME FwIInv, [FwNext]_fwVars, defect = "none", fw'.boot = fw.boot
               PROVE  LC!LcNext \/ UNCHANGED LC!lcVars
    OBVIOUS
  <2>1. CASE FwStep /\ PowerGateHsp
    <3>1. Ended(dev')
      BY <2>1, Gating DEF PowerGateHsp, GateDevice
    <3> QED BY <3>1, MovedIsLifecycle DEF Moved
  <2>2. CASE FwStep /\ ~PowerGateHsp
    BY <2>2, StatementMoves, MovedIsLifecycle
  <2>3. CASE DeviceStep
    BY <2>3, DeviceMoves, MovedIsLifecycle
  <2>4. CASE HspResets
    <3>1. fw'.boot = fw.boot + 1
      BY <2>4 DEF HspResets, FwReset
    <3> QED BY <3>1 DEF FwIInv, BootFits
  <2>5. CASE UNCHANGED fwVars
    BY <2>5 DEF fwVars, LC!lcVars
  <2> QED BY <2>1, <2>2, <2>3, <2>4, <2>5 DEF FwNext
<1> QED BY <1>1, <1>2, DeviceInvariant, PTL DEF FwSpec, LifecycleUntilReset
=============================================================================
