----------------------------- MODULE CoreProofs -----------------------------
(***************************************************************************)
(* The tag array and the protocol between CIU and CMU in the composed      *)
(* core, for every set of blocks, every geometry and every choice of       *)
(* commands, faults and disturbances.                                      *)
(*                                                                         *)
(* No block is tagged twice.  A tag is written for a block whose lookup    *)
(* missed, many cycles earlier.  A lookup misses when no way matches, when *)
(* two do, and when it was not made at all; so the result rests on the     *)
(* lookup having been made (LookupMade) in the mode the answer is used in, *)
(* and on the miss still being one when the block arrives (MissIsReal).    *)
(*                                                                         *)
(* The proofs of the CMU on its own assume that a block is requested only  *)
(* in a state that hears it.  Without seed loading the CIU keeps to that:  *)
(* the request is a flop, set in the cycle before on the strength of       *)
(* cmu_busy, so what has to hold is that nothing the busy signal hides can *)
(* start in that one cycle.  A synchronous reset of the CIU under a        *)
(* tracked fetch would break it as well (NoResetUnderFetch).               *)
(***************************************************************************)
EXTENDS SincCore, FiniteSetTheorems, CmuCtrlProofs


\* The flops the argument is about: the state, the address of the access, its
\* error flags and the request to the CMU.
FlopNames == {"sm", "addr", "extVio", "otherErr", "fetchReq"}

CiuFlops ==
  /\ FlopNames \subseteq DOMAIN ciu
  /\ ciu.sm \in CiuStates /\ ciu.addr \in Blocks /\ ciu.fetchReq \in BOOLEAN

\* A read that may go on to miss has had its tags looked up.
LookupMade ==
  ciu.sm = "MEM_READ" /\ ~ciu.extVio /\ ~ciu.otherErr
    /\ sincState = "CACHE_ACTIVE" => vtagCompR

\* The second lookup, after a block has arrived, finds the CMU idle: the mode
\* cannot become active between that lookup and its answer.
RereadWhileIdle == ciu.sm = "RREAD" => Idle

\* While a block is being fetched no way of its set has its tag.
MissIsReal ==
  ciu.sm = "CACHE_MISS" => \A w \in Ways : vtag[SetOf(ciu.addr)][w] # ciu.addr

TagIInv == /\ CiuFlops /\ VtagTypeOK /\ TagsAreUnique
           /\ LookupMade /\ RereadWhileIdle /\ MissIsReal

-----------------------------------------------------------------------------
(* The geometry, and the wires of a cycle.                                  *)

\* A block number is no NoTag, and a block has a set.
LEMMA BlockGeometry ==
  ASSUME NEW b \in Blocks
  PROVE  b \in Nat /\ b # NoTag /\ SetOf(b) \in Sets
BY BlocksAssumption, GeometryAssumption DEF SetOf, Sets, NoTag

\* The reset values of the flops are values of their types.
LEMMA ZeroIsThere == 0 \in Blocks /\ 0 \in Sets /\ 0 \in Ways
BY BlocksAssumption, GeometryAssumption DEF Sets, Ways

\* The signals of one cycle the argument is about, m sampled by the CMU and c
\* by the CIU.
Wired(start, m, c) ==
  /\ ControlFsm(m) /\ CiuCycle(c)
  /\ VtagCycle(start, VtagComp(c), VtagUpd(c), ciu.addr, c.syncReset)
  /\ c.addr \in Blocks /\ c.mode = sincState
  /\ c.cmuBusy = CmuBusy(CiuToCmu) /\ c.hit = CacheHit(ciu.addr)
  /\ c.fetchComp = FetchComp(m) /\ c.fetchErr = FetchErr(m)

\* Every cycle of the core is wired so.
LEMMA CycleIsWired ==
  ASSUME AnyCycle PROVE \E start, m, c : Wired(start, m, c)
<1>1. \E in : CoreCycle(in) /\ in.addr \in Blocks
  <2>1. \A acc \in CpuChoices : acc[2] \in Blocks
    BY ZeroIsThere DEF CpuChoices
  <2>2. QED
    BY <2>1 DEF AnyCycle, Cycle
<1>2. PICK in : CoreCycle(in) /\ in.addr \in Blocks
  BY <1>1
<1> DEFINE m == CmuIn(in, CwIn(in))
           c == CiuIn(in, m)
<1>3. /\ CmuCycle(m) /\ CiuCycle(c)
      /\ VtagCycle(VtagEraseStart(in), VtagComp(c), VtagUpd(c), ciu.addr,
                   c.syncReset)
  BY <1>2 DEF CoreCycle
<1>4. /\ c.addr = in.addr /\ c.mode = sincState
      /\ c.cmuBusy = CmuBusy(CiuToCmu) /\ c.hit = CacheHit(ciu.addr)
      /\ c.fetchComp = FetchComp(m) /\ c.fetchErr = FetchErr(m)
  BY DEF CiuIn
<1>5. ControlFsm(m)
  BY <1>3 DEF CmuCycle
<1> HIDE DEF m, c
<1>6. Wired(VtagEraseStart(in), m, c)
  BY <1>2, <1>3, <1>4, <1>5 DEF Wired
<1>7. QED
  BY <1>6

-----------------------------------------------------------------------------
(* The CMU.                                                                 *)

\* Only SET_CACHE_ACTIVE activates the cache.
LEMMA Activation ==
  ASSUME NEW m, ControlFsm(m), sincState' = "CACHE_ACTIVE"
  PROVE  sincState = "CACHE_ACTIVE" \/ cmuState = "SET_CACHE_ACTIVE"
<1>1. \A r : RequestMode(r) /\ r # "CACHE_ACTIVE" => sincState = "CACHE_ACTIVE"
  BY DEF RequestMode
<1>2. KeepMode => sincState = "CACHE_ACTIVE"
  BY DEF KeepMode, RequestMode
<1>3. QED
  BY <1>1, <1>2 DEF ControlFsm, SincIdle, FetchBlock, SetInit, SetCacheActive,
     SincReset, SincReinit, EncrBlock, DisReset, DisReinit, AesTest, AesSeed

\* The cycle that reports a block fetched is the last of FETCH_BLOCK.
LEMMA FetchEndsIdle ==
  ASSUME NEW m, ControlFsm(m), FetchComp(m), ~FetchErr(m)
  PROVE  Idle'
<1>1. cmuState = "FETCH_BLOCK" /\ m.cwComp
  BY DEF FetchComp, FetchErr
<1>2. FetchBlock(m)
  BY <1>1 DEF ControlFsm, SincIdle, FetchBlock, SetInit, SetCacheActive,
     SincReset, SincReinit, EncrBlock, DisReset, DisReinit, AesTest, AesSeed,
     Idle
<1>3. QED
  BY <1>1, <1>2 DEF FetchBlock, Goto, Idle

-----------------------------------------------------------------------------
(* The control FSM of the CIU.                                              *)

\* The default of a cycle leaves state and address alone.
LEMMA PulseKeeps ==
  ASSUME CiuFlops, NEW c
  PROVE  /\ FlopNames \subseteq DOMAIN Pulse(c)
         /\ Pulse(c).sm = ciu.sm /\ Pulse(c).addr = ciu.addr
         /\ Pulse(c).otherErr = ciu.otherErr /\ ~Pulse(c).extVio
         /\ Pulse(c).fetchReq = FALSE
BY DEF Pulse, CiuFlops, FlopNames

\* A flops record r the FSM may go to from the present one.
Follows(r, c) ==
  /\ FlopNames \subseteq DOMAIN r
  /\ r.sm \in CiuStates /\ r.addr \in Blocks /\ r.fetchReq \in BOOLEAN
  /\ r.fetchReq => r.sm = "CACHE_MISS" /\ ciu.sm = "MEM_READ" /\ ~c.cmuBusy
  /\ ciu.sm = "CACHE_MISS" /\ ~c.fetchComp => r.sm = "CACHE_MISS"
  /\ r.sm = "CACHE_MISS" =>
       /\ r.addr = ciu.addr
       /\ \/ ciu.sm = "CACHE_MISS" /\ ~VtagUpd(c)
          \/ /\ ciu.sm = "MEM_READ" /\ ~ciu.extVio /\ ~ciu.otherErr
             /\ Active(c) /\ ~c.hit
  /\ r.sm = "RREAD" => VtagUpd(c)
  /\ r.sm = "MEM_READ" /\ ~r.extVio /\ ~r.otherErr
       => ValidCpuRead(c) \/ ciu.sm = "RREAD"

\* Where a read comes from: a lookup, or a refusal that marks it.
LEMMA IdleFollows ==
  ASSUME CiuFlops, NEW c, c.addr \in Blocks, ciu.sm = "IDLE"
  PROVE  Follows(CiuIdle(c), c)
<1> DEFINE P == Pulse(c)
<1>1. /\ FlopNames \subseteq DOMAIN P
      /\ P.sm = "IDLE" /\ P.addr \in Blocks /\ P.fetchReq = FALSE
  BY PulseKeeps DEF CiuFlops
<1>2. AccAddr(c) \in Blocks
  BY DEF AccAddr, CiuFlops
<1> HIDE DEF P
<1>3. CASE ValidCpuRead(c)
  <2>1. Follows(IdleRead(c), c)
    BY <1>1, <1>2, <1>3 DEF Follows, IdleRead, P, CiuStates, FlopNames
  <2>2. QED
    BY <1>3, <2>1 DEF CiuIdle
<1>4. CASE ~ValidCpuRead(c) /\ ValidCpuWrite(c)
  <2>1. Follows(IdleWrite(c), c)
    BY <1>1, <1>2 DEF Follows, IdleWrite, P, CiuStates, FlopNames
  <2>2. QED
    BY <1>4, <2>1 DEF CiuIdle
<1>5. CASE ~ValidCpuRead(c) /\ ~ValidCpuWrite(c) /\ Refused(c)
  <2>1. RefusedRead(c) => \/ CpuAccessUponCacheFailed(c) \/ ciu.pendFail
                          \/ CpuReadUponEraseBusy(c)
    BY <1>5 DEF Refused, RefusedRead, CpuReadUponEraseBusy,
       CpuWriteUponEraseBusy
  <2>2. Follows(IdleRefuse(c), c)
    BY <1>1, <2>1 DEF Follows, IdleRefuse, P, CiuStates, FlopNames
  <2>3. QED
    BY <1>5, <2>2 DEF CiuIdle
<1>6. CASE /\ ~ValidCpuRead(c) /\ ~ValidCpuWrite(c) /\ ~Refused(c)
           /\ CpuWriteUponCacheActive(c)
  <2>1. Follows(IdleActiveWrite(c), c)
    BY <1>1 DEF Follows, IdleActiveWrite, P, CiuStates, FlopNames
  <2>2. QED
    BY <1>6, <2>1 DEF CiuIdle
<1>7. CASE /\ ~ValidCpuRead(c) /\ ~ValidCpuWrite(c) /\ ~Refused(c)
           /\ ~CpuWriteUponCacheActive(c)
  <2>1. Follows(P, c)
    BY <1>1 DEF Follows, CiuStates, FlopNames
  <2>2. QED
    BY <1>7, <2>1 DEF CiuIdle, P
<1>8. QED
  BY <1>3, <1>4, <1>5, <1>6, <1>7

\* Only an active lookup that found nothing goes on to a fetch.
LEMMA MemReadFollows ==
  ASSUME CiuFlops, NEW c, ciu.sm = "MEM_READ"
  PROVE  Follows(CiuMemRead(c), c)
<1> DEFINE P == Pulse(c)
<1>1. /\ FlopNames \subseteq DOMAIN P
      /\ P.addr = ciu.addr /\ ciu.addr \in Blocks /\ P.fetchReq = FALSE
  BY PulseKeeps DEF CiuFlops
<1> HIDE DEF P
<1>2. CASE AccVio(c) \/ ciu.otherErr \/ c.eraseBusy
  BY <1>1, <1>2 DEF CiuMemRead, Follows, P, CiuStates, FlopNames
<1>3. CASE ~(AccVio(c) \/ ciu.otherErr \/ c.eraseBusy) /\ ~Active(c)
  BY <1>1, <1>3 DEF CiuMemRead, Follows, P, CiuStates, FlopNames
<1>4. CASE ~(AccVio(c) \/ ciu.otherErr \/ c.eraseBusy) /\ Active(c)
  <2>1. CASE c.parErr
    BY <1>1, <1>4, <2>1 DEF CiuMemRead, Follows, P, CiuStates, FlopNames
  <2>2. CASE ~c.parErr /\ c.hit
    BY <1>1, <1>4, <2>2 DEF CiuMemRead, Follows, P, CiuStates, FlopNames
  <2>3. CASE ~c.parErr /\ ~c.hit /\ c.cmuBusy
    BY <1>1, <1>4, <2>3 DEF CiuMemRead, Follows, P, CiuStates, FlopNames
  <2>4. CASE ~c.parErr /\ ~c.hit /\ ~c.cmuBusy
    BY <1>1, <1>4, <2>4 DEF CiuMemRead, Follows, P, CiuStates, FlopNames, AccVio
  <2>5. QED
    BY <2>1, <2>2, <2>3, <2>4
<1>5. QED
  BY <1>2, <1>3, <1>4

\* One cycle of the CIU: a reset, or a step of its FSM.
LEMMA CiuFollows ==
  ASSUME CiuFlops, NEW c, c.addr \in Blocks, CiuCycle(c)
  PROVE  IF c.syncReset
         THEN CiuFlops' /\ ciu'.sm = "IDLE" /\ ~ciu'.fetchReq
         ELSE Follows(ciu', c)
<1>1. CASE c.syncReset
  <2>1. ciu' = CiuReset(TRUE)
    BY <1>1 DEF CiuCycle
  <2>2. QED
    BY <1>1, <2>1, ZeroIsThere DEF CiuReset, CiuFlops, CiuStates, FlopNames
<1>2. CASE ~c.syncReset
  <2> SUFFICES Follows(CiuNext(c), c)
    BY <1>2 DEF CiuCycle
  <2> DEFINE P == Pulse(c)
  <2>1. /\ FlopNames \subseteq DOMAIN P
        /\ P.addr = ciu.addr /\ P.sm = ciu.sm /\ ciu.addr \in Blocks
        /\ P.fetchReq = FALSE
    BY PulseKeeps DEF CiuFlops
  <2> HIDE DEF P
  <2>2. CASE ciu.sm = "IDLE"
    BY <2>2, IdleFollows DEF CiuNext
  <2>3. CASE ciu.sm = "MEM_READ"
    BY <2>3, MemReadFollows DEF CiuNext
  <2>4. CASE ciu.sm = "WAIT"
    BY <2>1, <2>4 DEF CiuNext, CiuWait, Follows, P, CiuStates, FlopNames
  <2>5. CASE ciu.sm = "CACHE_MISS"
    <3>1. Follows(CiuCacheMiss(c), c)
      BY <2>1, <2>5 DEF CiuCacheMiss, Follows, P, CiuStates, VtagUpd,
         FlopNames
    <3>2. QED
      BY <2>5, <3>1 DEF CiuNext
  <2>6. CASE ciu.sm \in {"RREAD", "MEM_WRITE", "EXTRA"}
    BY <2>1, <2>6 DEF CiuNext, CiuRRead, CiuMemWrite, CiuExtra, Follows,
       P, CiuStates, FlopNames
  <2>7. QED
    BY <2>2, <2>3, <2>4, <2>5, <2>6 DEF CiuFlops, CiuStates
<1>3. QED
  BY <1>1, <1>2

-----------------------------------------------------------------------------
(* The tag array.                                                           *)

\* The array keeps its type; a cycle changes a tag to none, or writes the one
\* way the replacement pointer names.
LEMMA TagStep ==
  ASSUME VtagTypeOK, NEW start, NEW c, ciu.addr \in Blocks,
         VtagCycle(start, VtagComp(c), VtagUpd(c), ciu.addr, c.syncReset)
  PROVE  /\ VtagTypeOK'
         /\ \A s \in Sets, w \in Ways :
              \/ vtag'[s][w] \in {NoTag, vtag[s][w]}
              \/ /\ VtagUpd(c) /\ vtag'[s][w] = ciu.addr
                 /\ s = SetOf(ciu.addr) /\ w = fifoSta[SetOf(ciu.addr)]
<1>1. SetOf(ciu.addr) \in Sets
  BY BlockGeometry
<1>2. fifoSta' \in [Sets -> Ways]
  <2>1. \A w \in Ways : (w + 1) % NWays \in Ways
    BY GeometryAssumption DEF Ways
  <2>2. fifoSta[SetOf(ciu.addr)] \in Ways
    BY <1>1 DEF VtagTypeOK
  <2>3. CASE c.syncReset
    BY <2>3, ZeroIsThere DEF VtagCycle
  <2>4. CASE ~c.syncReset /\ VtagUpd(c)
    BY <1>1, <2>1, <2>2, <2>4 DEF VtagCycle, VtagTypeOK
  <2>5. CASE ~c.syncReset /\ ~VtagUpd(c)
    BY <2>5 DEF VtagCycle, VtagTypeOK
  <2>6. QED
    BY <2>3, <2>4, <2>5
<1>3. vtagEraseAddr' \in Sets
  BY GeometryAssumption, ZeroIsThere DEF VtagCycle, VtagTypeOK, Sets
<1>4. vtagCompR' \in BOOLEAN /\ vtagSm' \in {"IDLE", "WR"}
  BY DEF VtagCycle, VtagComp
<1>5. CASE VtagEraseOp(start)
  <2>1. vtag' = [vtag EXCEPT ![vtagEraseAddr] = [w \in Ways |-> NoTag]]
    BY <1>5 DEF VtagCycle, VtagErase
  <2>2. QED
    BY <1>2, <1>3, <1>4, <2>1 DEF VtagTypeOK
<1>6. CASE ~VtagEraseOp(start)
  <2> DEFINE s == SetOf(ciu.addr)
  <2>1. vtag' = IF VtagUpd(c) THEN [vtag EXCEPT ![s][fifoSta[s]] = ciu.addr]
                ELSE vtag
    BY <1>6 DEF VtagCycle, VtagWrite
  <2>2. QED
    BY <1>1, <1>2, <1>3, <1>4, <2>1 DEF VtagTypeOK
<1>7. QED
  BY <1>5, <1>6

\* A lookup that was made and did not hit found the block in no way.
LEMMA MissMeansAbsent ==
  ASSUME NEW b \in Blocks, VtagTypeOK, TagsAreUnique, vtagCompR, ~CacheHit(b)
  PROVE  \A w \in Ways : vtag[SetOf(b)][w] # b
<1> SUFFICES ASSUME NEW w \in Ways, vtag[SetOf(b)][w] = b PROVE FALSE
  OBVIOUS
<1>1. SetOf(b) \in Sets /\ b # NoTag
  BY BlockGeometry
<1>2. BlockHit(b) = {w}
  BY <1>1 DEF BlockHit, TagsAreUnique
<1>3. QED
  BY <1>2, FS_Singleton DEF CacheHit

-----------------------------------------------------------------------------
(* The invariant.                                                           *)

\* After reset the CIU is idle and nothing is tagged.
LEMMA TagInit == ASSUME Init PROVE TagIInv
<1>1. CiuFlops /\ ciu.sm = "IDLE"
  BY ZeroIsThere DEF Init, CiuInit, CiuReset, CiuFlops, CiuStates, FlopNames
<1>2. VtagTypeOK /\ TagsAreUnique
  BY ZeroIsThere DEF Init, VtagInit, VtagTypeOK, TagsAreUnique
<1>3. QED
  BY <1>1, <1>2 DEF TagIInv, LookupMade, RereadWhileIdle, MissIsReal

\* One clock cycle keeps the invariant, conjunct by conjunct.
LEMMA TagCycleStep == ASSUME TagIInv, AnyCycle PROVE TagIInv'
<1> USE DEF TagIInv
<1>1. PICK start, m, c : Wired(start, m, c)
  BY CycleIsWired
<1>2. IF c.syncReset
      THEN CiuFlops' /\ ciu'.sm = "IDLE" /\ ~ciu'.fetchReq
      ELSE Follows(ciu', c)
  BY <1>1, CiuFollows DEF Wired
<1>3. CiuFlops'
  BY <1>2 DEF Follows, CiuFlops
<1>4. ciu.addr \in Blocks /\ SetOf(ciu.addr) \in Sets /\ ciu.addr # NoTag
  BY BlockGeometry DEF CiuFlops
<1>5. /\ VtagTypeOK'
      /\ \A s \in Sets, w \in Ways :
           \/ vtag'[s][w] \in {NoTag, vtag[s][w]}
           \/ /\ VtagUpd(c) /\ vtag'[s][w] = ciu.addr
              /\ s = SetOf(ciu.addr) /\ w = fifoSta[SetOf(ciu.addr)]
  BY <1>1, <1>4, TagStep DEF Wired
<1>6. VtagUpd(c) => \A w \in Ways : vtag[SetOf(ciu.addr)][w] # ciu.addr
  BY DEF VtagUpd, MissIsReal
<1>7. TagsAreUnique'
  BY <1>4, <1>5, <1>6 DEF TagsAreUnique
<1>8. LookupMade'
  <2> SUFFICES ASSUME ciu'.sm = "MEM_READ", ~ciu'.extVio, ~ciu'.otherErr,
                      sincState' = "CACHE_ACTIVE"
               PROVE  vtagCompR'
    BY DEF LookupMade
  <2>1. ~c.syncReset /\ (ValidCpuRead(c) \/ ciu.sm = "RREAD")
    BY <1>2 DEF Follows
  <2>2. cmuState # "SET_CACHE_ACTIVE"
    BY <1>1, <2>1 DEF Wired, ValidCpuRead, CmuBusy, RereadWhileIdle, Idle,
       StallStates
  <2>3. Active(c)
    BY <1>1, <2>2, Activation DEF Wired, Active
  <2>4. VtagComp(c)
    BY <2>1, <2>3 DEF VtagComp, ValidCpuRead
  <2>5. QED
    BY <1>1, <2>1, <2>4 DEF Wired, VtagCycle
<1>9. RereadWhileIdle'
  <2> SUFFICES ASSUME ciu'.sm = "RREAD" PROVE Idle'
    BY DEF RereadWhileIdle
  <2>1. VtagUpd(c)
    BY <1>2 DEF Follows
  <2>2. QED
    BY <1>1, <2>1, FetchEndsIdle DEF Wired, VtagUpd
<1>10. MissIsReal'
  <2> SUFFICES ASSUME ciu'.sm = "CACHE_MISS", NEW w \in Ways
               PROVE  vtag'[SetOf(ciu'.addr)][w] # ciu'.addr
    BY DEF MissIsReal
  <2>1. Follows(ciu', c)
    BY <1>2
  <2>2. ciu'.addr = ciu.addr /\ ~VtagUpd(c)
    BY <2>1 DEF Follows, VtagUpd
  <2>3. vtag[SetOf(ciu.addr)][w] # ciu.addr
    <3>1. CASE ciu.sm = "CACHE_MISS"
      BY <3>1 DEF MissIsReal
    <3>2. CASE ciu.sm # "CACHE_MISS"
      <4>1. vtagCompR /\ ~CacheHit(ciu.addr)
        BY <1>1, <2>1, <3>2 DEF Follows, Wired, Active, LookupMade
      <4>2. QED
        BY <1>4, <4>1, MissMeansAbsent
    <3>3. QED
      BY <3>1, <3>2
  <2>4. QED
    BY <1>4, <1>5, <2>2, <2>3
<1>11. QED
  BY <1>3, <1>5, <1>7, <1>8, <1>9, <1>10

\* A low-power reset keeps the array and finds the CIU without a fetch.
LEMMA TagLpReset == ASSUME TagIInv, LpReset PROVE TagIInv'
<1>1. CiuFlops' /\ ciu'.sm = "IDLE"
  BY ZeroIsThere DEF LpReset, CiuLpReset, CiuReset, CiuFlops, CiuStates,
     FlopNames
<1>2. VtagTypeOK' /\ TagsAreUnique'
  BY ZeroIsThere DEF LpReset, VtagLpReset, VtagTypeOK, TagsAreUnique, TagIInv
<1>3. QED
  BY <1>1, <1>2 DEF TagIInv, LookupMade, RereadWhileIdle, MissIsReal

\* The inductive invariant of the tag array.
THEOREM TagInvariant == Spec => []TagIInv
<1>1. Init => TagIInv
  BY TagInit
<1>2. TagIInv /\ [Next]_vars => TagIInv'
  <2> SUFFICES ASSUME TagIInv, [Next]_vars PROVE TagIInv'
    OBVIOUS
  <2>1. CASE AnyCycle
    BY <2>1, TagCycleStep
  <2>2. CASE LpReset
    BY <2>2, TagLpReset
  <2>3. CASE UNCHANGED vars
    BY <2>3 DEF vars, cmuVars, vtagVars, retVars, fsmVars, TagIInv, CiuFlops,
       VtagTypeOK, TagsAreUnique, LookupMade, RereadWhileIdle, MissIsReal, Idle
  <2>4. QED
    BY <2>1, <2>2, <2>3 DEF Next
<1>3. QED
  BY <1>1, <1>2, PTL DEF Spec

\* No block is tagged in two ways of its set, with commands, block fetches,
\* erasures, faults and low-power resets in any order: the tag written when a
\* block arrives was looked up, in the active mode, and missed, and nothing
\* has tagged the block since.
THEOREM TagsStayUnique == Spec => []TagsAreUnique
<1>1. TagIInv => TagsAreUnique
  BY DEF TagIInv
<1>2. QED
  BY <1>1, TagInvariant, PTL

-----------------------------------------------------------------------------
(* The protocol between CIU and CMU.                                        *)


\* Without seed loading no command waits for a seed.
Unseeded == aesSeeded /\ pendCmd = "NONE" /\ cmuState # "AES_SEED"

\* The request is up only in the first cycle of CACHE_MISS.
RequestAtMiss == ciu.fetchReq => ciu.sm = "CACHE_MISS"

\* The flopped soft reset finds no fetch, neither tracked nor requested.
NoResetUnderFetch == cmuSincReset => ~fetchTrk /\ ~ciu.fetchReq

ReqIInv ==
  /\ IInv /\ Unseeded /\ TrackedFetchIsServed
  /\ CiuFlops /\ RequestAtMiss /\ NoResetUnderFetch
  /\ FetchRequestIsHeard /\ FetchServesTheMiss

-----------------------------------------------------------------------------
(* The signals of a cycle.                                                  *)

Linked(x, m, c) ==
  /\ CmuCycle(m) /\ CwCycle(x) /\ CiuCycle(c) /\ InputOK(m)
  /\ m.fetchReq = ciu.fetchReq /\ m.fetchAddr = ciu.addr
  /\ c.addr \in Blocks /\ c.mode = sincState /\ c.cmuBusy = CmuBusy(m)
  /\ c.fetchComp = FetchComp(m) /\ c.syncReset = SyncCiuReset(m)

\* The inputs of a cycle the argument is about.
LEMMA CycleInputs ==
  ASSUME AnyCycle
  PROVE  \E in : /\ CoreCycle(in) /\ in.addr \in Blocks
                 /\ in.fwWr \in CmdValues \cup {"NO_WRITE"}
                 /\ in.fwWr # "NO_WRITE" => NoWriteInFlight
<1>1. \A acc \in CpuChoices : acc[2] \in Blocks
  BY ZeroIsThere DEF CpuChoices
<1>2. \A w \in {"NO_WRITE"} \cup (IF NoWriteInFlight THEN FwWrites ELSE {}) :
        /\ w \in CmdValues \cup {"NO_WRITE"}
        /\ w # "NO_WRITE" => NoWriteInFlight
  BY FwWritesAssumption
<1>3. QED
  BY <1>1, <1>2 DEF AnyCycle, Cycle

\* What the CMU samples satisfies its assumptions while the invariant holds,
\* and the CIU sees its busy and reset signals in the same cycle.
LEMMA CycleIsLinked ==
  ASSUME ReqIInv, AnyCycle
  PROVE  \E x, m, c : Linked(x, m, c)
<1>1. PICK in : /\ CoreCycle(in) /\ in.addr \in Blocks
                /\ in.fwWr \in CmdValues \cup {"NO_WRITE"}
                /\ in.fwWr # "NO_WRITE" => NoWriteInFlight
  BY CycleInputs
<1> DEFINE x == CwIn(in)
           m == CmuIn(in, x)
           c == CiuIn(in, m)
<1>2. CmuCycle(m) /\ CwCycle(x) /\ CiuCycle(c)
  BY <1>1 DEF CoreCycle
<1>3. /\ m.fetchReq = ciu.fetchReq /\ m.fetchAddr = ciu.addr
      /\ m.seeded = aesSeeded /\ m.fault = Fault(in) /\ m.fwWr = in.fwWr
      /\ m.ciuComp = CiuResetCompleted([engnDone |-> engnDone])
      /\ m.cwComp = CwComp(x) /\ m.cwErr = CwErr(x) /\ m.fwRd = TRUE
  BY DEF CmuIn
<1>4. /\ c.addr = in.addr /\ c.mode = sincState
      /\ c.cmuBusy = CmuBusy(CiuToCmu) /\ c.fetchComp = FetchComp(m)
      /\ c.syncReset = SyncCiuReset(CiuToCmu)
  BY DEF CiuIn
<1>5. /\ m.ciuComp \in BOOLEAN /\ m.cwComp \in BOOLEAN /\ m.cwErr \in BOOLEAN
      /\ m.fault \in BOOLEAN
  BY <1>3 DEF CiuResetCompleted, CwComp, CwErr, Fault
<1> HIDE DEF x, m, c
<1>6. InputOK(m)
  BY <1>1, <1>3, <1>5 DEF InputOK, ReqIInv, CiuFlops, Unseeded,
     FetchRequestIsHeard
<1>7. CmuBusy(CiuToCmu) = CmuBusy(m) /\ SyncCiuReset(CiuToCmu) = SyncCiuReset(m)
  <2>1. /\ CiuToCmu.fetchReq = m.fetchReq /\ CiuToCmu.seeded = m.seeded
    BY <1>3 DEF CiuToCmu
  <2>2. Dispatch(CiuToCmu) = Dispatch(m) /\ Rejected(CiuToCmu) = Rejected(m)
    BY <2>1 DEF Dispatch, Rejected, FwCmd, RegCmdVld
  <2>3. QED
    BY <2>1, <2>2 DEF CmuBusy, SyncCiuReset, CmuSincReinit
<1>8. Linked(x, m, c)
  BY <1>1, <1>2, <1>3, <1>4, <1>6, <1>7 DEF Linked
<1>9. QED
  BY <1>8

-----------------------------------------------------------------------------
(* One cycle.                                                               *)

\* In the active cache, an FSM that is not busy neither works nor starts to.
LEMMA NotBusyIsIdle ==
  ASSUME NO_SEED_LOADING, ReqIInv, NEW m, InputOK(m), ~CmuBusy(m),
         sincState = "CACHE_ACTIVE"
  PROVE  Idle /\ ~m.fetchReq /\ Dispatch(m) = "SINC_IDLE"
<1> USE DEF ReqIInv
<1>1. Idle
  <2>1. cmuState \in CmuStates /\ cmuState # "AES_SEED"
    BY DEF IInv, CmuTypeOK, Unseeded
  <2>2. sincState \in ModesOf(cmuState) \cup {"CACHE_FAILED"}
    BY DEF IInv, CommandRunsInItsMode
  <2>3. ~Idle => cmuState \notin StallStates
    BY DEF CmuBusy
  <2>4. QED
    BY <2>1, <2>2, <2>3 DEF ModesOf, CmuStates, FwCmds, StallStates, Idle
<1>2. ~m.fetchReq /\ Dispatch(m) \notin StallStates
  BY <1>1 DEF CmuBusy
<1>3. Dispatch(m) # "AES_SEED"
  BY DEF InputOK, Dispatch
<1>4. QED
  BY <1>1, <1>2, <1>3, DispatchType, DispatchVetted
     DEF ModesOf, CmuStates, FwCmds, StallStates, IInv

\* No command comes to wait for a seed.
LEMMA UnseededStep ==
  ASSUME NO_SEED_LOADING, ReqIInv, NEW x, NEW m, NEW c, Linked(x, m, c)
  PROVE  Unseeded' /\ IInv' /\ TrackedFetchIsServed'
<1> USE DEF ReqIInv, Linked
<1>1. pendCmd' = "NONE" /\ TrackedFetchIsServed' /\ IInv'
  BY CycleServesFetch, CycleKeepsInvariant DEF Unseeded
<1>2. aesSeeded'
  BY DEF Unseeded, CwCycle, CwIdle, CwSetInit, CwEncrBlock, CwFetchBlock,
     CwSincReset, CwSincReinit, CwAesTest, CwAesSeed
<1>3. Dispatch(m) # "AES_SEED"
  BY DEF InputOK, Dispatch
<1>4. cmuState' # "AES_SEED"
  BY <1>3, ControlMoves DEF Unseeded, CmuCycle, IInv, Idle
<1>5. QED
  BY <1>1, <1>2, <1>4 DEF Unseeded

\* A request that goes up finds the CMU idle in the next cycle.
LEMMA HeardStep ==
  ASSUME NO_SEED_LOADING, ReqIInv, NEW x, NEW m, NEW c, Linked(x, m, c)
  PROVE  FetchRequestIsHeard' /\ RequestAtMiss' /\ NoResetUnderFetch'
<1> USE DEF ReqIInv
<1>0. /\ ControlFsm(m) /\ FetchTracker(m) /\ ErrorFlops(m) /\ CmuTypeOK
      /\ InputOK(m) /\ m.fetchReq = ciu.fetchReq /\ c.mode = sincState
  BY DEF Linked, CmuCycle, IInv
<1>1. IF c.syncReset
      THEN CiuFlops' /\ ciu'.sm = "IDLE" /\ ~ciu'.fetchReq
      ELSE Follows(ciu', c)
  BY CiuFollows DEF Linked
<1>2. RequestAtMiss'
  BY <1>1 DEF RequestAtMiss, Follows
<1>3. ASSUME ciu'.fetchReq
      PROVE  /\ ciu.sm = "MEM_READ" /\ sincState = "CACHE_ACTIVE"
             /\ Idle /\ ~m.fetchReq /\ Dispatch(m) = "SINC_IDLE"
  <2>1. ciu.sm = "MEM_READ" /\ ~CmuBusy(m) /\ sincState = "CACHE_ACTIVE"
    BY <1>0, <1>1, <1>3 DEF Linked, Follows, Active
  <2>2. QED
    BY <1>0, <2>1, NotBusyIsIdle
<1>4. FetchRequestIsHeard'
  <2> SUFFICES ASSUME ciu'.fetchReq PROVE FetchAllowed'
    BY DEF FetchRequestIsHeard
  <2>1. Idle' /\ sincState' \in {"CACHE_ACTIVE", "CACHE_FAILED"}
    BY <1>0, <1>3, ControlMoves DEF Idle
  <2>2. ~fetchTrk'
    BY <1>0, <1>3 DEF FetchTracker, FetchServesTheMiss
  <2>3. pendCmd' = "NONE"
    BY UnseededStep DEF Unseeded
  <2>4. QED
    BY <2>1, <2>2, <2>3 DEF FetchAllowed
<1>5. NoResetUnderFetch'
  <2> SUFFICES ASSUME cmuSincReset' PROVE ~fetchTrk' /\ ~ciu'.fetchReq
    BY DEF NoResetUnderFetch
  <2>1. Idle /\ Dispatch(m) = "SINC_RESET"
    BY <1>0 DEF ErrorFlops, AssertSoftReset
  <2>2. ~ciu'.fetchReq
    BY <1>3, <2>1
  <2>3. ~m.fetchReq
    BY <2>1 DEF Dispatch
  <2>4. fetchTrk => FetchComp(m)
    BY <2>1 DEF TrackedFetchIsServed, Unseeded, FetchComp, Idle
  <2>5. QED
    BY <1>0, <2>2, <2>3, <2>4 DEF FetchTracker
<1>6. QED
  BY <1>2, <1>4, <1>5

\* The block that is tracked stays the block the CIU waits for.
LEMMA ServesStep ==
  ASSUME NO_SEED_LOADING, ReqIInv, NEW x, NEW m, NEW c, Linked(x, m, c)
  PROVE  FetchServesTheMiss' /\ CiuFlops'
<1> USE DEF ReqIInv
<1>0. /\ ControlFsm(m) /\ FetchTracker(m) /\ InputOK(m)
      /\ m.fetchReq = ciu.fetchReq /\ m.fetchAddr = ciu.addr
      /\ c.fetchComp = FetchComp(m) /\ c.syncReset = SyncCiuReset(m)
  BY DEF Linked, CmuCycle
<1>1. IF c.syncReset
      THEN CiuFlops' /\ ciu'.sm = "IDLE" /\ ~ciu'.fetchReq
      ELSE Follows(ciu', c)
  BY CiuFollows DEF Linked
<1>2. CiuFlops'
  BY <1>1 DEF Follows, CiuFlops
<1>3. ASSUME fetchTrk'
      PROVE  /\ ciu.sm = "CACHE_MISS" /\ ~FetchComp(m)
             /\ fetchTrk \/ ciu.fetchReq
             /\ ciuAddrQ' = ciu.addr
  <2>1. CASE fetchTrk
    <3>1. ~FetchComp(m) /\ ~ciu.fetchReq
      BY <1>0, <1>3, <2>1 DEF FetchTracker, FetchRequestIsHeard, FetchAllowed
    <3>2. QED
      BY <1>0, <2>1, <3>1 DEF FetchTracker, FetchServesTheMiss
  <2>2. CASE ~fetchTrk
    <3>1. ciu.fetchReq /\ ~FetchComp(m)
      BY <1>0, <1>3, <2>2 DEF FetchTracker, FetchComp
    <3>2. QED
      BY <1>0, <3>1 DEF FetchTracker, RequestAtMiss
  <2>3. QED
    BY <2>1, <2>2
<1>4. ASSUME fetchTrk' PROVE ~c.syncReset
  <2>1. ~cmuSincReset
    BY <1>3, <1>4 DEF NoResetUnderFetch
  <2>2. Idle => Dispatch(m) # "SINC_REINIT"
    <3>1. CASE ciu.fetchReq
      BY <1>0, <3>1 DEF Dispatch
    <3>2. CASE ~ciu.fetchReq
      <4>1. fetchTrk /\ ~hwFaultQ
        BY <1>3, <1>4, <3>2 DEF FetchComp
      <4>2. QED
        BY <4>1 DEF TrackedFetchIsServed, Unseeded, Idle
    <3>3. QED
      BY <3>1, <3>2
  <2>3. QED
    BY <1>0, <2>1, <2>2 DEF SyncCiuReset, CmuSincReinit
<1>5. FetchServesTheMiss'
  <2> SUFFICES ASSUME fetchTrk'
               PROVE  ciu'.sm = "CACHE_MISS" /\ ciuAddrQ' = ciu'.addr
    BY DEF FetchServesTheMiss
  <2>1. Follows(ciu', c) /\ ~c.fetchComp
    BY <1>0, <1>1, <1>3, <1>4
  <2>2. QED
    BY <1>3, <2>1 DEF Follows
<1>6. QED
  BY <1>2, <1>5

-----------------------------------------------------------------------------
(* The invariant.                                                           *)

\* After reset nothing is requested and nothing is tracked.
LEMMA ReqInit == ASSUME NO_SEED_LOADING, Init PROVE ReqIInv
<1>1. IInv
  BY InitInvariant DEF Init
<1>2. CiuFlops /\ ~ciu.fetchReq
  BY ZeroIsThere DEF Init, CiuInit, CiuReset, CiuFlops, CiuStates, FlopNames
<1>3. Unseeded /\ ~fetchTrk /\ ~cmuSincReset
  BY DEF Init, CmuInit, CwInit, Unseeded
<1>4. QED
  BY <1>1, <1>2, <1>3 DEF ReqIInv, TrackedFetchIsServed, RequestAtMiss,
     NoResetUnderFetch, FetchRequestIsHeard, FetchServesTheMiss

\* A low-power reset clears both sides of the protocol together.
LEMMA ReqLpReset == ASSUME NO_SEED_LOADING, ReqIInv, LpReset PROVE ReqIInv'
<1>1. IInv'
  BY LpResetKeepsInvariant DEF LpReset, ReqIInv
<1>2. CiuFlops' /\ ~ciu'.fetchReq
  BY ZeroIsThere DEF LpReset, CiuLpReset, CiuReset, CiuFlops, CiuStates,
     FlopNames
<1>3. Unseeded' /\ ~fetchTrk' /\ ~cmuSincReset'
  BY DEF LpReset, CmuLpReset, ClearedFlops, CwLpReset, Unseeded
<1>4. QED
  BY <1>1, <1>2, <1>3 DEF ReqIInv, TrackedFetchIsServed, RequestAtMiss,
     NoResetUnderFetch, FetchRequestIsHeard, FetchServesTheMiss

\* The inductive invariant of the protocol between CIU and CMU.
THEOREM RequestInvariant ==
  ASSUME NO_SEED_LOADING PROVE Spec => []ReqIInv
<1>1. Init => ReqIInv
  BY ReqInit
<1>2. ReqIInv /\ [Next]_vars => ReqIInv'
  <2> SUFFICES ASSUME ReqIInv, [Next]_vars PROVE ReqIInv'
    OBVIOUS
  <2>1. CASE AnyCycle
    <3>1. PICK x, m, c : Linked(x, m, c)
      BY <2>1, CycleIsLinked
    <3>2. QED
      BY <3>1, UnseededStep, HeardStep, ServesStep DEF ReqIInv
  <2>2. CASE LpReset
    BY <2>2, ReqLpReset
  <2>3. CASE UNCHANGED vars
    BY <2>3 DEF vars, cmuVars, retVars, fsmVars, regVars, cwVars, ReqIInv,
       IInv, CmuTypeOK, CommandRunsInItsMode, CommandVetted, PendingVetted,
       CleanupPermitted, CmdStateOk, Unseeded, TrackedFetchIsServed, CiuFlops,
       RequestAtMiss, NoResetUnderFetch, FetchRequestIsHeard, FetchAllowed,
       FetchServesTheMiss, Idle
  <2>4. QED
    BY <2>1, <2>2, <2>3 DEF Next
<1>3. QED
  BY <1>1, <1>2, PTL DEF Spec

\* The CIU requests a block only in a state of the CMU that hears it, with
\* commands, faults, erasures and resets in any order: the cycle between the
\* look at cmu_busy and the request lets nothing start (sinc_ciu_ctrl).
THEOREM RequestsAreHeard ==
  ASSUME NO_SEED_LOADING PROVE Spec => []FetchRequestIsHeard
<1>1. ReqIInv => FetchRequestIsHeard
  BY DEF ReqIInv
<1>2. QED
  BY <1>1, RequestInvariant, PTL

\* While a block is fetched the CIU waits for that very block: neither a reset
\* nor another access takes it away (fetch_block_state, ciu_addr_q).
THEOREM FetchesServeTheMiss ==
  ASSUME NO_SEED_LOADING PROVE Spec => []FetchServesTheMiss
<1>1. ReqIInv => FetchServesTheMiss
  BY DEF ReqIInv
<1>2. QED
  BY <1>1, RequestInvariant, PTL

\* In the core, not only under the assumptions of Cmu, a tracked fetch is
\* being served or about to be ended by a fault.
THEOREM CoreFetchesAreServed ==
  ASSUME NO_SEED_LOADING PROVE Spec => []TrackedFetchIsServed
<1>1. ReqIInv => TrackedFetchIsServed
  BY DEF ReqIInv
<1>2. QED
  BY <1>1, RequestInvariant, PTL

-----------------------------------------------------------------------------
(* The whole core keeps to the life cycle.                                  *)

\* Commands execute only in the modes that admit them, in the core as well:
\* what the proof of the CMU assumes of its neighbours, they provide.
THEOREM CoreCommandsInMode ==
  ASSUME NO_SEED_LOADING PROVE Spec => []CommandRunsInItsMode
<1>1. ReqIInv => CommandRunsInItsMode
  BY DEF ReqIInv, IInv
<1>2. QED
  BY <1>1, RequestInvariant, PTL

\* A disabled SINC_RESET or SINC_REINIT stays disabled and without effect on
\* the mode, whatever CPU, firmware, faults and low-power resets do.
THEOREM CoreDisabledForGood ==
  ASSUME NO_SEED_LOADING PROVE Spec => DisablesAreFinal
<1>1. ReqIInv /\ [Next]_vars => [DisablesObeyed]_cmuVars
  <2> SUFFICES ASSUME ReqIInv, [Next]_vars, ~UNCHANGED cmuVars
               PROVE  DisablesObeyed
    OBVIOUS
  <2>1. CASE AnyCycle
    BY <2>1, CycleIsLinked, CycleObeysDisables DEF Linked, ReqIInv
  <2>2. CASE LpReset
    BY <2>2 DEF LpReset, CmuLpReset, retVars, DisablesObeyed
  <2>3. QED
    BY <2>1, <2>2 DEF Next, vars
<1>2. QED
  BY <1>1, RequestInvariant, PTL DEF Spec, DisablesAreFinal, DisablesObeyed

\* The core implements the abstract life cycle: neither the CPU's accesses and
\* block fetches nor erasures, faults and resets add a move of the mode.
THEOREM CoreImplementsLifecycle ==
  ASSUME NO_SEED_LOADING PROVE Spec => ImplementsLifecycle
<1>1. Init => LC!LcInit
  BY DEF Init, CmuInit, LC!LcInit
<1>2. ReqIInv /\ [Next]_vars => [LC!LcNext]_LC!lcVars
  <2> SUFFICES ASSUME ReqIInv, [Next]_vars
               PROVE  LC!LcNext \/ UNCHANGED LC!lcVars
    OBVIOUS
  <2>1. CASE AnyCycle
    BY <2>1, CycleIsLinked, CycleRefines
       DEF Linked, ReqIInv, LC!lcVars, LcOp, LcOps
  <2>2. CASE LpReset
    BY <2>2 DEF LpReset, SincActive, Idle, CmuLpReset, ClearedFlops, retVars,
                LC!lcVars
  <2>3. CASE UNCHANGED vars
    BY <2>3 DEF vars, cmuVars, retVars, fsmVars, LC!lcVars
  <2>4. QED
    BY <2>1, <2>2, <2>3 DEF Next
<1>3. QED
  BY <1>1, <1>2, RequestInvariant, PTL DEF Spec, ImplementsLifecycle, LC!LcSpec
=============================================================================
