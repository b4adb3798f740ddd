----------------------------- MODULE AuthProofs -----------------------------
(***************************************************************************)
(* Proofs about the data of the core, for every geometry: what the RAM     *)
(* holds, what a read gets and what an erase leaves.  Like the results on  *)
(* the requests in CoreProofs, they are about the core built without seed  *)
(* loading (NO_SEED_LOADING).                                              *)
(*                                                                         *)
(* The invariant grows in layers, each proved from the ones before it.     *)
(* CryptoIInv: what the crypto wrapper is doing for the CMU.  EraseIInv:   *)
(* how far the two erase walks are.  RamIInv: what the RAM holds, by mode. *)
(* AuthIInv: a tagged line holds its block.  The last part, StepIInv and   *)
(* EngineIInv, adds what holds only when no fault interrupts a command     *)
(* (Faults = {}).  With faults, what is said of tags and lines assumes that*)
(* no low-power reset stops a walk over the tags (LpSparesWalk).           *)
(***************************************************************************)
EXTENDS CoreProofs

-----------------------------------------------------------------------------
(* The signals of a cycle: in comes from outside, x is sampled by the       *)
(* crypto wrapper, m by the CMU and c by the CIU.                           *)

VtagStep(in, c) ==
  VtagCycle(VtagEraseStart(in), VtagComp(c), VtagUpd(c), ciu.addr, c.syncReset)
RamStep(in, x, c) ==
  RamCycle(RamAcc(in, x, c), c.ecc, EngnEraseStart, in.crErase)

Clocked(in, x, m, c) ==
  /\ CmuCycle(m) /\ CwCycle(x) /\ CiuCycle(c)
  /\ VtagStep(in, c) /\ RamStep(in, x, c) /\ rdOut' \in BOOLEAN

Outside(in) ==
  /\ in.stray[1] \in Sets /\ in.stray[2] \in Ways
  /\ in.crErase \in BOOLEAN
  /\ in.crErase => ~eraseWe
  /\ in.fault # "NONE" => in.fault \in Faults

CryptoSees(in, x, m) ==
  /\ x.cmd = CmuCtrlCmd(m) /\ x.severe = severeErr
  /\ x.eraseBusy = MemEraseBusy(in)
  /\ x.memWr => ~RamBusy
  /\ x.aesErr \in BOOLEAN /\ x.noBlocks \in BOOLEAN /\ x.good \in BOOLEAN

CmuSees(in, x, m) ==
  /\ InputOK(m)
  /\ m.fetchReq = ciu.fetchReq /\ m.fetchAddr = ciu.addr
  /\ m.ciuComp = (ciu.eraseBusy /\ engnDone)
  /\ m.cwComp = CwComp(x) /\ m.cwErr = CwErr(x) /\ m.cwSts = CwSts(x)
  /\ m.fault = (in.fault # "NONE")

CiuSees(in, m, c) ==
  /\ c.addr \in Blocks /\ c.mode = sincState /\ c.cmuBusy = CmuBusy(m)
  /\ c.fetchComp = FetchComp(m) /\ c.fetchErr = FetchErr(m)
  /\ c.eraseBusy = MemEraseBusy(in)
  /\ c.hit = CacheHit(ciu.addr)
  /\ c.hitWay = IF CacheHit(ciu.addr) THEN HitWay(ciu.addr) ELSE 0
  /\ c.mpuVio \in BOOLEAN
  /\ c.ecc => in.fault # "NONE"
  /\ c.engnDone = engnDone /\ c.syncReset = SyncCiuReset(m)

Wires(in, x, m, c) ==
  /\ Clocked(in, x, m, c) /\ Outside(in)
  /\ CryptoSees(in, x, m) /\ CmuSees(in, x, m) /\ CiuSees(in, m, c)

\* What the environment grants about the inputs of a cycle.
LEMMA OutsideInputs ==
  ASSUME AnyCycle
  PROVE  \E in : /\ CoreCycle(in) /\ in.addr \in Blocks
                 /\ in.fwWr \in CmdValues \cup {"NO_WRITE"}
                 /\ in.fwWr # "NO_WRITE" => NoWriteInFlight
                 /\ Outside(in)
                 /\ in.aesErr \in BOOLEAN /\ in.noBlocks \in BOOLEAN
                 /\ in.good \in BOOLEAN /\ in.mpuVio \in BOOLEAN
<1>1. \A acc \in CpuChoices : acc[2] \in Blocks
  BY ZeroIsThere DEF CpuChoices
<1>2. \A w \in {"NO_WRITE"} \cup (IF NoWriteInFlight THEN FwWrites ELSE {}) :
        /\ w \in CmdValues \cup {"NO_WRITE"}
        /\ w # "NO_WRITE" => NoWriteInFlight
  BY FwWritesAssumption
<1>3. \A f \in FaultChoices : f # "NONE" => f \in Faults
  BY DEF FaultChoices
<1>4. \A st \in IF ciu.sm = "WAIT" /\ ciu.memWrite /\ Filling
                THEN Sets \X Ways ELSE {<<0, 0>>} :
        st[1] \in Sets /\ st[2] \in Ways
  BY ZeroIsThere
<1>5. ASSUME NEW p PROVE \A b \in May(p) : b \in BOOLEAN /\ (b => p)
  BY DEF May
<1>6. PICK acc \in CpuChoices, ev \in EventChoices, memWr \in May(Filling),
           fault \in FaultChoices,
           fwWr \in {"NO_WRITE"} \cup (IF NoWriteInFlight THEN FwWrites ELSE {}),
           mpuVio \in May("MPU" \in Disturbances /\ ciu.mpuReq),
           crErase \in May("CR_ERASE" \in Disturbances /\ ~eraseWe),
           aesErr \in May("AES_ERR" \in Disturbances /\ cwState # "SINC_IDLE"),
           noBlocks \in May(cwState = "ENCR_BLOCK" /\ cwSub = 1 /\ encrCnt = 0),
           bad \in May("TAMPER" \in Disturbances /\ ciu.fetchReq),
           stray \in IF ciu.sm = "WAIT" /\ ciu.memWrite /\ Filling
                     THEN Sets \X Ways ELSE {<<0, 0>>} :
        CoreCycle([cpu |-> acc[1], addr |-> acc[2], ev |-> ev, memWr |-> memWr,
                   fault |-> fault, fwWr |-> fwWr, mpuVio |-> mpuVio,
                   crErase |-> crErase, aesErr |-> aesErr,
                   noBlocks |-> noBlocks, good |-> ~bad, stray |-> stray])
  BY DEF AnyCycle, Cycle
<1> DEFINE in == [cpu |-> acc[1], addr |-> acc[2], ev |-> ev, memWr |-> memWr,
                  fault |-> fault, fwWr |-> fwWr, mpuVio |-> mpuVio,
                  crErase |-> crErase, aesErr |-> aesErr,
                  noBlocks |-> noBlocks, good |-> ~bad, stray |-> stray]
<1>7. /\ in.addr = acc[2] /\ in.fwWr = fwWr /\ in.fault = fault
      /\ in.stray = stray /\ in.crErase = crErase /\ in.aesErr = aesErr
      /\ in.noBlocks = noBlocks /\ in.good = ~bad /\ in.mpuVio = mpuVio
  OBVIOUS
<1>8. CoreCycle(in)
  BY <1>6
<1> HIDE DEF in
<1>9. Outside(in)
  BY <1>3, <1>4, <1>5, <1>7 DEF Outside
<1>10. QED
  BY <1>1, <1>2, <1>5, <1>7, <1>8, <1>9

\* Every cycle of the core is wired so.
LEMMA CycleHasWires ==
  ASSUME ReqIInv, AnyCycle
  PROVE  \E in, x, m, c : Wires(in, x, m, c)
<1>1. PICK in : /\ CoreCycle(in) /\ in.addr \in Blocks
                /\ in.fwWr \in CmdValues \cup {"NO_WRITE"}
                /\ in.fwWr # "NO_WRITE" => NoWriteInFlight
                /\ Outside(in)
                /\ in.aesErr \in BOOLEAN /\ in.noBlocks \in BOOLEAN
                /\ in.good \in BOOLEAN /\ in.mpuVio \in BOOLEAN
  BY OutsideInputs
<1> DEFINE x == CwIn(in)
           m == CmuIn(in, x)
           c == CiuIn(in, m)
<1>2. Clocked(in, x, m, c)
  BY <1>1 DEF CoreCycle, Clocked, VtagStep, RamStep
<1>3. /\ m.fetchReq = ciu.fetchReq /\ m.fetchAddr = ciu.addr
      /\ m.seeded = aesSeeded /\ m.fault = (in.fault # "NONE")
      /\ m.fwWr = in.fwWr /\ m.fwRd = TRUE
      /\ m.ciuComp = (ciu.eraseBusy /\ engnDone)
      /\ m.cwComp = CwComp(x) /\ m.cwErr = CwErr(x) /\ m.cwSts = CwSts(x)
  BY DEF CmuIn, Fault, CiuResetCompleted
<1>4. /\ x.cmd = CmuCtrlCmd(CiuToCmu) /\ x.severe = severeErr
      /\ x.eraseBusy = MemEraseBusy(in) /\ (x.memWr => ~RamBusy)
      /\ x.aesErr = in.aesErr /\ x.noBlocks = in.noBlocks /\ x.good = in.good
  BY DEF CwIn
<1>5. /\ c.addr = in.addr /\ c.mode = sincState
      /\ c.cmuBusy = CmuBusy(CiuToCmu)
      /\ c.fetchComp = FetchComp(m) /\ c.fetchErr = FetchErr(m)
      /\ c.eraseBusy = MemEraseBusy(in)
      /\ c.hit = CacheHit(ciu.addr)
      /\ c.hitWay = (IF CacheHit(ciu.addr) THEN HitWay(ciu.addr) ELSE 0)
      /\ c.mpuVio = in.mpuVio /\ c.ecc = (in.fault = "ECC")
      /\ c.engnDone = engnDone /\ c.syncReset = SyncCiuReset(CiuToCmu)
  BY DEF CiuIn
<1>6. /\ m.ciuComp \in BOOLEAN /\ m.cwComp \in BOOLEAN /\ m.cwErr \in BOOLEAN
      /\ m.fault \in BOOLEAN
  BY <1>3 DEF CwComp, CwErr
<1> HIDE DEF x, m, c
<1>7. InputOK(m)
  BY <1>1, <1>3, <1>6 DEF InputOK, ReqIInv, CiuFlops, Unseeded,
     FetchRequestIsHeard
<1>8. /\ CmuBusy(CiuToCmu) = CmuBusy(m)
      /\ SyncCiuReset(CiuToCmu) = SyncCiuReset(m)
      /\ CmuCtrlCmd(CiuToCmu) = CmuCtrlCmd(m)
  <2>1. /\ CiuToCmu.fetchReq = m.fetchReq /\ CiuToCmu.seeded = m.seeded
    BY <1>3 DEF CiuToCmu
  <2>2. /\ Dispatch(CiuToCmu) = Dispatch(m) /\ Rejected(CiuToCmu) = Rejected(m)
        /\ RegCmdVld(CiuToCmu) = RegCmdVld(m)
    BY <2>1 DEF Dispatch, Rejected, FwCmd, RegCmdVld
  <2>3. QED
    BY <2>1, <2>2 DEF CmuBusy, SyncCiuReset, CmuSincReinit, CmuCtrlCmd
<1>9. Wires(in, x, m, c)
  BY <1>1, <1>2, <1>3, <1>4, <1>5, <1>7, <1>8
     DEF Wires, CryptoSees, CmuSees, CiuSees
<1>10. QED
  BY <1>9

-----------------------------------------------------------------------------
(* Types.                                                                   *)

\* Outside CACHE_ACTIVE a block number selects a way.
LEMMA WayGeometry == ASSUME NEW b \in Blocks PROVE WayOf(b) \in Ways
<1>1. b \in Nat
  BY BlocksAssumption
<1>2. b \div NSets \in Nat
  BY <1>1, GeometryAssumption
<1>3. QED
  BY <1>2, GeometryAssumption DEF WayOf, Ways

\* The CIU's flops keep their types.
LEMMA CiuTypeStep ==
  ASSUME CiuTypeOK, NEW c, c.addr \in Blocks, c.hitWay \in Ways, CiuCycle(c)
  PROVE  CiuTypeOK'
<1> DEFINE P == Pulse(c)
<1>1. P \in CiuType
  <2> DEFINE b == ciu.syncErase \/ (ciu.eraseBusy /\ ~CiuResetCompleted(c))
  <2>1. b \in BOOLEAN
    OBVIOUS
  <2>2. P = [ciu EXCEPT !.rdVld = FALSE, !.fetchReq = FALSE, !.rdErr = FALSE,
                        !.extVio = FALSE, !.mpuReq = FALSE, !.syncErase = FALSE,
                        !.eraseBusy = b]
    BY DEF Pulse, CiuTypeOK, CiuType
  <2> HIDE DEF b
  <2>3. QED
    BY <2>1, <2>2 DEF CiuTypeOK, CiuType
<1>2. AccAddr(c) \in Blocks /\ WayOf(ciu.addr) \in Ways /\ ciu \in CiuType
  BY WayGeometry DEF AccAddr, CiuTypeOK, CiuType
<1> HIDE DEF P
<1>3. CASE c.syncReset
  BY <1>3, ZeroIsThere DEF CiuCycle, CiuReset, CiuTypeOK, CiuType, CiuStates
<1>4. CASE ~c.syncReset
  <2> SUFFICES CiuNext(c) \in CiuType
    BY <1>4 DEF CiuCycle, CiuTypeOK
  <2>1. IdleRead(c) \in CiuType /\ IdleWrite(c) \in CiuType
    BY <1>1, <1>2 DEF IdleRead, IdleWrite, P, CiuType, CiuStates
  <2>2. IdleRefuse(c) \in CiuType /\ IdleActiveWrite(c) \in CiuType
    <3> DEFINE v == CpuAccessUponCacheFailed(c) \/ ciu.pendFail
               o == IF RefusedRead(c) THEN CpuReadUponEraseBusy(c)
                    ELSE CpuWriteUponEraseBusy(c)
    <3>1. v \in BOOLEAN /\ o \in BOOLEAN
      BY DEF CpuReadUponEraseBusy, CpuWriteUponEraseBusy
    <3>2. IdleRefuse(c) =
            [P EXCEPT !.sm = IF RefusedRead(c) THEN "MEM_READ" ELSE "MEM_WRITE",
                      !.busy = TRUE, !.extVio = v, !.otherErr = o,
                      !.pendRd = FALSE]
      BY DEF IdleRefuse, P
    <3> HIDE DEF v, o
    <3>3. IdleRefuse(c) \in CiuType
      BY <1>1, <3>1, <3>2 DEF CiuType, CiuStates
    <3>4. IdleActiveWrite(c) \in CiuType
      BY <1>1 DEF IdleActiveWrite, P, CiuType, CiuStates
    <3>5. QED
      BY <3>3, <3>4
  <2>3. CiuIdle(c) \in CiuType
    BY <1>1, <2>1, <2>2 DEF CiuIdle, P
  <2>4. CiuMemRead(c) \in CiuType
    <3> DEFINE v == AccVio(c)
    <3>1. v \in BOOLEAN
      BY DEF AccVio
    <3>2. [P EXCEPT !.sm = "WAIT", !.busy = FALSE, !.rdErr = v] \in CiuType
      <4> HIDE DEF v
      <4>1. QED
        BY <1>1, <3>1 DEF CiuType, CiuStates
    <3>3. [P EXCEPT !.sm = "WAIT", !.rdVld = ~Failed(c), !.sel = WayOf(ciu.addr)]
            \in CiuType
      BY <1>1, <1>2 DEF CiuType, CiuStates
    <3>4. /\ [P EXCEPT !.sm = "WAIT", !.rdErr = TRUE] \in CiuType
          /\ [P EXCEPT !.sm = "WAIT", !.busy = FALSE] \in CiuType
          /\ [P EXCEPT !.sm = "WAIT", !.rdVld = TRUE, !.sel = c.hitWay] \in CiuType
          /\ [P EXCEPT !.sm = "CACHE_MISS", !.fetchReq = TRUE, !.memWrite = TRUE]
               \in CiuType
      BY <1>1 DEF CiuType, CiuStates
    <3> HIDE DEF v
    <3>5. QED
      BY <3>2, <3>3, <3>4 DEF CiuMemRead, P, v
  <2>5. CiuWait(c) \in CiuType
    <3> DEFINE f == CpuAccessUponCacheFailed(c)
               r == P.pendRd \/ (c.cpu = "RD" /\ ~f)
               w == P.pendWr \/ c.cpu = "WR"
               a == IF c.cpu # "NONE" /\ ~f THEN c.addr ELSE P.addr
    <3>1. f \in BOOLEAN /\ r \in BOOLEAN /\ w \in BOOLEAN /\ a \in Blocks
      BY <1>1 DEF CiuType, CpuAccessUponCacheFailed
    <3>2. CiuWait(c) =
            [P EXCEPT !.sm = "IDLE", !.busy = FALSE, !.memWrite = FALSE,
                      !.otherErr = FALSE, !.pendRd = r, !.pendWr = w,
                      !.pendFail = f, !.addr = a]
      BY <1>1 DEF CiuWait, P, CiuType
    <3> HIDE DEF f, r, w, a
    <3>3. QED
      BY <1>1, <3>1, <3>2 DEF CiuType, CiuStates
  <2>6. CiuCacheMiss(c) \in CiuType /\ CiuRRead(c) \in CiuType
    BY <1>1 DEF CiuCacheMiss, CiuRRead, P, CiuType, CiuStates
  <2>7. CiuMemWrite(c) \in CiuType /\ CiuExtra(c) \in CiuType
    BY <1>1 DEF CiuMemWrite, CiuExtra, P, CiuType, CiuStates
  <2>8. ciu.sm \in CiuStates
    BY <1>2 DEF CiuType
  <2>9. QED
    BY <2>3, <2>4, <2>5, <2>6, <2>7, <2>8 DEF CiuNext, CiuStates
<1>5. QED
  BY <1>3, <1>4

\* The flops of the crypto wrapper keep their types.
LEMMA CwTypeStep ==
  ASSUME CwTypeOK, NEW x, CwCycle(x), x.good \in BOOLEAN
  PROVE  CwTypeOK'
<1> USE DEF CwTypeOK
<1>1. \A s \in CwStates, n \in 1 .. 5 :
        CwGoto(x, s, n) => cwState' \in CwStates /\ cwSub' \in 1 .. 5
  BY DEF CwGoto, CwStates
<1>2. \A k \in {"ZERO", "TEST", "BEK"} :
        KeyNext(x, k) => keyQ' \in {"ZERO", "TEST", "BEK"}
  BY DEF KeyNext
<1>3. ASSUME NEW b, AesErrNext(x, b) PROVE aesErrQ' \in BOOLEAN
  BY <1>3 DEF AesErrNext
<1>4. BlockWords \in Nat \ {0} /\ NumBlocks \in Nat \ {0}
  BY GeometryAssumption, NumBlocksAssumption
<1>5. "SINC_IDLE" \in CwStates
  BY DEF CwStates
<1>6. CASE CwIdle(x)
  <2>1. cwState' \in CwStates /\ cwSub' \in 1 .. 5
    BY <1>6 DEF CwIdle, CwGoto, CwStates
  <2>2. image' \in BOOLEAN /\ aesErrQ' \in BOOLEAN
    BY <1>6 DEF CwIdle, AesErrNext
  <2>3. keyQ' \in {"ZERO", "TEST", "BEK"}
    BY <1>2, <1>6 DEF CwIdle
  <2>4. cwBeats' \in 0 .. BlockWords /\ encrCnt' \in 0 .. NumBlocks - 1
    BY <1>4, <1>6 DEF CwIdle
  <2>5. QED
    BY <1>6, <2>1, <2>2, <2>3, <2>4 DEF CwIdle
<1>7. CASE CwSetInit(x)
  <2>1. cwState' \in CwStates /\ cwSub' \in 1 .. 5
    BY <1>1, <1>5, <1>7 DEF CwSetInit
  <2>2. QED
    BY <1>2, <1>3, <1>7, <2>1 DEF CwSetInit
<1>8. CASE CwEncrBlock(x)
  <2>1. (cwSub % 3) + 1 \in 1 .. 5 /\ (encrCnt + 1) % NumBlocks \in 0 .. NumBlocks - 1
    BY <1>4
  <2>2. cwState' \in CwStates /\ cwSub' \in 1 .. 5
    BY <1>1, <1>5, <1>8, <2>1 DEF CwEncrBlock
  <2>3. QED
    BY <1>2, <1>3, <1>8, <2>1, <2>2 DEF CwEncrBlock
<1>9. CASE CwFetchBlock(x)
  <2>1. cwState' \in CwStates /\ cwSub' \in 1 .. 5
    BY <1>1, <1>5, <1>9 DEF CwFetchBlock
  <2>2. cwBeats' \in 0 .. BlockWords
    BY <1>4, <1>9 DEF CwFetchBlock, CmuMemWr
  <2>3. QED
    BY <1>2, <1>3, <1>9, <2>1, <2>2 DEF CwFetchBlock
<1>10. CASE CwSincReset(x) \/ CwSincReinit(x)
  BY <1>1, <1>2, <1>3, <1>5, <1>10 DEF CwSincReset, CwSincReinit
<1>11. CASE CwAesTest(x)
  <2>1. cwState' \in CwStates /\ cwSub' \in 1 .. 5
    BY <1>1, <1>5, <1>11 DEF CwAesTest
  <2>2. QED
    BY <1>2, <1>3, <1>11, <2>1 DEF CwAesTest
<1>12. CASE CwAesSeed(x)
  <2>1. cwState' \in CwStates /\ cwSub' \in 1 .. 5
    BY <1>1, <1>5, <1>12 DEF CwAesSeed
  <2>2. QED
    BY <1>2, <1>3, <1>12, <2>1 DEF CwAesSeed
<1>13. QED
  BY <1>6, <1>7, <1>8, <1>9, <1>10, <1>11, <1>12 DEF CwCycle

\* What a line of the RAM can hold, and an access the RAM can see.
LineData == Blocks \cup {Unverified, NoData}
Access ==
  {NoAccess} \cup {Read(s) : s \in Sets}
    \cup [op : {"WR"}, set : Sets, way : Ways, val : LineData]

\* The words of the RAM: an erase passes over at least two.
LEMMA RamGeometry ==
  /\ EraseEndAddr \in Nat /\ EraseEndAddr >= 1
  /\ BlockWords \in Nat \ {0}
<1>1. NSets * BlockWords \in Nat /\ NSets * BlockWords >= 2
  BY GeometryAssumption
<1>2. QED
  BY <1>1, GeometryAssumption DEF EraseEndAddr

\* The access of a cycle is one of the RAM's.
LEMMA AccessType ==
  ASSUME CiuTypeOK, VtagTypeOK, ciuAddrQ \in Blocks,
         NEW in, NEW x, NEW c, c.addr \in Blocks,
         in.stray[1] \in Sets, in.stray[2] \in Ways
  PROVE  RamAcc(in, x, c) \in Access
<1>1. /\ ciu.addr \in Blocks /\ SetOf(ciu.addr) \in Sets
      /\ SetOf(ciuAddrQ) \in Sets /\ SetOf(c.addr) \in Sets
  BY BlockGeometry DEF CiuTypeOK, CiuType
<1>2. WayOf(ciu.addr) \in Ways
  BY <1>1, WayGeometry
<1>3. fifoSta[SetOf(ciu.addr)] \in Ways
  BY <1>1 DEF VtagTypeOK
<1>4. SetOf(ReadRow(c)) \in Sets
  BY <1>1 DEF ReadRow, AccAddr
<1>5. \A s \in Sets, w \in Ways, v \in LineData : Write(s, w, v) \in Access
  BY DEF Write, Access
<1>6. /\ NoData \in LineData /\ Unverified \in LineData
      /\ ciuAddrQ \in LineData
  BY DEF LineData
<1>7. \A s \in Sets : Read(s) \in Access
  BY DEF Access
<1>8. NoAccess \in Access
  BY DEF Access
<1>9. QED
  BY <1>1, <1>2, <1>3, <1>4, <1>5, <1>6, <1>7, <1>8 DEF RamAcc

\* The RAM keeps its type.
LEMMA RamTypeStep ==
  ASSUME RamTypeOK, NEW in, NEW x, NEW c, RamAcc(in, x, c) \in Access,
         RamStep(in, x, c), in.crErase \in BOOLEAN
  PROVE  RamTypeOK'
<1> DEFINE acc == RamAcc(in, x, c)
<1>0. acc \in Access /\ RamAccess(acc, c.ecc) /\ EraseFsm(EngnEraseStart, in.crErase)
  BY DEF RamStep, RamCycle
<1> HIDE DEF acc
<1> DEFINE Rows  == [Ways -> LineData]
           Stage == {NoAccess} \cup [op : {"RD"}, row : Rows]
                      \cup [op : {"WR"}, set : Sets, way : Ways, val : LineData]
<1>1. /\ mem \in [Sets -> Rows] /\ ramP1 \in Stage /\ ramP2 \in Stage
      /\ eraseWe \in BOOLEAN /\ eraseAddr \in 0 .. EraseEndAddr
      /\ fullErase \in BOOLEAN /\ engnDone \in BOOLEAN
  BY DEF RamTypeOK, LineData
<1>2. EmptyRow \in Rows
  BY DEF EmptyRow, LineData
<1>3. mem' \in [Sets -> Rows]
  <2>1. EraseWord \in [Sets -> Rows]
    BY <1>1, <1>2 DEF EraseWord
  <2>2. ramP2.op = "WR" => [mem EXCEPT ![ramP2.set][ramP2.way] = ramP2.val]
                             \in [Sets -> Rows]
    <3> SUFFICES ASSUME ramP2.op = "WR"
                 PROVE  [mem EXCEPT ![ramP2.set][ramP2.way] = ramP2.val]
                          \in [Sets -> Rows]
      OBVIOUS
    <3>1. /\ ramP2.set \in Sets /\ ramP2.way \in Ways
          /\ ramP2.val \in LineData
      BY <1>1 DEF NoAccess
    <3>2. QED
      BY <1>1, <3>1
  <2>3. QED
    BY <1>0, <1>1, <2>1, <2>2 DEF RamAccess
<1>4. ramP1' \in Stage
  <2>1. CASE ~QualifiedEn
    BY <1>0, <2>1 DEF RamAccess
  <2>2. CASE QualifiedEn /\ acc.op = "RD"
    <3>1. PICK s \in Sets : acc = Read(s)
      BY <1>0, <2>2 DEF Access, NoAccess
    <3>2. mem[acc.set] \in Rows
      BY <1>1, <3>1 DEF Read
    <3>3. ramP1' = [op |-> "RD", row |-> mem[acc.set]]
      BY <1>0, <2>2 DEF RamAccess
    <3>4. QED
      BY <3>2, <3>3
  <2>3. CASE QualifiedEn /\ acc.op # "RD"
    <3>1. acc \in Stage
      BY <1>0, <2>3 DEF Access, Read
    <3>2. ramP1' = acc
      BY <1>0, <2>3 DEF RamAccess
    <3>3. QED
      BY <3>1, <3>2
  <2>4. QED
    BY <2>1, <2>2, <2>3
<1>5. ramP2' \in Stage
  BY <1>0, <1>1 DEF RamAccess
<1>6. eraseWe' \in BOOLEAN /\ fullErase' \in BOOLEAN /\ engnDone' \in BOOLEAN
  BY <1>0, <1>1 DEF EraseFsm, EngnEraseStart
<1>7. eraseAddr' \in 0 .. EraseEndAddr
  BY <1>0, <1>1, RamGeometry DEF EraseFsm, EraseLast
<1>8. QED
  BY <1>3, <1>4, <1>5, <1>6, <1>7 DEF RamTypeOK, LineData

\* A hit names a way, whose tag is that of the block looked up.
LEMMA HitIsTagged ==
  ASSUME NEW b, CacheHit(b)
  PROVE  HitWay(b) \in Ways /\ vtag[SetOf(b)][HitWay(b)] = b
<1>1. BlockHit(b) # {}
  BY FS_EmptySet DEF CacheHit
<1>2. \E w \in Ways : w \in BlockHit(b)
  BY <1>1 DEF BlockHit
<1>3. HitWay(b) \in Ways /\ HitWay(b) \in BlockHit(b)
  BY <1>2 DEF HitWay
<1>4. QED
  BY <1>3 DEF BlockHit

-----------------------------------------------------------------------------
(* The invariants the data rests on, known from CoreProofs, and the type    *)
(* invariant.                                                               *)

\* The type invariant, one cycle.
LEMMA TypeStep ==
  ASSUME TypeOK, ReqIInv', TagIInv', NEW in, NEW x, NEW m, NEW c,
         Wires(in, x, m, c)
  PROVE  TypeOK'
<1> USE DEF TypeOK
<1>1. CmuTypeOK' /\ VtagTypeOK'
  BY DEF ReqIInv, IInv, TagIInv
<1>2. c.hitWay \in Ways
  BY HitIsTagged, ZeroIsThere DEF Wires, CiuSees
<1>3. CiuTypeOK'
  BY <1>2, CiuTypeStep DEF Wires, CiuSees, Clocked
<1>4. CwTypeOK'
  BY CwTypeStep DEF Wires, CryptoSees, Clocked
<1>5. RamAcc(in, x, c) \in Access
  BY AccessType DEF Wires, CiuSees, Outside, CmuTypeOK
<1>6. RamTypeOK'
  BY <1>5, RamTypeStep DEF Wires, Outside, Clocked
<1>7. QED
  BY <1>1, <1>3, <1>4, <1>6 DEF Wires, Clocked

\* The type invariant, a low-power reset.
LEMMA TypeLpReset ==
  ASSUME TypeOK, ReqIInv', TagIInv', LpReset
  PROVE  TypeOK'
<1>1. CmuTypeOK' /\ VtagTypeOK'
  BY DEF ReqIInv, IInv, TagIInv
<1>2. CiuTypeOK'
  BY ZeroIsThere DEF LpReset, CiuLpReset, CiuReset, CiuTypeOK, CiuType,
     CiuStates
<1>3. CwTypeOK'
  <2>1. 0 \in 0 .. BlockWords /\ 0 \in 0 .. NumBlocks - 1 /\ 1 \in 1 .. 5
    BY GeometryAssumption, NumBlocksAssumption
  <2>2. cwState' \in CwStates /\ aesSeeded' \in BOOLEAN
    BY SeedAssumption DEF LpReset, CwLpReset, CwStates
  <2>3. QED
    BY <2>1, <2>2 DEF LpReset, CwLpReset, CwTypeOK, TypeOK
<1>4. RamTypeOK'
  <2>1. 0 \in 0 .. EraseEndAddr
    BY RamGeometry
  <2>2. QED
    BY <2>1 DEF LpReset, RamLpReset, RamTypeOK, TypeOK
<1>5. QED
  BY <1>1, <1>2, <1>3, <1>4 DEF TypeOK, LpReset

\* After reset every flop has its type.
LEMMA TypeInit == ASSUME NO_SEED_LOADING, Init PROVE TypeOK
<1>1. CmuTypeOK /\ VtagTypeOK
  BY ReqInit, TagInit DEF ReqIInv, IInv, TagIInv
<1>2. CiuTypeOK
  BY ZeroIsThere DEF Init, CiuInit, CiuReset, CiuTypeOK, CiuType, CiuStates
<1>3. CwTypeOK
  <2>1. 0 \in 0 .. BlockWords /\ 0 \in 0 .. NumBlocks - 1 /\ 1 \in 1 .. 5
    BY GeometryAssumption, NumBlocksAssumption
  <2>2. cwState \in CwStates /\ aesSeeded \in BOOLEAN
    BY SeedAssumption DEF Init, CwInit, CwStates
  <2>3. QED
    BY <2>1, <2>2 DEF Init, CwInit, CwTypeOK
<1>4. RamTypeOK
  <2>1. 0 \in 0 .. EraseEndAddr
    BY RamGeometry
  <2>2. mem \in [Sets -> [Ways -> Blocks \cup {Unverified, NoData}]]
    BY DEF Init, RamInit, EmptyRow
  <2>3. QED
    BY <2>1, <2>2 DEF Init, RamInit, RamTypeOK
<1>5. QED
  BY <1>1, <1>2, <1>3, <1>4 DEF TypeOK, Init

\* Every flop of the five blocks and every line of the arrays holds a value of
\* its type, with every command, access, fault and disturbance allowed: no
\* address, beat count or erase walk leaves its range.
THEOREM CoreTypes == ASSUME NO_SEED_LOADING PROVE Spec => []TypeOK
<1>1. Init => TypeOK
  BY TypeInit
<1>2. TypeOK /\ ReqIInv /\ ReqIInv' /\ TagIInv' /\ [Next]_vars => TypeOK'
  <2> SUFFICES ASSUME TypeOK, ReqIInv, ReqIInv', TagIInv', [Next]_vars
               PROVE  TypeOK'
    OBVIOUS
  <2>1. CASE AnyCycle
    BY <2>1, CycleHasWires, TypeStep
  <2>2. CASE LpReset
    BY <2>2, TypeLpReset
  <2>3. CASE UNCHANGED vars
    BY <2>3 DEF vars, cmuVars, retVars, fsmVars, regVars, cwVars, vtagVars,
       ramVars, TypeOK, CmuTypeOK, CwTypeOK, CiuTypeOK, VtagTypeOK, RamTypeOK
  <2>4. QED
    BY <2>1, <2>2, <2>3 DEF Next
<1>3. QED
  BY <1>1, <1>2, RequestInvariant, TagInvariant, PTL DEF Spec

\* What every later step may use, before and after it.
Base == ReqIInv /\ TagIInv /\ TypeOK

\* The three invariants together.
THEOREM BaseInvariant == ASSUME NO_SEED_LOADING PROVE Spec => []Base
<1>1. ReqIInv /\ TagIInv /\ TypeOK => Base
  BY DEF Base
<1>2. QED
  BY <1>1, RequestInvariant, TagInvariant, CoreTypes, PTL

-----------------------------------------------------------------------------
(* The CMU and the crypto wrapper: where a command is, and its key.         *)

\* The commands the CMU hands to the crypto wrapper and waits for; an AES test
\* also takes the commands firmware writes meanwhile.
Shared == CwStates \ {"SINC_IDLE", "AES_TEST"}
Cleaning == {"SINC_RESET", "SINC_REINIT"}

\* Reads of the active cache are being served.
Serving == sincState = "CACHE_ACTIVE" /\ ~severeErr

\* A hardware fault fails the cache, and only SINC_RESET forgets it.
FaultSticks == hwFaultQ => sincState = "CACHE_FAILED" \/ severeErr

\* The crypto wrapper works only on what the CMU waits for.
CwAtWork ==
  cwState # "SINC_IDLE" /\ ~severeErr
    => cmuState = cwState \/ cmuState = "AES_TEST"
CwNowhereElse == cmuState \in Shared => cwState \in {cmuState, "SINC_IDLE"}

\* In the active cache a fetch is tracked and worked on.
FetchIsOn ==
  cmuState = "FETCH_BLOCK" /\ Serving => fetchTrk /\ cwState = "FETCH_BLOCK"

CryptoIInv ==
  FaultSticks /\ CwAtWork /\ CwNowhereElse /\ FetchIsOn /\ KeyIsLoaded

\* The moves of the control FSM, in full.
LEMMA StateMoves ==
  ASSUME NEW m, InputOK(m), CmuTypeOK, ControlFsm(m)
  PROVE  /\ m.fault => cmuState' = "SINC_IDLE"
         /\ ~m.fault /\ Idle => cmuState' = Dispatch(m)
         /\ ~m.fault /\ cmuState \in (Shared \ Cleaning) \cup {"AES_TEST"}
              => cmuState' = IF m.cwComp THEN "SINC_IDLE" ELSE cmuState
         /\ ~m.fault /\ cmuState \in Cleaning
              => cmuState' = IF BothAcks THEN "SINC_IDLE" ELSE cmuState
         /\ cmuState \notin Shared \cup {"SINC_IDLE", "AES_TEST"}
              => cmuState' = "SINC_IDLE"
<1> USE DEF Goto, Shared, Cleaning, CwStates, Idle
<1>1. CASE SincIdle(m)
  BY <1>1 DEF SincIdle
<1>2. CASE FetchBlock(m) \/ SetInit(m) \/ EncrBlock(m) \/ AesTest(m) \/ AesSeed(m)
  BY <1>2 DEF FetchBlock, SetInit, EncrBlock, AesTest, AesSeed
<1>3. CASE SincReset(m) \/ SincReinit(m)
  BY <1>3 DEF SincReset, SincReinit
<1>4. CASE SetCacheActive(m) \/ DisReset(m) \/ DisReinit(m)
  BY <1>4 DEF SetCacheActive, DisReset, DisReinit
<1>5. QED
  BY <1>1, <1>2, <1>3, <1>4 DEF ControlFsm

\* The moves of the mode, each with the command that makes it.
LEMMA ModeMoves ==
  ASSUME NEW m, CmuTypeOK, ControlFsm(m)
  PROVE  /\ severeErr => sincState' = "CACHE_FAILED"
         /\ ~severeErr =>
              \/ sincState' = sincState /\ ~(cmuState = "SINC_RESET" /\ BothAcks)
              \/ /\ cmuState = "SET_INIT" /\ m.cwComp /\ ~m.cwErr
                 /\ sincState' = "INITIALIZATION" /\ sincState # "CACHE_FAILED"
              \/ /\ cmuState = "SET_CACHE_ACTIVE"
                 /\ sincState' = "CACHE_ACTIVE" /\ sincState = "INITIALIZATION"
              \/ /\ cmuState = "SINC_RESET" /\ BothAcks
                 /\ sincState' = "DISABLED"
              \/ /\ cmuState = "SINC_REINIT" /\ BothAcks
                 /\ sincState' = "INITIALIZATION" /\ sincState # "CACHE_FAILED"
<1> USE DEF CmuTypeOK, Modes, RequestMode, ModeRequests, KeepMode
<1>1. KeepMode => IF severeErr THEN sincState' = "CACHE_FAILED"
                  ELSE sincState' = sincState
  OBVIOUS
<1>2. CASE SincIdle(m) \/ FetchBlock(m) \/ EncrBlock(m) \/ AesTest(m)
             \/ AesSeed(m) \/ DisReset(m) \/ DisReinit(m)
  BY <1>1, <1>2 DEF SincIdle, FetchBlock, EncrBlock, AesTest, AesSeed,
     DisReset, DisReinit, Idle
<1>3. CASE SetInit(m)
  BY <1>1, <1>3 DEF SetInit
<1>4. CASE SetCacheActive(m)
  BY <1>4 DEF SetCacheActive
<1>5. CASE SincReset(m)
  BY <1>1, <1>5 DEF SincReset
<1>6. CASE SincReinit(m)
  BY <1>1, <1>6 DEF SincReinit
<1>7. QED
  BY <1>2, <1>3, <1>4, <1>5, <1>6 DEF ControlFsm

\* The acknowledgements of a clean-up are collected while it runs, and cleared
\* before the next.
LEMMA AckMoves ==
  ASSUME NEW m, CmuTypeOK, ControlFsm(m)
  PROVE  /\ Idle => ~cWrapCompQ' /\ ~ciuCompQ'
         /\ cmuState \in Cleaning => CollectAcks(m)
         /\ ~Idle /\ cmuState \notin Cleaning =>
              cWrapCompQ' = cWrapCompQ /\ ciuCompQ' = ciuCompQ
BY DEF ControlFsm, SincIdle, FetchBlock, SetInit, SetCacheActive, SincReset,
   SincReinit, EncrBlock, DisReset, DisReinit, AesTest, AesSeed, Idle, Cleaning

\* The moves of the crypto wrapper.
LEMMA CwMoves ==
  ASSUME NEW x, CwTypeOK, CwCycle(x)
  PROVE  /\ x.severe => cwState' = "SINC_IDLE" /\ keyQ' = "ZERO"
         /\ cwState = "SINC_IDLE" => /\ cwState' \in {x.cmd, "SINC_IDLE"}
                                     /\ ~CwErr(x)
         /\ cwState # "SINC_IDLE" =>
              cwState' \in {"SINC_IDLE", cwState} /\ (CwComp(x) => cwState' = "SINC_IDLE")
         /\ ~x.severe /\ cwState = "SINC_IDLE" /\ x.cmd = "FETCH_BLOCK" =>
              cwState' = "FETCH_BLOCK" /\ cwSub' = 1 /\ cwBeats' = 0
<1> USE DEF CwGoto, KeyNext
<1>1. CASE CwIdle(x)
  BY <1>1 DEF CwIdle, CwErr, CwSts, CwStates
<1>2. CASE CwSetInit(x)
  BY <1>2 DEF CwSetInit
<1>3. CASE CwEncrBlock(x)
  BY <1>3 DEF CwEncrBlock
<1>4. CASE CwFetchBlock(x)
  BY <1>4 DEF CwFetchBlock
<1>5. CASE CwSincReset(x) \/ CwSincReinit(x)
  BY <1>5 DEF CwSincReset, CwSincReinit
<1>6. CASE CwAesTest(x)
  BY <1>6 DEF CwAesTest
<1>7. CASE CwAesSeed(x)
  BY <1>7 DEF CwAesSeed
<1>8. QED
  BY <1>1, <1>2, <1>3, <1>4, <1>5, <1>6, <1>7 DEF CwCycle

\* What the FSM presents to the crypto wrapper.
LEMMA CommandPresented ==
  ASSUME NEW m, InputOK(m), CmuTypeOK
  PROVE  /\ ~Idle /\ cmuState # "AES_TEST" => CmuCtrlCmd(m) = "NO_CMD"
         /\ Idle => CmuCtrlCmd(m) \in {Dispatch(m), "NO_CMD"}
         /\ Idle /\ Dispatch(m) \in Shared => CmuCtrlCmd(m) = Dispatch(m)
         /\ cmuState = "AES_TEST" => CmuCtrlCmd(m) \in CmdValues \cup {"NO_CMD"}
BY DEF CmuCtrlCmd, Shared, CwStates, CmuTypeOK, Idle

\* The outcome of a fetch the CMU waits for.  An error is always severe; a
\* success means that the tag check has passed, and that no erase is going on.
LEMMA FetchOutcome ==
  ASSUME Base, CwNowhereElse, NEW in, NEW x, NEW m, NEW c, Wires(in, x, m, c),
         cmuState = "FETCH_BLOCK"
  PROVE  /\ CwErr(x) => severeErr' /\ cwState = "FETCH_BLOCK"
         /\ CwComp(x) /\ ~CwErr(x) => cwState = "FETCH_BLOCK" /\ cwSub = 4 /\ image
         /\ cwState = "FETCH_BLOCK" /\ ~CwErr(x) => ~aesErrQ /\ ~MemEraseBusy(in)
         /\ CwErr(x) => CwComp(x)
<1>1. cwState \in {"FETCH_BLOCK", "SINC_IDLE"}
  BY DEF CwNowhereElse, Shared, CwStates
<1>2. x.cmd = "NO_CMD"
  BY CommandPresented DEF Wires, CryptoSees, CmuSees, Base, TypeOK, Idle
<1>3. CASE cwState = "SINC_IDLE"
  BY <1>2, <1>3 DEF CwErr, CwSts, CwComp
<1>4. CASE cwState = "FETCH_BLOCK"
  <2>1. CwSts(x) = FetchErrSts(x)
    BY <1>4 DEF CwSts
  <2>2. /\ FetchErrSts(x) \in SevereSts \cup {"NONE"}
        /\ FetchErrSts(x) = "NONE" => ~aesErrQ /\ ~x.eraseBusy
        /\ FetchErrSts(x) = "NONE" /\ cwSub = 4 /\ x.ev = "OK" => image
    BY DEF FetchErrSts, SevereSts, TagPass
  <2>3. CwErr(x) => severeErr'
    <3> SUFFICES ASSUME CwErr(x) PROVE severeErr'
      OBVIOUS
    <3>1. CwSts(x) \in SevereSts /\ CwSts(x) # "NONE"
      BY <2>1, <2>2 DEF CwErr
    <3>2. ~Starting(m) /\ ~Rejected(m) /\ ~FwCmdSuc(m)
      BY DEF Starting, Rejected, FwCmdSuc, Idle
    <3>3. StsOut(m) = {CwSts(x)}
      BY <3>1, <3>2 DEF StsOut, Wires, CmuSees
    <3>4. QED
      BY <3>1, <3>3 DEF Wires, Clocked, CmuCycle, ErrorFlops, SevereErrDin
  <2>4. CwComp(x) /\ ~CwErr(x) => cwSub = 4 /\ x.ev = "OK"
    BY <1>4 DEF CwComp
  <2>5. QED
    BY <1>4, <2>1, <2>2, <2>3, <2>4 DEF CwErr, CwComp, Wires, CryptoSees
<1>5. QED
  BY <1>1, <1>3, <1>4

\* One cycle.
LEMMA CryptoStep ==
  ASSUME NO_SEED_LOADING, Base, CryptoIInv, NEW in, NEW x, NEW m, NEW c,
         Wires(in, x, m, c)
  PROVE  CryptoIInv'
<1> USE DEF CryptoIInv
<1>0. /\ CmuTypeOK /\ CwTypeOK /\ ControlFsm(m) /\ FetchTracker(m)
      /\ ErrorFlops(m) /\ InputOK(m) /\ CwCycle(x) /\ x.severe = severeErr
      /\ x.cmd = CmuCtrlCmd(m) /\ m.cwComp = CwComp(x) /\ m.cwErr = CwErr(x)
      /\ m.fetchReq = ciu.fetchReq
  BY DEF Base, TypeOK, Wires, Clocked, CmuCycle, CmuSees, CryptoSees
<1>1. m.fault => severeErr'
  BY <1>0 DEF ErrorFlops, SevereErrDin
<1>2. FaultSticks'
  <2> SUFFICES ASSUME hwFaultQ' PROVE sincState' = "CACHE_FAILED" \/ severeErr'
    BY DEF FaultSticks
  <2>1. cmuState # "SINC_RESET" /\ (m.fault \/ hwFaultQ)
    BY <1>0 DEF ErrorFlops
  <2>2. CASE m.fault
    BY <1>1, <2>2
  <2>3. CASE hwFaultQ
    BY <1>0, <2>1, <2>3, ModeMoves, ModeGranted DEF FaultSticks
  <2>4. QED
    BY <2>1, <2>2, <2>3
<1>3. CwAtWork'
  <2> SUFFICES ASSUME cwState' # "SINC_IDLE", ~severeErr'
               PROVE  cmuState' = cwState' \/ cmuState' = "AES_TEST"
    BY DEF CwAtWork
  <2>1. ~severeErr /\ ~m.fault
    BY <1>0, <1>1, CwMoves
  <2>2. CASE cwState = "SINC_IDLE"
    <3>1. cwState' = CmuCtrlCmd(m) /\ cwState' \in CwStates /\ ~CwErr(x)
      BY <1>0, <2>2, CwMoves, CwTypeStep DEF Wires, CryptoSees, CwTypeOK
    <3>2. CmuCtrlCmd(m) # "NO_CMD"
      BY <3>1 DEF CwStates
    <3>3. CASE Idle
      BY <1>0, <2>1, <3>1, <3>2, <3>3, CommandPresented, StateMoves
    <3>4. CASE cmuState = "AES_TEST"
      <4>1. ~CwComp(x)
        BY <1>0, <2>2, <3>1, <3>4, CommandPresented
           DEF CwComp, CmdValues, FwCmds
      <4>2. QED
        BY <1>0, <2>1, <3>4, <4>1, StateMoves
    <3>5. QED
      BY <1>0, <3>2, <3>3, <3>4, CommandPresented
  <2>3. CASE cwState # "SINC_IDLE"
    <3>1. cwState' = cwState /\ ~CwComp(x)
      BY <1>0, <2>3, CwMoves
    <3>2. cwState \notin Cleaning /\ cwState \in CwStates
      BY <1>0, <3>1 DEF CwComp, Cleaning, CwTypeOK
    <3>3. cmuState \in {cwState, "AES_TEST"}
      BY <2>1, <2>3 DEF CwAtWork
    <3>4. cmuState \in (Shared \ Cleaning) \cup {"AES_TEST"}
      BY <2>3, <3>2, <3>3 DEF Shared
    <3>5. QED
      BY <1>0, <2>1, <3>1, <3>3, <3>4, StateMoves
  <2>4. QED
    BY <2>2, <2>3
<1>4. CwNowhereElse'
  <2> SUFFICES ASSUME cmuState' \in Shared
               PROVE  cwState' \in {cmuState', "SINC_IDLE"}
    BY DEF CwNowhereElse
  <2>1. CASE Idle
    <3>1. cmuState' = Dispatch(m) /\ x.cmd = Dispatch(m)
      BY <1>0, <2>1, StateMoves, CommandPresented DEF Shared, InputOK
    <3>2. cwState # "SINC_IDLE" => severeErr
      BY <2>1 DEF CwAtWork, Idle
    <3>3. QED
      BY <1>0, <3>1, <3>2, CwMoves
  <2>2. CASE ~Idle
    <3>1. cmuState' = cmuState /\ cmuState \in Shared
      BY <1>0, <2>2, ControlMoves DEF Shared, Idle
    <3>2. x.cmd = "NO_CMD" /\ cwState \in {cmuState, "SINC_IDLE"}
      BY <1>0, <2>2, <3>1, CommandPresented DEF CwNowhereElse, Shared
    <3>3. cwState' \in CwStates
      BY <1>0, CwTypeStep DEF Wires, CryptoSees, CwTypeOK
    <3>4. QED
      BY <1>0, <3>1, <3>2, <3>3, CwMoves DEF CwStates
  <2>3. QED
    BY <2>1, <2>2
<1>5. FetchIsOn'
  <2> SUFFICES ASSUME cmuState' = "FETCH_BLOCK", sincState' = "CACHE_ACTIVE",
                      ~severeErr'
               PROVE  fetchTrk' /\ cwState' = "FETCH_BLOCK"
    BY DEF FetchIsOn, Serving
  <2>1. ~m.fault /\ ~severeErr
    BY <1>0, <1>1, ModeMoves
  <2>2. CASE Idle
    <3>1. Dispatch(m) = "FETCH_BLOCK"
      BY <1>0, <2>1, <2>2, StateMoves
    <3>2. m.fetchReq /\ ~fetchTrk
      BY <1>0, <3>1 DEF Dispatch, Base, ReqIInv, Unseeded, InputOK,
         FetchAllowed
    <3>3. x.cmd = "FETCH_BLOCK" /\ cwState = "SINC_IDLE"
      BY <1>0, <2>1, <2>2, <3>1, CommandPresented
         DEF Shared, CwStates, CwAtWork, Idle
    <3>4. QED
      BY <1>0, <2>1, <3>2, <3>3, CwMoves DEF FetchTracker
  <2>3. CASE ~Idle
    <3>1. cmuState = "FETCH_BLOCK" /\ ~CwComp(x)
      BY <1>0, <2>1, <2>3, ControlMoves, StateMoves
         DEF Idle, Shared, CwStates, Cleaning
    <3>2. sincState = "CACHE_ACTIVE"
      BY <1>0, <2>1, <3>1, ModeMoves
    <3>3. fetchTrk /\ cwState = "FETCH_BLOCK" /\ ~hwFaultQ
      BY <2>1, <3>1, <3>2 DEF FetchIsOn, Serving, FaultSticks
    <3>4. fetchTrk'
      BY <1>0, <2>1, <3>1, <3>3 DEF FetchTracker, FetchComp
    <3>5. cwState' = "FETCH_BLOCK"
      BY <1>0, <2>1, <3>1, <3>3 DEF CwCycle, CwFetchBlock, CwGoto, CwIdle,
         CwSetInit, CwEncrBlock, CwSincReset, CwSincReinit, CwAesTest,
         CwAesSeed
    <3>6. QED
      BY <3>4, <3>5
  <2>4. QED
    BY <2>2, <2>3
<1>6. KeyIsLoaded'
  <2> SUFFICES ASSUME sincState' \in {"INITIALIZATION", "CACHE_ACTIVE"},
                      ~severeErr', cmuState' # "SINC_RESET"
               PROVE  keyQ' = "BEK"
    BY DEF KeyIsLoaded
  <2>1. ~m.fault /\ ~severeErr
    BY <1>0, <1>1, ModeMoves
  <2>2. sincState \in ModesOf(cmuState) \cup {"CACHE_FAILED"}
    BY DEF Base, ReqIInv, IInv, CommandRunsInItsMode
  <2>3. CASE sincState' = sincState
    <3>1. cmuState # "SINC_RESET"
      BY <1>0, <2>1, <2>3, StateMoves, ModeMoves DEF Cleaning
    <3>2. keyQ = "BEK"
      BY <2>1, <2>3, <3>1 DEF KeyIsLoaded
    <3>3. cmuState # "AES_TEST"
      BY <2>2, <2>3 DEF ModesOf
    <3>4. cwState \notin {"SINC_RESET", "AES_TEST"}
      BY <2>1, <3>1, <3>3 DEF CwAtWork
    <3>5. QED
      BY <1>0, <2>1, <3>2, <3>4 DEF CwCycle, KeyNext, CwIdle, CwSetInit,
         CwEncrBlock, CwFetchBlock, CwSincReset, CwSincReinit, CwAesTest,
         CwAesSeed
  <2>4. CASE cmuState = "SET_INIT" /\ CwComp(x) /\ ~CwErr(x)
    <3>1. x.cmd = "NO_CMD" /\ cwState \in {"SET_INIT", "SINC_IDLE"}
      BY <1>0, <2>4, CommandPresented DEF CwNowhereElse, Shared, CwStates, Idle
    <3>2. cwState = "SET_INIT" /\ cwSub = 3
      BY <2>4, <3>1 DEF CwComp
    <3>3. QED
      BY <1>0, <2>1, <3>2 DEF CwCycle, KeyNext, CwIdle, CwSetInit,
         CwEncrBlock, CwFetchBlock, CwSincReset, CwSincReinit, CwAesTest,
         CwAesSeed
  <2>5. CASE cmuState \in {"SET_CACHE_ACTIVE", "SINC_REINIT"} /\ sincState # "CACHE_FAILED"
    <3>1. sincState \in {"INITIALIZATION", "CACHE_ACTIVE"}
      BY <2>2, <2>5 DEF ModesOf
    <3>2. keyQ = "BEK"
      BY <2>1, <2>5, <3>1 DEF KeyIsLoaded
    <3>3. cwState \notin {"SINC_RESET", "AES_TEST"}
      BY <2>1, <2>5 DEF CwAtWork
    <3>4. QED
      BY <1>0, <2>1, <3>2, <3>3 DEF CwCycle, KeyNext, CwIdle, CwSetInit,
         CwEncrBlock, CwFetchBlock, CwSincReset, CwSincReinit, CwAesTest,
         CwAesSeed
  <2>6. QED
    BY <1>0, <2>1, <2>3, <2>4, <2>5, ModeMoves DEF FaultSticks
<1>7. QED
  BY <1>2, <1>3, <1>4, <1>5, <1>6

\* A low-power reset finds the CMU idle and keeps mode and key.
LEMMA CryptoLpReset == ASSUME CryptoIInv, LpReset PROVE CryptoIInv'
<1>1. /\ cmuState' = "SINC_IDLE" /\ cwState' = "SINC_IDLE" /\ ~hwFaultQ'
      /\ sincState' = sincState /\ keyQ' = keyQ /\ Idle /\ ~severeErr
  BY DEF LpReset, CmuLpReset, ClearedFlops, CwLpReset, retVars, SincActive
<1>2. QED
  BY <1>1 DEF CryptoIInv, FaultSticks, CwAtWork, CwNowhereElse, FetchIsOn,
     KeyIsLoaded, Shared, Idle

\* The inductive invariant of the CMU and the crypto wrapper.
THEOREM CryptoInvariant ==
  ASSUME NO_SEED_LOADING PROVE Spec => []CryptoIInv
<1>1. Init => CryptoIInv
  BY DEF Init, CmuInit, CwInit, CryptoIInv, FaultSticks, CwAtWork,
     CwNowhereElse, FetchIsOn, KeyIsLoaded, Shared
<1>2. Base /\ CryptoIInv /\ [Next]_vars => CryptoIInv'
  <2> SUFFICES ASSUME Base, CryptoIInv, [Next]_vars PROVE CryptoIInv'
    OBVIOUS
  <2>1. CASE AnyCycle
    BY <2>1, CycleHasWires, CryptoStep DEF Base
  <2>2. CASE LpReset
    BY <2>2, CryptoLpReset
  <2>3. CASE UNCHANGED vars
    BY <2>3 DEF vars, cmuVars, retVars, fsmVars, cwVars, CryptoIInv,
       FaultSticks, CwAtWork, CwNowhereElse, FetchIsOn, KeyIsLoaded, Serving
  <2>4. QED
    BY <2>1, <2>2, <2>3 DEF Next
<1>3. QED
  BY <1>1, <1>2, BaseInvariant, PTL DEF Spec

\* The block encryption key is in place whenever the mode lets a command or a
\* fetch use it: neither an AES test nor an aborted command, a fault or a
\* low-power reset leaves INITIALIZATION or CACHE_ACTIVE with another key
\* (key_q of sinc_cmu_crypto_wrap_ctrl_ret).
THEOREM KeyStaysLoaded == ASSUME NO_SEED_LOADING PROVE Spec => []KeyIsLoaded
<1>1. CryptoIInv => KeyIsLoaded
  BY DEF CryptoIInv
<1>2. QED
  BY <1>1, CryptoInvariant, PTL

-----------------------------------------------------------------------------
(* The erase of the tags.  A soft reset clears the CIU, whose next cycle    *)
(* starts the walk over the tags; the register starts one as well.          *)

Clean == \A s \in Sets, w \in Ways : vtag[s][w] = NoTag

\* A reset of the CIU also ends the wait for an earlier erase.
EraseOnce == ciu.syncErase => ~ciu.eraseBusy

\* The walk starts at the first set and has cleared the sets it has passed.
Walk ==
  /\ vtagSm = "IDLE" => vtagEraseAddr = 0
  /\ \A s \in Sets, w \in Ways : s < vtagEraseAddr => vtag[s][w] = NoTag

\* While the RAM is plain memory, while a clean-up runs and while the RAM is
\* erased no tag is valid, or none will be when the walk ends.
ModeClean == sincState \in {"DISABLED", "INITIALIZATION"} => Clean \/ Erasing
CleanupErases ==
  cmuState \in Cleaning => \/ cmuSincReset /\ ~cWrapCompQ
                           \/ Clean \/ Erasing
EraseCovers == eraseWe => Clean \/ Erasing

EraseIInv == EraseOnce /\ Walk /\ ModeClean /\ CleanupErases /\ EraseCovers

\* One cycle of the tag array: a walk that does not go on has cleared all.
LEMMA WalkStep ==
  ASSUME VtagTypeOK, Walk, NEW in, NEW c, VtagStep(in, c), ciu.addr \in Blocks
  PROVE  /\ Walk'
         /\ VtagEraseOp(VtagEraseStart(in)) =>
              vtagSm' = "WR" \/ Clean' \/ c.syncReset
         /\ ~VtagEraseOp(VtagEraseStart(in)) => vtagSm' = "IDLE"
         /\ ~VtagEraseOp(VtagEraseStart(in)) /\ ~VtagUpd(c) => vtag' = vtag
         /\ Clean /\ ~VtagUpd(c) => Clean'
<1> DEFINE start == VtagEraseStart(in)
           a == vtagEraseAddr
<1>0. VtagCycle(start, VtagComp(c), VtagUpd(c), ciu.addr, c.syncReset)
  BY DEF VtagStep
<1> HIDE DEF start
<1>1. NSets \in Nat /\ NSets >= 2 /\ a \in 0 .. NSets - 1
  BY GeometryAssumption DEF VtagTypeOK, Sets
<1>2. CASE VtagEraseOp(start)
  <2>1. vtag' = [vtag EXCEPT ![a] = [w \in Ways |-> NoTag]]
    BY <1>0, <1>2 DEF VtagCycle, VtagErase
  <2>2. \A s \in Sets, w \in Ways : s <= a => vtag'[s][w] = NoTag
    BY <1>1, <2>1 DEF Walk, VtagTypeOK, Sets
  <2>3. Clean => Clean'
    BY <2>1 DEF Clean, VtagTypeOK
  <2>4. CASE c.syncReset
    <3>1. vtagSm' = "IDLE" /\ vtagEraseAddr' = 0
      BY <1>0, <2>4 DEF VtagCycle
    <3>2. QED
      BY <1>2, <2>3, <2>4, <3>1 DEF Walk, Sets, start
  <2>5. CASE ~c.syncReset /\ vtagSm = "WR" /\ LastVtagErase
    <3>1. vtagSm' = "IDLE" /\ a = NSets - 1
      BY <1>0, <1>2, <2>5 DEF VtagCycle, LastVtagErase
    <3>2. vtagEraseAddr' = 0
      <4>1. vtagEraseAddr' = (a + 1) % NSets
        BY <1>0, <1>2, <2>5 DEF VtagCycle
      <4>2. QED
        BY <1>1, <3>1, <4>1
    <3>3. Clean'
      BY <1>1, <2>2, <3>1 DEF Clean, Sets
    <3>4. QED
      BY <1>2, <3>1, <3>2, <3>3 DEF Walk, Sets, start
  <2>6. CASE ~c.syncReset /\ ~(vtagSm = "WR" /\ LastVtagErase)
    <3>1. vtagSm' = "WR" /\ vtagEraseAddr' = (a + 1) % NSets
      BY <1>0, <1>2, <2>6 DEF VtagCycle
    <3>2. a < NSets - 1
      <4>1. CASE vtagSm = "WR"
        BY <1>1, <2>6, <4>1 DEF LastVtagErase
      <4>2. CASE vtagSm = "IDLE"
        BY <1>1, <4>2 DEF Walk
      <4>3. QED
        BY <4>1, <4>2 DEF VtagTypeOK
    <3>3. vtagEraseAddr' = a + 1
      BY <1>1, <3>1, <3>2
    <3>4. Walk'
      BY <1>1, <2>2, <3>1, <3>3 DEF Walk, Sets
    <3>5. QED
      BY <1>2, <2>3, <3>1, <3>4 DEF start
  <2>7. QED
    BY <2>4, <2>5, <2>6
<1>3. CASE ~VtagEraseOp(start)
  <2>1. vtagSm' = "IDLE" /\ vtagEraseAddr' = 0
    BY <1>0, <1>3 DEF VtagCycle
  <2>2. ~VtagUpd(c) => vtag' = vtag
    BY <1>0, <1>3 DEF VtagCycle, VtagWrite
  <2>3. Walk'
    BY <2>1 DEF Walk, Sets
  <2>4. QED
    BY <1>3, <2>1, <2>2, <2>3 DEF Clean, start
<1>4. QED
  BY <1>2, <1>3

\* The flops of the CIU's reset and erase, whatever its FSM does.
LEMMA EraseFlops ==
  ASSUME CiuTypeOK, NEW c, CiuCycle(c)
  PROVE  /\ c.syncReset => ciu'.syncErase /\ ~ciu'.eraseBusy
         /\ ~c.syncReset =>
              /\ ~ciu'.syncErase
              /\ ciu'.eraseBusy = (ciu.syncErase \/ (ciu.eraseBusy /\ ~c.engnDone))
<1> DEFINE P == Pulse(c)
           b == ciu.syncErase \/ (ciu.eraseBusy /\ ~c.engnDone)
           Keeps(r) == r.syncErase = FALSE /\ r.eraseBusy = b
<1>1. P \in [DOMAIN ciu -> UNION {{P[i]} : i \in DOMAIN ciu}] /\ Keeps(P)
  BY DEF Pulse, CiuTypeOK, CiuType, CiuResetCompleted
<1>2. DOMAIN P = DOMAIN ciu /\ {"syncErase", "eraseBusy"} \subseteq DOMAIN ciu
  BY DEF Pulse, CiuTypeOK, CiuType
<1> HIDE DEF P, b
<1>3. Keeps(CiuIdle(c))
  BY <1>1, <1>2 DEF CiuIdle, IdleRead, IdleWrite, IdleRefuse, IdleActiveWrite, P
<1>4. Keeps(CiuMemRead(c))
  BY <1>1, <1>2 DEF CiuMemRead, P
<1>5. Keeps(CiuWait(c)) /\ Keeps(CiuCacheMiss(c)) /\ Keeps(CiuRRead(c))
  BY <1>1, <1>2 DEF CiuWait, CiuCacheMiss, CiuRRead, P
<1>6. Keeps(CiuMemWrite(c)) /\ Keeps(CiuExtra(c))
  BY <1>1, <1>2 DEF CiuMemWrite, CiuExtra, P
<1>7. ciu.sm \in CiuStates
  BY DEF CiuTypeOK, CiuType
<1>8. ~c.syncReset => Keeps(ciu')
  BY <1>3, <1>4, <1>5, <1>6, <1>7 DEF CiuCycle, CiuNext, CiuStates
<1>9. c.syncReset => ciu' = CiuReset(TRUE)
  BY DEF CiuCycle
<1>10. QED
  BY <1>8, <1>9 DEF CiuReset, b

\* A tag is written only at the end of a fetch that has succeeded, and never
\* while an erase is going on.
LEMMA UpdateOutcome ==
  ASSUME Base, CryptoIInv, NEW in, NEW x, NEW m, NEW c, Wires(in, x, m, c),
         VtagUpd(c)
  PROVE  /\ cmuState = "FETCH_BLOCK" /\ cwState = "FETCH_BLOCK" /\ cwSub = 4
         /\ fetchTrk /\ image /\ ciu.sm = "CACHE_MISS"
         /\ ~MemEraseBusy(in) /\ ~m.fault /\ ~hwFaultQ /\ ~c.ecc
         /\ sincState \in {"CACHE_ACTIVE", "CACHE_FAILED"}
<1>1. /\ fetchTrk /\ cmuState = "FETCH_BLOCK" /\ CwComp(x) /\ ~CwErr(x)
      /\ ~m.fault /\ ~hwFaultQ /\ ciu.sm = "CACHE_MISS"
  BY DEF VtagUpd, Wires, CiuSees, CmuSees, FetchComp, FetchErr
<1>2. ~c.ecc
  BY <1>1 DEF Wires, CiuSees, CmuSees
<1>3. cwState = "FETCH_BLOCK" /\ cwSub = 4 /\ image /\ ~MemEraseBusy(in)
  BY <1>1, FetchOutcome DEF CryptoIInv
<1>4. sincState \in {"CACHE_ACTIVE", "CACHE_FAILED"}
  BY <1>1 DEF Base, ReqIInv, IInv, CommandRunsInItsMode, ModesOf
<1>5. QED
  BY <1>1, <1>2, <1>3, <1>4

\* One cycle.
LEMMA EraseStep ==
  ASSUME Base, CryptoIInv, EraseIInv, NEW in, NEW x, NEW m, NEW c,
         Wires(in, x, m, c)
  PROVE  EraseIInv'
<1> DEFINE op == VtagEraseOp(VtagEraseStart(in))
<1>0. /\ CmuTypeOK /\ CiuTypeOK /\ VtagTypeOK /\ ControlFsm(m) /\ ErrorFlops(m)
      /\ InputOK(m) /\ CiuCycle(c) /\ VtagStep(in, c) /\ ciu.addr \in Blocks
      /\ c.syncReset = SyncCiuReset(m) /\ c.mode = sincState
  BY DEF Base, TypeOK, Wires, Clocked, CmuCycle, CmuSees, CiuSees, CiuTypeOK,
     CiuType
<1>1. /\ Walk'
      /\ op => vtagSm' = "WR" \/ Clean' \/ c.syncReset
      /\ ~op => vtagSm' = "IDLE"
      /\ Clean /\ ~VtagUpd(c) => Clean'
  BY <1>0, WalkStep DEF EraseIInv
<1>2. EraseOnce'
  BY <1>0, EraseFlops DEF EraseOnce
<1>3. c.syncReset => Erasing'
  BY <1>0, EraseFlops DEF Erasing
<1>4. op => Clean' \/ Erasing'
  BY <1>1, <1>3 DEF Erasing
<1>5. Erasing => op
  BY DEF Erasing, EraseIInv, EraseOnce, VtagEraseOp, VtagEraseStart,
     EngnEraseStart
<1>6. (Clean \/ Erasing) /\ ~VtagUpd(c) => Clean' \/ Erasing'
  BY <1>1, <1>4, <1>5
<1>7. VtagUpd(c) => cmuState = "FETCH_BLOCK" /\ ~eraseWe
  BY UpdateOutcome DEF MemEraseBusy
<1>8. CleanupErases'
  <2> SUFFICES ASSUME cmuState' \in Cleaning
               PROVE  \/ cmuSincReset' /\ ~cWrapCompQ'
                      \/ Clean' \/ Erasing'
    BY DEF CleanupErases
  <2>1. CASE Idle
    <3>1. cmuState' = Dispatch(m) /\ ~cWrapCompQ'
      BY <1>0, <2>1, StateMoves, AckMoves DEF Cleaning, InputOK
    <3>2. CASE Dispatch(m) = "SINC_RESET"
      BY <1>0, <2>1, <3>1, <3>2 DEF ErrorFlops, AssertSoftReset
    <3>3. CASE Dispatch(m) = "SINC_REINIT"
      BY <1>0, <1>3, <2>1, <3>3 DEF SyncCiuReset, CmuSincReinit
    <3>4. QED
      BY <3>1, <3>2, <3>3 DEF Cleaning
  <2>2. CASE ~Idle
    <3>1. cmuState \in Cleaning /\ cmuState' = cmuState
      BY <1>0, <2>2, ControlMoves DEF Cleaning, Idle
    <3>2. cmuSincReset => Erasing'
      BY <1>0, <1>3 DEF SyncCiuReset
    <3>3. QED
      BY <1>6, <1>7, <3>1, <3>2 DEF EraseIInv, CleanupErases, Cleaning
  <2>3. QED
    BY <2>1, <2>2
<1>9. ModeClean'
  <2> SUFFICES ASSUME sincState' \in {"DISABLED", "INITIALIZATION"}
               PROVE  Clean' \/ Erasing'
    BY DEF ModeClean
  <2>1. CASE sincState \in {"DISABLED", "INITIALIZATION"}
    BY <1>6, <2>1, UpdateOutcome DEF EraseIInv, ModeClean
  <2>2. CASE sincState \notin {"DISABLED", "INITIALIZATION"}
    <3>1. cmuState # "SET_INIT"
      BY <1>0, <2>2, ModeMoves DEF Base, ReqIInv, IInv,
         CommandRunsInItsMode, ModesOf
    <3>2. cmuState \in Cleaning /\ BothAcks
      BY <1>0, <2>2, <3>1, ModeMoves DEF Cleaning
    <3>3. QED
      BY <1>6, <1>7, <3>2 DEF EraseIInv, CleanupErases, BothAcks, Cleaning
  <2>3. QED
    BY <2>1, <2>2
<1>10. EraseCovers'
  <2> SUFFICES ASSUME eraseWe' PROVE Clean' \/ Erasing'
    BY DEF EraseCovers
  <2>1. eraseWe \/ EngnEraseStart \/ in.crErase
    BY DEF Wires, Clocked, RamStep, RamCycle, EraseFsm
  <2>2. CASE eraseWe
    BY <1>6, <1>7, <2>2 DEF EraseIInv, EraseCovers
  <2>3. CASE EngnEraseStart \/ in.crErase
    BY <1>4, <2>3 DEF VtagEraseOp, VtagEraseStart
  <2>4. QED
    BY <2>1, <2>2, <2>3
<1>11. QED
  BY <1>1, <1>2, <1>8, <1>9, <1>10 DEF EraseIInv

\* What the theorems about a core with faults assume of the low-power resets:
\* none stops a walk over the tags.
LpSparesWalk == "LP_IN_ERASE" \notin Disturbances

\* A low-power reset keeps the tags.  One that stops a walk over them is
\* harmless where the mode is open only with every tag cleared.
LEMMA EraseLpReset ==
  ASSUME EraseIInv, LpReset,
         LpSparesWalk \/ (sincState \in {"DISABLED", "INITIALIZATION"} => Clean)
  PROVE  EraseIInv'
<1>1. /\ LpSparesWalk => ~Erasing
      /\ vtag' = vtag /\ sincState' = sincState
      /\ vtagSm' = "IDLE" /\ vtagEraseAddr' = 0 /\ cmuState' = "SINC_IDLE"
      /\ ~eraseWe' /\ ciu' = CiuReset(FALSE)
  BY DEF LpReset, CmuLpReset, ClearedFlops, retVars, VtagLpReset, RamLpReset,
     CiuLpReset, LpSparesWalk
<1>2. ~ciu'.syncErase
  BY <1>1 DEF CiuReset
<1>3. Walk'
  BY <1>1 DEF Walk, Sets
<1>4. QED
  BY <1>1, <1>2, <1>3 DEF EraseIInv, EraseOnce, ModeClean, CleanupErases,
     EraseCovers, Clean, Cleaning

LEMMA EraseInit == Init => EraseIInv
BY DEF Init, CmuInit, CiuInit, CiuReset, VtagInit, RamInit, EraseIInv,
   EraseOnce, Walk, ModeClean, CleanupErases, EraseCovers, Clean, Cleaning, Sets

LEMMA EraseStutter == ASSUME EraseIInv, UNCHANGED vars PROVE EraseIInv'
BY DEF vars, cmuVars, retVars, fsmVars, vtagVars, ramVars, EraseIInv, EraseOnce,
   Walk, ModeClean, CleanupErases, EraseCovers, Clean, Erasing

\* The inductive invariant of the erase of the tags.
THEOREM EraseInvariant ==
  ASSUME NO_SEED_LOADING, LpSparesWalk PROVE Spec => []EraseIInv
<1>1. Base /\ CryptoIInv /\ EraseIInv /\ [Next]_vars => EraseIInv'
  <2> SUFFICES ASSUME Base, CryptoIInv, EraseIInv, [Next]_vars PROVE EraseIInv'
    OBVIOUS
  <2>1. CASE AnyCycle
    BY <2>1, CycleHasWires, EraseStep DEF Base
  <2>2. CASE LpReset
    BY <2>2, EraseLpReset
  <2>3. CASE UNCHANGED vars
    BY <2>3, EraseStutter
  <2>4. QED
    BY <2>1, <2>2, <2>3 DEF Next
<1>2. QED
  BY <1>1, EraseInit, BaseInvariant, CryptoInvariant, PTL DEF Spec

-----------------------------------------------------------------------------
(* The erase of the RAM.                                                    *)

\* Nothing decrypted is in the RAM or on its way into it.
MemClean == \A s \in Sets, w \in Ways : mem[s][w] = NoData
Blank(p) == p.op = "WR" => p.val = NoData
RamClean == MemClean /\ Blank(ramP1) /\ Blank(ramP2)

\* The walk starts at the first word; the rows it has passed are empty, and
\* from its second word on no access is left in the pipeline.
RamWalk ==
  /\ ~eraseWe => eraseAddr = 0
  /\ eraseAddr > 0 => ramP1.op = "NONE"
  /\ \A s \in Sets, w \in Ways :
       s < eraseAddr \div BlockWords => mem[s][w] = NoData

\* The end of an engine erase, its acknowledgement and the open modes it leads
\* to find the RAM clean.
DoneMeansClean == engnDone => RamClean
AckMeansClean == cmuState \in Cleaning /\ ciuCompQ => RamClean
ModeRam == sincState \in {"DISABLED", "INITIALIZATION"} => RamClean

RamIInv == RamWalk /\ DoneMeansClean /\ AckMeansClean /\ ModeRam

\* The quotient is the one number with a remainder below the divisor.
LEMMA Quotient ==
  ASSUME NEW a \in Nat, NEW b \in Nat \ {0}, NEW q \in Nat, NEW r \in 0 .. b - 1,
         a = b * q + r
  PROVE  a \div b = q /\ a % b = r
OBVIOUS

\* Word by word: a step of the walk enters a new row, or stays in its row.
LEMMA NextWord ==
  ASSUME NEW a \in Nat, NEW b \in Nat \ {0}
  PROVE  (a + 1) \div b = (a \div b) + (IF a % b = b - 1 THEN 1 ELSE 0)
<1>1. PICK q \in Nat, r \in 0 .. b - 1 : a = b * q + r
  <2>1. a \div b \in Nat /\ a % b \in 0 .. b - 1 /\ a = b * (a \div b) + (a % b)
    OBVIOUS
  <2>2. QED
    BY <2>1
<1>2. a \div b = q /\ a % b = r
  BY <1>1, Quotient
<1>3. CASE r = b - 1
  <2>1. a + 1 = b * (q + 1) + 0
    BY <1>1, <1>3
  <2>2. (a + 1) \div b = q + 1
    BY <2>1, Quotient
  <2>3. QED
    BY <1>2, <1>3, <2>2
<1>4. CASE r # b - 1
  <2>1. a + 1 = b * q + (r + 1) /\ r + 1 \in 0 .. b - 1
    BY <1>1, <1>4
  <2>2. (a + 1) \div b = q
    BY <2>1, Quotient
  <2>3. QED
    BY <1>2, <1>4, <2>2
<1>5. QED
  BY <1>3, <1>4

\* One cycle of the walk; its last word leaves the RAM clean.
LEMMA RamWalkStep ==
  ASSUME RamTypeOK, RamWalk, NEW in, NEW x, NEW c, RamStep(in, x, c)
  PROVE  RamWalk' /\ (EraseLast => RamClean')
<1> DEFINE a == eraseAddr
           q == eraseAddr \div BlockWords
<1>0. /\ RamAccess(RamAcc(in, x, c), c.ecc)
      /\ EraseFsm(EngnEraseStart, in.crErase)
  BY DEF RamStep, RamCycle
<1>1. /\ a \in Nat /\ a <= EraseEndAddr /\ mem \in [Sets -> [Ways -> LineData]]
      /\ q \in Nat
  BY RamGeometry DEF RamTypeOK, LineData
<1>2. CASE eraseWe
  <2>1. mem' = EraseWord /\ ramP1' = NoAccess /\ ramP2' = ramP1
    BY <1>0, <1>2 DEF RamAccess, QualifiedEn
  <2>2. \A s \in Sets, w \in Ways :
          s < q \/ (s = q /\ a % BlockWords = BlockWords - 1)
            => mem'[s][w] = NoData
    <3> SUFFICES ASSUME NEW s \in Sets, NEW w \in Ways,
                        s < q \/ (s = q /\ a % BlockWords = BlockWords - 1)
                 PROVE  mem'[s][w] = NoData
      OBVIOUS
    <3>1. CASE s < q
      BY <1>1, <2>1, <3>1 DEF EraseWord, RamWalk, Sets
    <3>2. CASE s = q /\ a % BlockWords = BlockWords - 1
      BY <1>1, <2>1, <3>2 DEF EraseWord, EmptyRow
    <3>3. QED
      BY <3>1, <3>2
  <2>3. CASE EraseLast
    <3>1. a = BlockWords * (NSets - 1) + (BlockWords - 1)
      <4>1. a = NSets * BlockWords - 1
        BY <2>3 DEF EraseLast, EraseEndAddr
      <4>2. QED
        BY <4>1, GeometryAssumption
    <3>2. q = NSets - 1 /\ a % BlockWords = BlockWords - 1
      <4>1. NSets - 1 \in Nat /\ BlockWords - 1 \in 0 .. BlockWords - 1
        BY GeometryAssumption
      <4>2. QED
        BY <1>1, <3>1, <4>1, RamGeometry, Quotient
    <3>3. MemClean'
      BY <1>1, <2>2, <3>2, GeometryAssumption DEF MemClean, Sets
    <3>4. ramP1.op = "NONE"
      BY <2>3, RamGeometry DEF EraseLast, RamWalk
    <3>5. RamClean'
      BY <2>1, <3>3, <3>4 DEF RamClean, Blank, NoAccess
    <3>6. eraseAddr' = 0
      BY <1>0, <2>3 DEF EraseFsm
    <3>7. eraseAddr' \div BlockWords = 0
      BY <3>6, RamGeometry
    <3>8. QED
      BY <3>5, <3>6, <3>7 DEF RamWalk, Sets
  <2>4. CASE ~EraseLast
    <3>1. eraseAddr' = a + 1 /\ eraseWe'
      BY <1>0, <1>2, <2>4 DEF EraseFsm
    <3>2. eraseAddr' \div BlockWords =
            q + (IF a % BlockWords = BlockWords - 1 THEN 1 ELSE 0)
      BY <1>1, <3>1, NextWord, RamGeometry
    <3>3. \A s \in Sets, w \in Ways :
            s < eraseAddr' \div BlockWords => mem'[s][w] = NoData
      BY <1>1, <2>2, <3>2 DEF Sets
    <3>4. QED
      BY <2>1, <2>4, <3>1, <3>3 DEF RamWalk, NoAccess
  <2>5. QED
    BY <2>3, <2>4
<1>3. CASE ~eraseWe
  <2>1. eraseAddr' = 0
    BY <1>0, <1>3 DEF EraseFsm
  <2>2. eraseAddr' \div BlockWords = 0
    BY <2>1, RamGeometry
  <2>3. QED
    BY <1>3, <2>1, <2>2 DEF RamWalk, EraseLast, Sets
<1>4. QED
  BY <1>2, <1>3

\* A clean RAM stays clean unless a word of a block is written.
LEMMA RamKept ==
  ASSUME RamTypeOK, NEW in, NEW x, NEW c, RamStep(in, x, c), RamClean,
         Blank(RamAcc(in, x, c))
  PROVE  RamClean'
<1> DEFINE acc == RamAcc(in, x, c)
<1>0. RamAccess(acc, c.ecc) /\ Blank(acc)
  BY DEF RamStep, RamCycle
<1> HIDE DEF acc
<1>1. mem \in [Sets -> [Ways -> LineData]]
  BY DEF RamTypeOK, LineData
<1>2. MemClean'
  <2> SUFFICES ASSUME NEW s \in Sets, NEW w \in Ways PROVE mem'[s][w] = NoData
    BY DEF MemClean
  <2>1. mem[s][w] = NoData
    BY DEF RamClean, MemClean
  <2>2. CASE mem' = EraseWord
    BY <1>1, <2>1, <2>2 DEF EraseWord, EmptyRow
  <2>3. CASE ramP2.op = "WR" /\ mem' = [mem EXCEPT ![ramP2.set][ramP2.way] = ramP2.val]
    BY <1>1, <2>1, <2>3 DEF RamClean, Blank
  <2>4. QED
    BY <1>0, <2>1, <2>2, <2>3 DEF RamAccess
<1>3. Blank(ramP1)' /\ Blank(ramP2)'
  BY <1>0 DEF RamAccess, RamClean, Blank, NoAccess
<1>4. QED
  BY <1>2, <1>3 DEF RamClean

\* Only the fetch of an active cache writes words of a block.
LEMMA FillsNeedAFetch ==
  ASSUME NEW in, NEW x, NEW m, NEW c, CiuSees(in, m, c),
         sincState # "CACHE_ACTIVE" \/ cwState # "FETCH_BLOCK"
  PROVE  Blank(RamAcc(in, x, c))
<1>1. ~(CmuMemWr(x) /\ Active(c) /\ ciu.memWrite)
  BY DEF CiuSees, Active, CmuMemWr
<1>2. RamAcc(in, x, c) \in {Read(SetOf(ReadRow(c))), NoAccess,
          Write(SetOf(ciu.addr), WayOf(ciu.addr), NoData)}
  BY <1>1 DEF RamAcc
<1>3. QED
  BY <1>2 DEF Blank, Read, Write, NoAccess

\* An open mode is kept, or entered at the end of a clean-up.
LEMMA OpenModeEntry ==
  ASSUME Base, NEW in, NEW x, NEW m, NEW c, Wires(in, x, m, c),
         sincState' \in {"DISABLED", "INITIALIZATION"}
  PROVE  \/ sincState \in {"DISABLED", "INITIALIZATION"}
         \/ cmuState \in Cleaning /\ BothAcks
<1> SUFFICES ASSUME sincState \notin {"DISABLED", "INITIALIZATION"}
             PROVE  cmuState \in Cleaning /\ BothAcks
  OBVIOUS
<1>1. CmuTypeOK /\ ControlFsm(m)
  BY DEF Base, TypeOK, Wires, Clocked, CmuCycle
<1>2. cmuState # "SET_INIT"
  BY <1>1, ModeMoves DEF Base, ReqIInv, IInv, CommandRunsInItsMode, ModesOf
<1>3. QED
  BY <1>1, <1>2, ModeMoves DEF Cleaning

\* One cycle.
LEMMA RamStepKeeps ==
  ASSUME Base, CryptoIInv, RamIInv, NEW in, NEW x, NEW m, NEW c,
         Wires(in, x, m, c)
  PROVE  RamIInv'
<1>0. /\ CmuTypeOK /\ RamTypeOK /\ ControlFsm(m) /\ InputOK(m)
      /\ RamStep(in, x, c) /\ CiuSees(in, m, c)
      /\ m.ciuComp = (ciu.eraseBusy /\ engnDone)
  BY DEF Base, TypeOK, Wires, Clocked, CmuCycle, CmuSees
<1>1. RamWalk' /\ (EraseLast => RamClean')
  BY <1>0, RamWalkStep DEF RamIInv
<1>2. RamClean /\ (sincState # "CACHE_ACTIVE" \/ cwState # "FETCH_BLOCK")
        => RamClean'
  BY <1>0, FillsNeedAFetch, RamKept
<1>3. cmuState \in Cleaning => cwState # "FETCH_BLOCK"
  BY DEF CryptoIInv, CwNowhereElse, Cleaning, Shared, CwStates
<1>4. DoneMeansClean'
  BY <1>0, <1>1 DEF RamStep, RamCycle, EraseFsm, DoneMeansClean
<1>5. cmuState \in Cleaning /\ (ciuCompQ \/ engnDone) => RamClean'
  BY <1>2, <1>3 DEF RamIInv, AckMeansClean, DoneMeansClean
<1>6. AckMeansClean'
  <2> SUFFICES ASSUME cmuState' \in Cleaning, ciuCompQ' PROVE RamClean'
    BY DEF AckMeansClean
  <2>1. ~Idle
    BY <1>0, AckMoves
  <2>2. cmuState \in Cleaning
    BY <1>0, <2>1, ControlMoves DEF Cleaning, Idle
  <2>3. ciuCompQ \/ engnDone
    BY <1>0, <2>2, AckMoves DEF CollectAcks
  <2>4. QED
    BY <1>5, <2>2, <2>3
<1>7. ModeRam'
  <2> SUFFICES ASSUME sincState' \in {"DISABLED", "INITIALIZATION"}
               PROVE  RamClean'
    BY DEF ModeRam
  <2>1. CASE sincState \in {"DISABLED", "INITIALIZATION"}
    BY <1>2, <2>1 DEF RamIInv, ModeRam
  <2>2. CASE cmuState \in Cleaning /\ BothAcks
    BY <1>5, <2>2 DEF BothAcks
  <2>3. QED
    BY <2>1, <2>2, OpenModeEntry
<1>8. QED
  BY <1>1, <1>4, <1>6, <1>7 DEF RamIInv

\* A low-power reset keeps the array and empties the pipeline.
LEMMA RamLpResetKeeps == ASSUME RamIInv, LpReset PROVE RamIInv'
<1>1. /\ mem' = mem /\ ramP1' = NoAccess /\ ramP2' = NoAccess
      /\ eraseAddr' = 0 /\ ~engnDone' /\ ~ciuCompQ' /\ sincState' = sincState
  BY DEF LpReset, RamLpReset, CmuLpReset, ClearedFlops, retVars
<1>2. RamClean => RamClean'
  BY <1>1 DEF RamClean, MemClean, Blank, NoAccess
<1>3. eraseAddr' \div BlockWords = 0
  BY <1>1, RamGeometry
<1>4. RamWalk'
  BY <1>1, <1>3 DEF RamWalk, Sets
<1>5. QED
  BY <1>1, <1>2, <1>4 DEF RamIInv, DoneMeansClean, AckMeansClean, ModeRam

\* The inductive invariant of the erase of the RAM.
THEOREM RamInvariant == ASSUME NO_SEED_LOADING PROVE Spec => []RamIInv
<1>1. Init => RamIInv
  <2> SUFFICES ASSUME Init PROVE RamIInv
    OBVIOUS
  <2>1. /\ mem = [s \in Sets |-> EmptyRow] /\ ramP1 = NoAccess
        /\ ramP2 = NoAccess /\ eraseAddr = 0 /\ ~engnDone /\ ~ciuCompQ
    BY DEF Init, RamInit, CmuInit
  <2>2. RamClean
    BY <2>1 DEF RamClean, MemClean, Blank, NoAccess, EmptyRow
  <2>3. eraseAddr \div BlockWords = 0
    BY <2>1, RamGeometry
  <2>4. RamWalk
    BY <2>1, <2>3 DEF RamWalk, Sets
  <2>5. QED
    BY <2>2, <2>4 DEF RamIInv, DoneMeansClean, AckMeansClean, ModeRam
<1>2. Base /\ CryptoIInv /\ RamIInv /\ [Next]_vars => RamIInv'
  <2> SUFFICES ASSUME Base, CryptoIInv, RamIInv, [Next]_vars PROVE RamIInv'
    OBVIOUS
  <2>1. CASE AnyCycle
    BY <2>1, CycleHasWires, RamStepKeeps DEF Base
  <2>2. CASE LpReset
    BY <2>2, RamLpResetKeeps
  <2>3. CASE UNCHANGED vars
    BY <2>3 DEF vars, cmuVars, retVars, fsmVars, ramVars, RamIInv, RamWalk,
       DoneMeansClean, AckMeansClean, ModeRam, RamClean, MemClean, Blank
  <2>4. QED
    BY <2>1, <2>2, <2>3 DEF Next
<1>3. QED
  BY <1>1, <1>2, BaseInvariant, CryptoInvariant, PTL DEF Spec

\* When the RAM is open as plain memory nothing decrypted is left in it, and
\* no tag is valid once the walk over the tags has ended; faults may come in
\* any cycle of an erase, an interrupted SINC_RESET may be repeated, the erase
\* register may be written at any time, and low-power resets spare the walk
\* over the tags (mem_erase, ciu_reset_completed).
THEOREM NothingLeftOnceErased ==
  ASSUME NO_SEED_LOADING, LpSparesWalk PROVE Spec => []NoResidueOnceErased
<1>1. EraseIInv /\ RamIInv => NoResidueOnceErased
  BY DEF EraseIInv, RamIInv, ModeClean, ModeRam, RamClean, MemClean, Clean,
     Erasing, NoResidueOnceErased
<1>2. QED
  BY <1>1, EraseInvariant, RamInvariant, PTL

-----------------------------------------------------------------------------
(* The accesses of the CIU.                                                 *)

\* A miss has opened the write port to the fill.
MissWrites == ciu.sm = "CACHE_MISS" => ciu.memWrite

\* What the flops r of the next cycle owe to the present one: a write that
\* reaches the RAM was accepted outside the active cache, a read has addressed
\* its row in the same cycle, and data is promised only to a read whose lookup
\* has answered.
Owes(r, c) ==
  /\ r.sm = "CACHE_MISS" => r.memWrite
  /\ r.sm = "MEM_WRITE" /\ r.memWrite /\ ~r.extVio /\ ~r.otherErr
       => ~Active(c) /\ ~c.cmuBusy
  /\ r.sm = "MEM_READ" /\ ~r.extVio /\ ~r.otherErr
       => RamRead(c) /\ r.addr = ReadRow(c)
  /\ r.sm = "WAIT" /\ r.rdVld
       => /\ ciu.sm = "MEM_READ" /\ ~ciu.extVio /\ ~ciu.otherErr
          /\ ~c.eraseBusy /\ ~Failed(c) /\ r.addr = ciu.addr
          /\ Active(c) => c.hit /\ r.sel = c.hitWay

\* The default of a cycle, on the flops of an access.
LEMMA PulseDefault ==
  ASSUME CiuTypeOK, NEW c
  PROVE  /\ DOMAIN Pulse(c) = DOMAIN ciu
         /\ {"sm", "busy", "addr", "sel", "rdVld", "fetchReq", "memWrite",
             "rdErr", "extVio", "otherErr", "pendRd", "pendWr", "pendFail",
             "mpuReq"} \subseteq DOMAIN ciu
         /\ Pulse(c).sm = ciu.sm /\ Pulse(c).addr = ciu.addr
         /\ Pulse(c).memWrite = ciu.memWrite
         /\ Pulse(c).otherErr = ciu.otherErr
         /\ Pulse(c).rdVld = FALSE /\ Pulse(c).extVio = FALSE
BY DEF Pulse, CiuTypeOK, CiuType

\* A step of the FSM from IDLE.
LEMMA IdleOwes ==
  ASSUME CiuTypeOK, NEW c, ciu.sm = "IDLE"
  PROVE  Owes(CiuIdle(c), c)
<1> DEFINE P == Pulse(c)
<1>1. /\ {"sm", "busy", "addr", "sel", "rdVld", "fetchReq", "memWrite",
          "rdErr", "extVio", "otherErr", "pendRd", "pendWr", "pendFail",
          "mpuReq"} \subseteq DOMAIN P
      /\ P.sm = "IDLE"
  BY PulseDefault
<1> HIDE DEF P
<1>2. CASE ValidCpuRead(c)
  <2>1. RamRead(c) /\ ReadRow(c) = AccAddr(c)
    BY <1>2 DEF RamRead, ReadRow
  <2>2. Owes(IdleRead(c), c)
    BY <1>1, <2>1 DEF IdleRead, P, Owes
  <2>3. QED
    BY <1>2, <2>2 DEF CiuIdle
<1>3. CASE ~ValidCpuRead(c) /\ ValidCpuWrite(c)
  <2>1. ~Active(c) /\ ~c.cmuBusy
    BY <1>3 DEF ValidCpuWrite
  <2>2. Owes(IdleWrite(c), c)
    BY <1>1, <2>1 DEF IdleWrite, P, Owes
  <2>3. QED
    BY <1>3, <2>2 DEF CiuIdle
<1>4. CASE ~ValidCpuRead(c) /\ ~ValidCpuWrite(c) /\ Refused(c)
  <2> DEFINE v == CpuAccessUponCacheFailed(c) \/ ciu.pendFail
             o == IF RefusedRead(c) THEN CpuReadUponEraseBusy(c)
                  ELSE CpuWriteUponEraseBusy(c)
             r == [P EXCEPT
                     !.sm = IF RefusedRead(c) THEN "MEM_READ" ELSE "MEM_WRITE",
                     !.busy = TRUE, !.extVio = v, !.otherErr = o,
                     !.pendRd = FALSE]
  <2>1. v \/ o
    BY <1>4 DEF Refused, RefusedRead, CpuReadUponEraseBusy,
       CpuWriteUponEraseBusy
  <2>2. IdleRefuse(c) = r
    BY DEF IdleRefuse, P
  <2>3. r.extVio = v /\ r.otherErr = o /\ r.sm \in {"MEM_READ", "MEM_WRITE"}
    BY <1>1
  <2> HIDE DEF v, o, r
  <2>4. Owes(r, c)
    BY <2>1, <2>3 DEF Owes
  <2>5. QED
    BY <1>4, <2>2, <2>4 DEF CiuIdle
<1>5. CASE /\ ~ValidCpuRead(c) /\ ~ValidCpuWrite(c) /\ ~Refused(c)
           /\ CpuWriteUponCacheActive(c)
  <2>1. Owes(IdleActiveWrite(c), c)
    BY <1>1 DEF IdleActiveWrite, P, Owes
  <2>2. QED
    BY <1>5, <2>1 DEF CiuIdle
<1>6. CASE /\ ~ValidCpuRead(c) /\ ~ValidCpuWrite(c) /\ ~Refused(c)
           /\ ~CpuWriteUponCacheActive(c)
  <2>1. Owes(P, c)
    BY <1>1 DEF Owes
  <2>2. QED
    BY <1>6, <2>1 DEF CiuIdle, P
<1>7. QED
  BY <1>2, <1>3, <1>4, <1>5, <1>6

\* A step of the FSM from MEM_READ.
LEMMA MemReadOwes ==
  ASSUME CiuTypeOK, NEW c, ciu.sm = "MEM_READ"
  PROVE  Owes(CiuMemRead(c), c)
<1> DEFINE P == Pulse(c)
<1>1. /\ {"sm", "busy", "addr", "sel", "rdVld", "fetchReq", "memWrite",
          "rdErr", "extVio", "otherErr", "pendRd", "pendWr", "pendFail",
          "mpuReq"} \subseteq DOMAIN P
      /\ P.addr = ciu.addr /\ P.rdVld = FALSE
  BY PulseDefault
<1> HIDE DEF P
<1>2. CASE AccVio(c) \/ ciu.otherErr \/ c.eraseBusy
  BY <1>1, <1>2 DEF CiuMemRead, P, Owes
<1>3. CASE ~(AccVio(c) \/ ciu.otherErr \/ c.eraseBusy) /\ ~Active(c)
  <2> DEFINE r == [P EXCEPT !.sm = "WAIT", !.rdVld = ~Failed(c),
                            !.sel = WayOf(ciu.addr)]
  <2>1. r.rdVld = ~Failed(c) /\ r.sm = "WAIT" /\ r.addr = ciu.addr
    BY <1>1
  <2>2. CiuMemRead(c) = r
    BY <1>3 DEF CiuMemRead, P
  <2> HIDE DEF r
  <2>3. Owes(r, c)
    BY <1>3, <2>1 DEF Owes, AccVio
  <2>4. QED
    BY <2>2, <2>3
<1>4. CASE ~(AccVio(c) \/ ciu.otherErr \/ c.eraseBusy) /\ Active(c)
  <2>1. CASE c.parErr
    BY <1>1, <1>4, <2>1 DEF CiuMemRead, P, Owes
  <2>2. CASE ~c.parErr /\ c.hit
    <3>1. CiuMemRead(c) = [P EXCEPT !.sm = "WAIT", !.rdVld = TRUE,
                                    !.sel = c.hitWay]
      BY <1>4, <2>2 DEF CiuMemRead, P
    <3>2. ~Failed(c)
      BY <1>4 DEF Active, Failed
    <3>3. QED
      BY <1>1, <1>4, <2>2, <3>1, <3>2 DEF Owes, AccVio
  <2>3. CASE ~c.parErr /\ ~c.hit /\ c.cmuBusy
    BY <1>1, <1>4, <2>3 DEF CiuMemRead, P, Owes
  <2>4. CASE ~c.parErr /\ ~c.hit /\ ~c.cmuBusy
    BY <1>1, <1>4, <2>4 DEF CiuMemRead, P, Owes
  <2>5. QED
    BY <2>1, <2>2, <2>3, <2>4
<1>5. QED
  BY <1>2, <1>3, <1>4

\* One cycle of the CIU that is no reset.
LEMMA CiuOwes ==
  ASSUME CiuTypeOK, MissWrites, NEW c, ~c.syncReset, CiuCycle(c)
  PROVE  Owes(ciu', c)
<1> SUFFICES Owes(CiuNext(c), c)
  BY DEF CiuCycle
<1> DEFINE P == Pulse(c)
<1>1. /\ {"sm", "busy", "addr", "sel", "rdVld", "fetchReq", "memWrite",
          "rdErr", "extVio", "otherErr", "pendRd", "pendWr", "pendFail",
          "mpuReq"} \subseteq DOMAIN P
      /\ P.addr = ciu.addr /\ P.sm = ciu.sm /\ P.memWrite = ciu.memWrite
      /\ P.rdVld = FALSE
  BY PulseDefault
<1> HIDE DEF P
<1>2. CASE ciu.sm = "IDLE"
  BY <1>2, IdleOwes DEF CiuNext
<1>3. CASE ciu.sm = "MEM_READ"
  BY <1>3, MemReadOwes DEF CiuNext
<1>4. CASE ciu.sm = "WAIT"
  <2>1. CiuWait(c).sm = "IDLE"
    BY <1>1 DEF CiuWait, P
  <2>2. QED
    BY <1>4, <2>1 DEF CiuNext, Owes
<1>5. CASE ciu.sm = "CACHE_MISS"
  <2>1. Owes(CiuCacheMiss(c), c)
    BY <1>1, <1>5 DEF CiuCacheMiss, Owes, P, MissWrites
  <2>2. QED
    BY <1>5, <2>1 DEF CiuNext
<1>6. CASE ciu.sm = "RREAD"
  BY <1>1, <1>6 DEF CiuNext, CiuRRead, P, Owes, RamRead, ReadRow
<1>7. CASE ciu.sm \in {"MEM_WRITE", "EXTRA"}
  BY <1>1, <1>7 DEF CiuNext, CiuMemWrite, CiuExtra, P, Owes
<1>8. QED
  BY <1>2, <1>3, <1>4, <1>5, <1>6, <1>7 DEF CiuTypeOK, CiuType, CiuStates

-----------------------------------------------------------------------------
(* The lines of the active cache.                                           *)

\* The line the words of a fetched block go to, and what it holds in the end.
FillSet == SetOf(ciu.addr)
FillWay == fifoSta[FillSet]
FillVal == IF image THEN ciu.addr ELSE Unverified
LastWrite == Write(FillSet, FillWay, FillVal)

Replaced(s, w) == fetchTrk /\ FillSet = s /\ fifoSta[s] = w

\* A tagged line holds its block unless it is being replaced, and no write on
\* its way to the RAM is about to change that.
Lines ==
  Serving /\ ~Erasing =>
    \A s \in Sets, w \in Ways :
      vtag[s][w] # NoTag => mem[s][w] = vtag[s][w] \/ Replaced(s, w)
Harmless(p) ==
  p.op = "WR" => vtag[p.set][p.way] = NoTag \/ Replaced(p.set, p.way)
PipeSafe == Serving /\ ~Erasing => Harmless(ramP1) /\ Harmless(ramP2)

\* The last word of the block is in the pipeline or in the line once all have
\* been written, and in the line before the tag is checked: sub-states 3 and 4
\* are as long as the pipeline.
Landed ==
  \/ ramP1 = LastWrite
  \/ ramP1.op # "WR" /\ ramP2 = LastWrite
  \/ ramP1.op # "WR" /\ ramP2.op # "WR" /\ mem[FillSet][FillWay] = FillVal
Fill ==
  Serving /\ cmuState = "FETCH_BLOCK" =>
    /\ cwSub \in 1 .. 4
    /\ cwSub \in {3, 4} => cwBeats = BlockWords /\ ramP1.op # "WR"
    /\ cwSub = 4 => ramP2.op # "WR"
    /\ cwBeats = BlockWords => Landed

\* An access begun in one mode does not end in another that would give it a
\* different meaning.
Accepted == ~ciu.extVio /\ ~ciu.otherErr
WriteMode ==
  ciu.sm = "MEM_WRITE" /\ ciu.memWrite /\ Accepted => sincState # "CACHE_ACTIVE"
RereadMode == ciu.sm = "RREAD" => sincState \in {"CACHE_ACTIVE", "CACHE_FAILED"}
ReadMode ==
  ciu.sm = "MEM_READ" /\ Accepted /\ sincState = "INITIALIZATION"
    => cmuState # "SET_CACHE_ACTIVE"

\* The row a read has fetched holds, in the way of its tag, its block.
RowRead ==
  ciu.sm = "MEM_READ" /\ Accepted /\ Serving /\ ~Erasing /\ ramP1.op = "RD"
    => \A w \in Ways :
         vtag[SetOf(ciu.addr)][w] = ciu.addr => ramP1.row[w] = ciu.addr

AuthIInv ==
  /\ MissWrites /\ WriteMode /\ RereadMode /\ ReadMode
  /\ Lines /\ PipeSafe /\ Fill /\ RowRead /\ ActiveReadsAreAuthentic

\* Reads go on being served only after a cycle in which they were, and nothing
\* was erased or failed, unless nothing is tagged.
LEMMA ServedBefore ==
  ASSUME Base, CryptoIInv, EraseIInv, NEW in, NEW x, NEW m, NEW c,
         Wires(in, x, m, c), Serving', ~Erasing'
  PROVE  \/ Clean'
         \/ /\ Serving /\ ~Erasing /\ ~eraseWe /\ ~c.syncReset
            /\ ~VtagEraseOp(VtagEraseStart(in)) /\ ~m.fault /\ ~c.ecc
<1> DEFINE op == VtagEraseOp(VtagEraseStart(in))
<1>0. /\ CmuTypeOK /\ CiuTypeOK /\ VtagTypeOK /\ ControlFsm(m) /\ ErrorFlops(m)
      /\ CiuCycle(c) /\ VtagStep(in, c) /\ ciu.addr \in Blocks
      /\ (c.ecc => m.fault)
  BY DEF Base, TypeOK, Wires, Clocked, CmuCycle, CiuSees, CmuSees, CiuTypeOK,
     CiuType
<1>1. /\ op => vtagSm' = "WR" \/ Clean' \/ c.syncReset
      /\ Clean /\ ~VtagUpd(c) => Clean'
  BY <1>0, WalkStep DEF EraseIInv
<1>2. ~c.syncReset
  BY <1>0, EraseFlops DEF Erasing
<1>3. op => Clean'
  BY <1>1, <1>2 DEF Erasing
<1>4. Erasing => op
  BY DEF Erasing, EraseIInv, EraseOnce, VtagEraseOp, VtagEraseStart,
     EngnEraseStart
<1>5. ~m.fault /\ ~c.ecc
  BY <1>0 DEF ErrorFlops, SevereErrDin, Serving
<1>6. Serving \/ sincState = "INITIALIZATION"
  BY <1>0, ModeMoves DEF Serving
<1>7. CASE sincState = "INITIALIZATION"
  <2>1. ~VtagUpd(c)
    BY <1>7, UpdateOutcome
  <2>2. Clean \/ op
    BY <1>4, <1>7 DEF EraseIInv, ModeClean
  <2>3. QED
    BY <1>1, <1>3, <2>1, <2>2
<1>8. CASE eraseWe
  <2>1. ~VtagUpd(c)
    BY <1>8, UpdateOutcome DEF MemEraseBusy
  <2>2. Clean \/ op
    BY <1>4, <1>8 DEF EraseIInv, EraseCovers
  <2>3. QED
    BY <1>1, <1>3, <2>1, <2>2
<1>9. QED
  BY <1>2, <1>3, <1>4, <1>5, <1>6, <1>7, <1>8

\* While reads are served a tracked fetch goes on, or ends with its tag
\* written: one that fails is a severe error.
LEMMA FetchGoesOn ==
  ASSUME Base, CryptoIInv, NEW in, NEW x, NEW m, NEW c, Wires(in, x, m, c),
         Serving, fetchTrk
  PROVE  /\ cmuState = "FETCH_BLOCK" /\ cwState = "FETCH_BLOCK"
         /\ ciu.sm = "CACHE_MISS" /\ ciuAddrQ = ciu.addr /\ ~c.syncReset
         /\ Serving' => \/ VtagUpd(c)
                        \/ /\ ~CwComp(x) /\ ~m.fault /\ fetchTrk'
                           /\ ciu'.addr = ciu.addr
<1>1. ~hwFaultQ /\ pendCmd = "NONE"
  BY DEF Serving, CryptoIInv, FaultSticks, Base, ReqIInv, Unseeded
<1>2. cmuState = "FETCH_BLOCK"
  BY <1>1 DEF Base, ReqIInv, TrackedFetchIsServed
<1>3. cwState = "FETCH_BLOCK"
  BY <1>2 DEF CryptoIInv, FetchIsOn
<1>4. ciu.sm = "CACHE_MISS" /\ ciuAddrQ = ciu.addr
  BY <1>2 DEF Base, ReqIInv, FetchServesTheMiss, FetchRequestIsHeard,
     FetchAllowed, Idle
<1>5. ~c.syncReset
  BY <1>2 DEF Base, ReqIInv, NoResetUnderFetch, Wires, CiuSees, SyncCiuReset,
     CmuSincReinit, Idle
<1>6. ASSUME Serving', ~VtagUpd(c)
      PROVE  ~CwComp(x) /\ ~m.fault /\ fetchTrk' /\ ciu'.addr = ciu.addr
  <2>1. ~m.fault /\ ~CwErr(x)
    BY <1>2, <1>6, FetchOutcome DEF CryptoIInv, Serving, Wires, Clocked,
       CmuCycle, ErrorFlops, SevereErrDin
  <2>2. ~CwComp(x)
    BY <1>1, <1>2, <1>4, <1>6, <2>1 DEF VtagUpd, Wires, CiuSees, CmuSees,
       FetchComp, FetchErr
  <2>3. ~FetchComp(m)
    BY <1>1, <2>1, <2>2 DEF FetchComp, Wires, CmuSees
  <2>4. fetchTrk'
    BY <2>3 DEF Wires, Clocked, CmuCycle, FetchTracker
  <2>5. Follows(ciu', c)
    BY <1>5, CiuFollows DEF Base, TagIInv, Wires, Clocked, CiuSees
  <2>6. ciu'.addr = ciu.addr
    BY <1>4, <2>3, <2>5 DEF Follows, Wires, CiuSees
  <2>7. QED
    BY <2>1, <2>2, <2>4, <2>6
<1>7. QED
  BY <1>2, <1>3, <1>4, <1>5, <1>6

\* The only writes while reads are served are the words of the block fetched,
\* each to the line being replaced.
LEMMA FillAccess ==
  ASSUME Base, CryptoIInv, MissWrites, WriteMode, NEW in, NEW x, NEW m, NEW c,
         Wires(in, x, m, c), Serving
  PROVE  /\ RamAcc(in, x, c).op = "WR" => CmuMemWr(x)
         /\ CmuMemWr(x) =>
              /\ fetchTrk /\ cwSub \in {1, 2}
              /\ RamAcc(in, x, c) =
                   Write(FillSet, FillWay,
                         IF LastBeat /\ image THEN ciu.addr ELSE Unverified)
<1>1. Active(c)
  BY DEF Wires, CiuSees, Active, Serving
<1>2. ~CpuMemWrite(c)
  BY DEF CpuMemWrite, AccVio, WriteMode, Accepted, Serving
<1>3. CASE ~CmuMemWr(x)
  <2>1. RamAcc(in, x, c) \in {Read(SetOf(ReadRow(c))), NoAccess}
    BY <1>2, <1>3 DEF RamAcc
  <2>2. QED
    BY <1>3, <2>1 DEF Read, NoAccess
<1>4. CASE CmuMemWr(x)
  <2>1. cwState = "FETCH_BLOCK" /\ cwSub \in {1, 2}
    BY <1>4 DEF CmuMemWr
  <2>2. cmuState # "AES_TEST"
    BY DEF Base, ReqIInv, IInv, CommandRunsInItsMode, ModesOf, Serving
  <2>3. fetchTrk
    BY <2>1, <2>2 DEF CryptoIInv, CwAtWork, FetchIsOn, Serving
  <2>4. ciu.sm = "CACHE_MISS" /\ ciuAddrQ = ciu.addr
    BY <2>3, FetchGoesOn
  <2>5. ~RamRead(c) /\ ciu.memWrite
    BY <2>4 DEF RamRead, ValidCpuRead, MissWrites
  <2>6. QED
    BY <1>1, <1>2, <1>4, <2>1, <2>3, <2>4, <2>5 DEF RamAcc, FillSet, FillWay
<1>5. QED
  BY <1>3, <1>4

\* The line being replaced stays so until its tag is written.
LEMMA ReplacedStays ==
  ASSUME Base, CryptoIInv, NEW in, NEW x, NEW m, NEW c, Wires(in, x, m, c),
         Serving, Serving', ~VtagUpd(c), NEW s \in Sets, NEW w, Replaced(s, w)
  PROVE  Replaced(s, w)'
<1>1. fetchTrk /\ FillSet = s /\ fifoSta[s] = w
  BY DEF Replaced
<1>2. fetchTrk' /\ ciu'.addr = ciu.addr /\ ~c.syncReset
  BY <1>1, FetchGoesOn
<1>3. fifoSta' = fifoSta
  BY <1>2 DEF Wires, Clocked, VtagStep, VtagCycle
<1>4. QED
  BY <1>1, <1>2, <1>3 DEF Replaced, FillSet

\* One cycle: the lines and the writes on their way.
LEMMA LinesStep ==
  ASSUME Base, Base', CryptoIInv, EraseIInv, AuthIInv, NEW in, NEW x, NEW m,
         NEW c, Wires(in, x, m, c)
  PROVE  Lines' /\ PipeSafe'
<1> SUFFICES ASSUME Serving', ~Erasing'
             PROVE  /\ \A s \in Sets, w \in Ways :
                         vtag'[s][w] # NoTag =>
                           mem'[s][w] = vtag'[s][w] \/ Replaced(s, w)'
                    /\ Harmless(ramP1)' /\ Harmless(ramP2)'
  BY DEF Lines, PipeSafe
<1> USE DEF AuthIInv
<1> DEFINE acc == RamAcc(in, x, c)
           Stage == {NoAccess} \cup [op : {"RD"}, row : [Ways -> LineData]]
                      \cup [op : {"WR"}, set : Sets, way : Ways, val : LineData]
<1>1. /\ ramP1' \in Stage /\ ramP2' \in Stage /\ ramP1 \in Stage
      /\ ramP2 \in Stage /\ mem \in [Sets -> [Ways -> LineData]]
  BY DEF Base, TypeOK, RamTypeOK, LineData
<1>2. \A p \in Stage : p.op = "WR" => p.set \in Sets /\ p.way \in Ways
  BY DEF NoAccess
<1>3. CASE Clean'
  BY <1>1, <1>2, <1>3 DEF Clean, Harmless
<1>4. CASE ~Clean'
  <2>1. /\ Serving /\ ~Erasing /\ ~eraseWe /\ ~c.syncReset
        /\ ~VtagEraseOp(VtagEraseStart(in)) /\ ~m.fault /\ ~c.ecc
    BY <1>4, ServedBefore
  <2>2. /\ RamAccess(acc, c.ecc)
        /\ VtagCycle(VtagEraseStart(in), VtagComp(c), VtagUpd(c), ciu.addr,
                     c.syncReset)
    BY DEF Wires, Clocked, RamStep, RamCycle, VtagStep
  <2>3. ciu.addr \in Blocks /\ FillSet \in Sets /\ VtagTypeOK
    BY BlockGeometry DEF Base, TypeOK, CiuTypeOK, CiuType, FillSet
  <2>4. FillWay \in Ways
    BY <2>3 DEF VtagTypeOK, FillWay
  <2>5. \A s \in Sets, w \in Ways :
          vtag[s][w] # NoTag => mem[s][w] = vtag[s][w] \/ Replaced(s, w)
    BY <2>1 DEF Lines
  <2>6. Harmless(ramP1) /\ Harmless(ramP2)
    BY <2>1 DEF PipeSafe
  <2>7. ramP2' = ramP1 /\ (acc.op # "WR" \/ ~QualifiedEn => ramP1'.op # "WR")
    BY <2>2 DEF RamAccess, NoAccess
  <2> HIDE DEF acc
  <2>8. CASE VtagUpd(c)
    <3>1. /\ cmuState = "FETCH_BLOCK" /\ cwSub = 4 /\ image /\ fetchTrk
      BY <2>8, UpdateOutcome
    <3>2. /\ ramP1.op # "WR" /\ ramP2.op # "WR"
          /\ mem[FillSet][FillWay] = ciu.addr
      BY <2>1, <3>1 DEF Fill, Landed, FillVal, LastWrite, Write
    <3>3. ~CmuMemWr(x)
      BY <3>1 DEF CmuMemWr
    <3>4. acc.op # "WR"
      BY <2>1, <3>3, FillAccess DEF acc
    <3>5. mem' = mem
      BY <2>1, <2>2, <3>2 DEF RamAccess
    <3>6. vtag' = [vtag EXCEPT ![FillSet][FillWay] = ciu.addr]
      BY <2>1, <2>2, <2>8 DEF VtagCycle, VtagWrite, FillSet, FillWay
    <3>7. ASSUME NEW s \in Sets, NEW w \in Ways, vtag'[s][w] # NoTag
          PROVE  mem'[s][w] = vtag'[s][w]
      <4>1. CASE s = FillSet /\ w = FillWay
        BY <2>3, <2>4, <3>2, <3>5, <3>6, <4>1 DEF VtagTypeOK
      <4>2. CASE ~(s = FillSet /\ w = FillWay)
        <5>1. vtag'[s][w] = vtag[s][w]
          BY <2>3, <2>4, <3>6, <4>2 DEF VtagTypeOK
        <5>2. ~Replaced(s, w)
          BY <4>2 DEF Replaced, FillWay
        <5>3. QED
          BY <2>5, <3>5, <3>7, <5>1, <5>2
      <4>3. QED
        BY <4>1, <4>2
    <3>8. QED
      BY <2>7, <3>2, <3>4, <3>7 DEF Harmless
  <2>9. CASE ~VtagUpd(c)
    <3>1. vtag' = vtag
      BY <2>1, <2>2, <2>9 DEF VtagCycle, VtagWrite
    <3>2. ASSUME NEW s \in Sets, NEW w \in Ways, Replaced(s, w)
          PROVE  Replaced(s, w)'
      BY <2>1, <2>9, <3>2, ReplacedStays
    <3>3. ASSUME NEW s \in Sets, NEW w \in Ways, vtag[s][w] # NoTag
          PROVE  mem'[s][w] = vtag[s][w] \/ Replaced(s, w)'
      <4>1. CASE Replaced(s, w)
        BY <3>2, <4>1
      <4>2. CASE mem[s][w] = vtag[s][w] /\ mem'[s][w] = mem[s][w]
        BY <4>2
      <4>3. CASE ~Replaced(s, w) /\ mem'[s][w] # mem[s][w]
        <5>1. /\ ramP2.op = "WR"
              /\ mem' = [mem EXCEPT ![ramP2.set][ramP2.way] = ramP2.val]
          BY <2>1, <2>2, <4>3 DEF RamAccess
        <5>2. ramP2.set = s /\ ramP2.way = w
          BY <1>1, <1>2, <4>3, <5>1
        <5>3. QED
          BY <2>6, <3>3, <4>3, <5>1, <5>2 DEF Harmless
      <4>4. QED
        BY <2>5, <3>3, <4>1, <4>2, <4>3
    <3>4. Harmless(ramP2)'
      BY <1>1, <1>2, <2>6, <2>7, <3>1, <3>2 DEF Harmless
    <3>5. Harmless(ramP1)'
      <4> SUFFICES ASSUME ramP1'.op = "WR"
                   PROVE  Replaced(ramP1.set, ramP1.way)'
        BY DEF Harmless
      <4>1. acc.op = "WR" /\ QualifiedEn
        BY <2>7
      <4>2. ramP1' = acc
        BY <2>2, <4>1 DEF RamAccess
      <4>3. fetchTrk /\ acc.set = FillSet /\ acc.way = FillWay
        BY <2>1, <4>1, FillAccess DEF acc, Write
      <4>4. Replaced(FillSet, FillWay)
        BY <4>3 DEF Replaced, FillWay
      <4>5. fetchTrk' /\ ciu'.addr = ciu.addr /\ fifoSta' = fifoSta
        BY <2>1, <2>2, <2>9, <4>3, FetchGoesOn DEF VtagCycle
      <4>6. QED
        BY <4>2, <4>3, <4>5 DEF Replaced, FillSet, FillWay
    <3>6. QED
      BY <3>1, <3>3, <3>4, <3>5
  <2>10. QED
    BY <2>8, <2>9
<1>5. QED
  BY <1>3, <1>4

\* One cycle: the fill.
LEMMA FillStep ==
  ASSUME NO_SEED_LOADING, Base, CryptoIInv, EraseIInv, AuthIInv, NEW in, NEW x,
         NEW m, NEW c, Wires(in, x, m, c)
  PROVE  Fill'
<1> USE DEF AuthIInv
<1>0. /\ CmuTypeOK /\ CwTypeOK /\ ControlFsm(m) /\ ErrorFlops(m) /\ InputOK(m)
      /\ CwCycle(x) /\ x.severe = severeErr /\ x.cmd = CmuCtrlCmd(m)
      /\ m.cwComp = CwComp(x) /\ RamAccess(RamAcc(in, x, c), c.ecc)
      /\ (x.memWr => ~RamBusy) /\ x.eraseBusy = MemEraseBusy(in)
      /\ (c.ecc => m.fault)
  BY DEF Base, TypeOK, Wires, Clocked, CmuCycle, CmuSees, CryptoSees, CiuSees,
     RamStep, RamCycle
<1>1. BlockWords \in Nat \ {0}
  BY RamGeometry
<1> SUFFICES ASSUME Serving', cmuState' = "FETCH_BLOCK"
             PROVE  /\ cwSub' \in 1 .. 4
                    /\ cwSub' \in {3, 4} =>
                         cwBeats' = BlockWords /\ ramP1'.op # "WR"
                    /\ cwSub' = 4 => ramP2'.op # "WR"
                    /\ cwBeats' = BlockWords => Landed'
  BY DEF Fill
<1>2. ~m.fault /\ ~severeErr
  BY <1>0, ModeMoves DEF Serving, ErrorFlops, SevereErrDin
<1>3. CASE Idle
  <2>1. Dispatch(m) = "FETCH_BLOCK"
    BY <1>0, <1>2, <1>3, StateMoves
  <2>2. x.cmd = "FETCH_BLOCK" /\ cwState = "SINC_IDLE"
    BY <1>0, <1>2, <1>3, <2>1, CommandPresented
       DEF Shared, CwStates, CryptoIInv, CwAtWork, Idle
  <2>3. cwSub' = 1 /\ cwBeats' = 0
    BY <1>0, <1>2, <2>2, CwMoves
  <2>4. QED
    BY <1>1, <2>3
<1>4. CASE ~Idle
  <2>1. cmuState = "FETCH_BLOCK" /\ ~CwComp(x)
    BY <1>0, <1>2, <1>4, ControlMoves, StateMoves
       DEF Idle, Shared, CwStates, Cleaning
  <2>2. Serving
    BY <1>0, <1>2, <2>1, ModeMoves DEF Serving
  <2>3. fetchTrk /\ cwState = "FETCH_BLOCK"
    BY <2>1, <2>2 DEF CryptoIInv, FetchIsOn
  <2>4. ~VtagUpd(c)
    BY <1>2, <2>1 DEF VtagUpd, Wires, CiuSees, CmuSees, FetchComp, FetchErr
  <2>5. ciu'.addr = ciu.addr /\ ~c.syncReset
    BY <2>2, <2>3, <2>4, FetchGoesOn
  <2>6. fifoSta' = fifoSta
    BY <2>4, <2>5 DEF Wires, Clocked, VtagStep, VtagCycle
  <2>7. CwFetchBlock(x)
    BY <1>0, <2>3 DEF CwCycle, CwIdle, CwSetInit, CwEncrBlock, CwSincReset,
       CwSincReinit, CwAesTest, CwAesSeed
  <2>8. image' = image /\ cwBeats' = IF CmuMemWr(x) THEN cwBeats + 1 ELSE cwBeats
    BY <2>7 DEF CwFetchBlock
  <2>9. /\ cwSub \in {1, 3} => cwSub' \in {cwSub, cwSub + 1}
        /\ cwSub = 2 => cwSub' = IF cwBeats = BlockWords THEN 3 ELSE 2
        /\ cwSub = 4 => cwSub' = 4
    BY <1>0, <1>2, <2>1, <2>7 DEF CwFetchBlock, CwGoto
  <2>10. FillSet' = FillSet /\ FillWay' = FillWay /\ FillVal' = FillVal
    BY <2>5, <2>6, <2>8 DEF FillSet, FillWay, FillVal
  <2>11. LastWrite' = LastWrite
    BY <2>10 DEF LastWrite, Write
  <2>12. ~eraseWe /\ ~c.ecc
    BY <1>0, <1>2, <2>1, <2>3, FetchOutcome DEF CryptoIInv, MemEraseBusy, CwComp
  <2>13. /\ cwSub \in 1 .. 4
         /\ cwSub \in {3, 4} => cwBeats = BlockWords /\ ramP1.op # "WR"
         /\ cwSub = 4 => ramP2.op # "WR"
         /\ cwBeats = BlockWords => Landed
    BY <2>1, <2>2 DEF Fill
  <2>14. ramP2' = ramP1
    BY <1>0 DEF RamAccess
  <2>15. cwBeats \in 0 .. BlockWords
    BY <1>0 DEF CwTypeOK
  <2>16. CASE CmuMemWr(x)
    <3>1. cwSub \in {1, 2} /\ cwBeats < BlockWords /\ ~RamBusy
      BY <1>0, <2>16 DEF CmuMemWr
    <3>2. RamAcc(in, x, c) =
            Write(FillSet, FillWay,
                  IF LastBeat /\ image THEN ciu.addr ELSE Unverified)
      BY <2>2, <2>16, FillAccess
    <3>3. ramP1' = RamAcc(in, x, c)
      BY <1>0, <2>12, <3>1, <3>2 DEF RamAccess, QualifiedEn, Write
    <3>4. cwBeats' = cwBeats + 1
      BY <2>8, <2>16
    <3>5. cwBeats' = BlockWords => ramP1' = LastWrite'
      BY <1>1, <2>11, <2>15, <3>2, <3>3, <3>4 DEF LastBeat, LastWrite, FillVal
    <3>6. cwSub' \in {1, 2}
      BY <1>1, <2>9, <2>15, <3>1
    <3>7. QED
      BY <3>5, <3>6 DEF Landed
  <2>17. CASE ~CmuMemWr(x)
    <3>1. RamAcc(in, x, c).op # "WR"
      BY <2>2, <2>17, FillAccess
    <3>2. ramP1'.op # "WR"
      BY <1>0, <3>1 DEF RamAccess, NoAccess
    <3>3. cwBeats' = cwBeats
      BY <2>8, <2>17
    <3>4. cwBeats = BlockWords => Landed'
      <4> SUFFICES ASSUME Landed PROVE Landed'
        BY <2>13
      <4>1. CASE ramP1 = LastWrite
        BY <2>11, <2>14, <3>2, <4>1 DEF Landed
      <4>2. CASE ramP1.op # "WR" /\ ramP2 = LastWrite
        <5>1. mem' = [mem EXCEPT ![FillSet][FillWay] = FillVal]
          BY <1>0, <2>12, <4>2 DEF RamAccess, LastWrite, Write
        <5>2. FillSet \in Sets
          BY BlockGeometry DEF FillSet, Base, TypeOK, CiuTypeOK, CiuType
        <5>3. FillWay \in Ways
          BY <5>2 DEF FillWay, Base, TypeOK, VtagTypeOK
        <5>4. mem'[FillSet][FillWay] = FillVal
          BY <5>1, <5>2, <5>3 DEF Base, TypeOK, RamTypeOK
        <5>5. QED
          BY <2>10, <2>14, <3>2, <4>2, <5>4 DEF Landed
      <4>3. CASE /\ ramP1.op # "WR" /\ ramP2.op # "WR"
                 /\ mem[FillSet][FillWay] = FillVal
        <5>1. mem' = mem
          BY <1>0, <2>12, <4>3 DEF RamAccess
        <5>2. QED
          BY <2>10, <2>14, <3>2, <4>3, <5>1 DEF Landed
      <4>4. QED
        BY <4>1, <4>2, <4>3 DEF Landed
    <3>5. QED
      BY <2>9, <2>13, <2>14, <3>2, <3>3, <3>4
  <2>18. QED
    BY <2>16, <2>17
<1>5. QED
  BY <1>3, <1>4

\* One cycle: an access keeps the meaning its mode has given it.
LEMMA ModesStep ==
  ASSUME Base, CryptoIInv, AuthIInv, NEW in, NEW x, NEW m, NEW c,
         Wires(in, x, m, c)
  PROVE  MissWrites' /\ WriteMode' /\ RereadMode' /\ ReadMode'
<1> USE DEF AuthIInv
<1>0. /\ CmuTypeOK /\ ControlFsm(m) /\ InputOK(m) /\ CiuCycle(c)
      /\ c.mode = sincState /\ c.cmuBusy = CmuBusy(m)
  BY DEF Base, TypeOK, Wires, Clocked, CmuCycle, CmuSees, CiuSees
<1>1. CASE c.syncReset
  <2>1. ciu' = CiuReset(TRUE)
    BY <1>0, <1>1 DEF CiuCycle
  <2>2. ciu'.sm = "IDLE"
    BY <2>1 DEF CiuReset
  <2>3. QED
    BY <2>2 DEF MissWrites, WriteMode, RereadMode, ReadMode
<1>2. CASE ~c.syncReset
  <2>1. Owes(ciu', c)
    BY <1>0, <1>2, CiuOwes DEF Base, TypeOK
  <2>2. Follows(ciu', c)
    BY <1>0, <1>2, CiuFollows DEF Base, TagIInv, Wires, CiuSees
  <2>3. ~c.cmuBusy => cmuState # "SET_CACHE_ACTIVE" /\ cmuState' # "SET_CACHE_ACTIVE"
    BY <1>0, ControlMoves DEF CmuBusy, StallStates, Idle
  <2>4. MissWrites'
    BY <2>1 DEF Owes, MissWrites
  <2>5. WriteMode'
    BY <1>0, <2>1, <2>3, Activation DEF Owes, WriteMode, Accepted, Active
  <2>6. RereadMode'
    <3> SUFFICES ASSUME ciu'.sm = "RREAD"
                 PROVE  sincState' \in {"CACHE_ACTIVE", "CACHE_FAILED"}
      BY DEF RereadMode
    <3>1. VtagUpd(c)
      BY <2>2 DEF Follows
    <3>2. /\ cmuState = "FETCH_BLOCK"
          /\ sincState \in {"CACHE_ACTIVE", "CACHE_FAILED"}
      BY <3>1, UpdateOutcome
    <3>3. QED
      BY <1>0, <3>2, ModeMoves
  <2>7. ReadMode'
    <3> SUFFICES ASSUME ciu'.sm = "MEM_READ", ~ciu'.extVio, ~ciu'.otherErr,
                        sincState' = "INITIALIZATION"
                 PROVE  cmuState' # "SET_CACHE_ACTIVE"
      BY DEF ReadMode, Accepted
    <3>1. RamRead(c)
      BY <2>1 DEF Owes
    <3>2. CASE ValidCpuRead(c)
      BY <2>3, <3>2 DEF ValidCpuRead
    <3>3. CASE ciu.sm = "RREAD"
      <4>1. Idle /\ sincState \in {"CACHE_ACTIVE", "CACHE_FAILED"}
        BY <3>3 DEF RereadMode, Base, TagIInv, RereadWhileIdle
      <4>2. QED
        BY <1>0, <4>1, ModeMoves DEF Idle
    <3>4. QED
      BY <3>1, <3>2, <3>3 DEF RamRead
  <2>8. QED
    BY <2>4, <2>5, <2>6, <2>7
<1>3. QED
  BY <1>1, <1>2

\* One cycle: the row a read fetches.
LEMMA RowStep ==
  ASSUME Base, CryptoIInv, EraseIInv, AuthIInv, NEW in, NEW x, NEW m, NEW c,
         Wires(in, x, m, c)
  PROVE  RowRead'
<1> USE DEF AuthIInv
<1>0. /\ CiuCycle(c) /\ RamAccess(RamAcc(in, x, c), c.ecc)
      /\ VtagCycle(VtagEraseStart(in), VtagComp(c), VtagUpd(c), ciu.addr,
                   c.syncReset)
      /\ c.addr \in Blocks /\ CiuTypeOK /\ CiuFlops
  BY DEF Base, TypeOK, TagIInv, Wires, Clocked, CiuSees, RamStep, RamCycle,
     VtagStep
<1> SUFFICES ASSUME ciu'.sm = "MEM_READ", ~ciu'.extVio, ~ciu'.otherErr,
                    Serving', ~Erasing', ramP1'.op = "RD", NEW w \in Ways,
                    vtag'[SetOf(ciu'.addr)][w] = ciu'.addr
             PROVE  ramP1'.row[w] = ciu'.addr
  BY DEF RowRead, Accepted
<1>1. ~c.syncReset
  BY <1>0, EraseFlops DEF Erasing
<1>2. RamRead(c) /\ ciu'.addr = ReadRow(c)
  BY <1>0, <1>1, CiuOwes DEF Owes
<1>3. ciu'.addr \in Blocks
  BY <1>0, <1>1, CiuFollows DEF Follows
<1>4. SetOf(ciu'.addr) \in Sets /\ ciu'.addr # NoTag
  BY <1>3, BlockGeometry
<1>5. Serving /\ ~Erasing /\ ~VtagEraseOp(VtagEraseStart(in))
  BY <1>4, ServedBefore DEF Clean
<1>6. ciu.sm # "CACHE_MISS"
  BY <1>2 DEF RamRead, ValidCpuRead
<1>7. vtag' = vtag
  BY <1>0, <1>5, <1>6 DEF VtagCycle, VtagWrite, VtagUpd
<1>8. ~fetchTrk
  BY <1>6 DEF Base, ReqIInv, FetchServesTheMiss
<1>9. mem[SetOf(ciu'.addr)][w] = ciu'.addr
  BY <1>4, <1>5, <1>7, <1>8 DEF Lines, Replaced
<1>10. RamAcc(in, x, c) = Read(SetOf(ciu'.addr))
  <2>1. ~CmuMemWr(x)
    BY <1>5, <1>8, FillAccess
  <2>2. ~CpuMemWrite(c)
    BY <1>2 DEF CpuMemWrite, RamRead, ValidCpuRead
  <2>3. QED
    BY <1>2, <2>1, <2>2 DEF RamAcc
<1>11. ramP1' = [op |-> "RD", row |-> mem[SetOf(ciu'.addr)]]
  BY <1>0, <1>10 DEF RamAccess, NoAccess, Read
<1>12. QED
  BY <1>9, <1>11

\* One cycle: the answer.
LEMMA AnswerStep ==
  ASSUME Base, CryptoIInv, EraseIInv, AuthIInv, NEW in, NEW x, NEW m, NEW c,
         Wires(in, x, m, c)
  PROVE  ActiveReadsAreAuthentic'
<1> USE DEF AuthIInv
<1>0. /\ CiuCycle(c) /\ ramP2' = ramP1 /\ CmuTypeOK /\ ControlFsm(m)
      /\ CiuTypeOK /\ c.mode = sincState /\ c.eraseBusy = MemEraseBusy(in)
      /\ c.hit = CacheHit(ciu.addr)
      /\ c.hitWay = IF CacheHit(ciu.addr) THEN HitWay(ciu.addr) ELSE 0
  BY DEF Base, TypeOK, Wires, Clocked, CmuCycle, CiuSees, RamStep, RamCycle,
     RamAccess
<1> SUFFICES ASSUME ciu'.sm = "WAIT", ciu'.rdVld, ramP2'.op = "RD",
                    sincState' = "CACHE_ACTIVE"
             PROVE  ramP2'.row[ciu'.sel] = ciu'.addr
  BY DEF ActiveReadsAreAuthentic, RdataValid, Rdata
<1>1. ~c.syncReset
  BY <1>0 DEF CiuCycle, CiuReset
<1>2. /\ ciu.sm = "MEM_READ" /\ Accepted /\ ~c.eraseBusy /\ ~Failed(c)
      /\ ciu'.addr = ciu.addr
      /\ Active(c) => c.hit /\ ciu'.sel = c.hitWay
  BY <1>0, <1>1, CiuOwes DEF Owes, Accepted
<1>3. Serving
  BY <1>0, <1>2, ModeMoves DEF ReadMode, Serving
<1>4. ~Erasing
  BY <1>0, <1>2 DEF MemEraseBusy, VtagEraseOp, VtagEraseStart, EngnEraseStart,
     Erasing
<1>5. CacheHit(ciu.addr) /\ ciu'.sel = HitWay(ciu.addr)
  BY <1>0, <1>2, <1>3 DEF Serving, Active
<1>6. ciu'.sel \in Ways /\ vtag[SetOf(ciu.addr)][ciu'.sel] = ciu.addr
  BY <1>5, HitIsTagged
<1>7. QED
  BY <1>0, <1>2, <1>3, <1>4, <1>6 DEF RowRead

\* A low-power reset finds no fetch and, as assumed, no walk over the tags.
LEMMA AuthLpReset ==
  ASSUME LpSparesWalk, Base, EraseIInv, AuthIInv, LpReset PROVE AuthIInv'
<1>0. ~SincActive /\ ~fetchTrk
  BY DEF LpReset, SincActive, Base, ReqIInv, FetchServesTheMiss
<1>1. /\ cmuState' = "SINC_IDLE" /\ ~fetchTrk /\ ~Erasing
      /\ ~severeErr /\ sincState' = sincState /\ vtag' = vtag /\ mem' = mem
      /\ ramP1' = NoAccess /\ ramP2' = NoAccess /\ ciu' = CiuReset(FALSE)
  BY <1>0 DEF LpReset, CmuLpReset, ClearedFlops, retVars, VtagLpReset,
     RamLpReset, CiuLpReset, SincActive, LpSparesWalk
<1>2. ciu'.sm = "IDLE"
  BY <1>1 DEF CiuReset
<1>3. Lines'
  BY <1>1 DEF AuthIInv, Lines, Replaced, Serving
<1>4. PipeSafe'
  BY <1>1 DEF PipeSafe, Harmless, NoAccess
<1>5. QED
  BY <1>1, <1>2, <1>3, <1>4 DEF AuthIInv, MissWrites, WriteMode, RereadMode,
     ReadMode, Fill, RowRead, ActiveReadsAreAuthentic

\* The inductive invariant of the active cache.
THEOREM AuthInvariant ==
  ASSUME NO_SEED_LOADING, LpSparesWalk PROVE Spec => []AuthIInv
<1>1. Init => AuthIInv
  <2> SUFFICES ASSUME Init PROVE AuthIInv
    OBVIOUS
  <2>1. /\ sincState = "DISABLED" /\ ciu = CiuReset(FALSE)
    BY DEF Init, CmuInit, CiuInit
  <2>2. ciu.sm = "IDLE" /\ ~Serving
    BY <2>1 DEF CiuReset, Serving
  <2>3. QED
    BY <2>2 DEF AuthIInv, MissWrites, WriteMode, RereadMode, ReadMode, Lines,
       PipeSafe, Fill, RowRead, ActiveReadsAreAuthentic
<1>2. Base /\ Base' /\ CryptoIInv /\ EraseIInv /\ AuthIInv /\ [Next]_vars
        => AuthIInv'
  <2> SUFFICES ASSUME Base, Base', CryptoIInv, EraseIInv, AuthIInv,
                      [Next]_vars
               PROVE  AuthIInv'
    OBVIOUS
  <2>1. CASE AnyCycle
    <3>1. PICK in, x, m, c : Wires(in, x, m, c)
      BY <2>1, CycleHasWires DEF Base
    <3>2. Lines' /\ PipeSafe'
      BY <3>1, LinesStep
    <3>3. Fill'
      BY <3>1, FillStep
    <3>4. MissWrites' /\ WriteMode' /\ RereadMode' /\ ReadMode'
      BY <3>1, ModesStep
    <3>5. RowRead' /\ ActiveReadsAreAuthentic'
      BY <3>1, RowStep, AnswerStep
    <3>6. QED
      BY <3>2, <3>3, <3>4, <3>5 DEF AuthIInv
  <2>2. CASE LpReset
    BY <2>2, AuthLpReset
  <2>3. CASE UNCHANGED vars
    BY <2>3 DEF vars, cmuVars, retVars, fsmVars, cwVars, vtagVars, ramVars,
       AuthIInv, MissWrites, WriteMode, RereadMode, ReadMode, Lines, PipeSafe,
       Fill, Landed, RowRead, ActiveReadsAreAuthentic, RdataValid, Rdata,
       Serving, Erasing, Replaced, Harmless, FillSet, FillWay, FillVal,
       LastWrite, Accepted
  <2>4. QED
    BY <2>1, <2>2, <2>3 DEF Next
<1>3. QED
  BY <1>1, <1>2, BaseInvariant, CryptoInvariant, EraseInvariant, PTL DEF Spec

\* A read of the active cache that is answered with data gets the authentic
\* plaintext of its block: with any number of sets, ways, blocks and words,
\* any tampering with the external copies, any fault in any cycle, erases from
\* the register and low-power resets that spare the walk over the tags
\* (sinc_ciu_ctrl, sinc_ciu_vtag, sinc_cmu_crypto_wrap_ctrl).
THEOREM ReadsStayAuthentic ==
  ASSUME NO_SEED_LOADING, LpSparesWalk PROVE Spec => []ActiveReadsAreAuthentic
<1>1. AuthIInv => ActiveReadsAreAuthentic
  BY DEF AuthIInv
<1>2. QED
  BY <1>1, AuthInvariant, PTL

\* Every tagged line of the active cache holds the block of its tag, apart
\* from the one line a fetch replaces, if low-power resets spare the walk over
\* the tags: neither a fetch that fails half-way nor a write of the CPU or a
\* word that arrives late damages another line (ram_wrapper, sinc_ciu_vtag).
THEOREM TaggedLinesStayTrue ==
  ASSUME NO_SEED_LOADING, LpSparesWalk PROVE Spec => []TaggedLinesHoldTheirBlock
<1>1. AuthIInv => TaggedLinesHoldTheirBlock
  BY DEF AuthIInv, Lines, Serving, Erasing, Replaced, FillSet,
     TaggedLinesHoldTheirBlock
<1>2. QED
  BY <1>1, AuthInvariant, PTL

-----------------------------------------------------------------------------
(* Without hardware faults.  A fault takes the control FSM out of whatever  *)
(* it does; without one a command ends only when the units at work have     *)
(* acknowledged it, and the results below are stated for such a core.       *)

NoFaultSeen == ~hwFaultQ /\ ~faultPulse

\* A severe error finds both FSMs idle and nothing under way that would start
\* a command while the crypto wrapper does not listen.
SevereFindsIdle ==
  severeErr => /\ Idle /\ cwState = "SINC_IDLE" /\ ~ciu.fetchReq
               /\ cmdVldPass1 => cmd = "NONE"

InStep ==
  /\ cmuState \in (Shared \ Cleaning) \cup {"AES_TEST"} => cwState = cmuState
  /\ cmuState \in Cleaning => cwState = cmuState \/ cWrapCompQ

FetchTracked == cmuState = "FETCH_BLOCK" => fetchTrk

ReportedIsRunning == stsInProg => ~Idle

StepIInv ==
  /\ NoFaultSeen /\ SevereFindsIdle /\ InStep /\ FetchTracked /\ ReportedIsRunning

\* The statuses of the crypto wrapper, and who reports a severe one.
LEMMA StatusValues ==
  ASSUME CwTypeOK, NEW x
  PROVE  /\ CwSts(x) \in CWrapSts
         /\ cwState \in {"SINC_IDLE", "SINC_RESET", "SINC_REINIT"} => CwSts(x) = "NONE"
         /\ CwErr(x) <=> CwSts(x) # "NONE"
<1>1. EncrErr(x) \in CWrapSts
  BY DEF EncrErr, CWrapSts, SevereSts, NonSevereSts
<1>2. FetchErrSts(x) \in CWrapSts
  BY DEF FetchErrSts, CWrapSts, SevereSts, NonSevereSts
<1>3. AesTestErr(x) \in CWrapSts
  BY DEF AesTestErr, CWrapSts, SevereSts, NonSevereSts, CwTypeOK
<1>4. CwSts(x) \in CWrapSts
  BY <1>1, <1>2, <1>3 DEF CwSts, CWrapSts, SevereSts, NonSevereSts
<1>5. cwState \in {"SINC_IDLE", "SINC_RESET", "SINC_REINIT"} => CwSts(x) = "NONE"
  BY DEF CwSts
<1>6. QED
  BY <1>4, <1>5 DEF CwErr

\* A command that does not end keeps the crypto wrapper where it is.
LEMMA CwStays ==
  ASSUME CwTypeOK, NEW x, CwCycle(x), ~x.severe
  PROVE  /\ ~CwComp(x) /\ cwState \notin Cleaning \cup {"SINC_IDLE"} => cwState' = cwState
         /\ cwState = "SINC_IDLE" /\ x.cmd \in CwStates /\ x.cmd # "AES_SEED"
              => cwState' = x.cmd
         /\ cwState \in Cleaning => CwComp(x)
<1>1. CASE CwIdle(x)
  BY <1>1 DEF CwIdle, CwGoto, Cleaning
<1>2. CASE CwSetInit(x)
  BY <1>2 DEF CwSetInit, CwGoto, Cleaning
<1>3. CASE CwEncrBlock(x)
  BY <1>3 DEF CwEncrBlock, CwGoto, Cleaning
<1>4. CASE CwFetchBlock(x)
  BY <1>4 DEF CwFetchBlock, CwGoto, Cleaning
<1>5. CASE CwAesTest(x)
  BY <1>5 DEF CwAesTest, CwGoto, Cleaning
<1>6. CASE CwAesSeed(x)
  BY <1>6 DEF CwAesSeed, CwGoto, Cleaning
<1>7. CASE CwSincReset(x) \/ CwSincReinit(x)
  BY <1>7 DEF CwSincReset, CwSincReinit, Cleaning, CwComp
<1>8. QED
  BY <1>1, <1>2, <1>3, <1>4, <1>5, <1>6, <1>7 DEF CwCycle

\* A severe error that no fault causes is the crypto wrapper's, and ends the
\* command it works on.
LEMMA SevereOutcome ==
  ASSUME Base, CryptoIInv, StepIInv, NEW in, NEW x, NEW m, NEW c,
         Wires(in, x, m, c), ~m.fault, severeErr'
  PROVE  /\ ~severeErr /\ ~Idle /\ CwComp(x)
         /\ cmuState \in (Shared \ Cleaning) \cup {"AES_TEST"}
         /\ cmuState' = "SINC_IDLE" /\ cwState' = "SINC_IDLE"
<1>0. /\ CmuTypeOK /\ CwTypeOK /\ ControlFsm(m) /\ ErrorFlops(m) /\ InputOK(m)
      /\ CwCycle(x) /\ m.cwSts = CwSts(x) /\ m.cwComp = CwComp(x)
  BY DEF Base, TypeOK, Wires, Clocked, CmuCycle, CmuSees
<1>1. PICK s \in SevereSts : StsOut(m) = {s}
  BY <1>0 DEF ErrorFlops, SevereErrDin
<1>2. m.cwSts = s
  BY <1>1 DEF StsOut, SevereSts
<1>3. CwErr(x) /\ CwComp(x) /\ cwState \in CwStates \ (Cleaning \cup {"SINC_IDLE"})
  BY <1>0, <1>1, <1>2, StatusValues DEF SevereSts, CwComp, CwTypeOK, Cleaning
<1>4. ~severeErr
  BY <1>3 DEF StepIInv, SevereFindsIdle
<1>5. cmuState \in (Shared \ Cleaning) \cup {"AES_TEST"}
  BY <1>3, <1>4 DEF CryptoIInv, CwAtWork, Shared, Cleaning
<1>6. ~Idle
  BY <1>5 DEF Idle, Shared
<1>7. cmuState' = "SINC_IDLE"
  BY <1>0, <1>3, <1>5, StateMoves
<1>8. cwState' = "SINC_IDLE"
  BY <1>0, <1>3, CwMoves
<1>9. QED
  BY <1>3, <1>4, <1>5, <1>6, <1>7, <1>8

\* A block is requested by an idle CMU.
LEMMA RequestFromIdle ==
  ASSUME NO_SEED_LOADING, Base, NEW in, NEW x, NEW m, NEW c, Wires(in, x, m, c),
         ciu'.fetchReq
  PROVE  Idle /\ Dispatch(m) = "SINC_IDLE" /\ ~c.syncReset
<1>1. /\ CiuFlops /\ c.addr \in Blocks /\ CiuCycle(c) /\ c.mode = sincState
      /\ c.cmuBusy = CmuBusy(m) /\ InputOK(m) /\ ReqIInv
  BY DEF Base, ReqIInv, Wires, Clocked, CiuSees, CmuSees
<1>2. IF c.syncReset
      THEN CiuFlops' /\ ciu'.sm = "IDLE" /\ ~ciu'.fetchReq
      ELSE Follows(ciu', c)
  BY <1>1, CiuFollows
<1>3. ~c.syncReset /\ ~CmuBusy(m) /\ sincState = "CACHE_ACTIVE"
  BY <1>1, <1>2 DEF Follows, Active
<1>4. QED
  BY <1>1, <1>3, NotBusyIsIdle

LEMMA SevereStep ==
  ASSUME NO_SEED_LOADING, Base, CryptoIInv, StepIInv, NEW in, NEW x, NEW m, NEW c,
         Wires(in, x, m, c), ~m.fault
  PROVE  NoFaultSeen' /\ SevereFindsIdle'
<1>0. /\ ErrorFlops(m) /\ CommandPipeline(m) /\ CommandVetted /\ m.cwComp = CwComp(x)
  BY DEF Base, ReqIInv, IInv, Wires, Clocked, CmuCycle, CmuSees
<1>1. NoFaultSeen'
  BY <1>0 DEF ErrorFlops, StepIInv, NoFaultSeen
<1>2. ASSUME severeErr'
      PROVE  /\ Idle' /\ cwState' = "SINC_IDLE" /\ ~ciu'.fetchReq
             /\ cmdVldPass1' => cmd' = "NONE"
  <2>1. Idle' /\ cwState' = "SINC_IDLE" /\ ~Idle /\ CwComp(x)
    BY <1>2, SevereOutcome DEF Idle
  <2>2. ~ciu'.fetchReq
    BY <2>1, RequestFromIdle
  <2>3. ASSUME cmdVldPass1' PROVE cmd' = "NONE"
    <3>1. cmdWritten /\ AesTestBusy(m)
      BY <1>0, <2>1, <2>3 DEF CommandPipeline, ActiveCmd
    <3>2. cmuState = "AES_TEST" /\ axiWr = "NO_WRITE"
      BY <1>0, <2>1, <3>1 DEF AesTestBusy, CommandVetted
    <3>3. FwCmdDone(m)
      BY <1>0, <2>1, <3>2 DEF FwCmdDone
    <3>4. QED
      BY <1>0, <3>2, <3>3 DEF CommandPipeline
  <2>4. QED
    BY <2>1, <2>2, <2>3
<1>3. QED
  BY <1>1, <1>2 DEF SevereFindsIdle

\* After a severe error nothing is dispatched.
LEMMA SevereDispatch ==
  ASSUME Base, StepIInv, NEW m, InputOK(m), m.fetchReq = ciu.fetchReq, severeErr
  PROVE  Dispatch(m) = "SINC_IDLE"
<1>1. ~m.fetchReq /\ (cmdVldPass1 => cmd = "NONE") /\ pendCmd = "NONE"
  BY DEF Base, ReqIInv, Unseeded, StepIInv, SevereFindsIdle
<1>2. QED
  BY <1>1 DEF Dispatch, FwCmd, RegCmdVld

LEMMA InStepStep ==
  ASSUME NO_SEED_LOADING, Base, Base', CryptoIInv, StepIInv, NEW in, NEW x, NEW m,
         NEW c, Wires(in, x, m, c), ~m.fault
  PROVE  InStep' /\ FetchTracked'
<1>0. /\ CmuTypeOK /\ CwTypeOK /\ ControlFsm(m) /\ InputOK(m) /\ FetchTracker(m)
      /\ CwCycle(x) /\ m.cwComp = CwComp(x) /\ x.cmd = CmuCtrlCmd(m)
      /\ x.severe = severeErr /\ m.fetchReq = ciu.fetchReq
      /\ cmuState # "AES_SEED" /\ cmuState' # "AES_SEED" /\ pendCmd = "NONE"
      /\ cmuState \in CmuStates
  BY DEF Base, ReqIInv, Unseeded, TypeOK, Wires, Clocked, CmuCycle, CmuSees,
         CryptoSees, CmuTypeOK
<1>1. CASE Idle /\ severeErr
  <2>1. cmuState' = "SINC_IDLE"
    BY <1>0, <1>1, SevereDispatch, StateMoves
  <2>2. QED
    BY <2>1 DEF InStep, FetchTracked, Shared, Cleaning
<1>2. CASE Idle /\ ~severeErr
  <2>1. cwState = "SINC_IDLE"
    BY <1>0, <1>2 DEF CryptoIInv, CwAtWork, Idle
  <2>2. cmuState' = Dispatch(m)
    BY <1>0, <1>2, StateMoves
  <2>3. cmuState' \in Shared \cup {"AES_TEST"} => CmuCtrlCmd(m) = cmuState'
    BY <1>2, <2>2 DEF CmuCtrlCmd, Shared, CwStates
  <2>4. cmuState' \in Shared \cup {"AES_TEST"} => cwState' = cmuState'
    BY <1>0, <1>2, <2>1, <2>3, CwStays DEF Shared, CwStates
  <2>5. InStep'
    BY <2>4 DEF InStep, Shared, Cleaning, CwStates
  <2>6. FetchTracked'
    <3>1. cmuState' = "FETCH_BLOCK" => m.fetchReq
      BY <1>0, <2>2 DEF Dispatch
    <3>2. m.fetchReq => ~fetchTrk
      BY <1>0 DEF InputOK, FetchAllowed
    <3>3. QED
      BY <1>0, <3>1, <3>2 DEF FetchTracked, FetchTracker
  <2>7. QED
    BY <2>5, <2>6
<1>3. CASE cmuState \in (Shared \ Cleaning) \cup {"AES_TEST"}
  <2>1. ~severeErr /\ cwState = cmuState /\ ~Idle
    BY <1>3 DEF StepIInv, SevereFindsIdle, InStep, Idle, Shared
  <2>2. cmuState' = IF m.cwComp THEN "SINC_IDLE" ELSE cmuState
    BY <1>0, <1>3, StateMoves
  <2>3. ~CwComp(x) => cwState' = cwState
    BY <1>0, <1>3, <2>1, CwStays DEF Shared, Cleaning
  <2>4. InStep'
    BY <1>0, <2>1, <2>2, <2>3 DEF InStep, Shared, Cleaning
  <2>5. FetchTracked'
    <3>1. cmuState' = "FETCH_BLOCK" => cmuState = "FETCH_BLOCK" /\ ~m.cwComp
      BY <2>2
    <3>2. ~m.cwComp => ~FetchComp(m)
      BY DEF FetchComp, StepIInv, NoFaultSeen
    <3>3. QED
      BY <1>0, <3>1, <3>2 DEF FetchTracked, FetchTracker, StepIInv
  <2>6. QED
    BY <2>4, <2>5
<1>4. CASE cmuState \in Cleaning
  <2>1. cmuState' = IF BothAcks THEN "SINC_IDLE" ELSE cmuState
    BY <1>0, <1>4, StateMoves
  <2>2. cwState = cmuState \/ cWrapCompQ
    BY <1>4 DEF StepIInv, InStep
  <2>3. ~severeErr
    BY <1>4 DEF StepIInv, SevereFindsIdle, Idle, Cleaning
  <2>4. cwState = cmuState => m.cwComp
    BY <1>0, <1>4, <2>3, CwStays
  <2>5. ~BothAcks => cWrapCompQ'
    BY <1>0, <1>4, <2>2, <2>4, AckMoves DEF CollectAcks
  <2>6. QED
    BY <1>4, <2>1, <2>5 DEF InStep, FetchTracked, Shared, Cleaning
<1>5. CASE cmuState \notin Shared \cup {"SINC_IDLE", "AES_TEST"}
  <2>1. cmuState' = "SINC_IDLE"
    BY <1>0, <1>5, StateMoves
  <2>2. QED
    BY <2>1 DEF InStep, FetchTracked, Shared, Cleaning
<1>6. QED
  BY <1>1, <1>2, <1>3, <1>4, <1>5 DEF Idle, Shared, Cleaning

LEMMA ReportStep ==
  ASSUME NO_SEED_LOADING, Base, CryptoIInv, StepIInv, NEW in, NEW x, NEW m,
         NEW c, Wires(in, x, m, c), ~m.fault
  PROVE  ReportedIsRunning'
<1>0. /\ CmuTypeOK /\ CwTypeOK /\ ControlFsm(m) /\ InputOK(m) /\ StatusRegister(m)
      /\ m.cwComp = CwComp(x) /\ m.cwErr = CwErr(x) /\ m.cwSts = CwSts(x)
      /\ cmuState # "AES_SEED" /\ cmuState \in CmuStates
  BY DEF Base, ReqIInv, Unseeded, TypeOK, Wires, Clocked, CmuCycle, CmuSees, CmuTypeOK
<1>1. SUFFICES ASSUME stsInProg', Idle' PROVE FALSE
  BY DEF ReportedIsRunning
<1>2. /\ StsUpd(m) => "CMD_IN_PROG" \in StsOut(m)
      /\ ~StsUpd(m) => stsInProg
  BY <1>0, <1>1 DEF StatusRegister, StepIInv, NoFaultSeen
<1>3. "CMD_IN_PROG" \notin StsOut(m)
  <2>1. ~Starting(m)
    <3>1. Idle => cmuState' = Dispatch(m)
      BY <1>0, StateMoves
    <3>2. QED
      BY <1>1, <3>1 DEF Starting, Idle
  <2>2. m.cwSts # "CMD_IN_PROG"
    BY <1>0, StatusValues DEF CWrapSts, SevereSts, NonSevereSts
  <2>3. QED
    BY <2>1, <2>2 DEF StsOut
<1>4. ~StsUpd(m) /\ ~Idle
  BY <1>2, <1>3 DEF StepIInv, ReportedIsRunning
<1>5. ~FwCmdSuc(m) /\ m.cwSts = "NONE" /\ ~(FetchComp(m) /\ ~m.cwErr)
  BY <1>4 DEF StsUpd
<1>6. ~m.cwErr
  BY <1>0, <1>5, StatusValues
<1>7. CASE cmuState \in (Shared \ Cleaning) \cup {"AES_TEST"}
  <2>1. m.cwComp
    <3>1. cmuState' = IF m.cwComp THEN "SINC_IDLE" ELSE cmuState
      BY <1>0, <1>7, StateMoves
    <3>2. QED
      BY <1>1, <1>4, <3>1 DEF Idle
  <2>2. cmuState = "FETCH_BLOCK" => FetchComp(m)
    BY <2>1 DEF FetchComp, StepIInv, FetchTracked
  <2>3. cmuState \in {"SET_INIT", "ENCR_BLOCK", "AES_TEST"} => FwCmdSuc(m)
    BY <1>6, <2>1 DEF FwCmdSuc
  <2>4. QED
    BY <1>0, <1>5, <1>6, <1>7, <2>2, <2>3 DEF Shared, Cleaning, CwStates
<1>8. CASE cmuState \in Cleaning
  <2>1. BothAcks
    <3>1. cmuState' = IF BothAcks THEN "SINC_IDLE" ELSE cmuState
      BY <1>0, <1>8, StateMoves
    <3>2. QED
      BY <1>1, <1>4, <3>1 DEF Idle
  <2>2. QED
    BY <1>5, <1>8, <2>1 DEF FwCmdSuc, Cleaning
<1>9. CASE cmuState \notin Shared \cup {"SINC_IDLE", "AES_TEST"}
  <2>1. cmuState \in {"SET_CACHE_ACTIVE", "DIS_RESET", "DIS_REINIT"}
    BY <1>0, <1>9 DEF CmuStates, FwCmds, Shared, CwStates
  <2>2. QED
    BY <1>5, <2>1 DEF FwCmdSuc
<1>10. QED
  BY <1>4, <1>7, <1>8, <1>9 DEF Idle, Shared, Cleaning

LEMMA StepLpReset == ASSUME LpReset PROVE StepIInv'
BY DEF LpReset, CmuLpReset, ClearedFlops, CwLpReset, StepIInv, NoFaultSeen,
   SevereFindsIdle, InStep, FetchTracked, ReportedIsRunning, Shared, Cleaning

\* The inductive invariant of a core without faults.
THEOREM StepInvariant ==
  ASSUME NO_SEED_LOADING, Faults = {} PROVE Spec => []StepIInv
<1>1. Init => StepIInv
  BY DEF Init, CmuInit, CwInit, StepIInv, NoFaultSeen, SevereFindsIdle, InStep,
     FetchTracked, ReportedIsRunning, Shared, Cleaning
<1>2. Base /\ Base' /\ CryptoIInv /\ StepIInv /\ [Next]_vars => StepIInv'
  <2> SUFFICES ASSUME Base, Base', CryptoIInv, StepIInv, [Next]_vars
               PROVE  StepIInv'
    OBVIOUS
  <2>1. CASE AnyCycle
    <3>1. PICK in, x, m, c : Wires(in, x, m, c)
      BY <2>1, CycleHasWires DEF Base
    <3>2. ~m.fault
      BY <3>1 DEF Wires, Outside, CmuSees
    <3>3. QED
      BY <3>1, <3>2, SevereStep, InStepStep, ReportStep DEF StepIInv
  <2>2. CASE LpReset
    BY <2>2, StepLpReset
  <2>3. CASE UNCHANGED vars
    BY <2>3 DEF vars, cmuVars, retVars, fsmVars, regVars, cwVars, StepIInv,
       NoFaultSeen, SevereFindsIdle, InStep, FetchTracked, ReportedIsRunning, Idle
  <2>4. QED
    BY <2>1, <2>2, <2>3 DEF Next
<1>3. QED
  BY <1>1, <1>2, BaseInvariant, CryptoInvariant, PTL DEF Spec

\* Without faults and seed loading, a command the CMU waits for is being worked on
\* by the crypto wrapper or has been acknowledged by it, severe errors and
\* low-power resets included: both FSMs are idle when a severe error makes the
\* wrapper deaf for a cycle.
THEOREM CryptoStaysInStep ==
  ASSUME NO_SEED_LOADING, Faults = {} PROVE Spec => []CryptoInStep
<1>1. StepIInv => CryptoInStep
  BY DEF StepIInv, InStep, CryptoInStep, CryptoCmds, Shared, Cleaning, CwStates
<1>2. QED
  BY <1>1, StepInvariant, PTL

\* Without faults and seed loading, the status register says in-progress only
\* while a command is: every way a command ends in updates the status.
THEOREM InProgressStaysReal ==
  ASSUME NO_SEED_LOADING, Faults = {} PROVE Spec => []InProgressIsReal
<1>1. StepIInv => InProgressIsReal
  BY DEF StepIInv, ReportedIsRunning, InProgressIsReal
<1>2. QED
  BY <1>1, StepInvariant, PTL

-----------------------------------------------------------------------------
(* The erase of a command without faults.  The walks over the tags and over *)
(* the RAM start in the same cycle; the first is the shorter one.           *)

Owned == eraseWe /\ ~fullErase

\* The engine erases for the command that runs, after its reset of the CIU.
ErasesForCleanup ==
  /\ ciu.syncErase \/ Owned \/ engnDone \/ ciu.eraseBusy =>
       cmuState \in Cleaning /\ ~cmuSincReset
  /\ cmuSincReset => cmuState = "SINC_RESET"

\* Nothing is left of an earlier erase when the command starts its own.
EraseIsFresh ==
  cmuSincReset \/ ciu.syncErase => ~Owned /\ ~engnDone /\ ~ciuCompQ

\* The walk over the tags is ahead of the walk over the RAM until it ends.
TagsAhead == Owned => Clean \/ (vtagSm = "WR" /\ vtagEraseAddr > eraseAddr)

\* The end of the erase and its acknowledgement find no tag.
EndFindsNoTag ==
  /\ engnDone => ~Owned /\ Clean
  /\ ciuCompQ => /\ cmuState \in Cleaning /\ Clean
                 /\ ~Owned /\ ~engnDone /\ ~ciu.eraseBusy

ModeTags == sincState \in {"DISABLED", "INITIALIZATION"} => Clean

EngineIInv ==
  ErasesForCleanup /\ EraseIsFresh /\ TagsAhead /\ EndFindsNoTag /\ ModeTags

\* An undisturbed cycle of the walk advances it or ends it.
LEMMA WalkAdvances ==
  ASSUME VtagTypeOK, Walk, NEW in, NEW c, VtagStep(in, c), ciu.addr \in Blocks,
         VtagEraseOp(VtagEraseStart(in)), ~c.syncReset
  PROVE  Clean' \/ (vtagSm' = "WR" /\ vtagEraseAddr' = vtagEraseAddr + 1)
<1>1. NSets \in Nat /\ NSets >= 2 /\ vtagEraseAddr \in 0 .. NSets - 1
  BY GeometryAssumption DEF VtagTypeOK, Sets
<1>2. vtagSm' = "WR" \/ Clean'
  BY WalkStep
<1>3. vtagEraseAddr' = (vtagEraseAddr + 1) % NSets
  BY DEF VtagStep, VtagCycle
<1>4. vtagSm' = "WR" => vtagEraseAddr < NSets - 1
  <2>1. vtagSm' = "WR" => ~(vtagSm = "WR" /\ LastVtagErase)
    BY DEF VtagStep, VtagCycle
  <2>2. vtagSm = "WR" \/ vtagEraseAddr = 0
    BY DEF Walk, VtagTypeOK
  <2>3. QED
    BY <1>1, <2>1, <2>2 DEF LastVtagErase
<1>5. vtagSm' = "WR" => vtagEraseAddr' = vtagEraseAddr + 1
  BY <1>1, <1>3, <1>4
<1>6. QED
  BY <1>2, <1>5

LEMMA EngineStep ==
  ASSUME Base, CryptoIInv, EraseIInv, StepIInv, EngineIInv, NEW in, NEW x, NEW m,
         NEW c, Wires(in, x, m, c), ~m.fault
  PROVE  EngineIInv'
<1>0. /\ CmuTypeOK /\ CiuTypeOK /\ VtagTypeOK /\ RamTypeOK /\ ControlFsm(m)
      /\ ErrorFlops(m) /\ InputOK(m) /\ CiuCycle(c) /\ VtagStep(in, c)
      /\ ciu.addr \in Blocks /\ m.ciuComp = (ciu.eraseBusy /\ engnDone)
      /\ c.engnDone = engnDone /\ RamStep(in, x, c) /\ Walk /\ EraseOnce
  BY DEF Base, TypeOK, Wires, Clocked, CmuCycle, CmuSees, CiuSees, CiuTypeOK,
     CiuType, EraseIInv
<1>1. /\ ErasesForCleanup /\ EraseIsFresh /\ TagsAhead /\ EndFindsNoTag /\ ModeTags
  BY DEF EngineIInv
<1>2. c.syncReset <=> cmuSincReset \/ (Idle /\ Dispatch(m) = "SINC_REINIT")
  BY DEF Wires, CiuSees, SyncCiuReset, CmuSincReinit
<1>3. /\ c.syncReset => ciu'.syncErase /\ ~ciu'.eraseBusy
      /\ ~c.syncReset => ~ciu'.syncErase
      /\ ciu'.eraseBusy => ~c.syncReset /\ (ciu.syncErase \/ (ciu.eraseBusy /\ ~engnDone))
  BY <1>0, EraseFlops
<1>4. /\ engnDone' => Owned /\ EraseLast
      /\ Owned' => (Owned /\ ~EraseLast) \/ (~eraseWe /\ ciu.syncErase)
      /\ Owned /\ ~EraseLast => eraseAddr' = eraseAddr + 1
      /\ ~eraseWe => eraseAddr' = 0
  BY <1>0 DEF RamStep, RamCycle, EraseFsm, Owned, EngnEraseStart, EraseLast
<1>5. /\ cmuSincReset' <=> Idle /\ Dispatch(m) = "SINC_RESET"
      /\ Idle => cmuState' = Dispatch(m) /\ ~ciuCompQ'
      /\ cmuState \in Cleaning => cmuState' = IF BothAcks THEN "SINC_IDLE" ELSE cmuState
      /\ cmuState \in Cleaning /\ ciuCompQ' =>
           (ciu.eraseBusy /\ engnDone) \/ (ciuCompQ /\ ~BothAcks)
      /\ ~Idle /\ cmuState \notin Cleaning /\ ciuCompQ' => ciuCompQ
  BY <1>0, StateMoves, AckMoves DEF ErrorFlops, AssertSoftReset, CollectAcks
<1>6. cmuState \in Cleaning => ~Idle
  BY DEF Cleaning, Idle
<1>7. Clean /\ cmuState # "FETCH_BLOCK" => Clean'
  BY <1>0, WalkStep, UpdateOutcome
<1>8. cmuState \in Cleaning => cmuState # "FETCH_BLOCK"
  BY DEF Cleaning
<1>9. BothAcks => ciuCompQ
  BY DEF BothAcks
<1>10. Owned \/ ciu.syncErase \/ ciu.eraseBusy =>
         /\ cmuState \in Cleaning /\ cmuState' = cmuState /\ ~c.syncReset
         /\ ~cmuSincReset'
  BY <1>1, <1>2, <1>5, <1>6, <1>9 DEF ErasesForCleanup, EraseIsFresh, EndFindsNoTag
<1>11. cmuSincReset => /\ cmuState = "SINC_RESET" /\ cmuState' = cmuState
                       /\ ~Owned /\ ~engnDone /\ ~ciuCompQ
                       /\ ~ciu.syncErase /\ ~ciu.eraseBusy /\ ~cmuSincReset'
  BY <1>1, <1>5, <1>6, <1>9 DEF ErasesForCleanup, EraseIsFresh, Cleaning
<1>12. Idle => ~Owned /\ ~engnDone /\ ~ciu.syncErase /\ ~ciu.eraseBusy
  BY <1>1, <1>6 DEF ErasesForCleanup
<1>13. ErasesForCleanup'
  <2>1. ciu'.syncErase => cmuState' \in Cleaning /\ ~cmuSincReset'
    BY <1>2, <1>3, <1>5, <1>11 DEF Cleaning
  <2>2. Owned' \/ engnDone' \/ ciu'.eraseBusy => cmuState' \in Cleaning /\ ~cmuSincReset'
    BY <1>3, <1>4, <1>10
  <2>3. cmuSincReset' => cmuState' = "SINC_RESET"
    BY <1>5
  <2>4. QED
    BY <2>1, <2>2, <2>3 DEF ErasesForCleanup
<1>14. EraseIsFresh'
  <2>1. cmuSincReset' => ~Owned' /\ ~engnDone' /\ ~ciuCompQ'
    BY <1>4, <1>5, <1>12
  <2>2. ciu'.syncErase => ~Owned' /\ ~engnDone' /\ ~ciuCompQ'
    <3>1. cmuSincReset => ~Owned' /\ ~engnDone' /\ ~ciuCompQ'
      BY <1>4, <1>5, <1>11 DEF Cleaning
    <3>2. Idle => ~Owned' /\ ~engnDone' /\ ~ciuCompQ'
      BY <1>4, <1>5, <1>12
    <3>3. QED
      BY <1>2, <1>3, <3>1, <3>2
  <2>3. QED
    BY <2>1, <2>2 DEF EraseIsFresh
<1>15. TagsAhead'
  <2> SUFFICES ASSUME Owned'
               PROVE  Clean' \/ (vtagSm' = "WR" /\ vtagEraseAddr' > eraseAddr')
    BY DEF TagsAhead
  <2>0. /\ vtagEraseAddr \in Nat /\ eraseAddr \in Nat
    BY <1>0, RamGeometry DEF VtagTypeOK, RamTypeOK, Sets
  <2>1. ~c.syncReset /\ cmuState # "FETCH_BLOCK"
    BY <1>4, <1>8, <1>10
  <2>2. CASE Owned /\ ~EraseLast
    <3>1. CASE Clean
      BY <1>7, <2>1, <3>1
    <3>2. CASE vtagSm = "WR" /\ vtagEraseAddr > eraseAddr
      <4>1. Clean' \/ (vtagSm' = "WR" /\ vtagEraseAddr' = vtagEraseAddr + 1)
        BY <1>0, <2>1, <3>2, WalkAdvances DEF VtagEraseOp
      <4>2. QED
        BY <1>4, <2>0, <2>2, <3>2, <4>1
    <3>3. QED
      BY <1>1, <2>2, <3>1, <3>2 DEF TagsAhead
  <2>3. CASE ~eraseWe /\ ciu.syncErase
    <3>1. Clean' \/ (vtagSm' = "WR" /\ vtagEraseAddr' = vtagEraseAddr + 1)
      <4>1. VtagEraseOp(VtagEraseStart(in))
        BY <1>0, <2>3 DEF VtagEraseOp, VtagEraseStart, EngnEraseStart, EraseOnce
      <4>2. QED
        BY <1>0, <2>1, <4>1, WalkAdvances
    <3>2. QED
      BY <1>4, <2>0, <2>3, <3>1
  <2>4. QED
    BY <1>4, <2>2, <2>3
<1>16. EndFindsNoTag'
  <2>1. engnDone' => ~Owned' /\ Clean'
    <3>1. engnDone' => ~Owned'
      BY <1>4 DEF Owned
    <3>2. Owned /\ EraseLast => Clean
      <4>1. /\ NSets \in Nat /\ NSets >= 2 /\ BlockWords \in Nat /\ BlockWords >= 1
            /\ vtagEraseAddr \in 0 .. NSets - 1
        BY <1>0, GeometryAssumption DEF VtagTypeOK, Sets
      <4>2. NSets * BlockWords >= NSets
        BY <4>1
      <4>3. EraseEndAddr >= vtagEraseAddr
        BY <4>1, <4>2 DEF EraseEndAddr
      <4>4. EraseEndAddr \in Nat
        BY RamGeometry
      <4>5. EraseLast => ~(vtagEraseAddr > eraseAddr)
        BY <4>1, <4>3, <4>4 DEF EraseLast
      <4>6. QED
        BY <1>1, <4>5 DEF TagsAhead
    <3>3. engnDone' => Clean'
      BY <1>4, <1>7, <1>8, <1>10, <3>2
    <3>4. QED
      BY <3>1, <3>3
  <2>2. ciuCompQ' => /\ cmuState' \in Cleaning /\ Clean'
                     /\ ~Owned' /\ ~engnDone' /\ ~ciu'.eraseBusy
    <3> SUFFICES ASSUME ciuCompQ'
                 PROVE  /\ cmuState' \in Cleaning /\ Clean'
                        /\ ~Owned' /\ ~engnDone' /\ ~ciu'.eraseBusy
      OBVIOUS
    <3>1. cmuState \in Cleaning
      BY <1>1, <1>5 DEF EndFindsNoTag
    <3>2. (ciu.eraseBusy /\ engnDone) \/ (ciuCompQ /\ ~BothAcks)
      BY <1>5, <3>1
    <3>3. ~BothAcks /\ Clean /\ ~Owned /\ ~ciu.syncErase
      BY <1>1, <1>9, <3>2 DEF EndFindsNoTag, EraseIsFresh
    <3>4. cmuState' \in Cleaning /\ Clean'
      BY <1>5, <1>7, <1>8, <3>1, <3>3
    <3>5. ~Owned' /\ ~engnDone'
      BY <1>4, <3>3
    <3>6. ~ciu'.eraseBusy
      BY <1>1, <1>3, <3>2, <3>3 DEF EndFindsNoTag
    <3>7. QED
      BY <3>4, <3>5, <3>6
  <2>3. QED
    BY <2>1, <2>2 DEF EndFindsNoTag
<1>17. ModeTags'
  <2> SUFFICES ASSUME sincState' \in {"DISABLED", "INITIALIZATION"} PROVE Clean'
    BY DEF ModeTags
  <2>1. CASE sincState \in {"DISABLED", "INITIALIZATION"}
    <3>1. Clean /\ ~VtagUpd(c)
      BY <1>1, <2>1, UpdateOutcome DEF ModeTags
    <3>2. QED
      BY <1>0, <3>1, WalkStep
  <2>2. CASE cmuState \in Cleaning /\ BothAcks
    BY <1>1, <1>7, <1>8, <1>9, <2>2 DEF EndFindsNoTag
  <2>3. QED
    BY <2>1, <2>2, OpenModeEntry
<1>18. QED
  BY <1>13, <1>14, <1>15, <1>16, <1>17 DEF EngineIInv

LEMMA EngineLpReset == ASSUME EngineIInv, LpReset PROVE EngineIInv'
<1>1. /\ sincState' = sincState /\ cmuState' = "SINC_IDLE" /\ ~cmuSincReset'
      /\ ~ciuCompQ' /\ vtag' = vtag /\ ~eraseWe' /\ ~engnDone' /\ ciu' = CiuReset(FALSE)
  BY DEF LpReset, CmuLpReset, ClearedFlops, retVars, VtagLpReset, RamLpReset, CiuLpReset
<1>2. ~ciu'.syncErase /\ ~ciu'.eraseBusy
  BY <1>1 DEF CiuReset
<1>3. QED
  BY <1>1, <1>2 DEF EngineIInv, ErasesForCleanup, EraseIsFresh, TagsAhead, Owned,
     EndFindsNoTag, ModeTags, Clean

\* The inductive invariant of the erase without faults.
THEOREM EngineInvariant ==
  ASSUME NO_SEED_LOADING, Faults = {} PROVE Spec => [](EraseIInv /\ EngineIInv)
<1>1. Init => EraseIInv /\ EngineIInv
  BY EraseInit DEF Init, CmuInit, CiuInit, CiuReset, VtagInit, RamInit, EngineIInv,
     ErasesForCleanup, EraseIsFresh, TagsAhead, Owned, EndFindsNoTag, ModeTags, Clean
<1>2. Base /\ CryptoIInv /\ StepIInv /\ EraseIInv /\ EngineIInv /\ [Next]_vars
        => EraseIInv' /\ EngineIInv'
  <2> SUFFICES ASSUME Base, CryptoIInv, StepIInv, EraseIInv, EngineIInv, [Next]_vars
               PROVE  EraseIInv' /\ EngineIInv'
    OBVIOUS
  <2>1. CASE AnyCycle
    <3>1. PICK in, x, m, c : Wires(in, x, m, c)
      BY <2>1, CycleHasWires DEF Base
    <3>2. ~m.fault
      BY <3>1 DEF Wires, Outside, CmuSees
    <3>3. QED
      BY <3>1, <3>2, EraseStep, EngineStep
  <2>2. CASE LpReset
    BY <2>2, EraseLpReset, EngineLpReset DEF EngineIInv, ModeTags
  <2>3. CASE UNCHANGED vars
    BY <2>3, EraseStutter DEF vars, cmuVars, retVars, fsmVars, vtagVars, ramVars, EngineIInv,
       ErasesForCleanup, EraseIsFresh, TagsAhead, Owned, EndFindsNoTag, ModeTags, Clean
  <2>4. QED
    BY <2>1, <2>2, <2>3 DEF Next
<1>3. QED
  BY <1>1, <1>2, BaseInvariant, CryptoInvariant, StepInvariant, PTL DEF Spec

\* Without faults and seed loading, while the RAM is open as plain memory it holds
\* nothing decrypted and no line is tagged: SINC_RESET and SINC_REINIT wait for
\* the end of the erase of the RAM, and the erase of the tags, which nothing
\* waits for, has ended before it.
THEOREM NothingLeftOutsideCache ==
  ASSUME NO_SEED_LOADING, Faults = {} PROVE Spec => []NoResidueOutsideCache
<1>1. RamIInv /\ EngineIInv => NoResidueOutsideCache
  BY DEF RamIInv, ModeRam, RamClean, MemClean, EngineIInv, ModeTags, Clean,
     NoResidueOutsideCache
<1>2. QED
  BY <1>1, RamInvariant, EngineInvariant, PTL
=============================================================================
