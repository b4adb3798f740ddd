------------------------------ MODULE SincCore ------------------------------
(***************************************************************************)
(* The SInC core: CMU control, crypto wrapper, CIU control, tag array and  *)
(* cache RAM wired together as in sinc_top.sv, sinc_cmu.sv and sinc_ciu.sv *)
(* and clocked together.  One step is one clock cycle of all five blocks.  *)
(*                                                                         *)
(* Outside the core are the CPU, the firmware on the register bus, the     *)
(* MPU, the DMA engine with the external memory behind it, the AES core    *)
(* and the faults of the hardware; a constant enables each.                *)
(***************************************************************************)
EXTENDS CmuCtrl, CryptoWrapCtrl, CiuCtrl, CiuVtag, RamWrapper

CONSTANTS
  FwWrites,     \* commands firmware may write
  CpuOps,       \* accesses the CPU may make: a subset of {"RD", "WR"}
  Events,       \* outcomes of crypto sub-steps: a subset of
                \* {"OK", "ERR", "WERR"}
  Faults,       \* hardware faults: a subset of {"ECC", "PARITY", "GLITCH"}
  Disturbances  \* a subset of {"MPU", "CR_ERASE", "AES_ERR", "LP_RESET",
                \* "LP_IN_ERASE", "TAMPER"}

ASSUME FwWritesAssumption == FwWrites \subseteq CmdValues

VARIABLE rdOut  \* the CPU waits for the answer to a read

vars == <<cmuVars, cwVars, ciu, vtagVars, ramVars, rdOut>>

-----------------------------------------------------------------------------
(* The wires.  "in" holds the core's inputs of a cycle.                     *)

Fault(in) == in.fault # "NONE"

\* Mutant: an erase asked for by the register leaves the tags.
VtagEraseStart_Mut(in) == EngnEraseStart

VtagEraseStart(in) == in.crErase \/ EngnEraseStart
MemEraseBusy(in) ==
  ciu.eraseBusy \/ eraseWe \/ VtagEraseOp(VtagEraseStart(in))

\* What the CMU samples from the CIU and from its own flops only.
CiuToCmu ==
  [fetchReq |-> ciu.fetchReq, fetchAddr |-> ciu.addr, seeded |-> aesSeeded]

CwIn(in) ==
  [cmd |-> CmuCtrlCmd(CiuToCmu), severe |-> severeErr,
   eraseBusy |-> MemEraseBusy(in), ev |-> in.ev,
   memWr |-> in.memWr /\ ~RamBusy, aesErr |-> in.aesErr,
   noBlocks |-> in.noBlocks, good |-> in.good]

CmuIn(in, x) ==
  [fetchReq |-> ciu.fetchReq, fetchAddr |-> ciu.addr,
   ciuComp |-> CiuResetCompleted([engnDone |-> engnDone]),
   cwComp |-> CwComp(x), cwErr |-> CwErr(x), cwSts |-> CwSts(x),
   seeded |-> aesSeeded, fault |-> Fault(in),
   fwWr |-> in.fwWr, fwRd |-> TRUE]

CiuIn(in, m) ==
  [cpu |-> in.cpu, addr |-> in.addr, mode |-> sincState,
   cmuBusy |-> CmuBusy(CiuToCmu), fetchComp |-> FetchComp(m),
   fetchErr |-> FetchErr(m), eraseBusy |-> MemEraseBusy(in),
   hit |-> CacheHit(ciu.addr),
   hitWay |-> IF CacheHit(ciu.addr) THEN HitWay(ciu.addr) ELSE 0,
   parErr |-> in.fault = "PARITY", mpuVio |-> in.mpuVio,
   rdataValid |-> RdataValid /\ in.fault # "ECC",
   ecc |-> in.fault = "ECC",
   engnDone |-> engnDone, syncReset |-> SyncCiuReset(CiuToCmu)]

\* The one access the RAM sees.  A word of a fetched block goes to the line
\* the replacement pointer names.  In the cycle after a hardware fault has
\* taken the CIU out of CACHE_MISS the address and data multiplexers are back
\* on the CPU bus: what it happens to hold goes to whatever line it names.
RamAcc(in, x, c) ==
  LET fill == CmuMemWr(x) /\ Active(c) /\ ciu.memWrite
  IN CASE RamRead(c) -> Read(SetOf(ReadRow(c)))
       [] CpuMemWrite(c) -> Write(SetOf(ciu.addr), WayOf(ciu.addr), NoData)
       [] fill /\ ciu.sm = "CACHE_MISS" ->
            Write(SetOf(ciuAddrQ), fifoSta[SetOf(ciu.addr)],
                  IF LastBeat /\ image THEN ciuAddrQ ELSE Unverified)
       [] fill /\ ciu.sm # "CACHE_MISS" ->
            Write(in.stray[1], in.stray[2], NoData)
       [] OTHER -> NoAccess

Answered(c) == MemCpuReadErr(c) \/ MemCpuRdataVld(c)

CoreCycle(in) ==
  LET x == CwIn(in)
      m == CmuIn(in, x)
      c == CiuIn(in, m)
  IN /\ CmuCycle(m)
     /\ CwCycle(x)
     /\ CiuCycle(c)
     /\ VtagCycle(VtagEraseStart(in), VtagComp(c), VtagUpd(c), ciu.addr,
                  c.syncReset)
     /\ RamCycle(RamAcc(in, x, c), c.ecc, EngnEraseStart, in.crErase)
     /\ rdOut' = (in.cpu = "RD" \/ (rdOut /\ ~Answered(c)))

-----------------------------------------------------------------------------
(* The environment.                                                         *)

\* The CPU drives an access while mem_cpu_busy is low and it does not wait for
\* the answer to another.
CpuChoices ==
  {<<"NONE", 0>>} \cup
    (IF \/ MemCpuBusy([cmuBusy |-> CmuBusy(CiuToCmu)])
        \/ rdOut /\ ciu.sm # "WAIT"
     THEN {} ELSE CpuOps \X Blocks)

\* The events the crypto wrapper's present sub-state can see.
EventChoices ==
  CASE cwState \in {"SINC_IDLE", "SINC_RESET", "SINC_REINIT"} -> {"WAIT"}
    [] cwState = "SET_INIT" /\ cwSub = 1 /\ aesSeeded -> {"WAIT"}
    [] cwState = "FETCH_BLOCK" /\ cwSub = 2 -> {"WAIT"}
    [] cwState = "FETCH_BLOCK" /\ cwSub = 4 -> {"WAIT", "OK"}
    [] cwState = "ENCR_BLOCK" /\ cwSub = 1  -> {"WAIT"} \cup Events
    [] OTHER -> {"WAIT"} \cup (Events \ {"WERR"})

Filling == cwState = "FETCH_BLOCK" /\ cwSub \in {1, 2} /\ cwBeats < BlockWords

\* An uncorrectable error shows when an access leaves the RAM pipeline, a
\* parity error when a lookup answers with a valid tag.
FaultChoices ==
  {"NONE"} \cup {f \in Faults :
     CASE f = "ECC"    -> ramP2.op # "NONE"
       [] f = "PARITY" -> /\ vtagCompR
                          /\ \E w \in Ways : vtag[SetOf(ciu.addr)][w] # NoTag
       [] OTHER        -> TRUE}

May(cond) == IF cond THEN BOOLEAN ELSE {FALSE}

Cycle(evs, wrs) ==
  \E acc \in CpuChoices, ev \in evs, memWr \in wrs, fault \in FaultChoices,
     fwWr \in {"NO_WRITE"} \cup (IF NoWriteInFlight THEN FwWrites ELSE {}),
     mpuVio \in May("MPU" \in Disturbances /\ ciu.mpuReq),
     crErase \in May("CR_ERASE" \in Disturbances /\ ~eraseWe),
     aesErr \in May("AES_ERR" \in Disturbances /\ cwState # "SINC_IDLE"),
     noBlocks \in May(cwState = "ENCR_BLOCK" /\ cwSub = 1 /\ encrCnt = 0),
     bad \in May("TAMPER" \in Disturbances /\ ciu.fetchReq),
     stray \in IF ciu.sm = "WAIT" /\ ciu.memWrite /\ Filling
               THEN Sets \X Ways ELSE {<<0, 0>>} :
    CoreCycle([cpu |-> acc[1], addr |-> acc[2], ev |-> ev, memWr |-> memWr,
               fault |-> fault, fwWr |-> fwWr, mpuVio |-> mpuVio,
               crErase |-> crErase, aesErr |-> aesErr, noBlocks |-> noBlocks,
               good |-> ~bad, stray |-> stray])

AnyCycle == Cycle(EventChoices, May(Filling))

\* A cycle in which the transfer the crypto wrapper waits for moves on, and
\* one in which in addition nothing comes from the CPU, firmware or a fault.
ProgressEvents ==
  IF EventChoices = {"WAIT"} THEN {"WAIT"} ELSE EventChoices \ {"WAIT"}
ProgressCycle == Cycle(ProgressEvents, {Filling})
QuietCycle ==
  \E ev \in ProgressEvents :
    CoreCycle([cpu |-> "NONE", addr |-> 0, ev |-> ev, memWr |-> Filling,
               fault |-> "NONE", fwWr |-> "NO_WRITE", mpuVio |-> FALSE,
               crErase |-> FALSE, aesErr |-> FALSE, noBlocks |-> FALSE,
               good |-> TRUE, stray |-> <<0, 0>>])

\* sinc_active_o is cmu_active or ciu_active: a command in the CMU or on its
\* way there, a severe error, or the CIU out of IDLE.  An access kept pending
\* and a walk of an erase do not raise it.
SincActive ==
  \/ ~Idle \/ pendCmd # "NONE" \/ ~NoWriteInFlight \/ severeErr
  \/ ciu.sm # "IDLE"

\* The walk over the tags is about to start or under way.
Erasing == ciu.syncErase \/ vtagSm = "WR"

\* lp_rstn is asserted while sinc_active is low; the retained flops and the
\* arrays keep their contents, a pending access and a walk are lost, and
\* firmware boots anew.  LP_IN_ERASE admits the resets that stop the walk over
\* the tags half-way.
LpReset ==
  /\ "LP_RESET" \in Disturbances /\ ~SincActive
  /\ Erasing => "LP_IN_ERASE" \in Disturbances
  /\ CmuLpReset /\ CwLpReset /\ CiuLpReset /\ VtagLpReset /\ RamLpReset
  /\ rdOut' = FALSE

Init == CmuInit /\ CwInit /\ CiuInit /\ VtagInit /\ RamInit /\ rdOut = FALSE
Next == AnyCycle \/ LpReset
Spec == Init /\ [][Next]_vars

\* While the core has work of its own the clock runs (sinc_active keeps it
\* ungated) and the transfer it waits for moves on: the bus answers.  Neither
\* the CPU nor firmware ever has to act.
AtWork == ENABLED <<QuietCycle>>_vars
FairSpec == Spec /\ WF_vars(AtWork /\ ProgressCycle)

\* The type invariant of the five blocks and the CPU.
TypeOK ==
  CmuTypeOK /\ CwTypeOK /\ CiuTypeOK /\ VtagTypeOK /\ RamTypeOK
    /\ rdOut \in BOOLEAN

-----------------------------------------------------------------------------
(* Safety.                                                                  *)

\* A read of the active cache that is about to be answered with data carries
\* the authentic plaintext of the block it asked for.  Decrypted words reach
\* the RAM before the tag check, over a line whose old tag is still valid; the
\* answer depends on the lookup, the fill, the replacement pointer and the
\* fault handling agreeing (sinc_ciu_ctrl, sinc_cmu_crypto_wrap_ctrl).
ActiveReadsAreAuthentic ==
  ciu.sm = "WAIT" /\ ciu.rdVld /\ RdataValid /\ sincState = "CACHE_ACTIVE"
    => Rdata[ciu.sel] = ciu.addr

\* While the RAM is open as plain memory it holds nothing decrypted and no
\* line is tagged: without faults SINC_RESET and SINC_REINIT change the mode
\* only after the erase they started has passed over both arrays.
NoResidueOutsideCache ==
  sincState \in {"DISABLED", "INITIALIZATION"} =>
    \A s \in Sets, w \in Ways : mem[s][w] = NoData /\ vtag[s][w] = NoTag

\* What is left of it under faults.  The end of the erase of an interrupted
\* SINC_RESET is taken for the end of the erase of the next one
\* (ciu_reset_completed), so the mode may open while the walk over the tags,
\* which starts anew, is still under way.  Until it ends the accesses find the
\* memory busy; nothing decrypted is left meanwhile, and no tag afterwards.
NoResidueOnceErased ==
  sincState \in {"DISABLED", "INITIALIZATION"} =>
    \A s \in Sets, w \in Ways :
      /\ mem[s][w] = NoData
      /\ vtag[s][w] = NoTag \/ Erasing

\* The contract the CMU control FSM relies on: a block request arrives only
\* when it is idle and tracks no other fetch.  In any other state it would be
\* lost (SINC_IDLE alone tests ciu_block_fetch_req).
FetchRequestIsHeard == ciu.fetchReq => FetchAllowed

\* While a block is fetched the CIU waits for that very block: the line
\* written, the tag recorded and the address of the waiting read are one.
FetchServesTheMiss ==
  fetchTrk => ciu.sm = "CACHE_MISS" /\ (ciu.fetchReq \/ ciuAddrQ = ciu.addr)

\* A block is tagged in at most one way of its set.  The lookup takes two
\* matching ways for a miss, so a duplicate would never be found again.
TagsAreUnique ==
  \A s \in Sets : \A v, w \in Ways :
    vtag[s][v] = vtag[s][w] /\ vtag[s][v] # NoTag => v = w

\* In the active cache a tagged line holds its block, except the line being
\* replaced and except while an error or an erase is on its way.
TaggedLinesHoldTheirBlock ==
  sincState = "CACHE_ACTIVE" /\ ~severeErr /\ ~hwFaultQ /\ ~eraseWe
    /\ ~ciu.eraseBusy /\ ~ciu.syncErase /\ vtagSm = "IDLE"
    => \A s \in Sets, w \in Ways :
         vtag[s][w] # NoTag =>
           \/ mem[s][w] = vtag[s][w]
           \/ fetchTrk /\ SetOf(ciu.addr) = s /\ fifoSta[s] = w

\* The block encryption key is loaded whenever the mode lets ENCR_BLOCK or a
\* fetch use it; a severe error wipes it together with the change of mode,
\* SINC_RESET shortly before.
KeyIsLoaded ==
  sincState \in {"INITIALIZATION", "CACHE_ACTIVE"}
    => keyQ = "BEK" \/ cmuState = "SINC_RESET" \/ severeErr

CryptoCmds == {"FETCH_BLOCK", "SET_INIT", "ENCR_BLOCK", "AES_TEST",
               "AES_SEED", "SINC_RESET", "SINC_REINIT"}

\* A command the CMU waits for is being worked on by the crypto wrapper, or
\* has been acknowledged.  Otherwise its completion never comes.
CryptoInStep ==
  cmuState \in CryptoCmds => cwState = cmuState \/ cWrapCompQ

\* The status register says in-progress only while a command is.
InProgressIsReal == stsInProg => ~Idle \/ pendCmd # "NONE" \/ faultPulse

\* SINC_REINIT leaves the contents of the cache alone.
ReinitKeepsCache ==
  [][ cmuState = "SINC_REINIT" => UNCHANGED <<mem, vtag>> ]_vars

-----------------------------------------------------------------------------
(* Liveness.                                                                *)

\* The CIU is in the state that answers, with something to answer.
AnswerDue ==
  ciu.sm = "WAIT" /\ (ciu.rdErr \/ ciu.otherErr \/ ciu.rdVld \/ RdataValid)

\* Every read of the CPU is answered, with data or with an error, whatever
\* becomes of the fetch it waits for.  The CPU may present its next access in
\* the very cycle of the answer.
ReadsAreAnswered == rdOut ~> AnswerDue \/ ~rdOut

\* Every command comes to an end; AES_TEST ends when firmware says so.
CommandsEnd == ~Idle /\ cmuState # "AES_TEST" ~> Idle

Pending == ciu.pendRd \/ ciu.pendWr \/ ciu.pendFail

\* An access kept as pending, which holds mem_cpu_busy high, is taken up.
PendingIsServed == Pending ~> ~Pending

\* An access that is pending when the cache fails is refused: a failed cache
\* answers every request with a violation.
PendingIsRefused == Pending /\ sincState = "CACHE_FAILED" ~> ~Pending

\* A failed cache whose SINC_RESET is not disabled always comes to a point
\* where nothing but an unread status closes the command register.
FailedCanBeReset ==
  sincState = "CACHE_FAILED" /\ ~resetDis
    ~> sincState # "CACHE_FAILED" \/ (Idle /\ ~stsInProg)

\* The AES test gets the seed it asks for, or ends.
AesTestGetsItsSeed ==
  cwState = "AES_TEST" /\ ~aesSeeded ~> aesSeeded \/ cwState # "AES_TEST"
=============================================================================
