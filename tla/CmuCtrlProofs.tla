-------------------------- MODULE CmuCtrlProofs --------------------------
(***************************************************************************)
(* What one clock cycle of the CMU control path preserves, for every set   *)
(* of blocks and every input that satisfies InputOK.  CmuProofs uses it    *)
(* for the unit on its own, CoreProofs for the unit in the composed core.  *)
(*                                                                         *)
(* The modes and operations are checked at one moment and used at another, *)
(* so the invariants are inductive only together with what each pipeline   *)
(* stage remembers: CommandVetted, PendingVetted, CleanupPermitted.        *)
(***************************************************************************)
EXTENDS CmuCtrl, TLAPS

\* A command one cycle before its dispatch was checked in this mode, or the
\* cache has failed since, or the command has been withdrawn; the FSM is idle
\* or in an AES test and no other write is under way.
CommandVetted ==
  /\ cmdWritten => axiWr = "NO_WRITE"
  /\ cmdVldPass1 => /\ CmdStateOk \/ cmd = "NONE" \/ sincState = "CACHE_FAILED"
                    /\ cmuState \in {"SINC_IDLE", "AES_TEST"}
                    /\ axiWr = "NO_WRITE" /\ ~cmdWritten

\* A command waiting for the seed still finds the mode it was checked in, and
\* no other command is about to be dispatched.
PendingVetted ==
  /\ pendCmd # "NONE" => /\ cmuState \in {"SINC_IDLE", "AES_SEED"}
                         /\ ~cmdVldPass1
  /\ pendCmd = "ENCR_BLOCK"  => sincState \in {"INITIALIZATION", "CACHE_FAILED"}
  /\ pendCmd = "FETCH_BLOCK" => sincState \in {"CACHE_ACTIVE", "CACHE_FAILED"}

\* A reset or re-init under way has not been disabled.
CleanupPermitted ==
  /\ cmuState = "SINC_RESET"  => ~resetDis
  /\ cmuState = "SINC_REINIT" => ~reinitDis

IInv == /\ CmuTypeOK /\ CommandRunsInItsMode
        /\ CommandVetted /\ PendingVetted /\ CleanupPermitted

-----------------------------------------------------------------------------
(* What the neighbours grant about the signals of a cycle.                  *)

InputOK(in) ==
  /\ in.fetchReq \in BOOLEAN /\ in.fetchAddr \in Blocks
  /\ in.ciuComp \in BOOLEAN /\ in.cwComp \in BOOLEAN /\ in.cwErr \in BOOLEAN
  /\ in.seeded \in BOOLEAN /\ in.fault \in BOOLEAN
  /\ in.fwWr \in CmdValues \cup {"NO_WRITE"} /\ in.fwRd \in BOOLEAN
  /\ in.fetchReq => FetchAllowed
  /\ in.fwWr # "NO_WRITE" => NoWriteInFlight
  /\ NO_SEED_LOADING => in.seeded

-----------------------------------------------------------------------------
(* The dispatcher and the mode register.                                    *)

\* SINC_IDLE dispatches to a state of the FSM.
LEMMA DispatchType ==
  ASSUME NEW in PROVE Dispatch(in) \in CmuStates
BY DEF Dispatch, CmuStates, FwCmds

\* A dispatched state admits the mode, and no disabled command is dispatched.
LEMMA DispatchVetted ==
  ASSUME NEW in, InputOK(in), IInv, Idle
  PROVE  /\ sincState \in ModesOf(Dispatch(in)) \cup {"CACHE_FAILED"}
         /\ Dispatch(in) = "SINC_RESET"  => ~resetDis
         /\ Dispatch(in) = "SINC_REINIT" => ~reinitDis
<1>1. sincState \in Modes
  BY DEF IInv, CmuTypeOK
<1>2. CASE in.fetchReq
  BY <1>1, <1>2 DEF InputOK, FetchAllowed, Dispatch, ModesOf
<1>3. CASE ~in.fetchReq /\ pendCmd # "NONE"
  BY <1>1, <1>3 DEF IInv, PendingVetted, CmuTypeOK, Dispatch, ModesOf,
     RegCmdVld, FwCmd
<1>4. CASE ~in.fetchReq /\ pendCmd = "NONE" /\ ~cmdVldPass1
  BY <1>1, <1>4 DEF Dispatch, ModesOf, RegCmdVld, FwCmd
<1>5. CASE ~in.fetchReq /\ pendCmd = "NONE" /\ cmdVldPass1
  <2>1. CmdStateOk \/ cmd = "NONE" \/ sincState = "CACHE_FAILED"
    BY <1>5 DEF IInv, CommandVetted
  <2>2. Dispatch(in) = cmd \/ Dispatch(in) \in {"SINC_IDLE", "AES_SEED"}
    BY <1>5 DEF Dispatch, FwCmd, RegCmdVld
  <2>3. /\ Dispatch(in) = "AES_SEED" => cmd = "ENCR_BLOCK"
        /\ Dispatch(in) = "SINC_RESET"  => ~resetDis
        /\ Dispatch(in) = "SINC_REINIT" => ~reinitDis
    BY <1>5 DEF Dispatch, FwCmd, RegCmdVld
  <2>4. QED
    BY <1>1, <2>1, <2>2, <2>3 DEF CmdStateOk, ModesOf, Modes
<1>6. QED
  BY <1>2, <1>3, <1>4, <1>5 DEF InputOK, IInv, CmuTypeOK

\* A requested mode is granted, refused or overruled by a failure.
LEMMA ModeGranted ==
  ASSUME NEW m, RequestMode(m), sincState \in Modes
  PROVE  \/ sincState' = "CACHE_FAILED"
         \/ sincState' = m /\ m \in ModeRequests(sincState)
         \/ sincState' = sincState
BY DEF RequestMode

-----------------------------------------------------------------------------
(* Types.                                                                   *)

\* A requested mode is a mode.
LEMMA ModeType ==
  ASSUME NEW m \in Modes, RequestMode(m), sincState \in Modes
  PROVE  sincState' \in Modes
BY DEF RequestMode, Modes

\* The control FSM keeps its own variables in their types.
LEMMA ControlType ==
  ASSUME NEW in, InputOK(in), CmuTypeOK, ControlFsm(in)
  PROVE  /\ sincState' \in Modes /\ resetDis' \in BOOLEAN
         /\ reinitDis' \in BOOLEAN /\ cmuState' \in CmuStates
         /\ pendCmd' \in {"NONE", "FETCH_BLOCK", "ENCR_BLOCK"}
         /\ cWrapCompQ' \in BOOLEAN /\ ciuCompQ' \in BOOLEAN
<1> USE DEF CmuTypeOK
<1>0. /\ {"DISABLED", "INITIALIZATION", "CACHE_ACTIVE"} \subseteq Modes
      /\ sincState \in Modes
  BY DEF Modes
<1>1. ASSUME NEW s \in CmuStates, Goto(in, s) PROVE cmuState' \in CmuStates
  BY <1>1 DEF Goto, CmuStates
<1>i. "SINC_IDLE" \in CmuStates
  BY DEF CmuStates
<1>2. CASE SincIdle(in)
  BY <1>0, <1>1, <1>2, DispatchType, ModeType DEF SincIdle, KeepMode
<1>3. CASE FetchBlock(in)
  BY <1>0, <1>1, <1>i, <1>3, ModeType DEF FetchBlock, KeepMode
<1>4. CASE SetInit(in)
  BY <1>0, <1>1, <1>i, <1>4, ModeType DEF SetInit, KeepMode
<1>5. CASE SetCacheActive(in)
  BY <1>0, <1>1, <1>i, <1>5, ModeType DEF SetCacheActive
<1>6. CASE SincReset(in)
  BY <1>0, <1>1, <1>i, <1>6, ModeType DEF SincReset, KeepMode, CollectAcks
<1>7. CASE SincReinit(in)
  BY <1>0, <1>1, <1>i, <1>7, ModeType DEF SincReinit, KeepMode, CollectAcks
<1>8. CASE EncrBlock(in)
  BY <1>0, <1>1, <1>i, <1>8, ModeType DEF EncrBlock, KeepMode
<1>9. CASE DisReset(in)
  BY <1>0, <1>1, <1>i, <1>9, ModeType DEF DisReset, KeepMode
<1>10. CASE DisReinit(in)
  BY <1>0, <1>1, <1>i, <1>10, ModeType DEF DisReinit, KeepMode
<1>11. CASE AesTest(in)
  BY <1>0, <1>1, <1>i, <1>11, ModeType DEF AesTest, KeepMode
<1>12. CASE AesSeed(in)
  BY <1>0, <1>1, <1>i, <1>12, ModeType DEF AesSeed, KeepMode
<1>13. QED
  BY <1>2, <1>3, <1>4, <1>5, <1>6, <1>7, <1>8, <1>9, <1>10, <1>11, <1>12
     DEF ControlFsm

\* A clock cycle keeps every variable in its type.
LEMMA CycleType ==
  ASSUME NEW in, InputOK(in), CmuTypeOK, CmuCycle(in)
  PROVE  CmuTypeOK'
<1>1. fetchTrk' \in BOOLEAN /\ ciuAddrQ' \in Blocks
  BY BlocksAssumption DEF CmuCycle, FetchTracker, InputOK, CmuTypeOK
<1>2. /\ severeErr' \in BOOLEAN /\ faultPulse' \in BOOLEAN
      /\ hwFaultQ' \in BOOLEAN /\ cmuSincReset' \in BOOLEAN
  BY DEF CmuCycle, ErrorFlops, SevereErrDin, AssertSoftReset
<1>3. /\ axiWr' \in CmdValues \cup {"NO_WRITE"} /\ cmd' \in CmdValues
      /\ cmdWritten' \in BOOLEAN /\ cmdVldPass1' \in BOOLEAN
      /\ invldPass1' \in BOOLEAN
  BY DEF CmuCycle, CommandPipeline, InputOK, CmuTypeOK, CmdValues
<1>4. StatusRegister(in)
  BY DEF CmuCycle
<1>5. stsInProg' \in BOOLEAN
  <2>1. CASE faultPulse
    BY <1>4, <2>1 DEF StatusRegister
  <2>2. CASE ~faultPulse /\ StsUpd(in)
    <3>1. stsInProg' = ("CMD_IN_PROG" \in StsOut(in))
      BY <1>4, <2>2 DEF StatusRegister
    <3>2. QED
      BY <3>1
  <2>3. CASE ~faultPulse /\ ~StsUpd(in)
    BY <1>4, <2>3 DEF StatusRegister, CmuTypeOK
  <2>4. QED
    BY <2>1, <2>2, <2>3
<1>6. stsResult' \in BOOLEAN
  <2>1. CASE StsUpd(in)
    BY <1>4, <2>1 DEF StatusRegister
  <2>2. CASE ~StsUpd(in)
    BY <1>4, <2>2 DEF StatusRegister
  <2>3. QED
    BY <2>1, <2>2
<1>7. stsHwFault' \in BOOLEAN
  BY <1>4 DEF StatusRegister
<1>8. QED
  BY <1>1, <1>2, <1>3, <1>5, <1>6, <1>7, ControlType DEF CmuCycle, CmuTypeOK

-----------------------------------------------------------------------------
(* The inductive step.                                                      *)

\* What a cycle does to the state of the FSM and to the mode: from SINC_IDLE
\* to the dispatched state, from another state nowhere or back to SINC_IDLE;
\* the mode stays, fails, or moves as the command that ends asks for.
LEMMA ControlMoves ==
  ASSUME NEW in, InputOK(in), CmuTypeOK, ControlFsm(in)
  PROVE  /\ \/ cmuState' = "SINC_IDLE"
            \/ cmuState' = cmuState
            \/ Idle /\ cmuState' = Dispatch(in)
         /\ \/ sincState' = sincState
            \/ sincState' = "CACHE_FAILED"
            \/ /\ cmuState \in {"SET_INIT", "SET_CACHE_ACTIVE", "SINC_RESET",
                                "SINC_REINIT"}
               /\ cmuState' = "SINC_IDLE"
<1>0. sincState \in Modes /\ in.fault \in BOOLEAN
  BY DEF CmuTypeOK, InputOK
<1>1. CASE SincIdle(in)
  BY <1>0, <1>1 DEF SincIdle, Goto, KeepMode, RequestMode, Idle
<1>2. CASE FetchBlock(in)
  BY <1>0, <1>2 DEF FetchBlock, Goto, KeepMode, RequestMode
<1>3. CASE SetInit(in)
  BY <1>0, <1>3 DEF SetInit, Goto, KeepMode, RequestMode
<1>4. CASE SetCacheActive(in)
  BY <1>0, <1>4 DEF SetCacheActive, Goto
<1>5. CASE SincReset(in)
  BY <1>0, <1>5 DEF SincReset, Goto, KeepMode, RequestMode
<1>6. CASE SincReinit(in)
  BY <1>0, <1>6 DEF SincReinit, Goto, KeepMode, RequestMode
<1>7. CASE EncrBlock(in)
  BY <1>0, <1>7 DEF EncrBlock, Goto, KeepMode, RequestMode
<1>8. CASE DisReset(in)
  BY <1>0, <1>8 DEF DisReset, Goto, KeepMode, RequestMode
<1>9. CASE DisReinit(in)
  BY <1>0, <1>9 DEF DisReinit, Goto, KeepMode, RequestMode
<1>10. CASE AesTest(in)
  BY <1>0, <1>10 DEF AesTest, Goto, KeepMode, RequestMode
<1>11. CASE AesSeed(in)
  BY <1>0, <1>11 DEF AesSeed, Goto, KeepMode, RequestMode
<1>12. QED
  BY <1>1, <1>2, <1>3, <1>4, <1>5, <1>6, <1>7, <1>8, <1>9, <1>10, <1>11
     DEF ControlFsm

\* What a cycle does to the disables and to the waiting command.
LEMMA ControlKeeps ==
  ASSUME NEW in, InputOK(in), CmuTypeOK, ControlFsm(in)
  PROVE  /\ resetDis' = (resetDis \/ cmuState = "DIS_RESET")
         /\ reinitDis' = (reinitDis \/ cmuState = "DIS_REINIT")
         /\ \/ pendCmd' = pendCmd /\ (Idle => pendCmd = "NONE" \/ RegCmdVld(in))
            \/ pendCmd' = "NONE"
            \/ /\ Idle /\ Dispatch(in) = "AES_SEED"
               /\ pendCmd' = IF in.fetchReq THEN "FETCH_BLOCK" ELSE "ENCR_BLOCK"
<1> USE DEF CmuTypeOK
<1>0. in.fetchReq => pendCmd = "NONE"
  BY DEF InputOK, FetchAllowed
<1>1. CASE SincIdle(in)
  <2>1. resetDis' = resetDis /\ reinitDis' = reinitDis /\ Idle
    BY <1>1 DEF SincIdle
  <2>2. CASE Dispatch(in) = "AES_SEED"
    BY <1>1, <2>1, <2>2 DEF SincIdle, Idle
  <2>3. CASE Dispatch(in) # "AES_SEED" /\ pendCmd = "FETCH_BLOCK"
    BY <1>0, <1>1, <2>1, <2>3 DEF SincIdle, Idle
  <2>4. CASE Dispatch(in) # "AES_SEED" /\ pendCmd = "ENCR_BLOCK"
    <3>1. ~RegCmdVld(in) => Dispatch(in) = "ENCR_BLOCK"
      BY <1>0, <2>4 DEF Dispatch, FwCmd
    <3>2. QED
      BY <1>1, <2>1, <2>4, <3>1 DEF SincIdle, Idle
  <2>5. CASE Dispatch(in) # "AES_SEED" /\ pendCmd = "NONE"
    BY <1>1, <2>1, <2>5 DEF SincIdle, Idle
  <2>6. QED
    BY <2>2, <2>3, <2>4, <2>5
<1>2. CASE FetchBlock(in)
  BY <1>2 DEF FetchBlock, Idle
<1>3. CASE SetInit(in)
  BY <1>3 DEF SetInit, Idle
<1>4. CASE SetCacheActive(in)
  BY <1>4 DEF SetCacheActive, Idle
<1>5. CASE SincReset(in)
  BY <1>5 DEF SincReset, Idle
<1>6. CASE SincReinit(in)
  BY <1>6 DEF SincReinit, Idle
<1>7. CASE EncrBlock(in)
  BY <1>7 DEF EncrBlock, Idle
<1>8. CASE DisReset(in)
  BY <1>8 DEF DisReset, Idle
<1>9. CASE DisReinit(in)
  BY <1>9 DEF DisReinit, Idle
<1>10. CASE AesTest(in)
  BY <1>10 DEF AesTest, Idle
<1>11. CASE AesSeed(in)
  BY <1>11 DEF AesSeed, Idle
<1>12. QED
  BY <1>1, <1>2, <1>3, <1>4, <1>5, <1>6, <1>7, <1>8, <1>9, <1>10, <1>11
     DEF ControlFsm

\* The four invariants survive a cycle together.
LEMMA CycleKeepsInvariant ==
  ASSUME NEW in, InputOK(in), IInv, CmuCycle(in)
  PROVE  IInv'
<1>0. /\ CmuTypeOK /\ CmuTypeOK' /\ ControlFsm(in)
      /\ sincState \in Modes /\ sincState' \in Modes
  BY CycleType DEF IInv, CmuCycle, CmuTypeOK
<1>1. CommandRunsInItsMode'
  <2>1. CASE cmuState' = "SINC_IDLE"
    BY <1>0, <2>1 DEF CommandRunsInItsMode, ModesOf
  <2>2. CASE cmuState' # "SINC_IDLE" /\ Idle
    <3>1. cmuState' = Dispatch(in)
      BY <1>0, <2>2, ControlMoves DEF Idle
    <3>2. sincState' \in {sincState, "CACHE_FAILED"}
      BY <1>0, <2>2, ControlMoves DEF Idle
    <3>3. QED
      BY <2>2, <3>1, <3>2, DispatchVetted DEF CommandRunsInItsMode
  <2>3. CASE cmuState' # "SINC_IDLE" /\ ~Idle
    <3>1. cmuState' = cmuState
      BY <1>0, <2>3, ControlMoves
    <3>2. sincState' \in {sincState, "CACHE_FAILED"}
      BY <1>0, <2>3, ControlMoves
    <3>3. QED
      BY <3>1, <3>2 DEF CommandRunsInItsMode, IInv
  <2>4. QED
    BY <2>1, <2>2, <2>3
<1>2. CommandVetted'
  <2>0. /\ cmdWritten' = (axiWr # "NO_WRITE")
        /\ axiWr' # "NO_WRITE" => NoWriteInFlight
    BY DEF CmuCycle, CommandPipeline, InputOK
  <2>1. cmdWritten' => axiWr' = "NO_WRITE"
    BY <2>0 DEF NoWriteInFlight
  <2>2. ASSUME cmdVldPass1'
        PROVE  /\ CmdStateOk' \/ cmd' = "NONE" \/ sincState' = "CACHE_FAILED"
               /\ cmuState' \in {"SINC_IDLE", "AES_TEST"}
               /\ axiWr' = "NO_WRITE" /\ ~cmdWritten'
    <3>1. /\ cmdWritten /\ CmdStateOk
          /\ ~ActiveCmd(in) \/ AesTestBusy(in)
      BY <2>2 DEF CmuCycle, CommandPipeline
    <3>2. axiWr = "NO_WRITE"
      BY <3>1 DEF IInv, CommandVetted
    <3>3. axiWr' = "NO_WRITE" /\ ~cmdWritten'
      BY <2>0, <3>1, <3>2 DEF NoWriteInFlight
    <3>4. cmd' \in {cmd, "NONE"}
      BY <3>2 DEF CmuCycle, CommandPipeline
    <3>5. /\ cmuState \in {"SINC_IDLE", "AES_TEST"}
          /\ Idle => Dispatch(in) \in {"SINC_IDLE", "AES_TEST"}
      BY <3>1 DEF ActiveCmd, AesTestBusy, Starting, Idle
    <3>6. cmuState' \in {"SINC_IDLE", "AES_TEST"}
      BY <1>0, <3>5, ControlMoves
    <3>7. sincState' \in {sincState, "CACHE_FAILED"}
      BY <1>0, <3>5, ControlMoves
    <3>8. CmdStateOk' \/ cmd' = "NONE" \/ sincState' = "CACHE_FAILED"
      BY <3>1, <3>4, <3>7 DEF CmdStateOk
    <3>9. QED
      BY <3>3, <3>6, <3>8
  <2>3. QED
    BY <2>1, <2>2 DEF CommandVetted
<1>3. PendingVetted'
  <2>1. CASE pendCmd' = "NONE"
    BY <2>1 DEF PendingVetted
  <2>2. CASE pendCmd' = pendCmd /\ pendCmd # "NONE"
             /\ (Idle => RegCmdVld(in))
    <3>1. ~cmdVldPass1 /\ cmuState \in {"SINC_IDLE", "AES_SEED"}
      BY <2>2 DEF IInv, PendingVetted
    <3>2. cmuState = "AES_SEED"
      BY <2>2, <3>1 DEF Idle, RegCmdVld
    <3>3. ~cmdVldPass1'
      BY <3>2 DEF CmuCycle, CommandPipeline, ActiveCmd, AesTestBusy, Idle
    <3>4. /\ cmuState' \in {"SINC_IDLE", "AES_SEED"}
          /\ sincState' \in {sincState, "CACHE_FAILED"}
      BY <1>0, <3>2, ControlMoves DEF Idle
    <3>5. QED
      BY <2>2, <3>3, <3>4 DEF PendingVetted, IInv
  <2>3. CASE /\ Idle /\ Dispatch(in) = "AES_SEED"
             /\ pendCmd' = IF in.fetchReq THEN "FETCH_BLOCK" ELSE "ENCR_BLOCK"
    <3>1. ~cmdVldPass1'
      BY <2>3 DEF CmuCycle, CommandPipeline, ActiveCmd, AesTestBusy, Starting,
                  Idle
    <3>2. /\ cmuState' \in {"SINC_IDLE", "AES_SEED"}
          /\ sincState' \in {sincState, "CACHE_FAILED"}
      BY <1>0, <2>3, ControlMoves DEF Idle
    <3>3. in.fetchReq => sincState \in {"CACHE_ACTIVE", "CACHE_FAILED"}
      BY DEF InputOK, FetchAllowed
    <3>4. ~in.fetchReq => sincState \in {"INITIALIZATION", "CACHE_FAILED"}
      <4> SUFFICES ASSUME ~in.fetchReq
                   PROVE  sincState \in {"INITIALIZATION", "CACHE_FAILED"}
        OBVIOUS
      <4>1. cmdVldPass1 /\ (cmd = "ENCR_BLOCK" \/ pendCmd = "ENCR_BLOCK")
        BY <2>3 DEF Dispatch, FwCmd, RegCmdVld
      <4>2. cmd = "ENCR_BLOCK"
        BY <4>1 DEF IInv, PendingVetted
      <4>3. QED
        BY <1>0, <4>1, <4>2 DEF IInv, CommandVetted, CmdStateOk, Modes
    <3>5. QED
      BY <2>3, <3>1, <3>2, <3>3, <3>4 DEF PendingVetted
  <2>4. QED
    BY <1>0, <2>1, <2>2, <2>3, ControlKeeps
<1>4. CleanupPermitted'
  <2>1. cmuState' \in {"SINC_RESET", "SINC_REINIT"} /\ ~Idle
          => cmuState' = cmuState
    BY <1>0, ControlMoves DEF Idle
  <2>2. cmuState' \in {"SINC_RESET", "SINC_REINIT"} /\ Idle
          => cmuState' = Dispatch(in)
    BY <1>0, ControlMoves DEF Idle
  <2>3. /\ resetDis' = (resetDis \/ cmuState = "DIS_RESET")
        /\ reinitDis' = (reinitDis \/ cmuState = "DIS_REINIT")
    BY <1>0, ControlKeeps
  <2>4. CASE Idle
    BY <2>2, <2>3, <2>4, DispatchVetted DEF CleanupPermitted, Idle
  <2>5. CASE ~Idle
    BY <2>1, <2>3, <2>5 DEF CleanupPermitted, IInv
  <2>6. QED
    BY <2>4, <2>5
<1>5. QED
  BY <1>0, <1>1, <1>2, <1>3, <1>4 DEF IInv

\* The reset values satisfy the invariant.
LEMMA InitInvariant == CmuInit => IInv
<1> SUFFICES ASSUME CmuInit PROVE IInv
  OBVIOUS
<1>1. CmuTypeOK
  BY BlocksAssumption DEF CmuInit, CmuTypeOK, Modes, CmuStates, CmdValues
<1>2. CommandRunsInItsMode
  BY DEF CmuInit, CommandRunsInItsMode, ModesOf, Modes
<1>3. CommandVetted /\ PendingVetted /\ CleanupPermitted
  BY DEF CmuInit, CommandVetted, PendingVetted, CleanupPermitted
<1>4. QED
  BY <1>1, <1>2, <1>3 DEF IInv

\* A low-power reset keeps it too: the pipeline that was checked against the
\* retained mode is cleared with everything else.
LEMMA LpResetKeepsInvariant == IInv /\ CmuLpReset => IInv'
<1> SUFFICES ASSUME IInv, CmuLpReset PROVE IInv'
  OBVIOUS
<1>1. CmuTypeOK'
  BY BlocksAssumption
     DEF IInv, CmuLpReset, ClearedFlops, retVars, CmuTypeOK, CmuStates,
         CmdValues
<1>2. CommandRunsInItsMode'
  BY DEF IInv, CmuLpReset, ClearedFlops, retVars, CmuTypeOK,
         CommandRunsInItsMode, ModesOf
<1>3. CommandVetted' /\ PendingVetted' /\ CleanupPermitted'
  BY DEF CmuLpReset, ClearedFlops, CommandVetted, PendingVetted,
         CleanupPermitted
<1>4. QED
  BY <1>1, <1>2, <1>3 DEF IInv

\* In a build without seed loading a fetch that stays tracked, or becomes so,
\* is being served or about to be ended by a fault.
LEMMA CycleServesFetch ==
  ASSUME NO_SEED_LOADING, NEW in, InputOK(in), IInv, CmuCycle(in),
         pendCmd = "NONE", TrackedFetchIsServed
  PROVE  pendCmd' = "NONE" /\ TrackedFetchIsServed'
<1>0. CmuTypeOK /\ ControlFsm(in) /\ in.seeded /\ in.fault \in BOOLEAN
  BY DEF IInv, CmuCycle, InputOK
<1>1. Idle => Dispatch(in) # "AES_SEED"
  BY <1>0 DEF Dispatch
<1>2. pendCmd' = "NONE"
  BY <1>0, <1>1, ControlKeeps
<1>3. CASE fetchTrk /\ fetchTrk'
  <2>1. ~FetchComp(in)
    BY <1>3 DEF CmuCycle, FetchTracker
  <2>2. ~in.fault /\ ~hwFaultQ /\ cmuState = "FETCH_BLOCK" /\ ~in.cwComp
    BY <1>3, <2>1 DEF FetchComp, TrackedFetchIsServed
  <2>3. cmuState' = "FETCH_BLOCK"
    BY <1>0, <2>2 DEF ControlFsm, SincIdle, FetchBlock, SetInit,
       SetCacheActive, SincReset, SincReinit, EncrBlock, DisReset,
       DisReinit, AesTest, AesSeed, Idle, Goto
  <2>4. QED
    BY <1>2, <2>3 DEF TrackedFetchIsServed
<1>4. CASE ~fetchTrk /\ fetchTrk'
  <2>1. in.fetchReq
    BY <1>4 DEF CmuCycle, FetchTracker
  <2>2. Idle /\ Dispatch(in) = "FETCH_BLOCK"
    BY <1>0, <2>1 DEF InputOK, FetchAllowed, Dispatch
  <2>3. SincIdle(in)
    BY <1>0, <2>2 DEF ControlFsm, FetchBlock, SetInit, SetCacheActive,
       SincReset, SincReinit, EncrBlock, DisReset, DisReinit, AesTest,
       AesSeed, Idle
  <2>4. CASE in.fault
    BY <1>2, <2>2, <2>4
       DEF CmuCycle, ErrorFlops, Idle, TrackedFetchIsServed
  <2>5. CASE ~in.fault
    BY <1>2, <2>2, <2>3, <2>5 DEF SincIdle, Goto, TrackedFetchIsServed
  <2>6. QED
    BY <2>4, <2>5
<1>5. CASE ~fetchTrk'
  BY <1>2, <1>5 DEF TrackedFetchIsServed
<1>6. QED
  BY <1>3, <1>4, <1>5

-----------------------------------------------------------------------------
(* Disabled commands and the life cycle.                                    *)

\* What the disables forbid a step to do.
DisablesObeyed ==
  /\ resetDis  => resetDis'  /\ (sincState = "CACHE_FAILED" =>
                                  sincState' = "CACHE_FAILED")
  /\ reinitDis => reinitDis' /\ (sincState = "CACHE_ACTIVE" =>
                                  sincState' # "INITIALIZATION")

\* A cycle obeys the disables.
LEMMA CycleObeysDisables ==
  ASSUME NEW in, InputOK(in), IInv, CmuCycle(in) PROVE DisablesObeyed
<1> USE DEF DisablesObeyed
<1>0. CmuTypeOK /\ ControlFsm(in) /\ sincState \in Modes
  BY DEF IInv, CmuCycle, CmuTypeOK
<1>1. (resetDis => resetDis') /\ (reinitDis => reinitDis')
  BY <1>0, ControlKeeps
<1>2. sincState = "CACHE_FAILED" /\ sincState' # "CACHE_FAILED"
        => cmuState = "SINC_RESET"
  BY <1>0 DEF ControlFsm, SincIdle, FetchBlock, SetInit,
     SetCacheActive, SincReset, SincReinit, EncrBlock, DisReset, DisReinit,
     AesTest, AesSeed, KeepMode, RequestMode, ModeRequests
<1>3. sincState = "CACHE_ACTIVE" /\ sincState' = "INITIALIZATION"
        => cmuState \in {"SET_INIT", "SINC_REINIT"}
  BY <1>0 DEF ControlFsm, SincIdle, FetchBlock, SetInit,
     SetCacheActive, SincReset, SincReinit, EncrBlock, DisReset, DisReinit,
     AesTest, AesSeed, KeepMode, RequestMode, ModeRequests
<1>4. sincState = "CACHE_ACTIVE" => cmuState # "SET_INIT"
  BY DEF IInv, CommandRunsInItsMode, ModesOf
<1>5. QED
  BY <1>1, <1>2, <1>3, <1>4 DEF IInv, CleanupPermitted

LcOps == {"SET_INIT", "SET_CACHE_ACTIVE", "SINC_RESET", "SINC_REINIT",
          "DIS_RESET", "DIS_REINIT"}
LcOp == IF cmuState \in LcOps THEN cmuState ELSE "NONE"

\* A cycle of the CMU is a step of the abstract life cycle or leaves it alone.
LEMMA CycleRefines ==
  ASSUME NEW in, InputOK(in), IInv, CmuCycle(in)
  PROVE  LC!LcNext \/ UNCHANGED <<sincState, LcOp, resetDis, reinitDis>>
<1> USE DEF LcOps, LcOp, LC!Becomes, LC!Failure
<1>0. /\ CmuTypeOK /\ ControlFsm(in) /\ sincState \in Modes
      /\ cmuState' \in CmuStates
  BY CycleType DEF IInv, CmuCycle, CmuTypeOK
<1>1. /\ resetDis' = (resetDis \/ cmuState = "DIS_RESET")
      /\ reinitDis' = (reinitDis \/ cmuState = "DIS_REINIT")
      /\ resetDis \in BOOLEAN /\ reinitDis \in BOOLEAN
  BY <1>0, ControlKeeps DEF CmuTypeOK
<1>2. CASE cmuState \notin LcOps /\ cmuState' \notin LcOps
  <2>1. sincState' \in {sincState, "CACHE_FAILED"}
    BY <1>0, <1>2, ControlMoves
  <2>2. resetDis' = resetDis /\ reinitDis' = reinitDis /\ LcOp' = LcOp
    BY <1>1, <1>2
  <2>3. QED
    BY <2>1, <2>2 DEF LC!LcNext, LC!Fail
<1>3. CASE cmuState \notin LcOps /\ cmuState' \in LcOps
  <2>1. /\ Idle /\ cmuState' = Dispatch(in)
        /\ sincState' \in {sincState, "CACHE_FAILED"}
    BY <1>0, <1>3, ControlMoves
  <2>2. sincState \in LC!AdmittedIn(cmuState') \cup {"CACHE_FAILED"}
    BY <1>0, <1>3, <2>1, DispatchVetted DEF LC!AdmittedIn, ModesOf, Modes
  <2>3. LC!Start(cmuState')
    BY <1>1, <1>3, <2>1, <2>2, DispatchVetted DEF LC!Start, Idle
  <2>4. QED
    BY <1>3, <2>3 DEF LC!LcNext, LC!Ops
<1>4. CASE cmuState \in LcOps /\ cmuState' # "SINC_IDLE"
  <2>1. cmuState' = cmuState /\ sincState' \in {sincState, "CACHE_FAILED"}
    BY <1>0, <1>4, ControlMoves DEF Idle
  <2>2. cmuState \notin {"DIS_RESET", "DIS_REINIT"}
    BY <1>0, <1>4, <2>1 DEF ControlFsm, SincIdle, FetchBlock, SetInit,
       SetCacheActive, SincReset, SincReinit, EncrBlock, DisReset, DisReinit,
       AesTest, AesSeed, Goto, Idle
  <2>3. QED
    BY <1>1, <2>1, <2>2 DEF LC!LcNext, LC!Fail
<1>5. CASE cmuState \in LcOps /\ cmuState' = "SINC_IDLE"
  <2>1. LcOp = cmuState /\ LcOp # "NONE" /\ LcOp' = "NONE"
    BY <1>5
  <2>2. sincState \in ModesOf(cmuState) \cup {"CACHE_FAILED"}
    BY DEF IInv, CommandRunsInItsMode
  <2>3. \/ sincState' \in {LC!LeadsTo(cmuState, sincState), "CACHE_FAILED"}
        \/ /\ cmuState \notin {"DIS_RESET", "DIS_REINIT"}
           /\ sincState' \in {sincState, "CACHE_FAILED"}
    <3>1. CASE cmuState = "SET_INIT"
      BY <1>0, <2>2, <3>1 DEF ControlFsm, SincIdle, FetchBlock, SetInit,
         SetCacheActive, SincReset, SincReinit, EncrBlock, DisReset,
         DisReinit, AesTest, AesSeed, Idle, KeepMode, RequestMode,
         ModeRequests, LC!LeadsTo, ModesOf
    <3>2. CASE cmuState = "SET_CACHE_ACTIVE"
      BY <1>0, <2>2, <3>2 DEF ControlFsm, SincIdle, FetchBlock, SetInit,
         SetCacheActive, SincReset, SincReinit, EncrBlock, DisReset,
         DisReinit, AesTest, AesSeed, Idle, KeepMode, RequestMode,
         ModeRequests, LC!LeadsTo, ModesOf
    <3>3. CASE cmuState = "SINC_RESET"
      BY <1>0, <2>2, <3>3 DEF ControlFsm, SincIdle, FetchBlock, SetInit,
         SetCacheActive, SincReset, SincReinit, EncrBlock, DisReset,
         DisReinit, AesTest, AesSeed, Idle, KeepMode, RequestMode,
         ModeRequests, LC!LeadsTo, ModesOf
    <3>4. CASE cmuState = "SINC_REINIT"
      BY <1>0, <2>2, <3>4 DEF ControlFsm, SincIdle, FetchBlock, SetInit,
         SetCacheActive, SincReset, SincReinit, EncrBlock, DisReset,
         DisReinit, AesTest, AesSeed, Idle, KeepMode, RequestMode,
         ModeRequests, LC!LeadsTo, ModesOf
    <3>5. CASE cmuState \in {"DIS_RESET", "DIS_REINIT"}
      BY <1>0, <3>5, ControlMoves DEF LC!LeadsTo, Idle
    <3>6. QED
      BY <1>5, <3>1, <3>2, <3>3, <3>4, <3>5
  <2>4. CASE sincState' \in {LC!LeadsTo(cmuState, sincState), "CACHE_FAILED"}
    BY <1>1, <2>1, <2>4 DEF LC!LcNext, LC!Finish
  <2>5. CASE /\ cmuState \notin {"DIS_RESET", "DIS_REINIT"}
             /\ sincState' \in {sincState, "CACHE_FAILED"}
    BY <1>1, <2>1, <2>5 DEF LC!LcNext, LC!Abort
  <2>6. QED
    BY <2>3, <2>4, <2>5
<1>6. QED
  BY <1>2, <1>3, <1>4, <1>5
=============================================================================
