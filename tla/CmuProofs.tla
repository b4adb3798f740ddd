----------------------------- MODULE CmuProofs -----------------------------
(***************************************************************************)
(* Machine-checked proofs about the CMU control path closed with its       *)
(* weakest environment, for every set of blocks, every set of              *)
(* crypto-wrapper errors and both seed options.                            *)
(***************************************************************************)
EXTENDS Cmu, CmuCtrlProofs

\* Every step of Cycle samples signals that satisfy InputOK.
LEMMA InputsAreOK ==
  Cycle => \E in : InputOK(in) /\ CmuCycle(in)
<1> SUFFICES ASSUME Cycle PROVE \E in : InputOK(in) /\ CmuCycle(in)
  OBVIOUS
<1>1. PICK fr \in IF FetchAllowed THEN BOOLEAN ELSE {FALSE},
           b  \in IF FetchAllowed THEN Blocks ELSE {0},
           cc \in IF Cleaning THEN BOOLEAN ELSE {FALSE},
           cw \in {"WAIT", "OK"} \cup CWrapErrs,
           sd \in IF NO_SEED_LOADING THEN {TRUE} ELSE BOOLEAN,
           ft \in BOOLEAN,
           wr \in IF NoWriteInFlight THEN CmdValues \cup {"NO_WRITE"}
                  ELSE {"NO_WRITE"},
           rd \in BOOLEAN :
             CmuCycle(Signals(fr, b, cc, cw, sd, ft, wr, rd))
  BY DEF Cycle
<1> DEFINE in == Signals(fr, b, cc, cw, sd, ft, wr, rd)
<1>2. fr \in BOOLEAN /\ b \in Blocks /\ cc \in BOOLEAN /\ sd \in BOOLEAN
  BY BlocksAssumption
<1>3. wr \in CmdValues \cup {"NO_WRITE"}
  OBVIOUS
<1>4. (fr => FetchAllowed) /\ (wr # "NO_WRITE" => NoWriteInFlight)
  OBVIOUS
<1>5. NO_SEED_LOADING => sd
  OBVIOUS
<1>6. InputOK(in)
  BY <1>2, <1>3, <1>4, <1>5 DEF InputOK, Signals
<1>7. QED
  BY <1>1, <1>6

-----------------------------------------------------------------------------
(* The invariant.                                                           *)

\* The inductive invariant of the CMU control path.
THEOREM InvariantHolds == Spec => []IInv
<1>1. Init => IInv
  BY InitInvariant DEF Init
<1>2. IInv /\ [Next]_cmuVars => IInv'
  <2> SUFFICES ASSUME IInv, [Next]_cmuVars PROVE IInv'
    OBVIOUS
  <2>1. CASE Cycle
    BY <2>1, InputsAreOK, CycleKeepsInvariant
  <2>2. CASE LpReset
    BY <2>2, LpResetKeepsInvariant DEF LpReset
  <2>3. CASE UNCHANGED cmuVars
    BY <2>3 DEF cmuVars, retVars, fsmVars, regVars, IInv, CmuTypeOK,
       CommandRunsInItsMode, CommandVetted, PendingVetted, CleanupPermitted,
       CmdStateOk
  <2>4. QED
    BY <2>1, <2>2, <2>3 DEF Next
<1>3. QED
  BY <1>1, <1>2, PTL DEF Spec

\* Every flop of the CMU control path keeps its type (sinc_cmu_ctrl,
\* sinc_cmu_reg_ctrl).
THEOREM TypeCorrect == Spec => []CmuTypeOK
<1>1. IInv => CmuTypeOK
  BY DEF IInv
<1>2. QED
  BY <1>1, InvariantHolds, PTL

\* A command executes only in a mode that allows it, whatever the pipeline
\* between its check and its dispatch lets in (cmd_vld_pass_1).
THEOREM CommandsRunInTheirMode == Spec => []CommandRunsInItsMode
<1>1. IInv => CommandRunsInItsMode
  BY DEF IInv
<1>2. QED
  BY <1>1, InvariantHolds, PTL

-----------------------------------------------------------------------------
(* Action properties.                                                       *)

\* A disabled SINC_RESET or SINC_REINIT stays disabled and has no effect on
\* the mode (sinc_reset_dis, sinc_reinit_dis), low-power resets included.
THEOREM DisabledForGood == Spec => DisablesAreFinal
<1>1. IInv /\ [Next]_cmuVars => [DisablesObeyed]_cmuVars
  <2> SUFFICES ASSUME IInv, Next PROVE DisablesObeyed
    OBVIOUS
  <2>1. CASE Cycle
    BY <2>1, CycleObeysDisables, InputsAreOK
  <2>2. CASE LpReset
    BY <2>2 DEF LpReset, CmuLpReset, ClearedFlops, retVars, DisablesObeyed
  <2>3. QED
    BY <2>1, <2>2 DEF Next
<1>2. QED
  BY <1>1, InvariantHolds, PTL DEF Spec, DisablesAreFinal, DisablesObeyed

-----------------------------------------------------------------------------
(* Block fetches.                                                           *)

\* In a build without seed loading every block fetch the CMU tracks is being
\* served or about to be ended by a fault (fetch_block_state): the CIU is
\* never left waiting for an answer nobody prepares.
THEOREM FetchesAreServed ==
  ASSUME NO_SEED_LOADING PROVE Spec => []TrackedFetchIsServed
<1> DEFINE FInv == pendCmd = "NONE" /\ TrackedFetchIsServed
<1>1. Init => FInv
  BY DEF Init, CmuInit, TrackedFetchIsServed
<1>2. IInv /\ FInv /\ [Next]_cmuVars => FInv'
  <2> SUFFICES ASSUME IInv, FInv, [Next]_cmuVars PROVE FInv'
    OBVIOUS
  <2>1. CASE Cycle
    BY <2>1, InputsAreOK, CycleServesFetch
  <2>2. CASE LpReset
    BY <2>2 DEF LpReset, CmuLpReset, ClearedFlops, TrackedFetchIsServed
  <2>3. CASE UNCHANGED cmuVars
    BY <2>3 DEF cmuVars, fsmVars, TrackedFetchIsServed
  <2>4. QED
    BY <2>1, <2>2, <2>3 DEF Next
<1>3. FInv => TrackedFetchIsServed
  OBVIOUS
<1>4. QED
  BY <1>1, <1>2, <1>3, InvariantHolds, PTL DEF Spec

-----------------------------------------------------------------------------
(* Refinement.                                                              *)

\* The CMU control path implements the life cycle of Lifecycle: Cmu's command
\* pipeline, faults, fetches and low-power resets add no move of the mode.
THEOREM LifecycleImplemented == Spec => ImplementsLifecycle
<1>1. Init => LC!LcInit
  BY DEF Init, CmuInit, LC!LcInit
<1>2. IInv /\ [Next]_cmuVars => [LC!LcNext]_LC!lcVars
  <2> SUFFICES ASSUME IInv, [Next]_cmuVars
               PROVE  LC!LcNext \/ UNCHANGED LC!lcVars
    OBVIOUS
  <2>1. CASE Cycle
    BY <2>1, CycleRefines, InputsAreOK DEF LC!lcVars, LcOp, LcOps
  <2>2. CASE LpReset
    BY <2>2 DEF LpReset, SincInactive, Idle, CmuLpReset, ClearedFlops, retVars,
                LC!lcVars
  <2>3. CASE UNCHANGED cmuVars
    BY <2>3 DEF cmuVars, retVars, fsmVars, LC!lcVars
  <2>4. QED
    BY <2>1, <2>2, <2>3 DEF Next
<1>3. QED
  BY <1>1, <1>2, InvariantHolds, PTL DEF Spec, ImplementsLifecycle, LC!LcSpec
=============================================================================
