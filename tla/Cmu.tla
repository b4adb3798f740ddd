-------------------------------- MODULE Cmu --------------------------------
(***************************************************************************)
(* The CMU control path of CmuCtrl closed with the weakest environment the *)
(* rest of the design provides, so that its mode and command protocol can  *)
(* be checked and proved without the crypto wrapper and the CIU.           *)
(*                                                                         *)
(* What is assumed of the neighbours, and nothing else:                    *)
(*  - the CIU requests a block only while the unit is idle, tracks no      *)
(*    fetch and the cache is active or has just failed (sinc_ciu_ctrl      *)
(*    waits for cmu_busy to fall);                                         *)
(*  - an error status comes with a completion;                             *)
(*  - firmware has one register write in flight at a time;                 *)
(*  - lp_rstn is asserted only while sinc_active is low.                   *)
(* Completions, errors, hardware faults and the seeded flag are arbitrary. *)
(***************************************************************************)
EXTENDS CmuCtrl

CONSTANT CWrapErrs   \* error statuses the crypto wrapper may report
ASSUME ErrsAssumption == CWrapErrs \subseteq CWrapSts \ {"NONE"}

Cleaning == cmuState \in {"SINC_RESET", "SINC_REINIT"}

\* The crypto wrapper does nothing ("WAIT"), completes, or completes with an
\* error.
Signals(fr, b, cc, cw, sd, ft, wr, rd) ==
  [fetchReq |-> fr, fetchAddr |-> b, ciuComp |-> cc,
   cwComp |-> cw # "WAIT", cwErr |-> cw \in CWrapErrs,
   cwSts |-> IF cw \in CWrapErrs THEN cw ELSE "NONE",
   seeded |-> sd, fault |-> ft, fwWr |-> wr, fwRd |-> rd]

Cycle ==
  \E fr \in IF FetchAllowed THEN BOOLEAN ELSE {FALSE},
     b  \in IF FetchAllowed THEN Blocks ELSE {0},
     cc \in IF Cleaning THEN BOOLEAN ELSE {FALSE},
     cw \in {"WAIT", "OK"} \cup CWrapErrs,
     sd \in IF NO_SEED_LOADING THEN {TRUE} ELSE BOOLEAN,
     ft \in BOOLEAN,
     wr \in IF NoWriteInFlight THEN CmdValues \cup {"NO_WRITE"}
            ELSE {"NO_WRITE"},
     rd \in BOOLEAN :
    CmuCycle(Signals(fr, b, cc, cw, sd, ft, wr, rd))

SincInactive == Idle /\ ~fetchTrk /\ pendCmd = "NONE" /\ NoWriteInFlight

LpReset == SincInactive /\ CmuLpReset

Init == CmuInit
Next == Cycle \/ LpReset
Spec == Init /\ [][Next]_cmuVars

=============================================================================
