----------------------------- MODULE Lifecycle -----------------------------
(***************************************************************************)
(* What the CMU promises about SInC's life cycle, without its pipelines,   *)
(* handshakes and errors: an operation starts in a mode that admits it,    *)
(* unless firmware has turned it off, and the mode changes only when an    *)
(* operation finishes or the cache fails.  Cmu implements it.              *)
(***************************************************************************)
VARIABLES
  mode,       \* the mode of the cache
  op,         \* the operation that runs, or "NONE"
  resetDis,   \* firmware has turned SINC_RESET off
  reinitDis   \* firmware has turned SINC_REINIT off

lcVars == <<mode, op, resetDis, reinitDis>>

Failure == "CACHE_FAILED"

Ops == {"SET_INIT", "SET_CACHE_ACTIVE", "SINC_RESET", "SINC_REINIT",
        "DIS_RESET", "DIS_REINIT"}

\* The modes an operation is meant for, and the mode it leads to from m.  A
\* failed cache is left by SINC_RESET only.
AdmittedIn(o) ==
  CASE o = "SET_INIT"         -> {"DISABLED"}
    [] o = "SET_CACHE_ACTIVE" -> {"INITIALIZATION"}
    [] o = "SINC_REINIT"      -> {"CACHE_ACTIVE"}
    [] o = "SINC_RESET"       -> {"INITIALIZATION", "CACHE_ACTIVE"}
    [] OTHER -> {"DISABLED", "INITIALIZATION", "CACHE_ACTIVE"}

LeadsTo(o, m) ==
  CASE o = "SINC_RESET"                              -> "DISABLED"
    [] o = "SET_INIT"         /\ m = "DISABLED"       -> "INITIALIZATION"
    [] o = "SET_CACHE_ACTIVE" /\ m = "INITIALIZATION" -> "CACHE_ACTIVE"
    [] o = "SINC_REINIT"      /\ m = "CACHE_ACTIVE"   -> "INITIALIZATION"
    [] OTHER -> m

\* Every step may coincide with a failure of the cache, which wins.
Becomes(m) == mode' \in {m, Failure}

\* An operation let through before the cache failed still starts.
Start(o) ==
  /\ op = "NONE"
  /\ mode \in AdmittedIn(o) \cup {Failure}
  /\ o = "SINC_RESET" => ~resetDis
  /\ o = "SINC_REINIT" => ~reinitDis
  /\ op' = o /\ Becomes(mode)
  /\ UNCHANGED <<resetDis, reinitDis>>

Finish ==
  /\ op # "NONE" /\ op' = "NONE"
  /\ Becomes(LeadsTo(op, mode))
  /\ resetDis'  = (resetDis  \/ op = "DIS_RESET")
  /\ reinitDis' = (reinitDis \/ op = "DIS_REINIT")

Abort ==
  /\ op # "NONE" /\ op' = "NONE"
  /\ Becomes(mode) /\ UNCHANGED <<resetDis, reinitDis>>

Fail == mode' = Failure /\ UNCHANGED <<op, resetDis, reinitDis>>

LcInit ==
  mode = "DISABLED" /\ op = "NONE" /\ resetDis = FALSE /\ reinitDis = FALSE
LcNext == (\E o \in Ops : Start(o)) \/ Finish \/ Abort \/ Fail
LcSpec == LcInit /\ [][LcNext]_lcVars
=============================================================================
