----------------------------- MODULE MCReconciler ------------------------------
(***************************************************************************)
(* Two runs on one log, each other's events foreign to each: an event of   *)
(* r1 may make every pass fail, one of r2 may end r2.                      *)
(***************************************************************************)
EXTENDS Reconciler

MCOutcomes == [o \in Runs \union {Nobody} |->
    CASE o = "r1" -> {"go", "raise"} [] o = "r2" -> {"go", "end"}
      [] OTHER -> {"note"}]
=============================================================================
