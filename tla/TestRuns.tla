------------------------------ MODULE TestRuns ------------------------------
(* What the dialog and the runner name in common: the runs of a flow, and  *)
(* the sessions that the runs of a conversation share.                     *)

EXTENDS Naturals

CONSTANTS
    Runs,     \* numbers, in the order in which the runs are started
    Sessions

ASSUME RunsAssumption == Runs \subseteq Nat
=============================================================================
