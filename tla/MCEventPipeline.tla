-------------------------- MODULE MCEventPipeline --------------------------
(* Small instances of EventPipeline.                                       *)
EXTENDS EventPipeline, TLC

\* Backends differ in nothing; symmetry is for runs without liveness.
BackendSymmetry == Permutations(Backends)
=============================================================================
