-------------------------- MODULE MCQueueConsumer --------------------------
(* Small instances of QueueConsumer.                                       *)
EXTENDS QueueConsumer, TLC

\* Runners differ in nothing but their random name.
RunnerSymmetry == Permutations(Runners)
=============================================================================
