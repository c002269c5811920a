-------------------------- MODULE MCCronScheduler --------------------------
(* Instances of CronScheduler for TLC.                                     *)
EXTENDS CronScheduler, TLC

Symmetry == Permutations(Jobs) \cup Permutations(Callers)
=============================================================================
