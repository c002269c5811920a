-------------------------- MODULE MCSettingsCache --------------------------
(* Instances of SettingsCache for TLC.                                     *)
EXTENDS SettingsCache, TLC

Symmetry == Permutations(Callers) \cup Permutations(Values)
=============================================================================
