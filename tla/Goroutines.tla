----------------------------- MODULE Goroutines -----------------------------
(***************************************************************************)
(* What the settings cache and the job scheduler have in common: callers   *)
(* (HTTP handlers, background loops and main) that are at a phase of an    *)
(* operation, and calls of the database that may fail.                     *)
(***************************************************************************)
EXTENDS Naturals

CONSTANTS Callers,    \* goroutines
          MaxFaults   \* bound on failing calls

VARIABLES pc,         \* where a caller is
          faults

Goto(c, phase) == pc' = [pc EXCEPT ![c] = phase]

Fault == faults < MaxFaults /\ faults' = faults + 1
NoFault == UNCHANGED faults
=============================================================================
