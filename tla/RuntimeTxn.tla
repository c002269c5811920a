----------------------------- MODULE RuntimeTxn -----------------------------
(***************************************************************************)
(* What ApplyRuntime promises its callers, without engines, steps or       *)
(* processes: one transaction at a time on what is installed (the          *)
(* configuration files and modes of both engines).  It commits, or aborts  *)
(* leaving what was installed before, or says that it could not.           *)
(***************************************************************************)
CONSTANT Runtimes     \* everything that can be installed

VARIABLES
    installed,        \* what is installed
    verdict           \* what the administrator is told

vars == <<installed, verdict>>

Init ==
    /\ installed \in Runtimes
    /\ verdict = "idle"

Begin ==
    /\ verdict # "applying"
    /\ verdict' = "applying"
    /\ UNCHANGED installed

Commit ==
    /\ verdict = "applying"
    /\ verdict' = "applied"
    /\ installed' \in Runtimes

Abort ==
    /\ verdict = "applying"
    /\ verdict' \in {"failed", "rolled_back"}
    /\ UNCHANGED installed

\* The only way to leave something else without having committed.
Damage ==
    /\ verdict = "applying"
    /\ verdict' = "rollback_failed"
    /\ installed' \in Runtimes

\* The panel is restarted; booting installs what the database asks for.
Reboot ==
    /\ verdict' = "idle"
    /\ installed' \in Runtimes

Next == Begin \/ Commit \/ Abort \/ Damage \/ Reboot

Spec == Init /\ [][Next]_vars
=============================================================================
