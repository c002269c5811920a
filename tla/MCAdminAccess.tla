----------------------------- MODULE MCAdminAccess -----------------------------
(***************************************************************************)
(* An instance of AdminAccess.  Each start gives one part of the module    *)
(* the steps it needs to interleave.                                       *)
(***************************************************************************)
EXTENDS AdminAccess, TLC

Slot == Permutations(Slots)
MCNames == {"admin", "other"}
MCPasswords == {"p1", "p2"}
MCSecrets == {"s1", "s2"}
MCCodesOf == [x \in MCSecrets |-> IF x = "s1" THEN {"c1", "d1"} ELSE {"c2"}]

Nobody == << >>
NoSteps == [login |-> 0, change |-> 0, setup |-> 0, restart |-> 0, token |-> 0, ticket |-> 0]
Admin(totp, secret, codes) ==
  [n \in {"admin"} |-> [pw |-> "p1", ver |-> 0, totp |-> totp, secret |-> secret, codes |-> codes]]
Start(admins0, done0, tokens0, steps) == [admins |-> admins0, done |-> done0, tokens |-> tokens0, budget |-> steps]

MCStarts ==
  {Start(Nobody, FALSE, Nobody, [NoSteps EXCEPT !.setup = 3, !.restart = 2, !.login = 1]),
   Start(Admin(FALSE, "", {}), TRUE, Nobody, [NoSteps EXCEPT !.login = 5]),
   Start(Admin(TRUE, "s1", {"c1", "d1"}), TRUE, Nobody, [NoSteps EXCEPT !.login = 3, !.restart = 1]),
   Start(Admin(TRUE, "s1", {"c1", "d1"}), TRUE, Nobody, [NoSteps EXCEPT !.login = 2, !.change = 2]),
   Start(Admin(FALSE, "", {}), TRUE, Nobody, [NoSteps EXCEPT !.login = 2, !.change = 3]),
   Start(Admin(FALSE, "", {}), TRUE, [t \in {"cli"} |-> [revoked |-> FALSE, used |-> 0]], [NoSteps EXCEPT !.token = 4, !.restart = 1]),
   Start(Admin(FALSE, "", {}), TRUE, Nobody, [NoSteps EXCEPT !.ticket = 3, !.restart = 1])}
=============================================================================
