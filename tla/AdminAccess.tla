------------------------------ MODULE AdminAccess ------------------------------
(***************************************************************************)
(* Who may use the panel: the setup wizard, administrator logins with      *)
(* their lockout and recovery codes, sessions and the changes that revoke  *)
(* them, API tokens and terminal tickets (api/router.go,                   *)
(* api/security_routes.go, api/admin_sessions.go, api/api_tokens.go,       *)
(* api/middleware, pkg/jwtutil, core/setup, service/terminal/ticket.go).   *)
(*                                                                         *)
(* A request is a process: it checks in one step and writes in a later     *)
(* one, and other requests run in between.  The data base and the signing  *)
(* key outlive a restart; failure counts, tickets and requests do not.     *)
(*                                                                         *)
(* A TOTP code is modelled by the secret it is computed from.  Rate        *)
(* limiters, which may refuse any request at any time, are left out, and   *)
(* so are network addresses other than as the owner of a failure count.    *)
(***************************************************************************)
EXTENDS Integers, Sequences, FiniteSets

CONSTANTS Slots,       \* requests under way at once
          Addresses, Names, Passwords,
          Secrets,     \* TOTP secrets
          CodesOf,     \* secret -> the recovery codes issued with it
          TokenNames,
          MaxFailures, LockFor,   \* maxLoginFailures, lockoutDuration
          SessionTTL, MaxAge, SetupTTL,
          MaxTickets, TicketTTL, TouchEvery,
          Starts,      \* [admins, done, tokens, budget] the panel may start with
          MaxTime      \* the clock stops here

\* The empty string: no secret, nothing given.
None == ""

RecoveryCodes == UNION {CodesOf[x] : x \in Secrets}

\* An account and an API token as the data base has them.
Row == [pw : Passwords, ver : Nat, totp : BOOLEAN, secret : Secrets \cup {None}, codes : SUBSET RecoveryCodes]
Token == [revoked : BOOLEAN, used : 0..MaxTime]

\* The second factor that is in force.
Factor(row) == IF row.totp THEN row.secret ELSE None

ASSUME LimitAssumption ==
  /\ MaxTickets \in Nat \ {0} /\ MaxTime \in Nat \ {0} /\ MaxFailures \in Nat
  /\ LockFor \in Nat /\ SessionTTL \in Nat /\ MaxAge \in Nat /\ SetupTTL \in Nat /\ TicketTTL \in Nat
  /\ TouchEvery \in Nat

\* Secrets and recovery codes are drawn at random: no two are the same.
ASSUME SecretAssumption ==
  /\ None \notin Secrets
  /\ \A x, y \in Secrets : x # y => CodesOf[x] \cap CodesOf[y] = {}

\* An account has no codes but those issued with its secret, and a secret of its own.
OwnSecrets(rows) ==
  /\ \A n \in DOMAIN rows : rows[n].codes \subseteq IF rows[n].secret = None THEN {} ELSE CodesOf[rows[n].secret]
  /\ \A n, m \in DOMAIN rows : n # m /\ rows[n].secret # None => rows[m].secret # rows[n].secret

ASSUME StartAssumption ==
  \A start \in Starts :
    /\ start.done \in BOOLEAN
    /\ DOMAIN start.admins \subseteq Names /\ start.admins \in [DOMAIN start.admins -> Row]
    /\ \A n \in DOMAIN start.admins : start.admins[n].totp => start.admins[n].secret # None
    /\ OwnSecrets(start.admins)
    /\ DOMAIN start.tokens \subseteq TokenNames /\ start.tokens \in [DOMAIN start.tokens -> Token]

VARIABLES admins,      \* user name -> account row
          tokens,      \* token name -> row
          dbDone,      \* the setting setup_complete
          cfgDone, setupToken,     \* config's IsSetupComplete, SetupOneTimeToken (0 for none)
          setupSessions,           \* expiry times of the setup tokens handed out
          sessions,    \* administrator tokens handed out
          failures,    \* address -> << >> or <<[count, at]>>
          tickets,     \* pending terminal tickets
          requests,    \* slot -> request
          now,
          budget,      \* requests of each kind left (bound)
          history      \* what happened, for the properties

stored == <<admins, tokens, dbDone>>
setup  == <<cfgDone, setupToken, setupSessions>>
vars   == <<stored, setup, sessions, failures, tickets, requests, now, budget, history>>

Idle == [kind |-> "idle"]

Spend(kind) == budget[kind] > 0 /\ budget' = [budget EXCEPT ![kind] = @ - 1]

Arrive(s, r)  == requests[s] = Idle /\ requests' = [requests EXCEPT ![s] = r]
Advance(s, r) == requests' = [requests EXCEPT ![s] = r]
Leave(s)      == requests' = [requests EXCEPT ![s] = Idle]
At(s, kind, phase) == requests[s].kind = kind /\ requests[s].phase = phase
InPhase(r, phase) == [r EXCEPT !.phase = phase]

\* opened: ticket -> terminals it opened; issued, presented: tickets; codes:
\* recovery code -> logins it passed; failed: address -> failures since the
\* last login from it or restart; drawn: secrets that accounts were offered.
Init ==
  \E start \in Starts :
    /\ admins = start.admins /\ tokens = start.tokens /\ budget = start.budget
    /\ dbDone = start.done /\ cfgDone = start.done
    /\ setupToken = (IF start.done THEN 0 ELSE 1) /\ setupSessions = {}
    /\ sessions = {} /\ failures = [a \in Addresses |-> << >>] /\ tickets = {}
    /\ requests = [s \in Slots |-> Idle] /\ now = 1
    /\ history = [opened |-> << >>, issued |-> {}, presented |-> {}, codes |-> [c \in RecoveryCodes |-> 0],
                  failed |-> [a \in Addresses |-> 0], drawn |-> {start.admins[n].secret : n \in DOMAIN start.admins}]

------------------------------------------------------------------------------
(* Setup                                                                   *)

SetupLogin(password) ==
  /\ ~cfgDone /\ setupToken # 0 /\ password = setupToken /\ Spend("setup")
  /\ setupSessions' = setupSessions \cup {now + SetupTTL}
  /\ UNCHANGED <<stored, cfgDone, setupToken, sessions, failures, tickets, requests, now, history>>

BeginSetup(s, name, pw) ==
  /\ ~cfgDone /\ (\E expiry \in setupSessions : now < expiry) /\ Spend("setup")
  /\ Arrive(s, [kind |-> "setup", phase |-> "create", name |-> name, pw |-> pw])
  /\ UNCHANGED <<stored, setup, sessions, failures, tickets, now, history>>

NewAdmin(pw) == [pw |-> pw, ver |-> 0, totp |-> FALSE, secret |-> None, codes |-> {}]

\* Mutant: the account is created, setup_complete is not saved with it.
MutantAccountOnly(s) ==
  LET r == requests[s]
  IN  /\ At(s, "setup", "create") /\ r.name \notin DOMAIN admins
      /\ admins' = [n \in DOMAIN admins \cup {r.name} |-> IF n = r.name THEN NewAdmin(r.pw) ELSE admins[n]]
      /\ Advance(s, InPhase(r, "finish"))
      /\ UNCHANGED <<dbDone, tokens, setup, sessions, failures, tickets, now, budget, history>>

\* One transaction: the account and the setting that says setup is complete.
\* A user name that exists fails it.
CommitSetup(s) ==
  LET r == requests[s]
  IN  /\ At(s, "setup", "create")
      /\ IF r.name \in DOMAIN admins
         THEN Leave(s) /\ UNCHANGED <<admins, dbDone>>
         ELSE /\ admins' = [n \in DOMAIN admins \cup {r.name} |->
                              IF n = r.name THEN NewAdmin(r.pw) ELSE admins[n]]
              /\ dbDone' = TRUE /\ Advance(s, InPhase(r, "finish"))
      /\ UNCHANGED <<tokens, setup, sessions, failures, tickets, now, budget, history>>

FinishSetup(s) ==
  /\ At(s, "setup", "finish") /\ Leave(s)
  /\ cfgDone' = TRUE /\ setupToken' = 0
  /\ UNCHANGED <<stored, setupSessions, sessions, failures, tickets, now, budget, history>>

\* The process ends and starts again: InitSetup asks the data base whether
\* setup was completed, and makes up a new one-time password if it was not.
Restart ==
  /\ Spend("restart")
  /\ cfgDone' = dbDone /\ setupToken' = IF dbDone THEN 0 ELSE setupToken + 1
  /\ requests' = [s \in Slots |-> Idle] /\ tickets' = {}
  /\ failures' = [a \in Addresses |-> << >>]
  /\ history' = [history EXCEPT !.failed = [a \in Addresses |-> 0], !.presented = @ \cup tickets]
  /\ UNCHANGED <<stored, setupSessions, sessions, now>>

------------------------------------------------------------------------------
(* Sessions                                                                *)

\* A session ends after its own lifetime and never later than MaxAge after
\* the login it goes back to.  born, pw and second are history: when that
\* login really was, and the credentials that opened it.
GenerateSessionToken(name, ver, loggedInAt, born, pw, second) ==
  [name |-> name, ver |-> ver, login |-> loggedInAt,
   expires |-> IF loggedInAt + MaxAge < now + SessionTTL THEN loggedInAt + MaxAge ELSE now + SessionTTL,
   born |-> born, pw |-> pw, second |-> second]

ValidateToken(session) == now < session.expires /\ now < session.login + MaxAge

\* AuthMiddleware, once setup is complete.
Accepted(session) ==
  /\ cfgDone /\ ValidateToken(session)
  /\ session.name \in DOMAIN admins /\ admins[session.name].ver = session.ver

------------------------------------------------------------------------------
(* Login                                                                   *)

LockState(a) ==
  IF failures[a] = << >> \/ Head(failures[a]).count < MaxFailures THEN "open"
  ELSE IF now - Head(failures[a]).at < LockFor THEN "locked" ELSE "expired"

\* checkIPLockout, the part under the read lock.  A locked out address is
\* refused, which changes nothing.
BeginLogin(s, a, name, pw, second) ==
  /\ cfgDone /\ LockState(a) # "locked" /\ Spend("login")
  /\ Arrive(s, [kind |-> "login", phase |-> IF LockState(a) = "expired" THEN "forget" ELSE "check",
                addr |-> a, name |-> name, pw |-> pw, second |-> second, row |-> << >>])
  /\ UNCHANGED <<stored, setup, sessions, failures, tickets, now, history>>

\* checkIPLockout, the part under the write lock: whatever record is there.
ForgetExpired(s) ==
  /\ At(s, "login", "forget") /\ Advance(s, InPhase(requests[s], "check"))
  /\ failures' = [failures EXCEPT ![requests[s].addr] = << >>]
  /\ UNCHANGED <<stored, setup, sessions, tickets, now, budget, history>>

\* What the account row says to a password and a second factor.
Verdict(row, r) ==
  IF row.pw # r.pw THEN "fail"
  ELSE IF ~row.totp \/ row.secret = None THEN "pass"
  ELSE IF r.second = None THEN "ask"
  ELSE IF r.second = row.secret THEN "pass"
  ELSE IF r.second \in row.codes THEN "consume" ELSE "fail"

CheckCredentials(s) ==
  LET r == requests[s]
      known == r.name \in DOMAIN admins
      verdict == IF known THEN Verdict(admins[r.name], r) ELSE "fail"
  IN  /\ At(s, "login", "check")
      /\ IF verdict = "ask" THEN Leave(s)
         ELSE Advance(s, [r EXCEPT !.phase = verdict, !.row = IF known THEN <<admins[r.name]>> ELSE << >>])
      /\ UNCHANGED <<stored, setup, sessions, failures, tickets, now, budget, history>>

\* Mutant: the code is removed from whatever list is there by now.
MutantConsumeUnconditionally(row, current) == TRUE

\* The row still has the version and the code list that were read.
CodeStillThere(row, current) == row.ver = current.ver /\ row.codes = current.codes

tryRecoveryCode(s) ==
  LET r == requests[s]
      row == Head(r.row)
  IN  /\ At(s, "login", "consume")
      /\ IF CodeStillThere(row, admins[r.name])
         THEN /\ admins' = [admins EXCEPT ![r.name].codes = row.codes \ {r.second}]
              /\ history' = [history EXCEPT !.codes[r.second] = @ + 1]
              /\ Advance(s, InPhase(r, "pass"))
         ELSE Advance(s, InPhase(r, "fail")) /\ UNCHANGED <<admins, history>>
      /\ UNCHANGED <<tokens, dbDone, setup, sessions, failures, tickets, now, budget>>

recordLoginFailure(s) ==
  LET a == requests[s].addr
      count == IF failures[a] = << >> THEN 0 ELSE Head(failures[a]).count
  IN  /\ At(s, "login", "fail") /\ Leave(s)
      /\ failures' = [failures EXCEPT ![a] = <<[count |-> count + 1, at |-> now]>>]
      /\ history' = [history EXCEPT !.failed[a] = @ + 1]
      /\ UNCHANGED <<stored, setup, sessions, tickets, now, budget>>

clearLoginFailures(a) == [failures EXCEPT ![a] = << >>]

FinishLogin(s) ==
  LET r == requests[s]
      row == Head(r.row)
  IN  /\ At(s, "login", "pass") /\ Leave(s)
      /\ failures' = clearLoginFailures(r.addr)
      /\ history' = [history EXCEPT !.failed[r.addr] = 0]
      /\ sessions' = sessions \cup
           {GenerateSessionToken(r.name, row.ver, now, now, row.pw, Factor(row))}
      /\ UNCHANGED <<stored, setup, tickets, now, budget>>

\* Mutant: the sweep removes every record.
MutantSweepAll == [a \in Addresses |-> << >>]

Swept == [a \in Addresses |->
            IF failures[a] # << >> /\ now - Head(failures[a]).at >= LockFor THEN << >> ELSE failures[a]]

startLockoutCleanup ==
  /\ Swept # failures /\ failures' = Swept
  /\ UNCHANGED <<stored, setup, sessions, tickets, requests, now, budget, history>>

------------------------------------------------------------------------------
(* Changes an administrator makes to the account                           *)

Changes == {"password", "setup2fa", "verify2fa", "disable2fa", "logoutAll"}

\* The middleware lets the request in; given and new are its parameters.
BeginChange(s, session, op, given, new) ==
  /\ Accepted(session) /\ Spend("change")
  /\ Arrive(s, [kind |-> "change", phase |-> "read", op |-> op, name |-> session.name,
                given |-> given, new |-> new, row |-> << >>])
  /\ history' = [history EXCEPT !.drawn = IF op = "setup2fa" THEN @ \cup {new} ELSE @]
  /\ UNCHANGED <<stored, setup, sessions, failures, tickets, now>>

\* What the handler asks of the row before it writes.
Permits(row, r) ==
  CASE r.op \in {"password", "disable2fa"} -> r.given = row.pw
    [] r.op = "verify2fa" -> row.secret # None /\ r.given = row.secret
    [] r.op = "setup2fa"  -> ~row.totp
    [] OTHER               -> TRUE

ReadForChange(s) ==
  LET r == requests[s]
      row == admins[r.name]
  IN  /\ At(s, "change", "read")
      /\ IF Permits(row, r) THEN Advance(s, [r EXCEPT !.phase = "write", !.row = <<row>>]) ELSE Leave(s)
      /\ UNCHANGED <<stored, setup, sessions, failures, tickets, now, budget, history>>

\* Mutant: the version that was read is not compared.
MutantNotCompared(row, current, op) == TRUE

\* Another change has not come in between; the setup of a second factor does
\* not count as one, and is itself refused once the factor is on.
StillCurrent(row, current, op) ==
  row.ver = current.ver /\ (op = "setup2fa" => ~current.totp)

\* Mutant: enabling or disabling the second factor revokes nothing.
MutantFactorWithoutRevocation(row, r) ==
  CASE r.op = "password"    -> [row EXCEPT !.pw = r.new, !.ver = @ + 1]
    [] r.op = "setup2fa"   -> [row EXCEPT !.secret = r.new, !.codes = CodesOf[r.new]]
    [] r.op = "verify2fa"  -> [row EXCEPT !.totp = TRUE]
    [] r.op = "disable2fa" -> [row EXCEPT !.totp = FALSE, !.secret = None, !.codes = {}]
    [] r.op = "logoutAll"  -> [row EXCEPT !.ver = @ + 1]

\* What updateAdminSecurity makes of the row: every change but the setup of a
\* second factor raises the version and with it revokes the sessions.
Changed(row, r) ==
  CASE r.op = "password"    -> [row EXCEPT !.pw = r.new, !.ver = @ + 1]
    [] r.op = "setup2fa"   -> [row EXCEPT !.secret = r.new, !.codes = CodesOf[r.new]]
    [] r.op = "verify2fa"  -> [row EXCEPT !.totp = TRUE, !.ver = @ + 1]
    [] r.op = "disable2fa" -> [row EXCEPT !.totp = FALSE, !.secret = None, !.codes = {}, !.ver = @ + 1]
    [] r.op = "logoutAll"  -> [row EXCEPT !.ver = @ + 1]

updateAdminSecurity(s) ==
  LET r == requests[s]
      current == admins[r.name]
  IN  /\ At(s, "change", "write") /\ Leave(s)
      /\ IF StillCurrent(Head(r.row), current, r.op)
         THEN admins' = [admins EXCEPT ![r.name] = Changed(current, r)]
         ELSE UNCHANGED admins
      /\ UNCHANGED <<tokens, dbDone, setup, sessions, failures, tickets, now, budget, history>>

BeginRefresh(s, session) ==
  /\ Accepted(session) /\ Spend("change")
  /\ Arrive(s, [kind |-> "refresh", phase |-> "mint", session |-> session])
  /\ UNCHANGED <<stored, setup, sessions, failures, tickets, now, history>>

FinishRefresh(s) ==
  LET old == requests[s].session
  IN  /\ At(s, "refresh", "mint") /\ Leave(s)
      /\ sessions' = IF now >= old.login + MaxAge THEN sessions
                     ELSE sessions \cup {GenerateSessionToken(old.name, old.ver, old.login, old.born, old.pw, old.second)}
      /\ UNCHANGED <<stored, setup, failures, tickets, now, budget, history>>

------------------------------------------------------------------------------
(* API tokens                                                              *)

\* mintToken: the name is looked for and then inserted under a unique index.
BeginMint(s, t) ==
  /\ cfgDone /\ t \notin DOMAIN tokens /\ Spend("token")
  /\ Arrive(s, [kind |-> "mint", phase |-> "insert", token |-> t])
  /\ UNCHANGED <<stored, setup, sessions, failures, tickets, now, history>>

FinishMint(s) ==
  LET t == requests[s].token
  IN  /\ At(s, "mint", "insert") /\ Leave(s)
      /\ tokens' = IF t \in DOMAIN tokens THEN tokens
                   ELSE [x \in DOMAIN tokens \cup {t} |->
                           IF x = t THEN [revoked |-> FALSE, used |-> 0] ELSE tokens[x]]
      /\ UNCHANGED <<admins, dbDone, setup, sessions, failures, tickets, now, budget, history>>

\* AuthMiddleware lets a token in and notes when, at most once per TouchEvery.
BeginUse(s, t) ==
  /\ cfgDone /\ t \in DOMAIN tokens /\ ~tokens[t].revoked /\ Spend("token")
  /\ tokens[t].used = 0 \/ now - tokens[t].used >= TouchEvery
  /\ Arrive(s, [kind |-> "use", phase |-> "touch", token |-> t, row |-> tokens[t], at |-> now])
  /\ UNCHANGED <<stored, setup, sessions, failures, tickets, now, history>>

\* Mutant: all of the row that was read is written back.
MutantSaveRow(row, read, at) == [read EXCEPT !.used = at]

\* One column of the row as it is now, if nobody noted a use in between.
Touched(row, read, at) ==
  IF row.used = 0 \/ row.used <= at - TouchEvery THEN [row EXCEPT !.used = at] ELSE row

Touch(s) ==
  LET r == requests[s]
  IN  /\ At(s, "use", "touch") /\ Leave(s)
      /\ tokens' = [tokens EXCEPT ![r.token] = Touched(@, r.row, r.at)]
      /\ UNCHANGED <<admins, dbDone, setup, sessions, failures, tickets, now, budget, history>>

BeginRevoke(s, t) ==
  /\ cfgDone /\ t \in DOMAIN tokens /\ Spend("token")
  /\ Arrive(s, [kind |-> "revoke", phase |-> "save", token |-> t, row |-> tokens[t]])
  /\ UNCHANGED <<stored, setup, sessions, failures, tickets, now, history>>

\* Save writes every column, the last use that was read among them.
revokeAPIToken(s) ==
  LET r == requests[s]
  IN  /\ At(s, "revoke", "save") /\ Leave(s)
      /\ tokens' = [tokens EXCEPT ![r.token] = [r.row EXCEPT !.revoked = TRUE]]
      /\ UNCHANGED <<admins, dbDone, setup, sessions, failures, tickets, now, budget, history>>

------------------------------------------------------------------------------
(* Terminal tickets: both operations hold the store's lock throughout      *)

Live(pending) == {t \in pending : now <= t.expires}

\* Mutant: the newest ticket makes room.
MutantEvictNewest(pending) ==
  IF Cardinality(pending) < MaxTickets THEN {pending}
  ELSE {pending \ {t} : t \in {x \in pending : \A y \in pending : y.issued <= x.issued}}

\* The oldest ticket makes room, when there is none; of two of one age, either.
WithRoom(pending) ==
  IF Cardinality(pending) < MaxTickets THEN {pending}
  ELSE {pending \ {t} : t \in {x \in pending : \A y \in pending : x.issued <= y.issued}}

IssueTicket(a) ==
  LET ticket == [id |-> Cardinality(history.issued) + 1, addr |-> a, issued |-> now, expires |-> now + TicketTTL]
  IN  /\ cfgDone /\ Spend("ticket")
      /\ \E room \in WithRoom(Live(tickets)) : tickets' = room \cup {ticket}
      /\ history' = [history EXCEPT !.issued = @ \cup {ticket}, !.opened = Append(@, 0)]
      /\ UNCHANGED <<stored, setup, sessions, failures, requests, now>>

\* A ticket that is presented is gone, whether or not it opens a terminal.
ConsumeTicket(t, a) ==
  /\ tickets' = tickets \ {t}
  /\ history' = [history EXCEPT !.presented = @ \cup {t},
                                !.opened[t.id] = IF t \in tickets /\ now <= t.expires /\ t.addr = a THEN @ + 1 ELSE @]
  /\ UNCHANGED <<stored, setup, sessions, failures, requests, now, budget>>

------------------------------------------------------------------------------
Tick ==
  /\ now < MaxTime /\ now' = now + 1
  /\ UNCHANGED <<stored, setup, sessions, failures, tickets, requests, budget, history>>

\* What a request may present as a second factor.
Seconds == {None} \cup Secrets \cup RecoveryCodes

SetupNext ==
  \/ \E password \in 1..(setupToken + 1) : SetupLogin(password)
  \/ \E s \in Slots, name \in Names, pw \in Passwords : BeginSetup(s, name, pw)
  \/ \E s \in Slots : CommitSetup(s) \/ FinishSetup(s)

LoginNext ==
  \/ \E s \in Slots, a \in Addresses, name \in Names, pw \in Passwords, second \in Seconds :
       BeginLogin(s, a, name, pw, second)
  \/ \E s \in Slots : \/ ForgetExpired(s) \/ CheckCredentials(s) \/ tryRecoveryCode(s)
                      \/ recordLoginFailure(s) \/ FinishLogin(s)

ChangeNext ==
  \/ \E s \in Slots, session \in sessions, pw, new \in Passwords : BeginChange(s, session, "password", pw, new)
  \/ \E s \in Slots, session \in sessions, pw \in Passwords : BeginChange(s, session, "disable2fa", pw, None)
  \/ \E s \in Slots, session \in sessions, x \in Secrets : BeginChange(s, session, "verify2fa", x, None)
  \/ \E s \in Slots, session \in sessions, x \in Secrets \ history.drawn : BeginChange(s, session, "setup2fa", None, x)
  \/ \E s \in Slots, session \in sessions : BeginChange(s, session, "logoutAll", None, None)
  \/ \E s \in Slots : ReadForChange(s) \/ updateAdminSecurity(s)

RefreshNext ==
  \/ \E s \in Slots, session \in sessions : BeginRefresh(s, session)
  \/ \E s \in Slots : FinishRefresh(s)

TokenNext ==
  \/ \E s \in Slots, t \in TokenNames : BeginMint(s, t) \/ BeginUse(s, t) \/ BeginRevoke(s, t)
  \/ \E s \in Slots : FinishMint(s) \/ Touch(s) \/ revokeAPIToken(s)

TicketNext ==
  \/ \E a \in Addresses : IssueTicket(a)
  \/ \E t \in history.issued, a \in Addresses : ConsumeTicket(t, a)

Next == SetupNext \/ Restart \/ LoginNext \/ startLockoutCleanup \/ ChangeNext \/ RefreshNext
        \/ TokenNext \/ TicketNext \/ Tick

Spec == Init /\ [][Next]_vars

------------------------------------------------------------------------------
(* Properties                                                              *)

\* Every variable has its type; a second factor that is on has a secret.
TypeOK ==
  /\ DOMAIN admins \subseteq Names /\ \A n \in DOMAIN admins : admins[n] \in Row
  /\ \A n \in DOMAIN admins : admins[n].totp => admins[n].secret # None
  /\ DOMAIN tokens \subseteq TokenNames
  /\ \A t \in DOMAIN tokens : tokens[t] \in Token
  /\ dbDone \in BOOLEAN /\ cfgDone \in BOOLEAN /\ setupToken \in Nat /\ setupSessions \subseteq Nat
  /\ \A a \in Addresses : failures[a] = << >> \/ Head(failures[a]) \in [count : Nat \ {0}, at : 1..MaxTime]
  /\ Cardinality(tickets) <= MaxTickets
  /\ \A s \in Slots : requests[s].kind \in
       {"idle", "setup", "login", "change", "refresh", "mint", "use", "revoke"}
  /\ now \in 1..MaxTime

\* A session that is let in was opened with the password and the second factor
\* the account has now, less than MaxAge ago, however the login, refreshes and
\* the changes of the account interleaved (session versions: POST /login,
\* /auth/refresh, updateAdminSecurity; MaxSessionAge in jwtutil).
SessionsAreEntitled ==
  \A session \in sessions : Accepted(session) =>
    LET row == admins[session.name]
    IN  /\ session.pw = row.pw /\ session.second = Factor(row)
        /\ now < session.born + MaxAge

\* A recovery code passes one login, even when two present it at once
\* (tryRecoveryCode).
CodesWorkOnce == \A c \in DOMAIN history.codes : history.codes[c] <= 1

\* Only failures that happened count: an address is locked out after
\* MaxFailures failed logins from it and no successful one since
\* (recordLoginFailure, clearLoginFailures, checkIPLockout).
LocksAreEarned ==
  \A a \in Addresses : failures[a] # << >> => Head(failures[a]).count <= history.failed[a]

\* A ticket opens one terminal at most, and one that was neither presented
\* nor has run out is missing only if as many as the store holds were issued
\* no earlier (IssueTicket, ConsumeTicket).
TicketsHold ==
  \A t \in history.issued :
    /\ history.opened[t.id] <= 1
    /\ \/ t \in tickets \/ t \in history.presented \/ now > t.expires
       \/ Cardinality({x \in history.issued \ {t} : x.issued >= t.issued}) >= MaxTickets

\* A step changes the password or the second factor of an account only for a
\* request that had checked the credentials of this very version of it
\* (updateAdminSecurity: "A concurrent security operation must never overwrite
\* a newer session version").
ChangesFollowTheirCheck ==
  [][\A n \in DOMAIN admins :
       [admins[n] EXCEPT !.codes = {}] # [admins'[n] EXCEPT !.codes = {}] =>
         \E s \in Slots : /\ At(s, "change", "write") /\ requests[s].name = n
                          /\ requests'[s] = Idle
                          /\ LET r == requests[s]
                             IN  /\ Head(r.row).pw = admins[n].pw /\ Factor(Head(r.row)) = Factor(admins[n])
                                 /\ r.op \in {"password", "disable2fa"} => r.given = admins[n].pw]_vars

Departs(s) == requests'[s] # requests[s]

\* A lockout in force is lifted early only by a restart, by a login that
\* succeeds from the address, or by a check that had seen the previous one run
\* out; until then its count and its time only grow (loginFailures).
LocksLast ==
  [][\A a \in Addresses : LockState(a) = "locked" =>
       \/ /\ failures'[a] # << >>
          /\ Head(failures'[a]).count >= Head(failures[a]).count /\ Head(failures'[a]).at >= Head(failures[a]).at
       \/ requests' = [s \in Slots |-> Idle] /\ tickets' = {}
       \/ \E s \in Slots : /\ Departs(s) /\ requests[s].kind = "login" /\ requests[s].addr = a
                           /\ requests[s].phase \in {"pass", "forget"}]_vars

\* A lockout is there because of failures, and stays as long as it should.
LocksHold == []LocksAreEarned /\ LocksLast

\* Setup that was completed stays completed, restarts included, and its
\* one-time password never works again (/setup/complete, InitSetup).
SetupNeverReopens == [][cfgDone => cfgDone' /\ setupToken' = 0]_vars

\* A revoked token stays revoked, whatever the requests it made before and
\* other handlers still write (revokeAPIToken, AuthMiddleware).
RevocationSticks ==
  [][\A t \in DOMAIN tokens : tokens[t].revoked => tokens'[t].revoked]_vars
==============================================================================
