-------------------------- MODULE AdminAccessProofs --------------------------
(***************************************************************************)
(* Proofs about AdminAccess for any number of requests at a time, any      *)
(* accounts, passwords, secrets, tokens and addresses and any limits.      *)
(*                                                                         *)
(* The argument about sessions: whatever remembers an account (a session,  *)
(* a login that has read the row, a change about to write it, a refresh)   *)
(* remembers a version of it, and an account whose version has not moved   *)
(* still has the credentials of that version (Became).                     *)
(***************************************************************************)
EXTENDS AdminAccess, FiniteSetTheorems, SequenceTheorems, TLAPS

Failure == [count : Nat \ {0}, at : 1..MaxTime]
Session == [name : Names, ver : Nat, login : 1..MaxTime, expires : Nat, born : 1..MaxTime,
            pw : Passwords, second : Secrets \cup {None}]
Parameter == Passwords \cup Secrets \cup {None}

SetupRequest   == [kind : {"setup"}, phase : {"create", "finish"}, name : Names, pw : Passwords]
LoginRequest   == [kind : {"login"}, phase : {"forget", "check", "fail", "pass", "consume"}, addr : Addresses,
                   name : Names, pw : Passwords, second : Seconds, row : Seq(Row)]
ChangeRequest  == [kind : {"change"}, phase : {"read", "write"}, op : Changes, name : Names,
                   given : Parameter, new : Parameter, row : Seq(Row)]
RefreshRequest == [kind : {"refresh"}, phase : {"mint"}, session : Session]
MintRequest    == [kind : {"mint"}, phase : {"insert"}, token : TokenNames]
UseRequest     == [kind : {"use"}, phase : {"touch"}, token : TokenNames, row : Token, at : 1..MaxTime]
RevokeRequest  == [kind : {"revoke"}, phase : {"save"}, token : TokenNames, row : Token]
Request == {Idle} \cup SetupRequest \cup LoginRequest \cup ChangeRequest \cup RefreshRequest
           \cup MintRequest \cup UseRequest \cup RevokeRequest

\* What may have become of an account row.
Became(old, new) ==
  /\ old.ver <= new.ver
  /\ old.ver = new.ver => /\ old.pw = new.pw /\ Factor(old) = Factor(new)
                          /\ old.secret # None => new.secret # None

\* A row of account n that some request read before.
WasRow(n, row) == n \in DOMAIN admins /\ row \in Row /\ Became(row, admins[n])

\* A session knows the credentials of the version it carries.
Holds(session) ==
  /\ session.name \in DOMAIN admins /\ session.login = session.born
  /\ session.ver <= admins[session.name].ver
  /\ session.ver = admins[session.name].ver =>
       session.pw = admins[session.name].pw /\ session.second = Factor(admins[session.name])

\* What a request has read, and what it was given.
Sound(r) ==
  /\ r \in Request
  /\ r.kind = "setup" /\ r.phase = "finish" => dbDone
  /\ r.kind = "login" /\ r.phase \in {"pass", "consume"} => r.row # << >> /\ WasRow(r.name, Head(r.row))
  /\ r.kind = "change" => /\ r.name \in DOMAIN admins
                          /\ r.op = "password" => r.new \in Passwords
                          /\ r.op = "setup2fa" => r.new \in Secrets
  /\ r.kind = "change" /\ r.phase = "write" =>
       r.row # << >> /\ WasRow(r.name, Head(r.row)) /\ Permits(Head(r.row), r)
  /\ r.kind = "refresh" => Holds(r.session)
  /\ r.kind \in {"use", "revoke"} => r.token \in DOMAIN tokens

AccountsOK ==
  /\ DOMAIN admins \subseteq Names /\ admins \in [DOMAIN admins -> Row]
  /\ \A n \in DOMAIN admins : admins[n].totp => admins[n].secret # None
TokensOK == DOMAIN tokens \subseteq TokenNames /\ tokens \in [DOMAIN tokens -> Token]
SetupOK ==
  /\ dbDone \in BOOLEAN /\ cfgDone \in BOOLEAN /\ setupToken \in Nat /\ setupSessions \subseteq Nat
  /\ cfgDone => dbDone /\ setupToken = 0
SessionsOK == sessions \subseteq Session /\ \A session \in sessions : Holds(session)
FailuresOK ==
  /\ failures \in [Addresses -> Seq(Failure)]
  /\ DOMAIN history = {"opened", "issued", "presented", "codes", "failed", "drawn"}
  /\ history.failed \in [Addresses -> Nat]
  /\ \A a \in Addresses : failures[a] # << >> =>
       Head(failures[a]).count <= history.failed[a] /\ Head(failures[a]).at <= now
TicketsOK == IsFiniteSet(tickets) /\ Cardinality(tickets) <= MaxTickets
ClockOK == now \in 1..MaxTime
RequestsOK ==
  requests \in [Slots -> Request] /\ \A s \in Slots : \A r \in Request : requests[s] = r => Sound(r)

\* The inductive invariant.
AccessInv == AccountsOK /\ TokensOK /\ SetupOK /\ SessionsOK /\ FailuresOK /\ TicketsOK /\ ClockOK /\ RequestsOK

-----------------------------------------------------------------------------
(* The initial states                                                      *)

\* The states the panel may start in.
LEMMA AccessInit == Init => AccessInv
<1> SUFFICES ASSUME Init PROVE AccessInv
    OBVIOUS
<1> PICK start \in Starts :
        /\ admins = start.admins /\ tokens = start.tokens /\ dbDone = start.done /\ cfgDone = start.done
        /\ setupToken = IF start.done THEN 0 ELSE 1
    BY DEF Init
<1>1. AccountsOK /\ TokensOK
    BY StartAssumption DEF AccountsOK, TokensOK
<1>2. SetupOK /\ ClockOK
    <2>1. start.done \in BOOLEAN /\ setupSessions = {} /\ now = 1
        BY StartAssumption DEF Init
    <2> QED BY <2>1, LimitAssumption DEF SetupOK, ClockOK
<1>3. SessionsOK
    BY DEF Init, SessionsOK
<1>4. FailuresOK
    <2>1. failures \in [Addresses -> Seq(Failure)]
        BY EmptySeq DEF Init
    <2> QED BY <2>1 DEF Init, FailuresOK
<1>5. TicketsOK
    <2>1. tickets = {} /\ IsFiniteSet({}) /\ Cardinality({}) = 0
        BY FS_EmptySet DEF Init
    <2> QED BY <2>1, LimitAssumption DEF TicketsOK
<1>6. RequestsOK
    <2>1. Idle \in Request /\ Idle.kind = "idle"
        BY DEF Request, Idle
    <2>2. Sound(Idle)
        BY <2>1 DEF Sound
    <2>3. requests = [s \in Slots |-> Idle]
        BY DEF Init
    <2> QED BY <2>1, <2>2, <2>3 DEF RequestsOK
<1> QED BY <1>1, <1>2, <1>3, <1>4, <1>5, <1>6 DEF AccessInv

-----------------------------------------------------------------------------
(* Who writes what                                                         *)

\* Three steps write accounts.
LEMMA AccountWriters ==
  Next => admins' = admins \/ \E s \in Slots : CommitSetup(s) \/ tryRecoveryCode(s) \/ updateAdminSecurity(s)
<1>1. SetupNext => admins' = admins \/ \E s \in Slots : CommitSetup(s)
    BY DEF SetupNext, SetupLogin, BeginSetup, FinishSetup, stored
<1>2. LoginNext => admins' = admins \/ \E s \in Slots : tryRecoveryCode(s)
    BY DEF LoginNext, BeginLogin, ForgetExpired, CheckCredentials, recordLoginFailure, FinishLogin, stored
<1>3. ChangeNext => admins' = admins \/ \E s \in Slots : updateAdminSecurity(s)
    BY DEF ChangeNext, BeginChange, ReadForChange, stored
<1>4. RefreshNext \/ TokenNext \/ TicketNext => admins' = admins
    BY DEF RefreshNext, TokenNext, TicketNext, BeginRefresh, FinishRefresh, BeginMint, BeginUse, BeginRevoke,
           FinishMint, Touch, revokeAPIToken, IssueTicket, ConsumeTicket, stored
<1>5. Restart \/ startLockoutCleanup \/ Tick => admins' = admins
    BY DEF Restart, startLockoutCleanup, Tick, stored
<1> QED BY <1>1, <1>2, <1>3, <1>4, <1>5 DEF Next

\* Three steps write API tokens.
LEMMA TokenWriters ==
  Next => tokens' = tokens \/ \E s \in Slots : FinishMint(s) \/ Touch(s) \/ revokeAPIToken(s)
<1>1. SetupNext \/ LoginNext => tokens' = tokens
    BY DEF SetupNext, SetupLogin, BeginSetup, CommitSetup, FinishSetup, LoginNext, BeginLogin, ForgetExpired,
           CheckCredentials, tryRecoveryCode, recordLoginFailure, FinishLogin, stored
<1>2. ChangeNext \/ RefreshNext \/ TicketNext => tokens' = tokens
    BY DEF ChangeNext, BeginChange, ReadForChange, updateAdminSecurity, RefreshNext, BeginRefresh, FinishRefresh,
           TicketNext, IssueTicket, ConsumeTicket, stored
<1>3. TokenNext => tokens' = tokens \/ \E s \in Slots : FinishMint(s) \/ Touch(s) \/ revokeAPIToken(s)
    BY DEF TokenNext, BeginMint, BeginUse, BeginRevoke, stored
<1>4. Restart \/ startLockoutCleanup \/ Tick => tokens' = tokens
    BY DEF Restart, startLockoutCleanup, Tick, stored
<1> QED BY <1>1, <1>2, <1>3, <1>4 DEF Next

-----------------------------------------------------------------------------
(* Requests                                                                *)

\* The kind of a request tells its fields.
LEMMA RequestKinds ==
  ASSUME NEW r \in Request
  PROVE  /\ r.kind = "setup" => r \in SetupRequest
         /\ r.kind = "login" => r \in LoginRequest
         /\ r.kind = "change" => r \in ChangeRequest
         /\ r.kind = "refresh" => r \in RefreshRequest
         /\ r.kind = "mint" => r \in MintRequest
         /\ r.kind = "use" => r \in UseRequest
         /\ r.kind = "revoke" => r \in RevokeRequest
BY DEF Request, Idle, SetupRequest, LoginRequest, ChangeRequest, RefreshRequest, MintRequest, UseRequest, RevokeRequest

-----------------------------------------------------------------------------
(* Accounts                                                                *)

\* A row of a later version says nothing of an earlier one; a row with the
\* same version and credentials has become of itself.
LEMMA NewVersion ==
  ASSUME NEW old, NEW new, old.ver \in Nat, new.ver = old.ver + 1
  PROVE  Became(old, new)
BY DEF Became

\* A row with the version and the credentials of another has become of it.
LEMMA SameVersion ==
  ASSUME NEW old, NEW new, old.ver \in Nat, new.ver = old.ver, new.pw = old.pw, Factor(old) = Factor(new),
         old.secret # None => new.secret # None
  PROVE  Became(old, new)
BY DEF Became

\* Raising the version changes nothing else.
LEMMA VersionUp ==
  ASSUME NEW row \in Row, NEW a \in Row, NEW new, new = [a EXCEPT !.ver = row.ver + 1]
  PROVE  /\ new \in Row /\ Became(row, new)
         /\ (new.totp <=> a.totp) /\ new.secret = a.secret
<1>1. row.ver \in Nat /\ row.ver + 1 \in Nat
    BY DEF Row
<1>2. new \in Row
    BY <1>1 DEF Row
<1>3. new.ver = row.ver + 1
    BY <1>1 DEF Row
<1>4. (new.totp <=> a.totp) /\ new.secret = a.secret
    BY <1>1 DEF Row
<1> QED BY <1>1, <1>2, <1>3, <1>4, NewVersion

\* What a change makes of an account.
LEMMA ChangedRow ==
  ASSUME NEW row \in Row, NEW r \in ChangeRequest,
         r.op = "password" => r.new \in Passwords, r.op = "setup2fa" => r.new \in Secrets,
         r.op = "setup2fa" => ~row.totp, r.op = "verify2fa" => row.secret # None,
         row.totp => row.secret # None
  PROVE  /\ Changed(row, r) \in Row /\ Became(row, Changed(row, r))
         /\ Changed(row, r).totp => Changed(row, r).secret # None
<1>0. r.op \in Changes
    BY DEF ChangeRequest
<1>6. row.ver \in Nat
    BY DEF Row
<1>1. CASE r.op = "password"
    <2> DEFINE a == [row EXCEPT !.pw = r.new]
    <2>1. a \in Row /\ a.totp = row.totp /\ a.secret = row.secret
        BY <1>1 DEF Row
    <2>2. Changed(row, r) = [a EXCEPT !.ver = row.ver + 1]
        BY <1>1 DEF Changed
    <2> HIDE DEF a
    <2> QED BY <2>1, <2>2, VersionUp
<1>2. CASE r.op = "setup2fa"
    <2> DEFINE a == [row EXCEPT !.secret = r.new]
    <2>1. a \in Row /\ a.totp = row.totp /\ a.ver = row.ver /\ a.pw = row.pw /\ a.secret = r.new
        BY <1>2 DEF Row
    <2>2. Changed(row, r) = [a EXCEPT !.codes = CodesOf[r.new]]
        BY <1>2 DEF Changed
    <2>3. CodesOf[r.new] \subseteq RecoveryCodes
        BY <1>2 DEF RecoveryCodes
    <2> HIDE DEF a
    <2>4. Changed(row, r) \in Row /\ Changed(row, r).totp = row.totp /\ Changed(row, r).ver = row.ver
          /\ Changed(row, r).pw = row.pw /\ Changed(row, r).secret = r.new
        BY <2>1, <2>2, <2>3 DEF Row
    <2>5. r.new # None
        BY <1>2, SecretAssumption
    <2>6. ~row.totp /\ ~Changed(row, r).totp
        BY <1>2, <2>4
    <2>7. Factor(row) = Factor(Changed(row, r))
        BY <2>6 DEF Factor
    <2> QED BY <1>6, <2>4, <2>5, <2>6, <2>7, SameVersion
<1>3. CASE r.op = "verify2fa"
    <2> DEFINE a == [row EXCEPT !.totp = TRUE]
               new == Changed(row, r)
    <2>1. a \in Row
        BY DEF Row
    <2>2. a.secret = row.secret
        BY DEF Row
    <2>3. new = [a EXCEPT !.ver = row.ver + 1]
        BY <1>3 DEF Changed
    <2> HIDE DEF a, new
    <2>4. new \in Row /\ Became(row, new) /\ new.secret = a.secret
        BY <2>1, <2>3, VersionUp
    <2> QED BY <1>3, <2>2, <2>4 DEF new
<1>4. CASE r.op = "disable2fa"
    <2> DEFINE a == [row EXCEPT !.totp = FALSE]
               b == [a EXCEPT !.secret = None]
               c == [b EXCEPT !.codes = {}]
    <2>1. a \in Row /\ a.totp = FALSE
        BY DEF Row
    <2>2. Changed(row, r) = [c EXCEPT !.ver = row.ver + 1]
        BY <1>4 DEF Changed
    <2> HIDE DEF a
    <2>3. b \in Row /\ b.totp = FALSE
        BY <2>1 DEF Row
    <2> HIDE DEF b
    <2>4. c \in Row /\ c.totp = FALSE
        BY <2>3 DEF Row
    <2> HIDE DEF c
    <2> QED BY <2>4, <2>2, VersionUp
<1>5. CASE r.op = "logoutAll"
    <2>1. Changed(row, r) = [row EXCEPT !.ver = row.ver + 1]
        BY <1>5 DEF Changed
    <2> QED BY <2>1, VersionUp
<1> QED BY <1>0, <1>1, <1>2, <1>3, <1>4, <1>5 DEF Changes
\* Writing one account that is there keeps the table, and the others as they were.
LEMMA OneAccount ==
  ASSUME AccountsOK, NEW n \in DOMAIN admins, NEW row \in Row, admins' = [admins EXCEPT ![n] = row],
         row.totp => row.secret # None, Became(admins[n], row)
  PROVE  /\ AccountsOK' /\ DOMAIN admins' = DOMAIN admins
         /\ \A m \in DOMAIN admins : Became(admins[m], admins'[m])
<1>1. DOMAIN admins' = DOMAIN admins /\ admins'[n] = row /\ \A m \in DOMAIN admins : m # n => admins'[m] = admins[m]
    BY DEF AccountsOK
<1>2. admins' \in [DOMAIN admins' -> Row]
    BY <1>1 DEF AccountsOK
<1>3. \A m \in DOMAIN admins : admins[m].ver \in Nat
    BY DEF AccountsOK, Row
<1>4. \A m \in DOMAIN admins : Became(admins[m], admins'[m])
    BY <1>1, <1>3 DEF Became
<1> QED BY <1>1, <1>2, <1>4 DEF AccountsOK

\* What a request in a slot is.
LEMMA SoundRequest ==
  ASSUME RequestsOK, NEW s \in Slots
  PROVE  requests[s] \in Request /\ Sound(requests[s])
BY DEF RequestsOK

\* A row has become of itself.
LEMMA BecameSelf ==
  ASSUME NEW row \in Row
  PROVE  Became(row, row)
BY DEF Row, Became

\* What has become of what has become of a row has become of it.
LEMMA BecameAgain ==
  ASSUME NEW a \in Row, NEW b \in Row, NEW c \in Row, Became(a, b), Became(b, c)
  PROVE  Became(a, c)
<1>1. a.ver \in Nat /\ b.ver \in Nat /\ c.ver \in Nat
    BY DEF Row
<1> QED BY <1>1 DEF Became

\* Accounts are added and changed, never removed, and change as Became says.
AccountsGrow == \A n \in DOMAIN admins : n \in DOMAIN admins' /\ Became(admins[n], admins'[n])

\* The account that setup creates is new (/setup/complete).
LEMMA CommitSetupAccounts ==
  ASSUME AccessInv, NEW s \in Slots, CommitSetup(s)
  PROVE  AccountsOK' /\ AccountsGrow
<1> DEFINE r == requests[s]
<1>1. AccountsOK
    BY DEF AccessInv
<1>2. r.name \in Names /\ r.pw \in Passwords
    <2>1. r \in Request /\ r.kind = "setup"
        BY SoundRequest DEF AccessInv, CommitSetup, At
    <2>2. r \in SetupRequest
        BY <2>1, RequestKinds
    <2> QED BY <2>2 DEF SetupRequest
<1>3. \A n \in DOMAIN admins : admins[n] \in Row /\ Became(admins[n], admins[n])
    BY <1>1, BecameSelf DEF AccountsOK
<1>4. CASE r.name \in DOMAIN admins
    <2>1. admins' = admins
        BY <1>4 DEF CommitSetup
    <2> QED BY <1>1, <1>3, <2>1 DEF AccountsOK, AccountsGrow
<1>5. CASE r.name \notin DOMAIN admins
    <2>1. admins' = [n \in DOMAIN admins \cup {r.name} |-> IF n = r.name THEN NewAdmin(r.pw) ELSE admins[n]]
        BY <1>5 DEF CommitSetup
    <2>2. NewAdmin(r.pw) \in Row /\ NewAdmin(r.pw).totp = FALSE
        BY <1>2 DEF NewAdmin, Row
    <2>3. DOMAIN admins' = DOMAIN admins \cup {r.name}
        BY <2>1
    <2>4. \A n \in DOMAIN admins : admins'[n] = admins[n]
        BY <1>5, <2>1
    <2>5. admins'[r.name] = NewAdmin(r.pw)
        BY <2>1
    <2>6. \A n \in DOMAIN admins' : admins'[n] \in Row /\ (admins'[n].totp => admins'[n].secret # None)
        BY <1>1, <1>3, <2>2, <2>3, <2>4, <2>5 DEF AccountsOK
    <2>7. admins' \in [DOMAIN admins' -> Row]
        BY <2>1, <2>3, <2>6
    <2>8. AccountsOK'
        BY <1>1, <1>2, <2>3, <2>6, <2>7 DEF AccountsOK
    <2> QED BY <1>3, <2>3, <2>4, <2>8 DEF AccountsGrow
<1> QED BY <1>4, <1>5

\* A recovery code that is used up leaves the credentials (tryRecoveryCode).
LEMMA RecoveryCodeAccounts ==
  ASSUME AccessInv, NEW s \in Slots, tryRecoveryCode(s)
  PROVE  AccountsOK' /\ AccountsGrow
<1> DEFINE r == requests[s]
           n == r.name
           codes == Head(r.row).codes \ {r.second}
           row == [admins[n] EXCEPT !.codes = codes]
<1>1. AccountsOK
    BY DEF AccessInv
<1>2. WasRow(n, Head(r.row))
    BY SoundRequest DEF AccessInv, tryRecoveryCode, At, Sound
<1>3. n \in DOMAIN admins /\ admins[n] \in Row /\ codes \subseteq RecoveryCodes
    BY <1>1, <1>2 DEF AccountsOK, WasRow, Row
<1>4. \A m \in DOMAIN admins : admins[m] \in Row /\ Became(admins[m], admins[m])
    BY <1>1, BecameSelf DEF AccountsOK
<1>5. admins' = admins \/ admins' = [admins EXCEPT ![n] = row]
    BY DEF tryRecoveryCode
<1>6. CASE admins' = admins
    BY <1>1, <1>4, <1>6 DEF AccountsOK, AccountsGrow
<1>7. CASE admins' = [admins EXCEPT ![n] = row]
    <2>1. row \in Row
        BY <1>3 DEF Row
    <2>2. /\ row.ver = admins[n].ver /\ row.pw = admins[n].pw /\ (row.totp <=> admins[n].totp)
          /\ row.secret = admins[n].secret /\ admins[n].ver \in Nat
        BY <1>3 DEF Row
    <2> HIDE DEF row
    <2>3. Factor(admins[n]) = Factor(row)
        BY <2>2 DEF Factor
    <2>4. Became(admins[n], row)
        BY <2>2, <2>3, SameVersion
    <2>5. row.totp => row.secret # None
        BY <1>1, <1>3, <2>2 DEF AccountsOK
    <2> QED BY <1>1, <1>3, <1>7, <2>1, <2>4, <2>5, OneAccount DEF AccountsGrow
<1> QED BY <1>5, <1>6, <1>7

\* A change that is written was permitted on a row of this version
\* (updateAdminSecurity).
LEMMA ChangeAccounts ==
  ASSUME AccessInv, NEW s \in Slots, updateAdminSecurity(s)
  PROVE  AccountsOK' /\ AccountsGrow
<1> DEFINE r == requests[s]
           n == r.name
           old == Head(r.row)
<1>1. AccountsOK
    BY DEF AccessInv
<1>2. r \in ChangeRequest
    <2>1. r \in Request /\ r.kind = "change"
        BY SoundRequest DEF AccessInv, updateAdminSecurity, At
    <2> QED BY <2>1, RequestKinds
<1>3. /\ WasRow(n, old) /\ Permits(old, r)
      /\ r.op = "password" => r.new \in Passwords
      /\ r.op = "setup2fa" => r.new \in Secrets
    BY SoundRequest DEF AccessInv, updateAdminSecurity, At, Sound
<1>4. n \in DOMAIN admins /\ admins[n] \in Row /\ (admins[n].totp => admins[n].secret # None)
    BY <1>1, <1>3 DEF AccountsOK, WasRow
<1>5. \A m \in DOMAIN admins : admins[m] \in Row /\ Became(admins[m], admins[m])
    BY <1>1, BecameSelf DEF AccountsOK
<1>6. CASE ~StillCurrent(old, admins[n], r.op)
    <2>1. admins' = admins
        BY <1>6 DEF updateAdminSecurity
    <2> QED BY <1>1, <1>5, <2>1 DEF AccountsOK, AccountsGrow
<1>7. CASE StillCurrent(old, admins[n], r.op)
    <2>1. admins' = [admins EXCEPT ![n] = Changed(admins[n], r)]
        BY <1>7 DEF updateAdminSecurity
    <2>2. r.op = "setup2fa" => ~admins[n].totp
        BY <1>7 DEF StillCurrent
    <2>3. r.op = "verify2fa" => admins[n].secret # None
        <3>1. r.op = "verify2fa" => old.secret # None
            BY <1>3 DEF Permits
        <3>2. old.ver = admins[n].ver
            BY <1>7 DEF StillCurrent
        <3>3. old.secret # None => admins[n].secret # None
            BY <1>3, <3>2 DEF WasRow, Became
        <3> QED BY <3>1, <3>3
    <2>4. /\ Changed(admins[n], r) \in Row /\ Became(admins[n], Changed(admins[n], r))
          /\ Changed(admins[n], r).totp => Changed(admins[n], r).secret # None
        BY <1>2, <1>3, <1>4, <2>2, <2>3, ChangedRow
    <2> QED BY <1>1, <1>4, <2>1, <2>4, OneAccount DEF AccountsGrow
<1> QED BY <1>6, <1>7

\* Every step keeps the accounts and advances them as Became says.
LEMMA AccountsAdvance ==
  ASSUME AccessInv, Next
  PROVE  AccountsOK' /\ AccountsGrow
<1>1. CASE admins' = admins
    <2>1. AccountsOK /\ \A n \in DOMAIN admins : admins[n] \in Row
        BY DEF AccessInv, AccountsOK
    <2> QED BY <1>1, <2>1, BecameSelf DEF AccountsOK, AccountsGrow
<1>2. CASE \E s \in Slots : CommitSetup(s) \/ tryRecoveryCode(s) \/ updateAdminSecurity(s)
    BY <1>2, CommitSetupAccounts, RecoveryCodeAccounts, ChangeAccounts
<1> QED BY <1>1, <1>2, AccountWriters

-----------------------------------------------------------------------------
(* API tokens and setup                                                    *)

\* Tokens are added and changed, never removed, and stay revoked.
TokensGrow == \A t \in DOMAIN tokens : t \in DOMAIN tokens' /\ (tokens[t].revoked => tokens'[t].revoked)

\* Writing one token that is there keeps the table.
LEMMA OneToken ==
  ASSUME TokensOK, NEW t \in DOMAIN tokens, NEW row \in Token, tokens' = [tokens EXCEPT ![t] = row],
         tokens[t].revoked => row.revoked
  PROVE  TokensOK' /\ TokensGrow
<1>1. DOMAIN tokens' = DOMAIN tokens /\ tokens'[t] = row /\ \A u \in DOMAIN tokens : u # t => tokens'[u] = tokens[u]
    BY DEF TokensOK
<1>2. tokens' \in [DOMAIN tokens' -> Token]
    BY <1>1 DEF TokensOK
<1>3. TokensGrow
    BY <1>1 DEF TokensGrow
<1> QED BY <1>1, <1>2, <1>3 DEF TokensOK

\* Every step keeps the tokens, and those that are revoked revoked.
LEMMA TokensAdvance ==
  ASSUME AccessInv, Next
  PROVE  TokensOK' /\ TokensGrow
<1>1. TokensOK
    BY DEF AccessInv
<1>2. CASE tokens' = tokens
    BY <1>1, <1>2 DEF TokensOK, TokensGrow
<1>3. ASSUME NEW s \in Slots, FinishMint(s)
      PROVE  TokensOK' /\ TokensGrow
    <2> DEFINE t == requests[s].token
               new == [revoked |-> FALSE, used |-> 0]
    <2>1. requests[s] \in MintRequest
        BY <1>3, SoundRequest, RequestKinds DEF AccessInv, FinishMint, At
    <2>2. t \in TokenNames
        BY <2>1 DEF MintRequest
    <2>3. CASE t \in DOMAIN tokens
        <3>1. tokens' = tokens
            BY <1>3, <2>3 DEF FinishMint
        <3> QED BY <1>2, <3>1
    <2>4. CASE t \notin DOMAIN tokens
        <3>1. tokens' = [x \in DOMAIN tokens \cup {t} |-> IF x = t THEN new ELSE tokens[x]]
            BY <1>3, <2>4 DEF FinishMint
        <3>2. new \in Token
            BY LimitAssumption DEF Token
        <3>3. DOMAIN tokens' = DOMAIN tokens \cup {t} /\ tokens'[t] = new
            BY <3>1
        <3>4. \A x \in DOMAIN tokens : tokens'[x] = tokens[x]
            BY <2>4, <3>1
        <3>5. \A x \in DOMAIN tokens' : tokens'[x] \in Token
            BY <1>1, <3>2, <3>3, <3>4 DEF TokensOK
        <3>6. tokens' \in [DOMAIN tokens' -> Token]
            BY <3>1, <3>3, <3>5
        <3>7. TokensOK'
            BY <1>1, <2>2, <3>3, <3>6 DEF TokensOK
        <3> QED BY <3>3, <3>4, <3>7 DEF TokensGrow
    <2> QED BY <2>3, <2>4
<1>4. ASSUME NEW s \in Slots, Touch(s)
      PROVE  TokensOK' /\ TokensGrow
    <2> DEFINE r == requests[s]
               row == Touched(tokens[r.token], r.row, r.at)
    <2>1. r \in UseRequest /\ r.token \in DOMAIN tokens
        BY <1>4, SoundRequest, RequestKinds DEF AccessInv, Touch, At, Sound
    <2>2. tokens[r.token] \in Token /\ r.at \in 0..MaxTime
        BY <1>1, <2>1, LimitAssumption DEF TokensOK, UseRequest
    <2>3. row \in Token /\ (tokens[r.token].revoked => row.revoked)
        BY <2>2 DEF Touched, Token
    <2>4. tokens' = [tokens EXCEPT ![r.token] = row]
        BY <1>4 DEF Touch
    <2> HIDE DEF row
    <2> QED BY <1>1, <2>1, <2>3, <2>4, OneToken
<1>5. ASSUME NEW s \in Slots, revokeAPIToken(s)
      PROVE  TokensOK' /\ TokensGrow
    <2> DEFINE r == requests[s]
               row == [r.row EXCEPT !.revoked = TRUE]
    <2>1. r \in RevokeRequest /\ r.token \in DOMAIN tokens
        BY <1>5, SoundRequest, RequestKinds DEF AccessInv, revokeAPIToken, At, Sound
    <2>2. r.row \in Token
        BY <2>1 DEF RevokeRequest
    <2>3. row \in Token /\ row.revoked
        BY <2>2 DEF Token
    <2>4. tokens' = [tokens EXCEPT ![r.token] = row]
        BY <1>5 DEF revokeAPIToken
    <2> HIDE DEF row
    <2> QED BY <1>1, <2>1, <2>3, <2>4, OneToken
<1> QED BY <1>2, <1>3, <1>4, <1>5, TokenWriters

SetupUnchanged == dbDone' = dbDone /\ UNCHANGED setup

\* Four steps write the state of the setup.
LEMMA SetupWriters ==
  Next => SetupUnchanged \/ Restart
          \/ (\E password \in 1..(setupToken + 1) : SetupLogin(password))
          \/ \E s \in Slots : CommitSetup(s) \/ FinishSetup(s)
<1>1. SetupNext => SetupUnchanged \/ (\E password \in 1..(setupToken + 1) : SetupLogin(password))
                   \/ \E s \in Slots : CommitSetup(s) \/ FinishSetup(s)
    BY DEF SetupUnchanged, SetupNext, BeginSetup, stored
<1>2. LoginNext \/ ChangeNext => SetupUnchanged
    BY DEF SetupUnchanged, LoginNext, BeginLogin, ForgetExpired, CheckCredentials, tryRecoveryCode, recordLoginFailure, FinishLogin,
           ChangeNext, BeginChange, ReadForChange, updateAdminSecurity, stored
<1>3. RefreshNext \/ TokenNext \/ TicketNext => SetupUnchanged
    BY DEF SetupUnchanged, RefreshNext, TokenNext, TicketNext, BeginRefresh, FinishRefresh, BeginMint, BeginUse, BeginRevoke,
           FinishMint, Touch, revokeAPIToken, IssueTicket, ConsumeTicket, stored
<1>4. startLockoutCleanup \/ Tick => SetupUnchanged
    BY DEF SetupUnchanged, startLockoutCleanup, Tick, stored
<1> QED BY <1>1, <1>2, <1>3, <1>4 DEF Next

\* Every step keeps the state of the setup, and what is done done.
LEMMA SetupAdvance ==
  ASSUME AccessInv, Next
  PROVE  SetupOK' /\ (dbDone => dbDone') /\ (cfgDone => cfgDone')
<1>1. SetupOK /\ now \in Nat
    BY DEF AccessInv, ClockOK
<1>2. CASE SetupUnchanged
    BY <1>1, <1>2 DEF SetupOK, SetupUnchanged, setup
<1>3. CASE Restart
    BY <1>1, <1>3 DEF SetupOK, Restart, stored
<1>4. ASSUME NEW password, SetupLogin(password)
      PROVE  SetupOK' /\ (dbDone => dbDone') /\ (cfgDone => cfgDone')
    <2>1. now + SetupTTL \in Nat
        BY <1>1, LimitAssumption
    <2> QED BY <1>1, <1>4, <2>1 DEF SetupOK, SetupLogin, stored
<1>5. ASSUME NEW s \in Slots, CommitSetup(s)
      PROVE  SetupOK' /\ (dbDone => dbDone') /\ (cfgDone => cfgDone')
    BY <1>1, <1>5 DEF SetupOK, CommitSetup, setup
<1>6. ASSUME NEW s \in Slots, FinishSetup(s)
      PROVE  SetupOK' /\ (dbDone => dbDone') /\ (cfgDone => cfgDone')
    <2>1. dbDone
        BY <1>6, SoundRequest DEF AccessInv, FinishSetup, At, Sound
    <2> QED BY <1>1, <1>6, <2>1 DEF SetupOK, FinishSetup, stored
<1> QED BY <1>2, <1>3, <1>4, <1>5, <1>6, SetupWriters

-----------------------------------------------------------------------------
(* Sessions                                                                *)

\* What a session knows stays true while accounts grow.
LEMMA HoldsOn ==
  ASSUME AccountsOK, AccountsOK', AccountsGrow, NEW session \in Session, Holds(session)
  PROVE  Holds(session)'
<1> DEFINE n == session.name
<1>1. n \in DOMAIN admins /\ n \in DOMAIN admins' /\ Became(admins[n], admins'[n])
    BY DEF Holds, AccountsGrow
<1>2. session.ver \in Nat
    BY DEF Session
<1>3. admins[n].ver \in Nat /\ admins'[n].ver \in Nat
    BY <1>1 DEF AccountsOK, Row
<1>4. session.ver <= admins[n].ver /\ admins[n].ver <= admins'[n].ver
    BY <1>1 DEF Holds, Became
<1>5. session.ver <= admins'[n].ver
    BY <1>2, <1>3, <1>4
<1>6. ASSUME session.ver = admins'[n].ver
      PROVE  session.pw = admins'[n].pw /\ session.second = Factor(admins'[n])
    <2>1. session.ver = admins[n].ver /\ admins[n].ver = admins'[n].ver
        BY <1>2, <1>3, <1>4, <1>6
    <2>2. session.pw = admins[n].pw /\ session.second = Factor(admins[n])
        BY <2>1 DEF Holds
    <2>3. admins[n].pw = admins'[n].pw /\ Factor(admins[n]) = Factor(admins'[n])
        BY <1>1, <2>1 DEF Became
    <2> QED BY <2>2, <2>3
<1>7. session.login = session.born
    BY DEF Holds
<1> QED BY <1>1, <1>5, <1>6, <1>7 DEF Holds, Factor

\* The fields of a session that is handed out (GenerateSessionToken).
LEMMA NewSession ==
  ASSUME ClockOK, NEW name \in Names, NEW ver \in Nat, NEW at \in 1..MaxTime, NEW pw \in Passwords,
         NEW second \in Secrets \cup {None}, NEW session, session = GenerateSessionToken(name, ver, at, at, pw, second)
  PROVE  /\ session \in Session
         /\ session.name = name /\ session.ver = ver /\ session.login = at /\ session.born = at
         /\ session.pw = pw /\ session.second = second
<1>1. at \in Nat /\ now \in Nat
    BY LimitAssumption DEF ClockOK
<1>2. at + MaxAge \in Nat /\ now + SessionTTL \in Nat
    BY <1>1, LimitAssumption
<1> DEFINE expires == IF at + MaxAge < now + SessionTTL THEN at + MaxAge ELSE now + SessionTTL
<1>3. expires \in Nat
    BY <1>2
<1>4. session = [name |-> name, ver |-> ver, login |-> at, expires |-> expires, born |-> at, pw |-> pw, second |-> second]
    BY DEF GenerateSessionToken
<1> HIDE DEF expires
<1> QED BY <1>3, <1>4 DEF Session

\* Two steps hand out sessions.
LEMMA SessionWriters ==
  Next => sessions' = sessions \/ \E s \in Slots : FinishLogin(s) \/ FinishRefresh(s)
<1>1. SetupNext \/ ChangeNext => sessions' = sessions
    BY DEF SetupNext, SetupLogin, BeginSetup, CommitSetup, FinishSetup, ChangeNext, BeginChange, ReadForChange,
           updateAdminSecurity
<1>2. LoginNext => sessions' = sessions \/ \E s \in Slots : FinishLogin(s)
    BY DEF LoginNext, BeginLogin, ForgetExpired, CheckCredentials, tryRecoveryCode, recordLoginFailure
<1>3. RefreshNext => sessions' = sessions \/ \E s \in Slots : FinishRefresh(s)
    BY DEF RefreshNext, BeginRefresh
<1>4. TokenNext \/ TicketNext => sessions' = sessions
    BY DEF TokenNext, BeginMint, BeginUse, BeginRevoke, FinishMint, Touch, revokeAPIToken,
           TicketNext, IssueTicket, ConsumeTicket
<1>5. Restart \/ startLockoutCleanup \/ Tick => sessions' = sessions
    BY DEF Restart, startLockoutCleanup, Tick
<1> QED BY <1>1, <1>2, <1>3, <1>4, <1>5 DEF Next

\* A row that was read, in the session that a login on it opens.
LEMMA SessionOfRow ==
  ASSUME AccountsOK, NEW name \in Names, NEW row \in Row, WasRow(name, row), NEW session \in Session,
         session.name = name, session.ver = row.ver, session.login = session.born,
         session.pw = row.pw, session.second = Factor(row)
  PROVE  Holds(session)
BY DEF Holds, WasRow, Became

\* Every session that is handed out knows the credentials of its version.
LEMMA SessionsAdvance ==
  ASSUME AccessInv, Next
  PROVE  SessionsOK'
<1>1. SessionsOK /\ AccountsOK /\ ClockOK
    BY DEF AccessInv
<1>2. \A session \in Session : Holds(session) => Holds(session)'
    BY <1>1, AccountsAdvance, HoldsOn
<1>3. SUFFICES \A session \in sessions' : session \in Session /\ Holds(session)
    BY <1>2 DEF SessionsOK
<1>4. \A session \in sessions : session \in Session /\ Holds(session)
    BY <1>1 DEF SessionsOK
<1>5. CASE sessions' = sessions
    BY <1>4, <1>5
<1>6. ASSUME NEW s \in Slots, FinishLogin(s)
      PROVE  \A session \in sessions' : session \in Session /\ Holds(session)
    <2> DEFINE r == requests[s]
               row == Head(r.row)
               new == GenerateSessionToken(r.name, row.ver, now, now, row.pw, Factor(row))
    <2>1. r \in LoginRequest
        BY <1>6, SoundRequest, RequestKinds DEF AccessInv, FinishLogin, At
    <2>2. r.name \in Names
        BY <2>1 DEF LoginRequest
    <2>3. WasRow(r.name, row) /\ row \in Row
        BY <1>6, SoundRequest DEF AccessInv, FinishLogin, At, Sound, WasRow
    <2>4. row.ver \in Nat /\ row.pw \in Passwords /\ Factor(row) \in Secrets \cup {None}
        BY <2>3 DEF Row, Factor
    <2>5. now \in 1..MaxTime
        BY <1>1 DEF ClockOK
    <2>6. sessions' = sessions \cup {new}
        BY <1>6 DEF FinishLogin
    <2> HIDE DEF row
    <2>7. /\ new \in Session /\ new.name = r.name /\ new.ver = row.ver /\ new.login = now /\ new.born = now
          /\ new.pw = row.pw /\ new.second = Factor(row)
        BY <1>1, <2>2, <2>4, <2>5, NewSession
    <2> HIDE DEF new
    <2>8. Holds(new)
        BY <1>1, <2>2, <2>3, <2>7, SessionOfRow
    <2> QED BY <1>4, <2>6, <2>7, <2>8
<1>7. ASSUME NEW s \in Slots, FinishRefresh(s)
      PROVE  \A session \in sessions' : session \in Session /\ Holds(session)
    <2> DEFINE old == requests[s].session
               new == GenerateSessionToken(old.name, old.ver, old.login, old.born, old.pw, old.second)
    <2>1. old \in Session /\ Holds(old)
        <3>1. requests[s] \in RefreshRequest /\ Holds(old)
            BY <1>7, SoundRequest, RequestKinds DEF AccessInv, FinishRefresh, At, Sound
        <3> QED BY <3>1 DEF RefreshRequest
    <2>2. sessions' = sessions \/ sessions' = sessions \cup {new}
        BY <1>7 DEF FinishRefresh
    <2> HIDE DEF old
    <2>3. /\ old.name \in Names /\ old.ver \in Nat /\ old.login \in 1..MaxTime /\ old.pw \in Passwords
          /\ old.second \in Secrets \cup {None} /\ old.born = old.login
        BY <2>1 DEF Session, Holds
    <2>4. /\ new \in Session /\ new.name = old.name /\ new.ver = old.ver /\ new.login = new.born
          /\ new.pw = old.pw /\ new.second = old.second
        BY <1>1, <2>3, NewSession
    <2> HIDE DEF new
    <2>5. Holds(new)
        BY <2>1, <2>4 DEF Holds
    <2> QED BY <1>4, <2>2, <2>4, <2>5
<1> QED BY <1>5, <1>6, <1>7, SessionWriters

-----------------------------------------------------------------------------
(* Failures, tickets and the clock                                         *)

\* A list of one failure.
LEMMA OneFailure ==
  ASSUME NEW e \in Failure
  PROVE  <<e>> \in Seq(Failure) /\ <<e>> # << >> /\ Head(<<e>>) = e
OBVIOUS

\* What an address that has failures has as its first.
LEMMA HeadFailure ==
  ASSUME FailuresOK, NEW a \in Addresses, failures[a] # << >>
  PROVE  Head(failures[a]) \in Failure
<1>1. failures[a] \in Seq(Failure)
    BY DEF FailuresOK
<1> QED BY <1>1, HeadTailProperties

\* Five steps write failures; others write other parts of the history.
FailuresUnchanged ==
  failures' = failures /\ DOMAIN history' = DOMAIN history /\ history'.failed = history.failed

\* Who changes the failures or what the history says of them.
LEMMA FailureWriters ==
  ASSUME FailuresOK, Next
  PROVE  FailuresUnchanged \/ Restart \/ startLockoutCleanup
         \/ \E s \in Slots : ForgetExpired(s) \/ recordLoginFailure(s) \/ FinishLogin(s)
<1>1. DOMAIN history = {"opened", "issued", "presented", "codes", "failed", "drawn"}
    BY DEF FailuresOK
<1>2. history' = history /\ failures' = failures => FailuresUnchanged
    BY DEF FailuresUnchanged
<1>3. SetupNext => FailuresUnchanged
    BY <1>2 DEF SetupNext, SetupLogin, BeginSetup, CommitSetup, FinishSetup
<1>4. LoginNext => FailuresUnchanged \/ \E s \in Slots : ForgetExpired(s) \/ recordLoginFailure(s) \/ FinishLogin(s)
    <2>1. ASSUME NEW s \in Slots, tryRecoveryCode(s)
          PROVE  FailuresUnchanged
        <3>1. failures' = failures
            BY <2>1 DEF tryRecoveryCode
        <3>2. history' = history \/ history' = [history EXCEPT !.codes[requests[s].second] = @ + 1]
            BY <2>1 DEF tryRecoveryCode
        <3> QED BY <1>1, <3>1, <3>2 DEF FailuresUnchanged
    <2>2. ASSUME NEW s \in Slots, CheckCredentials(s)
          PROVE  FailuresUnchanged
        BY <1>2, <2>2 DEF CheckCredentials
    <2>3. ASSUME NEW s, NEW a, NEW name, NEW pw, NEW second, BeginLogin(s, a, name, pw, second)
          PROVE  FailuresUnchanged
        BY <1>2, <2>3 DEF BeginLogin
    <2> QED BY <2>1, <2>2, <2>3 DEF LoginNext
<1>5. ChangeNext \/ RefreshNext => FailuresUnchanged
    <2>1. ASSUME NEW s, NEW session, NEW op, NEW given, NEW new, BeginChange(s, session, op, given, new)
          PROVE  FailuresUnchanged
        <3>1. failures' = failures /\ \E secrets : history' = [history EXCEPT !.drawn = secrets]
            BY <2>1 DEF BeginChange
        <3> QED BY <1>1, <3>1 DEF FailuresUnchanged
    <2> QED BY <1>2, <2>1 DEF ChangeNext, ReadForChange, updateAdminSecurity, RefreshNext, BeginRefresh, FinishRefresh
<1>6. TokenNext \/ Tick => FailuresUnchanged
    BY <1>2 DEF TokenNext, BeginMint, BeginUse, BeginRevoke, FinishMint, Touch, revokeAPIToken, Tick
<1>7. TicketNext => FailuresUnchanged
    <2>1. ASSUME NEW a, IssueTicket(a)
          PROVE  FailuresUnchanged
        <3>1. failures' = failures /\ \E ticket :
                history' = [history EXCEPT !.issued = @ \cup {ticket}, !.opened = Append(@, 0)]
            BY <2>1 DEF IssueTicket
        <3> QED BY <1>1, <3>1 DEF FailuresUnchanged
    <2>2. ASSUME NEW t, NEW a, ConsumeTicket(t, a)
          PROVE  FailuresUnchanged
        <3>1. failures' = failures /\ \E n :
                history' = [history EXCEPT !.presented = @ \cup {t}, !.opened[t.id] = n]
            BY <2>2 DEF ConsumeTicket
        <3> QED BY <1>1, <3>1 DEF FailuresUnchanged
    <2> QED BY <2>1, <2>2 DEF TicketNext
<1> QED BY <1>3, <1>4, <1>5, <1>6, <1>7 DEF Next

\* The clock keeps its range and does not go back.
LEMMA ClockAdvance ==
  ASSUME AccessInv, Next
  PROVE  ClockOK' /\ now <= now'
<1>1. now \in 1..MaxTime /\ MaxTime \in Nat
    BY LimitAssumption DEF AccessInv, ClockOK
<1>2. now' = now \/ Tick
    <2>1. SetupNext \/ Restart \/ LoginNext \/ startLockoutCleanup => now' = now
        BY DEF SetupNext, SetupLogin, BeginSetup, CommitSetup, FinishSetup, Restart, LoginNext, BeginLogin,
               ForgetExpired, CheckCredentials, tryRecoveryCode, recordLoginFailure, FinishLogin, startLockoutCleanup
    <2>2. ChangeNext \/ RefreshNext => now' = now
        BY DEF ChangeNext, BeginChange, ReadForChange, updateAdminSecurity, RefreshNext, BeginRefresh, FinishRefresh
    <2>3. TokenNext \/ TicketNext => now' = now
        BY DEF TokenNext, BeginMint, BeginUse, BeginRevoke, FinishMint, Touch, revokeAPIToken,
               TicketNext, IssueTicket, ConsumeTicket
    <2> QED BY <2>1, <2>2, <2>3 DEF Next
<1>3. Tick => now' \in 1..MaxTime /\ now <= now'
    BY <1>1 DEF Tick
<1> QED BY <1>1, <1>2, <1>3 DEF ClockOK

\* The ticket store keeps its bound (IssueTicket).
LEMMA TicketsAdvance ==
  ASSUME AccessInv, Next
  PROVE  TicketsOK'
<1>1. IsFiniteSet(tickets) /\ Cardinality(tickets) <= MaxTickets /\ Cardinality(tickets) \in Nat
    BY FS_CardinalityType DEF AccessInv, TicketsOK
<1>2. MaxTickets \in Nat /\ MaxTickets # 0
    BY LimitAssumption
<1>3. CASE tickets' = tickets
    BY <1>1, <1>3 DEF TicketsOK
<1>4. CASE Restart
    <2>1. tickets' = {} /\ IsFiniteSet({}) /\ Cardinality({}) = 0
        BY <1>4, FS_EmptySet DEF Restart
    <2> QED BY <1>2, <2>1 DEF TicketsOK
<1>5. ASSUME NEW a, IssueTicket(a)
      PROVE  TicketsOK'
    <2> DEFINE pending == Live(tickets)
    <2>1. IsFiniteSet(pending) /\ Cardinality(pending) <= Cardinality(tickets) /\ Cardinality(pending) \in Nat
        <3>1. pending \subseteq tickets
            BY DEF Live
        <3> QED BY <1>1, <3>1, FS_Subset, FS_CardinalityType
    <2>2. PICK room \in WithRoom(pending) : \E ticket : tickets' = room \cup {ticket}
        BY <1>5 DEF IssueTicket
    <2>3. IsFiniteSet(room) /\ Cardinality(room) < MaxTickets /\ Cardinality(room) \in Nat
        <3>1. CASE Cardinality(pending) < MaxTickets
            <4>1. room = pending
                BY <2>2, <3>1 DEF WithRoom
            <4> QED BY <2>1, <3>1, <4>1
        <3>2. CASE ~(Cardinality(pending) < MaxTickets)
            <4>1. PICK t \in pending : room = pending \ {t}
                BY <2>2, <3>2 DEF WithRoom
            <4> HIDE DEF pending
            <4>2. IsFiniteSet(room) /\ Cardinality(room) = Cardinality(pending) - 1
                BY <2>1, <4>1, FS_RemoveElement
            <4>3. Cardinality(room) \in Nat
                BY <4>2, FS_CardinalityType
            <4> QED BY <1>1, <1>2, <2>1, <4>2, <4>3
        <3> QED BY <3>1, <3>2
    <2>4. IsFiniteSet(tickets') /\ (Cardinality(tickets') = Cardinality(room) \/ Cardinality(tickets') = Cardinality(room) + 1)
        <3>1. PICK ticket : tickets' = room \cup {ticket}
            BY <2>2
        <3> QED BY <2>3, <3>1, FS_AddElement
    <2> QED BY <1>2, <2>3, <2>4 DEF TicketsOK
<1>6. ASSUME NEW t, NEW a, ConsumeTicket(t, a)
      PROVE  TicketsOK'
    <2>1. tickets' \subseteq tickets
        BY <1>6 DEF ConsumeTicket
    <2>2. IsFiniteSet(tickets') /\ Cardinality(tickets') <= Cardinality(tickets) /\ Cardinality(tickets') \in Nat
        BY <1>1, <2>1, FS_Subset, FS_CardinalityType
    <2> QED BY <1>1, <1>2, <2>2 DEF TicketsOK
<1>7. SetupNext \/ LoginNext \/ startLockoutCleanup => tickets' = tickets
    BY DEF SetupNext, SetupLogin, BeginSetup, CommitSetup, FinishSetup, LoginNext, BeginLogin, ForgetExpired,
           CheckCredentials, tryRecoveryCode, recordLoginFailure, FinishLogin, startLockoutCleanup
<1>8. ChangeNext \/ RefreshNext \/ TokenNext \/ Tick => tickets' = tickets
    BY DEF ChangeNext, BeginChange, ReadForChange, updateAdminSecurity, RefreshNext, BeginRefresh, FinishRefresh,
           TokenNext, BeginMint, BeginUse, BeginRevoke, FinishMint, Touch, revokeAPIToken, Tick
<1>9. TicketNext => (\E a : IssueTicket(a)) \/ (\E t, a : ConsumeTicket(t, a))
    BY DEF TicketNext
<1> QED BY <1>3, <1>4, <1>5, <1>6, <1>7, <1>8, <1>9 DEF Next

\* Failures whose counts are earned and whose times have passed.
Earned(list, failed) == list # << >> => Head(list).count <= failed /\ Head(list).at <= now

\* Facts about the failures of one address.
LEMMA EarnedFailures ==
  ASSUME FailuresOK, NEW a \in Addresses
  PROVE  /\ failures[a] \in Seq(Failure) /\ history.failed[a] \in Nat /\ Earned(failures[a], history.failed[a])
         /\ failures[a] # << >> => Head(failures[a]).count \in Nat \ {0} /\ Head(failures[a]).at \in 1..MaxTime
<1>1. failures[a] \in Seq(Failure) /\ history.failed[a] \in Nat /\ Earned(failures[a], history.failed[a])
    BY DEF FailuresOK, Earned
<1>2. failures[a] # << >> => Head(failures[a]).count \in Nat \ {0} /\ Head(failures[a]).at \in 1..MaxTime
    BY HeadFailure DEF Failure
<1> QED BY <1>1, <1>2

\* Records that were removed, the others as they were.
LEMMA FailuresForgotten ==
  ASSUME AccessInv, Next, DOMAIN history' = DOMAIN history, history'.failed = history.failed,
         failures' \in [Addresses -> Seq(Failure)],
         \A a \in Addresses : failures'[a] = failures[a] \/ failures'[a] = << >>
  PROVE  FailuresOK'
<1>1. FailuresOK /\ now \in Nat /\ now' \in Nat /\ now <= now'
    BY ClockAdvance, LimitAssumption DEF AccessInv, ClockOK
<1>2. ASSUME NEW a \in Addresses, failures'[a] # << >>
      PROVE  Head(failures'[a]).count <= history'.failed[a] /\ Head(failures'[a]).at <= now'
    <2>1. failures'[a] = failures[a] /\ failures[a] # << >>
        BY <1>2
    <2>2. Head(failures[a]).count <= history.failed[a] /\ Head(failures[a]).at <= now /\ Head(failures[a]).at \in Nat
        BY <1>1, <2>1, EarnedFailures, LimitAssumption DEF Earned
    <2> QED BY <1>1, <2>1, <2>2
<1> QED BY <1>1, <1>2 DEF FailuresOK

\* Every step keeps failure counts that are earned.
LEMMA FailuresAdvance ==
  ASSUME AccessInv, Next
  PROVE  FailuresOK'
<1>1. FailuresOK /\ now \in Nat /\ now' \in Nat /\ now <= now' /\ now \in 1..MaxTime
    BY ClockAdvance, LimitAssumption DEF AccessInv, ClockOK
<1>2. /\ failures \in [Addresses -> Seq(Failure)] /\ history.failed \in [Addresses -> Nat]
      /\ DOMAIN history = {"opened", "issued", "presented", "codes", "failed", "drawn"}
    BY <1>1 DEF FailuresOK
<1>3. << >> \in Seq(Failure)
    BY EmptySeq
<1>4. CASE FailuresUnchanged
    BY <1>2, <1>4, FailuresForgotten DEF FailuresUnchanged
<1>5. CASE Restart
    <2> DEFINE none == [a \in Addresses |-> 0]
    <2>1. failures' = [a \in Addresses |-> << >>] /\ none \in [Addresses -> Nat]
        BY <1>5 DEF Restart
    <2>2. DOMAIN history' = DOMAIN history /\ history'.failed = none
        BY <1>2, <1>5 DEF Restart
    <2> HIDE DEF none
    <2> QED BY <1>2, <1>3, <2>1, <2>2 DEF FailuresOK
<1>6. CASE startLockoutCleanup
    <2>1. failures' = Swept /\ history' = history
        BY <1>6 DEF startLockoutCleanup
    <2>2. \A a \in Addresses : Swept[a] = failures[a] \/ Swept[a] = << >>
        BY DEF Swept
    <2>3. Swept \in [Addresses -> Seq(Failure)]
        BY <1>2, <1>3 DEF Swept
    <2> QED BY <2>1, <2>2, <2>3, FailuresForgotten
<1>7. ASSUME NEW s \in Slots, ForgetExpired(s)
      PROVE  FailuresOK'
    <2>1. failures' = [failures EXCEPT ![requests[s].addr] = << >>] /\ history' = history
        BY <1>7 DEF ForgetExpired
    <2>2. failures' \in [Addresses -> Seq(Failure)]
        BY <1>2, <1>3, <2>1
    <2>3. \A a \in Addresses : failures'[a] = failures[a] \/ failures'[a] = << >>
        BY <1>2, <2>1
    <2> QED BY <2>1, <2>2, <2>3, FailuresForgotten
<1>8. ASSUME NEW s \in Slots, recordLoginFailure(s)
      PROVE  FailuresOK'
    <2> DEFINE a == requests[s].addr
               count == IF failures[a] = << >> THEN 0 ELSE Head(failures[a]).count
               e == [count |-> count + 1, at |-> now]
    <2>1. requests[s] \in LoginRequest
        BY <1>8, SoundRequest, RequestKinds DEF AccessInv, recordLoginFailure, At
    <2>2. a \in Addresses
        BY <2>1 DEF LoginRequest
    <2>3. count \in Nat /\ count <= history.failed[a] /\ history.failed[a] \in Nat
        BY <1>1, <2>2, EarnedFailures DEF Earned
    <2>4. failures' = [failures EXCEPT ![a] = <<e>>] /\ history' = [history EXCEPT !.failed[a] = @ + 1] /\ now' = now
        BY <1>8 DEF recordLoginFailure
    <2> HIDE DEF count
    <2>5. e \in Failure /\ e.count = count + 1 /\ e.at = now
        BY <1>1, <2>3 DEF Failure
    <2> HIDE DEF e
    <2>6. <<e>> \in Seq(Failure) /\ Head(<<e>>) = e
        BY <2>5, OneFailure
    <2>7. failures' \in [Addresses -> Seq(Failure)] /\ failures'[a] = <<e>>
        BY <1>2, <2>2, <2>4, <2>6
    <2>8. DOMAIN history' = DOMAIN history /\ history'.failed = [history.failed EXCEPT ![a] = @ + 1]
        BY <1>2, <2>4
    <2>9. history'.failed \in [Addresses -> Nat] /\ history'.failed[a] = history.failed[a] + 1
        BY <1>2, <2>2, <2>3, <2>8
    <2>10. ASSUME NEW b \in Addresses, failures'[b] # << >>
           PROVE  Head(failures'[b]).count <= history'.failed[b] /\ Head(failures'[b]).at <= now'
        <3>1. CASE b = a
            BY <1>1, <2>3, <2>4, <2>5, <2>6, <2>7, <2>9, <3>1
        <3>2. CASE b # a
            <4>1. failures'[b] = failures[b] /\ history'.failed[b] = history.failed[b]
                BY <1>2, <2>4, <2>8, <3>2
            <4> QED BY <1>1, <2>4, <2>10, <4>1, EarnedFailures DEF Earned
        <3> QED BY <3>1, <3>2
    <2> QED BY <1>2, <2>7, <2>8, <2>9, <2>10 DEF FailuresOK
<1>9. ASSUME NEW s \in Slots, FinishLogin(s)
      PROVE  FailuresOK'
    <2> DEFINE a == requests[s].addr
    <2>1. failures' = [failures EXCEPT ![a] = << >>] /\ history' = [history EXCEPT !.failed[a] = 0] /\ now' = now
        BY <1>9 DEF FinishLogin, clearLoginFailures
    <2>2. failures' \in [Addresses -> Seq(Failure)]
        BY <1>2, <1>3, <2>1
    <2>3. DOMAIN history' = DOMAIN history /\ history'.failed = [history.failed EXCEPT ![a] = 0]
        BY <1>2, <2>1
    <2>4. history'.failed \in [Addresses -> Nat]
        <3> DEFINE f == history.failed
        <3>1. f \in [Addresses -> Nat]
            BY <1>2
        <3> HIDE DEF f
        <3>2. [f EXCEPT ![a] = 0] \in [Addresses -> Nat]
            BY <3>1
        <3> QED BY <2>3, <3>2 DEF f
    <2>5. ASSUME NEW b \in Addresses, failures'[b] # << >>
          PROVE  Head(failures'[b]).count <= history'.failed[b] /\ Head(failures'[b]).at <= now'
        <3>1. b # a
            BY <1>2, <2>1, <2>5
        <3>2. failures'[b] = failures[b] /\ history'.failed[b] = history.failed[b]
            BY <1>2, <2>1, <2>3, <3>1
        <3> QED BY <1>1, <2>1, <2>5, <3>2, EarnedFailures DEF Earned
    <2> QED BY <1>2, <2>2, <2>3, <2>4, <2>5 DEF FailuresOK
<1>10. FailuresOK
    BY DEF AccessInv
<1> QED BY <1>4, <1>5, <1>6, <1>7, <1>8, <1>9, <1>10, FailureWriters

-----------------------------------------------------------------------------
(* Requests under way                                                      *)

\* What a request has read stays sound while others run.
LEMMA SoundOn ==
  ASSUME AccessInv, Next, NEW r, Sound(r)
  PROVE  Sound(r)'
<1>1. AccountsOK /\ AccountsOK' /\ AccountsGrow /\ TokensGrow /\ (dbDone => dbDone')
    BY AccountsAdvance, TokensAdvance, SetupAdvance DEF AccessInv
<1>2. r \in Request
    BY DEF Sound
<1>3. ASSUME NEW n, NEW row, WasRow(n, row)
      PROVE  WasRow(n, row)'
    <2>1. n \in DOMAIN admins /\ row \in Row /\ Became(row, admins[n])
        BY <1>3 DEF WasRow
    <2>2. n \in DOMAIN admins' /\ Became(admins[n], admins'[n])
        BY <1>1, <2>1 DEF AccountsGrow
    <2>3. admins[n] \in Row /\ admins'[n] \in Row
        BY <1>1, <2>1, <2>2 DEF AccountsOK
    <2>4. Became(row, admins'[n])
        BY <2>1, <2>2, <2>3, BecameAgain
    <2> QED BY <2>1, <2>2, <2>4 DEF WasRow, Became, Factor
<1>4. r.kind = "refresh" => Holds(r.session)'
    <2>1. ASSUME r.kind = "refresh"
          PROVE  r.session \in Session /\ Holds(r.session)
        BY <1>2, <2>1, RequestKinds DEF Sound, RefreshRequest
    <2> QED BY <1>1, <2>1, HoldsOn
<1>5. r.kind = "setup" /\ r.phase = "finish" => dbDone'
    BY <1>1 DEF Sound
<1>6. r.kind = "login" /\ r.phase \in {"pass", "consume"} => r.row # << >> /\ WasRow(r.name, Head(r.row))'
    BY <1>3 DEF Sound
<1>7. r.kind = "change" => /\ r.name \in DOMAIN admins'
                           /\ r.op = "password" => r.new \in Passwords
                           /\ r.op = "setup2fa" => r.new \in Secrets
    BY <1>1 DEF Sound, AccountsGrow
<1>8. r.kind = "change" /\ r.phase = "write" =>
        r.row # << >> /\ WasRow(r.name, Head(r.row))' /\ Permits(Head(r.row), r)
    BY <1>3 DEF Sound
<1>9. r.kind \in {"use", "revoke"} => r.token \in DOMAIN tokens'
    BY <1>1 DEF Sound, TokensGrow
<1> QED BY <1>2, <1>4, <1>5, <1>6, <1>7, <1>8, <1>9 DEF Sound, Permits

\* Idle is sound in every state.
LEMMA IdleSound == Sound(Idle) /\ Sound(Idle)'
<1>1. Idle \in Request /\ Idle.kind = "idle"
    BY DEF Request, Idle
<1> QED BY <1>1 DEF Sound

\* One request that becomes another sound one.
LEMMA OneRequest ==
  ASSUME AccessInv, Next, NEW s \in Slots, NEW r, requests' = [requests EXCEPT ![s] = r], Sound(r)'
  PROVE  RequestsOK'
<1>1. requests \in [Slots -> Request]
    BY DEF AccessInv, RequestsOK
<1>2. r \in Request
    BY DEF Sound
<1>3. requests' \in [Slots -> Request]
    BY <1>1, <1>2
<1>4. ASSUME NEW x \in Slots, NEW q \in Request, requests'[x] = q
      PROVE  Sound(q)'
    <2>1. CASE x = s
        <3>1. q = r
            BY <1>1, <1>4, <2>1
        <3> QED BY <3>1
    <2>2. CASE x # s
        <3>1. requests[x] = q
            BY <1>1, <1>4, <2>2
        <3>2. Sound(q)
            BY <3>1 DEF AccessInv, RequestsOK
        <3> QED BY <3>2, SoundOn
    <2> QED BY <2>1, <2>2
<1> QED BY <1>3, <1>4 DEF RequestsOK

\* The same, when what it becomes is sound already.
LEMMA SoundAdvance ==
  ASSUME AccessInv, Next, NEW s \in Slots, NEW r, requests' = [requests EXCEPT ![s] = r], Sound(r)
  PROVE  RequestsOK'
BY SoundOn, OneRequest

\* A phase changes and nothing else does.
LEMMA LoginPhase ==
  ASSUME NEW r \in LoginRequest, NEW phase \in {"forget", "check", "fail", "pass", "consume"}, NEW new,
         new = InPhase(r, phase)
  PROVE  new \in LoginRequest /\ new.kind = "login" /\ new.phase = phase /\ new.name = r.name /\ new.row = r.row
BY DEF LoginRequest, InPhase

\* What makes a login sound.
LEMMA SoundLogin ==
  ASSUME NEW r \in LoginRequest, r.phase \in {"pass", "consume"} => r.row # << >> /\ WasRow(r.name, Head(r.row))
  PROVE  Sound(r)
<1>1. r \in Request /\ r.kind = "login"
    BY DEF Request, LoginRequest
<1> QED BY <1>1 DEF Sound

\* A login that begins has read nothing.
LEMMA BeginLoginRequest ==
  ASSUME AccessInv, Next, NEW s \in Slots, NEW a \in Addresses, NEW name \in Names, NEW pw \in Passwords,
         NEW second \in Seconds, BeginLogin(s, a, name, pw, second)
  PROVE  RequestsOK'
<1> DEFINE phase == IF LockState(a) = "expired" THEN "forget" ELSE "check"
           r == [kind |-> "login", phase |-> phase, addr |-> a, name |-> name, pw |-> pw, second |-> second, row |-> << >>]
<1>1. requests' = [requests EXCEPT ![s] = r]
    BY DEF BeginLogin, Arrive
<1>2. phase \in {"forget", "check"}
    OBVIOUS
<1> HIDE DEF phase
<1>3. r \in LoginRequest /\ r.phase = phase
    BY <1>2, EmptySeq DEF LoginRequest
<1> HIDE DEF r
<1>4. Sound(r)
    BY <1>2, <1>3, SoundLogin
<1> QED BY <1>1, <1>4, SoundAdvance

\* A login that forgets an expired lockout has read nothing.
LEMMA ForgetRequest ==
  ASSUME AccessInv, Next, NEW s \in Slots, ForgetExpired(s)
  PROVE  RequestsOK'
<1> DEFINE r == requests[s]
           new == InPhase(r, "check")
<1>1. requests' = [requests EXCEPT ![s] = new]
    BY DEF ForgetExpired, Advance
<1>2. r \in LoginRequest
    BY SoundRequest, RequestKinds DEF AccessInv, ForgetExpired, At
<1> HIDE DEF r
<1>3. new \in LoginRequest /\ new.phase = "check"
    BY <1>2, LoginPhase
<1> HIDE DEF new
<1>4. Sound(new)
    BY <1>3, SoundLogin
<1> QED BY <1>1, <1>4, SoundAdvance

\* A login that passes has read the row it passed on.
LEMMA CheckRequest ==
  ASSUME AccessInv, Next, NEW s \in Slots, CheckCredentials(s)
  PROVE  RequestsOK'
<1> DEFINE r == requests[s]
           known == r.name \in DOMAIN admins
           verdict == IF known THEN Verdict(admins[r.name], r) ELSE "fail"
           row == IF known THEN <<admins[r.name]>> ELSE << >>
           new == [r EXCEPT !.phase = verdict, !.row = row]
<1>1. r \in LoginRequest
    BY SoundRequest, RequestKinds DEF AccessInv, CheckCredentials, At
<1>2. verdict \in {"fail", "pass", "ask", "consume"}
    BY DEF Verdict
<1>3. known => admins[r.name] \in Row
    BY DEF AccessInv, AccountsOK
<1>4. row \in Seq(Row) /\ (known => row # << >> /\ Head(row) = admins[r.name])
    BY <1>3, EmptySeq
<1>5. verdict # "fail" => known
    OBVIOUS
<1>6. CASE verdict = "ask"
    <2>1. requests' = [requests EXCEPT ![s] = Idle]
        BY <1>6 DEF CheckCredentials, Leave
    <2> QED BY <2>1, IdleSound, OneRequest
<1>7. CASE verdict # "ask"
    <2>1. requests' = [requests EXCEPT ![s] = new]
        BY <1>7 DEF CheckCredentials, Advance
    <2>2. known => WasRow(r.name, Head(row))
        BY <1>3, <1>4, BecameSelf DEF WasRow
    <2> HIDE DEF verdict, row, known
    <2> DEFINE middle == InPhase(r, verdict)
    <2> HIDE DEF r
    <2>3. middle \in LoginRequest /\ middle.phase = verdict /\ middle.name = r.name
        BY <1>1, <1>2, <1>7, LoginPhase
    <2>4. new = [middle EXCEPT !.row = row]
        BY <1>1 DEF InPhase, LoginRequest
    <2> HIDE DEF middle, new
    <2>5. new \in LoginRequest /\ new.phase = verdict /\ new.name = r.name /\ new.row = row
        BY <1>4, <2>3, <2>4 DEF LoginRequest
    <2>6. Sound(new)
        BY <1>4, <1>5, <2>2, <2>5, SoundLogin
    <2> QED BY <2>1, <2>6, SoundAdvance
<1> QED BY <1>6, <1>7

\* A login whose recovery code is tried keeps the row it read.
LEMMA RecoveryCodeRequest ==
  ASSUME AccessInv, Next, NEW s \in Slots, tryRecoveryCode(s)
  PROVE  RequestsOK'
<1> DEFINE r == requests[s]
<1>1. r \in LoginRequest /\ r.row # << >> /\ WasRow(r.name, Head(r.row))
    BY SoundRequest, RequestKinds DEF AccessInv, tryRecoveryCode, At, Sound
<1>2. PICK phase \in {"pass", "fail"} : requests' = [requests EXCEPT ![s] = InPhase(r, phase)]
    BY DEF tryRecoveryCode, Advance
<1> DEFINE new == InPhase(r, phase)
<1>3. requests' = [requests EXCEPT ![s] = new]
    BY <1>2
<1> HIDE DEF r
<1>4. new \in LoginRequest /\ new.name = r.name /\ new.row = r.row
    BY <1>1, LoginPhase
<1> HIDE DEF new
<1>5. Sound(new)
    BY <1>1, <1>4, SoundLogin
<1> QED BY <1>3, <1>5, SoundAdvance

\* A setup request is about to create the account, or has completed setup.
LEMMA SetupRequests ==
  ASSUME AccessInv, Next, NEW s \in Slots
  PROVE  /\ \A name \in Names, pw \in Passwords : BeginSetup(s, name, pw) => RequestsOK'
         /\ CommitSetup(s) => RequestsOK'
<1>1. ASSUME NEW name \in Names, NEW pw \in Passwords, BeginSetup(s, name, pw)
      PROVE  RequestsOK'
    <2> DEFINE r == [kind |-> "setup", phase |-> "create", name |-> name, pw |-> pw]
    <2>1. requests' = [requests EXCEPT ![s] = r]
        BY <1>1 DEF BeginSetup, Arrive
    <2>2. r \in Request /\ r.kind = "setup" /\ r.phase = "create"
        BY DEF Request, SetupRequest
    <2> HIDE DEF r
    <2>3. Sound(r)
        BY <2>2 DEF Sound
    <2> QED BY <2>1, <2>3, SoundAdvance
<1>2. ASSUME CommitSetup(s)
      PROVE  RequestsOK'
    <2> DEFINE r == requests[s]
    <2> PICK new : new = InPhase(r, "finish")
        OBVIOUS
    <2>1. r \in SetupRequest
        BY <1>2, SoundRequest, RequestKinds DEF AccessInv, CommitSetup, At
    <2>2. CASE requests' = [requests EXCEPT ![s] = Idle]
        BY <2>2, IdleSound, OneRequest
    <2>3. CASE requests' = [requests EXCEPT ![s] = new] /\ dbDone'
        <3> HIDE DEF r
        <3>1. new \in SetupRequest
            BY <2>1 DEF InPhase, SetupRequest
        <3>2. new \in Request /\ new.kind = "setup"
            BY <3>1 DEF Request, SetupRequest
        <3>3. Sound(new)'
            BY <2>3, <3>2 DEF Sound
        <3> QED BY <2>3, <3>3, OneRequest
    <2>4. r.name \in DOMAIN admins => requests' = [requests EXCEPT ![s] = Idle]
        BY <1>2 DEF CommitSetup, Leave
    <2>5. r.name \notin DOMAIN admins => requests' = [requests EXCEPT ![s] = new] /\ dbDone' = TRUE
        BY <1>2 DEF CommitSetup, Advance
    <2> QED BY <2>2, <2>3, <2>4, <2>5
<1> QED BY <1>1, <1>2

\* A change that begins has a session of an account that is there.
LEMMA BeginChangeRequest ==
  ASSUME AccessInv, Next, NEW s \in Slots, NEW session \in sessions, NEW op \in Changes,
         NEW given \in Parameter, NEW new \in Parameter,
         op = "password" => new \in Passwords, op = "setup2fa" => new \in Secrets,
         BeginChange(s, session, op, given, new)
  PROVE  RequestsOK'
<1> DEFINE r == [kind |-> "change", phase |-> "read", op |-> op, name |-> session.name,
                 given |-> given, new |-> new, row |-> << >>]
<1>1. requests' = [requests EXCEPT ![s] = r]
    BY DEF BeginChange, Arrive
<1>2. session.name \in DOMAIN admins /\ session.name \in Names
    BY DEF BeginChange, Accepted, AccessInv, AccountsOK
<1>3. << >> \in Seq(Row)
    BY EmptySeq
<1>4. r \in ChangeRequest
    BY <1>2, <1>3 DEF ChangeRequest
<1>5. r.kind = "change" /\ r.phase = "read" /\ r.name = session.name /\ r.op = op /\ r.new = new
    OBVIOUS
<1> HIDE DEF r
<1>6. r \in Request
    BY <1>4 DEF Request
<1>7. Sound(r)
    BY <1>2, <1>5, <1>6 DEF Sound
<1> QED BY <1>1, <1>7, SoundAdvance

\* A change about to be written has read a row that permits it.
LEMMA ReadRequest ==
  ASSUME AccessInv, Next, NEW s \in Slots, ReadForChange(s)
  PROVE  RequestsOK'
<1> DEFINE r == requests[s]
           row == <<admins[r.name]>>
           middle == [r EXCEPT !.phase = "write"]
           new == [middle EXCEPT !.row = row]
<1>1. r \in ChangeRequest
    BY SoundRequest, RequestKinds DEF AccessInv, ReadForChange, At
<1>2. /\ r.name \in DOMAIN admins
      /\ r.op = "password" => r.new \in Passwords
      /\ r.op = "setup2fa" => r.new \in Secrets
    BY SoundRequest DEF AccessInv, ReadForChange, At, Sound
<1>3. admins[r.name] \in Row
    BY <1>2 DEF AccessInv, AccountsOK
<1>4. row \in Seq(Row) /\ row # << >> /\ Head(row) = admins[r.name]
    BY <1>3
<1>5. CASE requests' = [requests EXCEPT ![s] = Idle]
    BY <1>5, IdleSound, OneRequest
<1>6. CASE Permits(admins[r.name], r) /\ requests' = [requests EXCEPT ![s] = [r EXCEPT !.phase = "write", !.row = row]]
    <2>1. WasRow(r.name, Head(row)) /\ Permits(Head(row), r)
        BY <1>2, <1>3, <1>4, <1>6, BecameSelf DEF WasRow
    <2>2. requests' = [requests EXCEPT ![s] = new]
        BY <1>6
    <2> HIDE DEF r, row
    <2>3. middle \in ChangeRequest /\ middle.phase = "write" /\ middle.name = r.name /\ middle.op = r.op
          /\ middle.new = r.new /\ middle.given = r.given
        BY <1>1 DEF ChangeRequest
    <2> HIDE DEF middle
    <2>4. new \in ChangeRequest /\ new.phase = "write" /\ new.name = r.name /\ new.op = r.op
          /\ new.new = r.new /\ new.given = r.given /\ new.row = row
        BY <1>4, <2>3 DEF ChangeRequest
    <2> HIDE DEF new
    <2>5. Permits(Head(row), new)
        BY <2>1, <2>4 DEF Permits
    <2>6. new \in Request /\ new.kind = "change"
        BY <2>4 DEF Request, ChangeRequest
    <2>7. Sound(new)
        BY <1>2, <1>4, <2>1, <2>4, <2>5, <2>6 DEF Sound
    <2> QED BY <2>2, <2>7, SoundAdvance
<1> QED BY <1>5, <1>6 DEF ReadForChange, Leave, Advance

\* A refresh that begins has a session that was handed out.
LEMMA BeginRefreshRequest ==
  ASSUME AccessInv, Next, NEW s \in Slots, NEW session \in sessions, BeginRefresh(s, session)
  PROVE  RequestsOK'
<1> DEFINE r == [kind |-> "refresh", phase |-> "mint", session |-> session]
<1>1. requests' = [requests EXCEPT ![s] = r]
    BY DEF BeginRefresh, Arrive
<1>2. session \in Session /\ Holds(session)
    BY DEF AccessInv, SessionsOK
<1>3. r \in Request /\ r.kind = "refresh" /\ r.session = session
    BY <1>2 DEF Request, RefreshRequest
<1> HIDE DEF r
<1>4. Sound(r)
    BY <1>2, <1>3 DEF Sound
<1> QED BY <1>1, <1>4, SoundAdvance

\* A request about an API token has read the token's row.
LEMMA TokenRequests ==
  ASSUME AccessInv, Next, NEW s \in Slots, NEW t \in TokenNames, BeginMint(s, t) \/ BeginUse(s, t) \/ BeginRevoke(s, t)
  PROVE  RequestsOK'
<1>1. CASE BeginMint(s, t)
    <2> DEFINE r == [kind |-> "mint", phase |-> "insert", token |-> t]
    <2>1. requests' = [requests EXCEPT ![s] = r]
        BY <1>1 DEF BeginMint, Arrive
    <2>2. r \in Request /\ r.kind = "mint"
        BY DEF Request, MintRequest
    <2> HIDE DEF r
    <2>3. Sound(r)
        BY <2>2 DEF Sound
    <2> QED BY <2>1, <2>3, SoundAdvance
<1>2. t \in DOMAIN tokens => tokens[t] \in Token
    BY DEF AccessInv, TokensOK
<1>3. CASE BeginUse(s, t)
    <2> DEFINE r == [kind |-> "use", phase |-> "touch", token |-> t, row |-> tokens[t], at |-> now]
    <2>1. requests' = [requests EXCEPT ![s] = r] /\ t \in DOMAIN tokens
        BY <1>3 DEF BeginUse, Arrive
    <2>2. now \in 1..MaxTime
        BY DEF AccessInv, ClockOK
    <2>3. r \in UseRequest
        BY <1>2, <2>1, <2>2 DEF UseRequest
    <2>4. r.kind = "use" /\ r.token = t
        OBVIOUS
    <2> HIDE DEF r
    <2>5. r \in Request
        BY <2>3 DEF Request
    <2>6. Sound(r)
        BY <2>1, <2>4, <2>5 DEF Sound
    <2> QED BY <2>1, <2>6, SoundAdvance
<1>4. CASE BeginRevoke(s, t)
    <2> DEFINE r == [kind |-> "revoke", phase |-> "save", token |-> t, row |-> tokens[t]]
    <2>1. requests' = [requests EXCEPT ![s] = r] /\ t \in DOMAIN tokens
        BY <1>4 DEF BeginRevoke, Arrive
    <2>2. r \in RevokeRequest
        BY <1>2, <2>1 DEF RevokeRequest
    <2>3. r.kind = "revoke" /\ r.token = t
        OBVIOUS
    <2> HIDE DEF r
    <2>4. r \in Request
        BY <2>2 DEF Request
    <2>5. Sound(r)
        BY <2>1, <2>3, <2>4 DEF Sound
    <2> QED BY <2>1, <2>5, SoundAdvance
<1> QED BY <1>1, <1>3, <1>4

\* Every step leaves every request sound.
LEMMA RequestsAdvance ==
  ASSUME AccessInv, Next
  PROVE  RequestsOK'
<1>1. CASE requests' = requests
    <2>1. \A s \in Slots, q \in Request : requests'[s] = q => Sound(q)'
        BY <1>1, SoundOn DEF AccessInv, RequestsOK
    <2> QED BY <1>1, <2>1 DEF AccessInv, RequestsOK
<1>2. CASE Restart
    <2>1. requests' = [s \in Slots |-> Idle]
        BY <1>2 DEF Restart
    <2>2. Idle \in Request
        BY DEF Request
    <2>3. requests' \in [Slots -> Request]
        BY <2>1, <2>2
    <2>4. ASSUME NEW s \in Slots, NEW q \in Request, requests'[s] = q
          PROVE  Sound(q)'
        <3>1. q = Idle
            BY <2>1, <2>4
        <3> QED BY <3>1, IdleSound
    <2> QED BY <2>3, <2>4 DEF RequestsOK
<1>3. ASSUME NEW s \in Slots, Leave(s)
      PROVE  RequestsOK'
    BY <1>3, IdleSound, OneRequest DEF Leave
<1>4. CASE SetupNext
    <2>1. \A password : SetupLogin(password) => requests' = requests
        BY DEF SetupLogin
    <2>2. \A s \in Slots : FinishSetup(s) => Leave(s)
        BY DEF FinishSetup
    <2> QED BY <1>1, <1>3, <1>4, <2>1, <2>2, SetupRequests DEF SetupNext
<1>5. CASE LoginNext
    <2>1. \A s \in Slots : recordLoginFailure(s) \/ FinishLogin(s) => Leave(s)
        BY DEF recordLoginFailure, FinishLogin
    <2> QED BY <1>3, <1>5, <2>1, BeginLoginRequest, ForgetRequest, CheckRequest, RecoveryCodeRequest DEF LoginNext
<1>6. CASE ChangeNext
    <2>1. \A s \in Slots : updateAdminSecurity(s) => Leave(s)
        BY DEF updateAdminSecurity
    <2>2. None \in Parameter /\ Passwords \subseteq Parameter /\ Secrets \subseteq Parameter
        BY DEF Parameter
    <2>3. \A s \in Slots, session \in sessions, given, new \in Passwords :
            BeginChange(s, session, "password", given, new) => RequestsOK'
        BY <2>2, BeginChangeRequest DEF Changes
    <2>4. \A s \in Slots, session \in sessions, given \in Passwords :
            BeginChange(s, session, "disable2fa", given, None) => RequestsOK'
        BY <2>2, BeginChangeRequest DEF Changes
    <2>5. \A s \in Slots, session \in sessions, x \in Secrets :
            BeginChange(s, session, "verify2fa", x, None) \/ BeginChange(s, session, "setup2fa", None, x) => RequestsOK'
        BY <2>2, BeginChangeRequest DEF Changes
    <2>6. \A s \in Slots, session \in sessions : BeginChange(s, session, "logoutAll", None, None) => RequestsOK'
        BY <2>2, BeginChangeRequest DEF Changes
    <2> QED BY <1>3, <1>6, <2>1, <2>3, <2>4, <2>5, <2>6, ReadRequest DEF ChangeNext
<1>7. CASE RefreshNext
    <2>1. \A s \in Slots : FinishRefresh(s) => Leave(s)
        BY DEF FinishRefresh
    <2> QED BY <1>3, <1>7, <2>1, BeginRefreshRequest DEF RefreshNext
<1>8. CASE TokenNext
    <2>1. \A s \in Slots : FinishMint(s) \/ Touch(s) \/ revokeAPIToken(s) => Leave(s)
        BY DEF FinishMint, Touch, revokeAPIToken
    <2> QED BY <1>3, <1>8, <2>1, TokenRequests DEF TokenNext
<1>9. TicketNext \/ startLockoutCleanup \/ Tick => requests' = requests
    BY DEF TicketNext, IssueTicket, ConsumeTicket, startLockoutCleanup, Tick
<1> QED BY <1>1, <1>2, <1>4, <1>5, <1>6, <1>7, <1>8, <1>9 DEF Next

-----------------------------------------------------------------------------
(* The invariant and what follows from it                                  *)

\* Nothing changes in a stuttering step.
LEMMA AccessStays == AccessInv /\ UNCHANGED vars => AccessInv'
<1> SUFFICES ASSUME AccessInv, UNCHANGED vars PROVE AccessInv'
    OBVIOUS
<1> USE DEF vars, stored, setup
<1>1. AccountsOK' /\ TokensOK' /\ SetupOK'
    BY DEF AccessInv, AccountsOK, TokensOK, SetupOK
<1>2. SessionsOK' /\ FailuresOK' /\ TicketsOK' /\ ClockOK'
    BY DEF AccessInv, SessionsOK, Holds, Factor, FailuresOK, TicketsOK, ClockOK
<1>3. ASSUME NEW r, Sound(r)
      PROVE  Sound(r)'
    <2>1. \A n, row : WasRow(n, row) => WasRow(n, row)'
        BY DEF WasRow, Became, Factor
    <2>2. \A session : Holds(session) => Holds(session)'
        BY DEF Holds, Factor
    <2> QED BY <1>3, <2>1, <2>2 DEF Sound, Permits
<1>4. RequestsOK'
    BY <1>3 DEF AccessInv, RequestsOK
<1> QED BY <1>1, <1>2, <1>4 DEF AccessInv

\* The invariant is inductive.
LEMMA AccessStep == AccessInv /\ [Next]_vars => AccessInv'
<1>1. ASSUME AccessInv, Next
      PROVE  AccessInv'
    BY <1>1, AccountsAdvance, TokensAdvance, SetupAdvance, SessionsAdvance, FailuresAdvance, TicketsAdvance,
       ClockAdvance, RequestsAdvance DEF AccessInv
<1> QED BY <1>1, AccessStays

\* The invariant holds in every behaviour.
LEMMA AccessAlways == Spec => []AccessInv
BY AccessInit, AccessStep, PTL DEF Spec

\* Every variable keeps its type, the ticket store its bound, and a second
\* factor that is on has a secret.
THEOREM AccessTypeCorrect == Spec => []TypeOK
<1>1. AccessInv => TypeOK
    <2> SUFFICES ASSUME AccessInv PROVE TypeOK
        OBVIOUS
    <2>1. \A a \in Addresses : failures[a] = << >> \/ Head(failures[a]) \in [count : Nat \ {0}, at : 1..MaxTime]
        BY HeadFailure DEF AccessInv, Failure
    <2>2. \A s \in Slots : requests[s].kind \in {"idle", "setup", "login", "change", "refresh", "mint", "use", "revoke"}
        <3>1. \A r \in Request : r.kind \in {"idle", "setup", "login", "change", "refresh", "mint", "use", "revoke"}
            BY DEF Request, Idle, SetupRequest, LoginRequest, ChangeRequest, RefreshRequest, MintRequest, UseRequest,
                   RevokeRequest
        <3> QED BY <3>1 DEF AccessInv, RequestsOK
    <2>3. AccountsOK /\ TokensOK /\ SetupOK /\ TicketsOK /\ ClockOK
        BY DEF AccessInv
    <2> QED BY <2>1, <2>2, <2>3 DEF AccountsOK, TokensOK, SetupOK, TicketsOK, ClockOK, TypeOK
<1> QED BY <1>1, AccessAlways, PTL

\* A session that is let in was opened with the password and the second factor
\* the account has now, less than MaxAge ago (POST /login, /auth/refresh,
\* updateAdminSecurity, AuthMiddleware).
THEOREM SessionsEntitled == Spec => []SessionsAreEntitled
<1>1. ASSUME AccessInv, NEW session \in sessions, Accepted(session)
      PROVE  /\ session.pw = admins[session.name].pw /\ session.second = Factor(admins[session.name])
             /\ now < session.born + MaxAge
    BY <1>1 DEF AccessInv, SessionsOK, Holds, Accepted, ValidateToken
<1>2. AccessInv => SessionsAreEntitled
    BY <1>1 DEF SessionsAreEntitled
<1> QED BY <1>2, AccessAlways, PTL

\* Setup that was completed stays completed, and its one-time password never
\* works again (/setup/complete, InitSetup).
THEOREM SetupStaysDone == Spec => SetupNeverReopens
<1>1. AccessInv /\ [Next]_vars => [cfgDone => cfgDone' /\ setupToken' = 0]_vars
    <2>1. ASSUME AccessInv, Next, cfgDone
          PROVE  cfgDone' /\ setupToken' = 0
        BY <2>1, SetupAdvance DEF SetupOK
    <2> QED BY <2>1
<1> QED BY <1>1, AccessAlways, PTL DEF Spec, SetupNeverReopens

\* A revoked token stays revoked, whatever the requests it made before still
\* write (revokeAPIToken, AuthMiddleware, mintToken).
THEOREM RevocationStays == Spec => RevocationSticks
<1>1. AccessInv /\ [Next]_vars => [\A t \in DOMAIN tokens : tokens[t].revoked => tokens'[t].revoked]_vars
    <2>1. ASSUME AccessInv, Next, NEW t \in DOMAIN tokens, tokens[t].revoked
          PROVE  tokens'[t].revoked
        BY <2>1, TokensAdvance DEF TokensGrow
    <2> QED BY <2>1
<1> QED BY <1>1, AccessAlways, PTL DEF Spec, RevocationSticks

-----------------------------------------------------------------------------
(* Changes of an account                                                   *)

\* A request that had checked the credentials of this version of the account.
CheckedRequest(n) ==
  \E s \in Slots : /\ At(s, "change", "write") /\ requests[s].name = n
                   /\ requests'[s] = Idle
                   /\ LET r == requests[s]
                      IN  /\ Head(r.row).pw = admins[n].pw /\ Factor(Head(r.row)) = Factor(admins[n])
                          /\ r.op \in {"password", "disable2fa"} => r.given = admins[n].pw

\* The part of an account that only such a request may change.
Credentials(row) == [row EXCEPT !.codes = {}]

\* Setup leaves the accounts that are there alone.
LEMMA CommitSetupSpares ==
  ASSUME AccessInv, NEW s \in Slots, CommitSetup(s), NEW n \in DOMAIN admins
  PROVE  admins'[n] = admins[n]
BY DEF CommitSetup

\* A recovery code that is used up changes the code list alone.
LEMMA RecoveryCodeSpares ==
  ASSUME AccessInv, NEW s \in Slots, tryRecoveryCode(s), NEW n \in DOMAIN admins
  PROVE  Credentials(admins'[n]) = Credentials(admins[n])
<1> DEFINE codes == Head(requests[s].row).codes \ {requests[s].second}
<1>1. admins' = admins \/ admins' = [admins EXCEPT ![requests[s].name].codes = codes]
    BY DEF tryRecoveryCode
<1> HIDE DEF codes
<1>2. admins'[n] = admins[n] \/ admins'[n] = [admins[n] EXCEPT !.codes = codes]
    BY <1>1 DEF AccessInv, AccountsOK
<1>3. admins[n] \in Row
    BY DEF AccessInv, AccountsOK
<1>4. Credentials([admins[n] EXCEPT !.codes = codes]) = Credentials(admins[n])
    BY <1>3 DEF Credentials, Row
<1> QED BY <1>2, <1>4

\* Who changes an account had checked this version of it.
LEMMA ChangeIsChecked ==
  ASSUME AccessInv, NEW s \in Slots, updateAdminSecurity(s), NEW n \in DOMAIN admins, admins'[n] # admins[n]
  PROVE  CheckedRequest(n)
<1> DEFINE r == requests[s]
           old == Head(r.row)
<1>1. At(s, "change", "write") /\ requests' = [requests EXCEPT ![s] = Idle]
    BY DEF updateAdminSecurity, Leave
<1>2. requests'[s] = Idle
    BY <1>1 DEF AccessInv, RequestsOK
<1>3. StillCurrent(old, admins[r.name], r.op) /\ admins' = [admins EXCEPT ![r.name] = Changed(admins[r.name], r)]
    BY DEF updateAdminSecurity
<1>4. r.name = n
    BY <1>3 DEF AccessInv, AccountsOK
<1>5. WasRow(n, old) /\ Permits(old, r)
    BY <1>1, <1>4, SoundRequest DEF AccessInv, At, Sound
<1>6. old.ver = admins[n].ver
    BY <1>3, <1>4 DEF StillCurrent
<1>7. old.pw = admins[n].pw /\ Factor(old) = Factor(admins[n])
    BY <1>5, <1>6 DEF WasRow, Became
<1>8. r.op \in {"password", "disable2fa"} => r.given = old.pw
    BY <1>5 DEF Permits
<1> QED BY <1>1, <1>2, <1>4, <1>7, <1>8 DEF CheckedRequest

\* A step changes the password or the second factor of an account only for a
\* request that had checked the credentials of this version of it
\* (updateAdminSecurity).
THEOREM ChangesAreChecked == Spec => ChangesFollowTheirCheck
<1>1. ASSUME AccessInv, Next, NEW n \in DOMAIN admins, Credentials(admins[n]) # Credentials(admins'[n])
      PROVE  CheckedRequest(n)
    <2>1. admins'[n] # admins[n]
        BY <1>1
    <2>2. \E s \in Slots : CommitSetup(s) \/ tryRecoveryCode(s) \/ updateAdminSecurity(s)
        BY <1>1, <2>1, AccountWriters
    <2> QED BY <1>1, <2>1, <2>2, CommitSetupSpares, RecoveryCodeSpares, ChangeIsChecked
<1>2. AccessInv /\ [Next]_vars =>
        [\A n \in DOMAIN admins : Credentials(admins[n]) # Credentials(admins'[n]) => CheckedRequest(n)]_vars
    BY <1>1
<1>3. Spec => [][\A n \in DOMAIN admins : Credentials(admins[n]) # Credentials(admins'[n]) => CheckedRequest(n)]_vars
    BY <1>2, AccessAlways, PTL DEF Spec
<1> QED BY <1>3 DEF ChangesFollowTheirCheck, Credentials, CheckedRequest

-----------------------------------------------------------------------------
(* Lockouts                                                                *)

\* How a lockout of address a goes on, or why it does not.
LockGoesOn(a) ==
  \/ /\ failures'[a] # << >>
     /\ Head(failures'[a]).count >= Head(failures[a]).count /\ Head(failures'[a]).at >= Head(failures[a]).at
  \/ requests' = [s \in Slots |-> Idle] /\ tickets' = {}
  \/ \E s \in Slots : /\ Departs(s) /\ requests[s].kind = "login" /\ requests[s].addr = a
                      /\ requests[s].phase \in {"pass", "forget"}

\* A step ends a lockout only as LockGoesOn says.
LEMMA LockGoesOnStep ==
  ASSUME AccessInv, Next, NEW a \in Addresses, LockState(a) = "locked"
  PROVE  LockGoesOn(a)
<1>1. /\ failures[a] # << >> /\ Head(failures[a]).count >= MaxFailures /\ now - Head(failures[a]).at < LockFor
      /\ Head(failures[a]).count \in Nat /\ Head(failures[a]).at \in Nat /\ Head(failures[a]).at <= now /\ now \in Nat
    <2>1. FailuresOK /\ now \in Nat
        BY LimitAssumption DEF AccessInv, ClockOK
    <2>2. failures[a] # << >> /\ ~(Head(failures[a]).count < MaxFailures) /\ now - Head(failures[a]).at < LockFor
        BY DEF LockState
    <2>3. Head(failures[a]).count \in Nat /\ Head(failures[a]).at \in Nat /\ Head(failures[a]).at <= now
        <3>1. Earned(failures[a], history.failed[a])
            BY <2>1, EarnedFailures
        <3>2. Head(failures[a]).count \in Nat /\ Head(failures[a]).at \in Nat
            BY <2>1, <2>2, EarnedFailures, LimitAssumption
        <3> QED BY <2>2, <3>1, <3>2 DEF Earned
    <2> QED BY <2>1, <2>2, <2>3, LimitAssumption
<1>2. failures \in [Addresses -> Seq(Failure)] /\ requests \in [Slots -> Request]
    BY DEF AccessInv, FailuresOK, RequestsOK
<1>3. CASE failures'[a] = failures[a]
    BY <1>1, <1>3 DEF LockGoesOn
<1>4. CASE FailuresUnchanged
    BY <1>3, <1>4 DEF FailuresUnchanged
<1>5. CASE Restart
    BY <1>5 DEF Restart, LockGoesOn
<1>6. CASE startLockoutCleanup
    <2>1. failures'[a] = failures[a]
        BY <1>1, <1>6, LimitAssumption DEF startLockoutCleanup, Swept
    <2> QED BY <1>3, <2>1
<1>7. ASSUME NEW s \in Slots, recordLoginFailure(s)
      PROVE  LockGoesOn(a)
    <2> DEFINE b == requests[s].addr
               old == Head(failures[b]).count
               e == [count |-> (IF failures[b] = << >> THEN 0 ELSE old) + 1, at |-> now]
    <2>1. failures' = [failures EXCEPT ![b] = <<e>>]
        BY <1>7 DEF recordLoginFailure
    <2>2. CASE a # b
        BY <1>2, <1>3, <2>1, <2>2
    <2>3. CASE a = b
        <3>1. failures'[a] = <<e>> /\ e.count = Head(failures[a]).count + 1 /\ e.at = now
            BY <1>1, <1>2, <2>1, <2>3
        <3> HIDE DEF e
        <3>2. failures'[a] # << >> /\ Head(failures'[a]) = e
            BY <3>1
        <3> QED BY <1>1, <3>1, <3>2 DEF LockGoesOn
    <2> QED BY <2>2, <2>3
<1>8. ASSUME NEW s \in Slots, ForgetExpired(s)
      PROVE  LockGoesOn(a)
    <2> DEFINE r == requests[s]
    <2>1. r \in LoginRequest /\ r.kind = "login" /\ r.phase = "forget"
        BY <1>8, SoundRequest, RequestKinds DEF AccessInv, ForgetExpired, At
    <2>2. CASE r.addr # a
        <3>1. failures'[a] = failures[a]
            BY <1>2, <1>8, <2>2 DEF ForgetExpired
        <3> QED BY <1>3, <3>1
    <2>3. CASE r.addr = a
        <3>1. requests'[s] = InPhase(r, "check")
            BY <1>2, <1>8 DEF ForgetExpired, Advance
        <3> DEFINE new == InPhase(r, "check")
        <3>2. new.phase = "check"
            BY <2>1, LoginPhase
        <3>3. requests'[s] # r
            BY <2>1, <3>1, <3>2
        <3> QED BY <2>1, <2>3, <3>3 DEF LockGoesOn, Departs
    <2> QED BY <2>2, <2>3
<1>9. ASSUME NEW s \in Slots, FinishLogin(s)
      PROVE  LockGoesOn(a)
    <2> DEFINE r == requests[s]
    <2>1. r.kind = "login" /\ r.phase = "pass" /\ requests'[s] = Idle
        BY <1>2, <1>9 DEF FinishLogin, At, Leave
    <2>2. CASE r.addr # a
        <3>1. failures'[a] = failures[a]
            BY <1>2, <1>9, <2>2 DEF FinishLogin, clearLoginFailures
        <3> QED BY <1>3, <3>1
    <2>3. CASE r.addr = a
        <3>1. requests'[s] # r
            BY <2>1 DEF Idle
        <3> QED BY <2>1, <2>3, <3>1 DEF LockGoesOn, Departs
    <2> QED BY <2>2, <2>3
<1>10. FailuresOK
    BY DEF AccessInv
<1> QED BY <1>4, <1>5, <1>6, <1>7, <1>8, <1>9, <1>10, FailureWriters

\* An address is locked out only for failures that happened since its last
\* login, and a lockout goes on until it has run out, but for a restart, a
\* login from the address or a check that saw the one before run out
\* (recordLoginFailure, clearLoginFailures, checkIPLockout, startLockoutCleanup).
THEOREM LockoutsHold == Spec => LocksHold
<1>1. AccessInv => LocksAreEarned
    BY DEF AccessInv, FailuresOK, LocksAreEarned
<1>2. AccessInv /\ [Next]_vars => [\A a \in Addresses : LockState(a) = "locked" => LockGoesOn(a)]_vars
    BY LockGoesOnStep
<1>3. Spec => []LocksAreEarned
    BY <1>1, AccessAlways, PTL
<1>4. Spec => [][\A a \in Addresses : LockState(a) = "locked" => LockGoesOn(a)]_vars
    BY <1>2, AccessAlways, PTL DEF Spec
<1>5. Spec => LocksLast
    BY <1>4 DEF LocksLast, LockGoesOn
<1> QED BY <1>3, <1>5 DEF LocksHold

-----------------------------------------------------------------------------
(* Terminal tickets                                                        *)

Ticket == [id : Nat \ {0}, addr : Addresses, issued : 1..MaxTime, expires : Nat]

\* A ticket that is pending has opened nothing, and no two have one number.
TicketsInv ==
  /\ history.opened \in Seq(Nat) /\ IsFiniteSet(history.issued) /\ Cardinality(history.issued) = Len(history.opened)
  /\ history.issued \subseteq Ticket /\ tickets \subseteq history.issued
  /\ \A t \in history.issued : t.id <= Len(history.opened) /\ t.issued <= now
  /\ \A t, u \in history.issued : t.id = u.id => t = u
  /\ \A t \in tickets : history.opened[t.id] = 0
  /\ TicketsHold


\* The store's own bookkeeping changes only with its two operations and a restart.
TicketsUnchanged ==
  /\ tickets' = tickets /\ history'.opened = history.opened /\ history'.issued = history.issued
  /\ history'.presented = history.presented

LEMMA TicketWriters ==
  ASSUME FailuresOK, Next
  PROVE  TicketsUnchanged \/ Restart \/ (\E a \in Addresses : IssueTicket(a))
         \/ \E t \in history.issued, a \in Addresses : ConsumeTicket(t, a)
<1>1. DOMAIN history = {"opened", "issued", "presented", "codes", "failed", "drawn"}
    BY DEF FailuresOK
<1>2. tickets' = tickets /\ history' = history => TicketsUnchanged
    BY DEF TicketsUnchanged
<1>3. tickets' = tickets /\ (\E f : history' = [history EXCEPT !.failed = f]) => TicketsUnchanged
    BY <1>1 DEF TicketsUnchanged
<1>4. tickets' = tickets /\ (\E f : history' = [history EXCEPT !.codes = f]) => TicketsUnchanged
    BY <1>1 DEF TicketsUnchanged
<1>5. tickets' = tickets /\ (\E f : history' = [history EXCEPT !.drawn = f]) => TicketsUnchanged
    BY <1>1 DEF TicketsUnchanged
<1>6. SetupNext \/ startLockoutCleanup \/ RefreshNext \/ TokenNext \/ Tick => TicketsUnchanged
    BY <1>2 DEF SetupNext, SetupLogin, BeginSetup, CommitSetup, FinishSetup, startLockoutCleanup, RefreshNext,
           BeginRefresh, FinishRefresh, TokenNext, BeginMint, BeginUse, BeginRevoke, FinishMint, Touch,
           revokeAPIToken, Tick
<1>7. ASSUME NEW s \in Slots
      PROVE  ForgetExpired(s) \/ CheckCredentials(s) \/ tryRecoveryCode(s) \/ recordLoginFailure(s)
             \/ FinishLogin(s) => TicketsUnchanged
    <2>1. ForgetExpired(s) \/ CheckCredentials(s) => TicketsUnchanged
        BY <1>2 DEF ForgetExpired, CheckCredentials
    <2>2. tryRecoveryCode(s) => TicketsUnchanged
        BY <1>2, <1>4 DEF tryRecoveryCode
    <2>3. recordLoginFailure(s) => TicketsUnchanged
        BY <1>3 DEF recordLoginFailure
    <2>4. FinishLogin(s) => TicketsUnchanged
        BY <1>3 DEF FinishLogin
    <2> QED BY <2>1, <2>2, <2>3, <2>4
<1>8. LoginNext => TicketsUnchanged
    BY <1>2, <1>7 DEF LoginNext, BeginLogin
<1>9. \A s, session, op, given, new : BeginChange(s, session, op, given, new) => TicketsUnchanged
    BY <1>5 DEF BeginChange
<1>10. ChangeNext => TicketsUnchanged
    BY <1>2, <1>9 DEF ChangeNext, ReadForChange, updateAdminSecurity
<1> QED BY <1>6, <1>8, <1>10 DEF Next, TicketNext

LEMMA TicketsStart == Init => TicketsInv
<1> SUFFICES ASSUME Init PROVE TicketsInv
    OBVIOUS
<1>1. history.opened = << >> /\ history.issued = {} /\ tickets = {}
    BY DEF Init
<1>2. IsFiniteSet({}) /\ Cardinality({}) = 0
    BY FS_EmptySet
<1>3. << >> \in Seq(Nat) /\ Len(<< >>) = 0
    BY EmptySeq
<1> QED BY <1>1, <1>2, <1>3 DEF TicketsInv, TicketsHold

\* As time goes by the tickets that were issued stay as good or run out.
LEMMA TicketsWait ==
  ASSUME TicketsInv, now \in Nat, now' \in Nat, now <= now', tickets' \subseteq tickets,
         history'.opened = history.opened, history'.issued = history.issued,
         history.presented \cup (tickets \ tickets') \subseteq history'.presented
  PROVE  TicketsInv'
<1>1. \A t \in history.issued : t.issued \in Nat /\ t.expires \in Nat
    BY LimitAssumption DEF TicketsInv, Ticket
<1>2. \A t \in history.issued : t.issued <= now'
    BY <1>1 DEF TicketsInv
<1>3. TicketsHold'
    BY <1>1 DEF TicketsInv, TicketsHold
<1> QED BY <1>2, <1>3 DEF TicketsInv

\* Issuing pushes out a ticket only when as many younger ones are there as the
\* store holds, and numbers the new one as no other.
LEMMA IssueKeeps ==
  ASSUME AccessInv, TicketsInv, NEW a \in Addresses, IssueTicket(a)
  PROVE  TicketsInv'
<1> DEFINE old == history.issued
           counts == history.opened
           pending == Live(tickets)
           new == [id |-> Cardinality(old) + 1, addr |-> a, issued |-> now, expires |-> now + TicketTTL]
<1>1. DOMAIN history = {"opened", "issued", "presented", "codes", "failed", "drawn"} /\ now \in 1..MaxTime
      /\ MaxTime \in Nat /\ MaxTickets \in Nat /\ TicketTTL \in Nat
    BY LimitAssumption DEF AccessInv, FailuresOK, ClockOK
<1>2. /\ IsFiniteSet(old) /\ counts \in Seq(Nat) /\ Cardinality(old) = Len(counts) /\ old \subseteq Ticket
      /\ Len(counts) \in Nat /\ DOMAIN counts = 1..Len(counts)
    BY DEF TicketsInv
<1>3. history'.issued = old \cup {new} /\ history'.opened = Append(counts, 0)
      /\ history'.presented = history.presented /\ now' = now
    BY <1>1 DEF IssueTicket
<1>4. new \in Ticket /\ new.id = Len(counts) + 1 /\ new.issued = now
    BY <1>1, <1>2 DEF Ticket
<1>5. PICK room \in WithRoom(pending) : tickets' = room \cup {new}
    BY DEF IssueTicket
<1>6. pending \subseteq tickets /\ (\A t \in tickets \ pending : now > t.expires)
    BY <1>1 DEF Live, TicketsInv, Ticket
<1>7. room \subseteq pending
    BY <1>5 DEF WithRoom
<1> HIDE DEF new, old, counts, pending
<1>8. new \notin old
    BY <1>2, <1>4 DEF TicketsInv, old, counts
<1>9. IsFiniteSet(old \cup {new}) /\ Cardinality(old \cup {new}) = Cardinality(old) + 1
    BY <1>2, <1>8, FS_AddElement
<1>10. /\ Append(counts, 0) \in Seq(Nat) /\ Len(Append(counts, 0)) = Len(counts) + 1
       /\ Append(counts, 0)[Len(counts) + 1] = 0
       /\ \A i \in 1..Len(counts) : Append(counts, 0)[i] = counts[i]
    BY <1>2
<1>11. \A t \in old : t.id \in 1..Len(counts) /\ t.issued <= now /\ t.issued \in Nat /\ t.expires \in Nat
    BY <1>1, <1>2 DEF TicketsInv, old, counts, Ticket
<1>12. \A t, u \in old \cup {new} : t.id = u.id => t = u
    BY <1>2, <1>4, <1>11 DEF TicketsInv, old
<1>13. tickets' \subseteq old \cup {new}
    BY <1>5, <1>6, <1>7 DEF TicketsInv, old
<1>14. \A t \in tickets' : Append(counts, 0)[t.id] = 0
    <2>1. \A t \in room : counts[t.id] = 0 /\ t.id \in 1..Len(counts)
        BY <1>6, <1>7, <1>11 DEF TicketsInv, counts, old
    <2> QED BY <1>4, <1>5, <1>10, <2>1
<1>15. ASSUME NEW t \in old \cup {new}
       PROVE  /\ Append(counts, 0)[t.id] <= 1
              /\ \/ t \in tickets' \/ t \in history.presented \/ now > t.expires
                 \/ Cardinality({x \in (old \cup {new}) \ {t} : x.issued >= t.issued}) >= MaxTickets
    <2>1. CASE t = new
        BY <1>4, <1>5, <1>10, <2>1
    <2> SUFFICES ASSUME t \in old, t # new
                 PROVE  /\ Append(counts, 0)[t.id] <= 1
                        /\ \/ t \in tickets' \/ t \in history.presented \/ now > t.expires
                           \/ Cardinality({x \in (old \cup {new}) \ {t} : x.issued >= t.issued}) >= MaxTickets
        BY <2>1
    <2> DEFINE before == {x \in old \ {t} : x.issued >= t.issued}
               after  == {x \in (old \cup {new}) \ {t} : x.issued >= t.issued}
    <2>2. Append(counts, 0)[t.id] <= 1
        BY <1>10, <1>11 DEF TicketsInv, TicketsHold, counts, old
    <2>3. /\ \/ t \in tickets \/ t \in history.presented \/ now > t.expires
             \/ Cardinality(before) >= MaxTickets
        BY DEF TicketsInv, TicketsHold, old
    <2>4. IsFiniteSet(after)
        <3>1. after \subseteq old \cup {new}
            OBVIOUS
        <3> HIDE DEF after
        <3> QED BY <1>9, <3>1, FS_Subset
    <2>5. CASE Cardinality(before) >= MaxTickets
        <3>1. before \subseteq after
            OBVIOUS
        <3> HIDE DEF before, after
        <3>2. Cardinality(before) <= Cardinality(after) /\ Cardinality(before) \in Nat /\ Cardinality(after) \in Nat
            BY <2>4, <3>1, FS_Subset, FS_CardinalityType
        <3>3. Cardinality(after) >= MaxTickets
            BY <1>1, <2>5, <3>2
        <3> QED BY <2>2, <3>3 DEF after
    <2>6. CASE t \in pending /\ t \notin room
        <3>1. /\ ~(Cardinality(pending) < MaxTickets) /\ room = pending \ {t}
              /\ \A x \in pending : t.issued <= x.issued
            <4>1. ~(Cardinality(pending) < MaxTickets)
                BY <1>5, <2>6 DEF WithRoom
            <4>2. PICK u \in {x \in pending : \A y \in pending : x.issued <= y.issued} : room = pending \ {u}
                BY <1>5, <4>1 DEF WithRoom
            <4> QED BY <2>6, <4>1, <4>2
        <3>2. IsFiniteSet(pending) /\ Cardinality(pending) \in Nat
            BY <1>6, FS_Subset, FS_CardinalityType DEF AccessInv, TicketsOK
        <3>3. IsFiniteSet(room) /\ Cardinality(room) = Cardinality(pending) - 1
            BY <2>6, <3>1, <3>2, FS_RemoveElement
        <3>4. new \notin room
            BY <1>6, <1>7, <1>8 DEF TicketsInv, old
        <3>5. Cardinality(room \cup {new}) = Cardinality(pending)
            <4>1. Cardinality(room \cup {new}) = Cardinality(room) + 1
                BY <3>3, <3>4, FS_AddElement
            <4> QED BY <3>2, <3>3, <4>1
        <3>6. room \cup {new} \subseteq after
            <4>1. \A x \in room : x \in old /\ x # t /\ x.issued >= t.issued
                <5>1. \A x \in room : x \in old /\ x # t /\ t.issued <= x.issued
                    BY <1>6, <1>7, <3>1 DEF TicketsInv, old
                <5> QED BY <1>11, <5>1
            <4>2. new.issued >= t.issued
                BY <1>1, <1>4, <1>11
            <4> QED BY <4>1, <4>2
        <3> HIDE DEF after
        <3>7. Cardinality(room \cup {new}) <= Cardinality(after) /\ Cardinality(after) \in Nat
            BY <2>4, <3>6, FS_Subset, FS_CardinalityType
        <3>8. Cardinality(after) >= MaxTickets
            BY <1>1, <3>1, <3>2, <3>5, <3>7
        <3> QED BY <2>2, <3>8 DEF after
    <2>7. t \in tickets => t \in tickets' \/ now > t.expires \/ (t \in pending /\ t \notin room)
        BY <1>5, <1>6
    <2> HIDE DEF before
    <2> QED BY <2>2, <2>3, <2>5, <2>6, <2>7
<1>16. TicketsHold'
    BY <1>3, <1>15 DEF TicketsHold
<1>17. \A t \in old \cup {new} : t.id <= Len(counts) + 1 /\ t.issued <= now
    BY <1>1, <1>2, <1>4, <1>11
<1>18. old \cup {new} \subseteq Ticket /\ Cardinality(old \cup {new}) = Len(counts) + 1
    BY <1>2, <1>4, <1>9
<1> QED BY <1>3, <1>9, <1>10, <1>12, <1>13, <1>14, <1>16, <1>17, <1>18 DEF TicketsInv

\* Presenting takes the ticket out, whether or not it opens a terminal.
LEMMA ConsumeKeeps ==
  ASSUME AccessInv, TicketsInv, NEW t \in history.issued, NEW a \in Addresses, ConsumeTicket(t, a)
  PROVE  TicketsInv'
<1> DEFINE counts == history.opened
           opens == t \in tickets /\ now <= t.expires /\ t.addr = a
<1>1. DOMAIN history = {"opened", "issued", "presented", "codes", "failed", "drawn"} /\ now' = now
    BY DEF AccessInv, FailuresOK, ConsumeTicket
<1>2. /\ counts \in Seq(Nat) /\ Len(counts) \in Nat /\ DOMAIN counts = 1..Len(counts)
      /\ t.id \in 1..Len(counts) /\ tickets \subseteq history.issued
      /\ \A u \in history.issued : u.id \in 1..Len(counts) /\ counts[u.id] \in Nat /\ counts[u.id] <= 1
    <2>1. counts \in Seq(Nat) /\ Len(counts) \in Nat /\ DOMAIN counts = 1..Len(counts)
        BY DEF TicketsInv
    <2>2. \A u \in history.issued : u.id \in Nat \ {0} /\ u.id <= Len(counts)
        BY DEF TicketsInv, Ticket
    <2>3. \A u \in history.issued : u.id \in 1..Len(counts)
        BY <2>1, <2>2
    <2>4. \A i \in 1..Len(counts) : counts[i] \in Nat
        BY <2>1
    <2>5. tickets \subseteq history.issued /\ \A u \in history.issued : counts[u.id] <= 1
        BY DEF TicketsInv, TicketsHold
    <2> QED BY <2>1, <2>3, <2>4, <2>5
<1>3. /\ tickets' = tickets \ {t} /\ history'.issued = history.issued
      /\ history'.presented = history.presented \cup {t}
      /\ history'.opened = [counts EXCEPT ![t.id] = IF opens THEN @ + 1 ELSE @]
    BY <1>1 DEF ConsumeTicket
<1>4. opens => counts[t.id] = 0
    BY DEF TicketsInv
<1> HIDE DEF opens
<1> DEFINE later == [counts EXCEPT ![t.id] = IF opens THEN @ + 1 ELSE @]
<1>5. later[t.id] = (IF opens THEN counts[t.id] + 1 ELSE counts[t.id])
      /\ \A i \in 1..Len(counts) : i # t.id => later[i] = counts[i]
    BY <1>2
<1>6. later \in Seq(Nat) /\ Len(later) = Len(counts)
    <2>1. \A n \in Nat : [counts EXCEPT ![t.id] = n] \in Seq(Nat) /\ Len([counts EXCEPT ![t.id] = n]) = Len(counts)
        BY <1>2
    <2>2. counts[t.id] \in Nat /\ (IF opens THEN counts[t.id] + 1 ELSE counts[t.id]) \in Nat
        BY <1>2
    <2> QED BY <2>1, <2>2
<1> HIDE DEF later
<1>7. \A u \in history.issued : u # t => u.id # t.id
    BY DEF TicketsInv
<1>8. \A u \in history.issued : later[u.id] <= 1
    <2>1. later[t.id] <= 1
        <3>1. CASE opens
            BY <1>4, <1>5, <3>1
        <3>2. CASE ~opens
            BY <1>2, <1>5, <3>2
        <3> QED BY <3>1, <3>2
    <2> QED BY <1>2, <1>5, <2>1
<1>9. \A u \in tickets \ {t} : later[u.id] = 0
    BY <1>2, <1>5, <1>7 DEF TicketsInv
<1>10. history'.opened = later
    BY <1>3 DEF later
<1>11. TicketsHold'
    BY <1>1, <1>3, <1>8, <1>10 DEF TicketsInv, TicketsHold
<1> QED BY <1>1, <1>3, <1>6, <1>9, <1>10, <1>11 DEF TicketsInv

LEMMA TicketsStep == AccessInv /\ TicketsInv /\ [Next]_vars => TicketsInv'
<1> SUFFICES ASSUME AccessInv, TicketsInv, [Next]_vars PROVE TicketsInv'
    OBVIOUS
<1>1. FailuresOK /\ now \in Nat
    BY LimitAssumption DEF AccessInv, ClockOK
<1>2. CASE UNCHANGED vars
    BY <1>1, <1>2, TicketsWait DEF vars
<1>3. CASE Next
    <2>1. now' \in Nat /\ now <= now'
        BY <1>3, ClockAdvance, LimitAssumption DEF ClockOK
    <2>2. CASE TicketsUnchanged
        BY <1>1, <2>1, <2>2, TicketsWait DEF TicketsUnchanged
    <2>3. CASE Restart
        <3>1. DOMAIN history = {"opened", "issued", "presented", "codes", "failed", "drawn"}
            BY <1>1 DEF FailuresOK
        <3>2. /\ tickets' = {} /\ history'.opened = history.opened /\ history'.issued = history.issued
              /\ history'.presented = history.presented \cup tickets
            BY <2>3, <3>1 DEF Restart
        <3> QED BY <1>1, <2>1, <3>2, TicketsWait
    <2> QED BY <1>1, <1>3, <2>2, <2>3, IssueKeeps, ConsumeKeeps, TicketWriters
<1> QED BY <1>2, <1>3

\* A ticket opens one terminal at most, and is lost early only to tickets no
\* older than it that fill the store (IssueTicket, ConsumeTicket).
THEOREM TicketsAreKept == Spec => []TicketsHold
<1>1. TicketsInv => TicketsHold
    BY DEF TicketsInv
<1> QED BY <1>1, AccessAlways, TicketsStart, TicketsStep, PTL DEF Spec

-----------------------------------------------------------------------------
(* Recovery codes                                                          *)

Unspent(codes) == \A c \in codes : history.codes[c] = 0

\* A request that offers an account a second factor; a login that uses a code.
Offering(r)  == r.kind = "change" /\ r.op = "setup2fa"
Consuming(r) == r.kind = "login" /\ r.phase = "consume"

SecretsFresh ==
  /\ \A x \in Secrets \ history.drawn : Unspent(CodesOf[x])
  /\ \A n \in DOMAIN admins : admins[n].secret \in history.drawn \cup {None}
OfferFresh(s) ==
  Offering(requests[s]) =>
    /\ requests[s].new \in history.drawn /\ Unspent(CodesOf[requests[s].new])
    /\ \A n \in DOMAIN admins : admins[n].secret # requests[s].new
    /\ \A q \in Slots : Offering(requests[q]) /\ requests[q].new = requests[s].new => q = s
OffersFresh == \A s \in Slots : OfferFresh(s)
ListsFresh == \A n \in DOMAIN admins : Unspent(admins[n].codes)
CodesKnown ==
  \A s \in Slots : Consuming(requests[s]) => requests[s].second \in Head(requests[s].row).codes

\* No account has a code that was used, nor will one get it back: the codes of
\* a secret reach one account, by the one request that drew the secret.
CodesInv ==
  /\ DOMAIN history.codes = RecoveryCodes /\ CodesWorkOnce
  /\ OwnSecrets(admins) /\ SecretsFresh /\ OffersFresh /\ CodesKnown /\ ListsFresh

CodesUnchanged == history'.codes = history.codes /\ history'.drawn = history.drawn

\* A slot that changes does not come to offer or to use anything.
QuietRequests ==
  \A s \in Slots : requests'[s] = requests[s] \/ (~Offering(requests'[s]) /\ ~Consuming(requests'[s]))

\* One slot gets another request.
LEMMA QuietSlot ==
  ASSUME AccessInv, NEW s \in Slots, NEW r, requests' = [requests EXCEPT ![s] = r], ~Offering(r), ~Consuming(r)
  PROVE  QuietRequests
BY DEF AccessInv, RequestsOK, QuietRequests

LEMMA QuietLeave ==
  ASSUME AccessInv, NEW s \in Slots, Leave(s)
  PROVE  QuietRequests
<1>1. ~Offering(Idle) /\ ~Consuming(Idle)
    BY DEF Offering, Consuming, Idle
<1> QED BY <1>1, QuietSlot DEF Leave

\* The parts of the history that are not about codes.
LEMMA OtherHistory ==
  ASSUME FailuresOK
  PROVE  /\ history' = history => CodesUnchanged
         /\ \A f : history' = [history EXCEPT !.failed = f] => CodesUnchanged
         /\ \A f, g : history' = [history EXCEPT !.failed = f, !.presented = g] => CodesUnchanged
         /\ \A f, g : history' = [history EXCEPT !.issued = f, !.opened = g] => CodesUnchanged
         /\ \A f, g : history' = [history EXCEPT !.presented = f, !.opened = g] => CodesUnchanged
BY DEF FailuresOK, CodesUnchanged

CodeStep(s) ==
  \/ CommitSetup(s) \/ CheckCredentials(s) \/ tryRecoveryCode(s) \/ ReadForChange(s) \/ updateAdminSecurity(s)
  \/ \E session \in sessions, x \in Secrets \ history.drawn : BeginChange(s, session, "setup2fa", None, x)

\* The steps that matter to recovery codes.
LEMMA CodeWriters ==
  ASSUME AccessInv, Next
  PROVE  (admins' = admins /\ CodesUnchanged /\ QuietRequests) \/ \E s \in Slots : CodeStep(s)
<1> DEFINE Quiet == admins' = admins /\ CodesUnchanged /\ QuietRequests
<1>1. FailuresOK
    BY DEF AccessInv
<1>2. ASSUME NEW s \in Slots, Leave(s), history' = history, admins' = admins
      PROVE  Quiet
    BY <1>1, <1>2, QuietLeave, OtherHistory
<1>3. ASSUME requests' = requests, history' = history, admins' = admins
      PROVE  Quiet
    BY <1>1, <1>3, OtherHistory DEF QuietRequests
<1>4. ASSUME NEW s \in Slots, NEW r, requests' = [requests EXCEPT ![s] = r], ~Offering(r), ~Consuming(r),
             history' = history, admins' = admins
      PROVE  Quiet
    BY <1>1, <1>4, QuietSlot, OtherHistory
<1>5. SetupNext => Quiet \/ \E s \in Slots : CodeStep(s)
    <2>1. \A password : SetupLogin(password) => Quiet
        BY <1>3 DEF SetupLogin, stored
    <2>2. ASSUME NEW s \in Slots, NEW name, NEW pw, BeginSetup(s, name, pw)
          PROVE  Quiet
        <3> DEFINE r == [kind |-> "setup", phase |-> "create", name |-> name, pw |-> pw]
        <3>1. requests' = [requests EXCEPT ![s] = r] /\ history' = history /\ admins' = admins
            BY <2>2 DEF BeginSetup, Arrive, stored
        <3>2. ~Offering(r) /\ ~Consuming(r)
            BY DEF Offering, Consuming
        <3> QED BY <1>4, <3>1, <3>2
    <2>3. \A s \in Slots : FinishSetup(s) => Quiet
        BY <1>2 DEF FinishSetup, stored
    <2> QED BY <2>1, <2>2, <2>3 DEF SetupNext, CodeStep
<1>6. LoginNext => Quiet \/ \E s \in Slots : CodeStep(s)
    <2>1. ASSUME NEW s \in Slots, NEW a, NEW name, NEW pw, NEW second, BeginLogin(s, a, name, pw, second)
          PROVE  Quiet
        <3> DEFINE phase == IF LockState(a) = "expired" THEN "forget" ELSE "check"
                   r == [kind |-> "login", phase |-> phase, addr |-> a, name |-> name, pw |-> pw,
                         second |-> second, row |-> << >>]
        <3>1. requests' = [requests EXCEPT ![s] = r] /\ history' = history /\ admins' = admins
            BY <2>1 DEF BeginLogin, Arrive, stored
        <3>2. ~Offering(r) /\ ~Consuming(r)
            BY DEF Offering, Consuming
        <3> HIDE DEF r
        <3> QED BY <1>4, <3>1, <3>2
    <2>2. ASSUME NEW s \in Slots, ForgetExpired(s)
          PROVE  Quiet
        <3> DEFINE r == InPhase(requests[s], "check")
        <3>1. requests' = [requests EXCEPT ![s] = r] /\ history' = history /\ admins' = admins
            BY <2>2 DEF ForgetExpired, Advance, stored
        <3>2. requests[s] \in LoginRequest
            BY <2>2, SoundRequest, RequestKinds DEF AccessInv, ForgetExpired, At
        <3>3. r.kind = "login" /\ r.phase = "check"
            BY <3>2, LoginPhase
        <3> HIDE DEF r
        <3> QED BY <1>4, <3>1, <3>3 DEF Offering, Consuming
    <2>3. ASSUME NEW s \in Slots, recordLoginFailure(s)
          PROVE  Quiet
        <3>1. Leave(s) /\ admins' = admins /\ \E f : history' = [history EXCEPT !.failed = f]
            BY <2>3 DEF recordLoginFailure, stored
        <3> QED BY <1>1, <3>1, QuietLeave, OtherHistory
    <2>4. ASSUME NEW s \in Slots, FinishLogin(s)
          PROVE  Quiet
        <3>1. Leave(s) /\ admins' = admins /\ \E f : history' = [history EXCEPT !.failed = f]
            BY <2>4 DEF FinishLogin, stored
        <3> QED BY <1>1, <3>1, QuietLeave, OtherHistory
    <2> QED BY <2>1, <2>2, <2>3, <2>4 DEF LoginNext, CodeStep
<1>7. ASSUME NEW s \in Slots, NEW session \in sessions, NEW op \in Changes \ {"setup2fa"}, NEW given, NEW new,
             BeginChange(s, session, op, given, new)
      PROVE  Quiet
    <2> DEFINE r == [kind |-> "change", phase |-> "read", op |-> op, name |-> session.name,
                     given |-> given, new |-> new, row |-> << >>]
    <2>1. requests' = [requests EXCEPT ![s] = r] /\ admins' = admins
        BY <1>7 DEF BeginChange, Arrive, stored
    <2>2. ~Offering(r) /\ ~Consuming(r)
        BY DEF Offering, Consuming
    <2>3. history' = [history EXCEPT !.drawn = history.drawn]
        BY <1>7 DEF BeginChange
    <2>4. CodesUnchanged
        BY <1>1, <2>3 DEF FailuresOK, CodesUnchanged
    <2> HIDE DEF r
    <2> QED BY <2>1, <2>2, <2>4, QuietSlot
<1>8. ChangeNext => Quiet \/ \E s \in Slots : CodeStep(s)
    BY <1>7 DEF ChangeNext, Changes, CodeStep
<1>9. RefreshNext => Quiet
    <2>1. ASSUME NEW s \in Slots, NEW session, BeginRefresh(s, session)
          PROVE  Quiet
        <3> DEFINE r == [kind |-> "refresh", phase |-> "mint", session |-> session]
        <3>1. requests' = [requests EXCEPT ![s] = r] /\ history' = history /\ admins' = admins
            BY <2>1 DEF BeginRefresh, Arrive, stored
        <3>2. ~Offering(r) /\ ~Consuming(r)
            BY DEF Offering, Consuming
        <3> QED BY <1>4, <3>1, <3>2
    <2>2. \A s \in Slots : FinishRefresh(s) => Quiet
        BY <1>2 DEF FinishRefresh, stored
    <2> QED BY <2>1, <2>2 DEF RefreshNext
<1>10. TokenNext => Quiet
    <2>1. ASSUME NEW s \in Slots, NEW t, BeginMint(s, t) \/ BeginUse(s, t) \/ BeginRevoke(s, t)
          PROVE  Quiet
        <3>1. history' = history /\ admins' = admins
            BY <2>1 DEF BeginMint, BeginUse, BeginRevoke, stored
        <3>2. \A r : requests' = [requests EXCEPT ![s] = r] /\ r.kind \in {"mint", "use", "revoke"} => Quiet
            BY <1>4, <3>1 DEF Offering, Consuming
        <3> HIDE DEF Quiet
        <3>3. CASE BeginMint(s, t)
            <4> DEFINE r == [kind |-> "mint", phase |-> "insert", token |-> t]
            <4>1. requests' = [requests EXCEPT ![s] = r] /\ r.kind = "mint"
                BY <3>3 DEF BeginMint, Arrive
            <4> HIDE DEF r
            <4> QED BY <3>2, <4>1
        <3>4. CASE BeginUse(s, t)
            <4> DEFINE r == [kind |-> "use", phase |-> "touch", token |-> t, row |-> tokens[t], at |-> now]
            <4>1. requests' = [requests EXCEPT ![s] = r] /\ r.kind = "use"
                BY <3>4 DEF BeginUse, Arrive
            <4> HIDE DEF r
            <4> QED BY <3>2, <4>1
        <3>5. CASE BeginRevoke(s, t)
            <4> DEFINE r == [kind |-> "revoke", phase |-> "save", token |-> t, row |-> tokens[t]]
            <4>1. requests' = [requests EXCEPT ![s] = r] /\ r.kind = "revoke"
                BY <3>5 DEF BeginRevoke, Arrive
            <4> HIDE DEF r
            <4> QED BY <3>2, <4>1
        <3> QED BY <2>1, <3>3, <3>4, <3>5
    <2>2. \A s \in Slots : FinishMint(s) \/ Touch(s) \/ revokeAPIToken(s) => Quiet
        BY <1>2 DEF FinishMint, Touch, revokeAPIToken
    <2> QED BY <2>1, <2>2 DEF TokenNext
<1>11. TicketNext => Quiet
    <2>1. ASSUME NEW a, IssueTicket(a)
          PROVE  Quiet
        <3>1. admins' = admins /\ requests' = requests /\ \E f, g : history' = [history EXCEPT !.issued = f, !.opened = g]
            BY <2>1 DEF IssueTicket, stored
        <3> QED BY <1>1, <3>1, OtherHistory DEF QuietRequests
    <2>2. ASSUME NEW t, NEW a, ConsumeTicket(t, a)
          PROVE  Quiet
        <3>1. admins' = admins /\ requests' = requests
            BY <2>2 DEF ConsumeTicket, stored
        <3>2. \E f, n : history' = [history EXCEPT !.presented = f, !.opened[t.id] = n]
            BY <2>2 DEF ConsumeTicket
        <3>3. CodesUnchanged
            BY <1>1, <3>2 DEF FailuresOK, CodesUnchanged
        <3> QED BY <3>1, <3>3 DEF QuietRequests
    <2> QED BY <2>1, <2>2 DEF TicketNext
<1>12. Restart => Quiet
    <2> SUFFICES ASSUME Restart PROVE Quiet
        OBVIOUS
    <2>1. /\ admins' = admins /\ requests' = [s \in Slots |-> Idle]
          /\ \E f, g : history' = [history EXCEPT !.failed = f, !.presented = g]
        BY DEF Restart, stored
    <2>2. ~Offering(Idle) /\ ~Consuming(Idle)
        BY DEF Offering, Consuming, Idle
    <2> QED BY <1>1, <2>1, <2>2, OtherHistory DEF QuietRequests
<1>13. startLockoutCleanup \/ Tick => Quiet
    BY <1>3 DEF startLockoutCleanup, Tick, stored
<1> HIDE DEF Quiet
<1>14. Quiet \/ \E s \in Slots : CodeStep(s)
    BY <1>5, <1>6, <1>8, <1>9, <1>10, <1>11, <1>12, <1>13 DEF Next
<1> QED BY <1>14 DEF Quiet

\* What is unspent stays so while no code is used.
LEMMA QuietCodes ==
  ASSUME CodesInv, admins' = admins, CodesUnchanged, QuietRequests
  PROVE  CodesInv'
<1>2. OffersFresh'
    BY DEF CodesInv, OffersFresh, OfferFresh, QuietRequests, CodesUnchanged, Unspent
<1>3. CodesKnown'
    BY DEF CodesInv, CodesKnown, QuietRequests
<1>4. SecretsFresh' /\ ListsFresh' /\ CodesWorkOnce' /\ DOMAIN history'.codes = RecoveryCodes
    BY DEF CodesInv, SecretsFresh, ListsFresh, CodesWorkOnce, CodesUnchanged, Unspent
<1> QED BY <1>2, <1>3, <1>4 DEF CodesInv

\* The account that setup creates has neither secret nor codes.
LEMMA CommitSetupCodes ==
  ASSUME AccessInv, CodesInv, NEW s \in Slots, CommitSetup(s)
  PROVE  CodesInv'
<1> DEFINE r == requests[s]
<1>1. r \in SetupRequest
    BY SoundRequest, RequestKinds DEF AccessInv, CommitSetup, At
<1>2. CodesUnchanged /\ history' = history
    BY DEF CommitSetup, CodesUnchanged
<1>3. QuietRequests
    <2> DEFINE new == InPhase(r, "finish")
    <2>1. new.kind = "setup"
        BY <1>1 DEF SetupRequest, InPhase
    <2>2. requests' = [requests EXCEPT ![s] = new] \/ Leave(s)
        BY DEF CommitSetup, Advance
    <2> HIDE DEF new
    <2> QED BY <2>1, <2>2, QuietSlot, QuietLeave DEF Offering, Consuming
<1>4. CASE admins' = admins
    BY <1>2, <1>3, <1>4, QuietCodes
<1>5. CASE r.name \notin DOMAIN admins
    <2>1. admins' = [n \in DOMAIN admins \cup {r.name} |-> IF n = r.name THEN NewAdmin(r.pw) ELSE admins[n]]
        BY <1>5 DEF CommitSetup
    <2>2. /\ DOMAIN admins' = DOMAIN admins \cup {r.name} /\ \A n \in DOMAIN admins : admins'[n] = admins[n]
          /\ admins'[r.name].secret = None /\ admins'[r.name].codes = {}
        BY <1>5, <2>1 DEF NewAdmin
    <2>3. \A x \in Secrets : x # None
        BY SecretAssumption
    <2>5. OwnSecrets(admins')
        BY <2>2 DEF CodesInv, OwnSecrets
    <2>6. OffersFresh'
        <3> SUFFICES ASSUME NEW q \in Slots, Offering(requests'[q]) PROVE OfferFresh(q)'
            BY DEF OffersFresh, OfferFresh
        <3>1. requests'[q] = requests[q]
            BY <1>3 DEF QuietRequests
        <3>2. requests[q].new # None
            BY <3>1, <2>3, SoundRequest DEF AccessInv, Sound, Offering
        <3> QED BY <1>2, <1>3, <2>2, <3>1, <3>2 DEF CodesInv, OffersFresh, OfferFresh, Unspent, QuietRequests
    <2>7. SecretsFresh' /\ ListsFresh'
        BY <1>2, <2>2 DEF CodesInv, SecretsFresh, ListsFresh, Unspent
    <2>8. CodesKnown' /\ CodesWorkOnce' /\ DOMAIN history'.codes = RecoveryCodes
        BY <1>2, <1>3 DEF CodesInv, CodesKnown, CodesWorkOnce, QuietRequests
    <2> QED BY <2>5, <2>6, <2>7, <2>8 DEF CodesInv
<1> QED BY <1>4, <1>5 DEF CommitSetup

\* A login tries a code only if it is on the list it has read.
LEMMA CheckCodes ==
  ASSUME AccessInv, CodesInv, NEW s \in Slots, CheckCredentials(s)
  PROVE  CodesInv'
<1> DEFINE r == requests[s]
           known == r.name \in DOMAIN admins
           verdict == IF known THEN Verdict(admins[r.name], r) ELSE "fail"
           row == IF known THEN <<admins[r.name]>> ELSE << >>
           new == [r EXCEPT !.phase = verdict, !.row = row]
<1>1. r \in LoginRequest
    BY SoundRequest, RequestKinds DEF AccessInv, CheckCredentials, At
<1>2. history' = history /\ admins' = admins /\ CodesUnchanged
    BY DEF CheckCredentials, CodesUnchanged, stored
<1>3. CASE Leave(s)
    BY <1>2, <1>3, QuietLeave, QuietCodes
<1>4. CASE requests' = [requests EXCEPT ![s] = new]
    <2>1. new.kind = "login" /\ new.phase = verdict /\ new.row = row /\ new.second = r.second
        BY <1>1 DEF LoginRequest
    <2>2. verdict = "consume" => r.second \in admins[r.name].codes /\ row = <<admins[r.name]>>
        BY DEF Verdict
    <2> HIDE DEF new, verdict, row
    <2>3. Consuming(new) => new.second \in Head(new.row).codes
        BY <2>1, <2>2 DEF Consuming
    <2>4. ~Offering(new)
        BY <2>1 DEF Offering
    <2>5. /\ requests'[s] = new /\ \A q \in Slots : q # s => requests'[q] = requests[q]
        BY <1>4 DEF AccessInv, RequestsOK
    <2>6. CodesKnown'
        BY <2>3, <2>5 DEF CodesInv, CodesKnown
    <2>7. OffersFresh'
        BY <1>2, <2>4, <2>5 DEF CodesInv, OffersFresh, OfferFresh, Unspent
    <2>8. SecretsFresh' /\ CodesWorkOnce' /\ ListsFresh'
        BY <1>2 DEF CodesInv, SecretsFresh, ListsFresh, CodesWorkOnce, Unspent
    <2> QED BY <1>2, <2>6, <2>7, <2>8 DEF CodesInv
<1> QED BY <1>3, <1>4 DEF CheckCredentials, Advance

\* A change that has read its row offers what it offered.
LEMMA ReadCodes ==
  ASSUME AccessInv, CodesInv, NEW s \in Slots, ReadForChange(s)
  PROVE  CodesInv'
<1> DEFINE r == requests[s]
           row == <<admins[r.name]>>
           new == [r EXCEPT !.phase = "write", !.row = row]
<1>1. r \in ChangeRequest
    BY SoundRequest, RequestKinds DEF AccessInv, ReadForChange, At
<1>2. history' = history /\ admins' = admins /\ CodesUnchanged
    BY DEF ReadForChange, CodesUnchanged, stored
<1>3. CASE Leave(s)
    BY <1>2, <1>3, QuietLeave, QuietCodes
<1>4. CASE requests' = [requests EXCEPT ![s] = new]
    <2> HIDE DEF row
    <2>1. new.kind = "change" /\ new.op = r.op /\ new.new = r.new /\ r.kind = "change"
        BY <1>1 DEF ChangeRequest
    <2> HIDE DEF new
    <2>2. ~Consuming(new) /\ (Offering(new) <=> Offering(r))
        BY <2>1 DEF Offering, Consuming
    <2>3. /\ requests'[s] = new /\ \A q \in Slots : q # s => requests'[q] = requests[q]
        BY <1>4 DEF AccessInv, RequestsOK
    <2>4. \A q \in Slots : /\ Offering(requests'[q]) <=> Offering(requests[q])
                           /\ Offering(requests[q]) => requests'[q].new = requests[q].new
        BY <2>1, <2>2, <2>3
    <2>5. CodesKnown'
        BY <2>2, <2>3 DEF CodesInv, CodesKnown
    <2>6. OffersFresh'
        BY <1>2, <2>4 DEF CodesInv, OffersFresh, OfferFresh, Unspent
    <2>7. SecretsFresh' /\ CodesWorkOnce' /\ ListsFresh'
        BY <1>2 DEF CodesInv, SecretsFresh, ListsFresh, CodesWorkOnce, Unspent
    <2> QED BY <1>2, <2>5, <2>6, <2>7 DEF CodesInv
<1> QED BY <1>3, <1>4 DEF ReadForChange, Advance

\* The secret that a setup draws is new, and so are its codes.
LEMMA DrawCodes ==
  ASSUME AccessInv, CodesInv, NEW s \in Slots, NEW session \in sessions, NEW x \in Secrets \ history.drawn,
         BeginChange(s, session, "setup2fa", None, x)
  PROVE  CodesInv'
<1> DEFINE new == [kind |-> "change", phase |-> "read", op |-> "setup2fa", name |-> session.name,
                   given |-> None, new |-> x, row |-> << >>]
<1>1. requests' = [requests EXCEPT ![s] = new] /\ admins' = admins
    BY DEF BeginChange, Arrive, stored
<1>2. history'.codes = history.codes /\ history'.drawn = history.drawn \cup {x}
    <2>1. history' = [history EXCEPT !.drawn = history.drawn \cup {x}]
        BY DEF BeginChange
    <2> QED BY <2>1 DEF AccessInv, FailuresOK
<1>3. Offering(new) /\ ~Consuming(new) /\ new.new = x
    BY DEF Offering, Consuming
<1> HIDE DEF new
<1>4. /\ requests'[s] = new /\ \A q \in Slots : q # s => requests'[q] = requests[q]
    BY <1>1 DEF AccessInv, RequestsOK
<1>6. CodesKnown'
    BY <1>3, <1>4 DEF CodesInv, CodesKnown
<1>7. Unspent(CodesOf[x]) /\ x # None /\ \A n \in DOMAIN admins : admins[n].secret # x
    BY SecretAssumption DEF CodesInv, SecretsFresh
<1>8. \A q \in Slots : Offering(requests[q]) => requests[q].new # x
    BY DEF CodesInv, OffersFresh, OfferFresh
<1>9. OffersFresh'
    <2> SUFFICES ASSUME NEW q \in Slots, Offering(requests'[q]) PROVE OfferFresh(q)'
        BY DEF OffersFresh, OfferFresh
    <2>1. CASE q = s
        BY <1>1, <1>2, <1>3, <1>4, <1>7, <1>8, <2>1 DEF OfferFresh, Unspent
    <2>2. CASE q # s
        <3>1. requests'[q] = requests[q] /\ requests[q].new # x
            BY <1>4, <1>8, <2>2
        <3> QED BY <1>1, <1>2, <1>3, <1>4, <3>1 DEF CodesInv, OffersFresh, OfferFresh, Unspent
    <2> QED BY <2>1, <2>2
<1>10. SecretsFresh' /\ CodesWorkOnce' /\ ListsFresh'
    BY <1>1, <1>2 DEF CodesInv, SecretsFresh, ListsFresh, CodesWorkOnce, Unspent
<1> QED BY <1>1, <1>2, <1>6, <1>9, <1>10 DEF CodesInv

\* A secret brings its codes to one account; other changes bring none.
LEMMA ChangeCodes ==
  ASSUME AccessInv, CodesInv, NEW s \in Slots, updateAdminSecurity(s)
  PROVE  CodesInv'
<1> DEFINE r == requests[s]
           name == r.name
           row == Changed(admins[name], r)
<1>1. r \in ChangeRequest /\ r.kind = "change" /\ (r.op = "setup2fa" => r.new \in Secrets)
    BY SoundRequest, RequestKinds DEF AccessInv, updateAdminSecurity, At, Sound
<1>2. history' = history /\ CodesUnchanged /\ QuietRequests /\ requests'[s] = Idle
    <2>1. history' = history /\ Leave(s)
        BY DEF updateAdminSecurity
    <2>2. requests'[s] = Idle
        BY <2>1 DEF Leave, AccessInv, RequestsOK
    <2> QED BY <2>1, <2>2, QuietLeave DEF CodesUnchanged
<1>3. CASE admins' = admins
    BY <1>2, <1>3, QuietCodes
<1>4. CASE admins' = [admins EXCEPT ![name] = row]
    <2>1. name \in DOMAIN admins /\ admins[name] \in Row
        BY SoundRequest DEF AccessInv, AccountsOK, updateAdminSecurity, At, Sound
    <2>2. \/ row.secret = admins[name].secret /\ row.codes = admins[name].codes
          \/ row.secret = None /\ row.codes = {}
          \/ r.op = "setup2fa" /\ row.secret = r.new /\ row.codes = CodesOf[r.new]
        BY <1>1, <2>1 DEF Changed, Row, ChangeRequest, Changes
    <2>3. /\ DOMAIN admins' = DOMAIN admins /\ admins'[name] = row
          /\ \A n \in DOMAIN admins : n # name => admins'[n] = admins[n]
        BY <1>4, <2>1 DEF AccessInv, AccountsOK
    <2> HIDE DEF row
    <2>4. \A x \in Secrets : x # None
        BY SecretAssumption
    <2>6. r.op = "setup2fa" =>
            /\ r.new \in history.drawn /\ r.new # None /\ Unspent(CodesOf[r.new])
            /\ \A n \in DOMAIN admins : admins[n].secret # r.new
        BY <1>1, <2>4 DEF CodesInv, OffersFresh, OfferFresh, Offering
    <2>7. OwnSecrets(admins')
        <3>1. \A n \in DOMAIN admins' : admins'[n].codes \subseteq IF admins'[n].secret = None THEN {} ELSE CodesOf[admins'[n].secret]
            BY <2>1, <2>2, <2>3, <2>6 DEF CodesInv, OwnSecrets
        <3>2. \A n, m \in DOMAIN admins' : n # m /\ admins'[n].secret # None => admins'[m].secret # admins'[n].secret
            BY <2>1, <2>2, <2>3, <2>6 DEF CodesInv, OwnSecrets
        <3> QED BY <3>1, <3>2 DEF OwnSecrets
    <2>8. SecretsFresh' /\ ListsFresh'
        <3>1. \A n \in DOMAIN admins' : admins'[n].secret \in history'.drawn \cup {None}
            BY <1>2, <2>1, <2>2, <2>3, <2>6 DEF CodesInv, SecretsFresh
        <3>2. ListsFresh'
            BY <1>2, <2>1, <2>2, <2>3, <2>6 DEF CodesInv, ListsFresh, Unspent
        <3> QED BY <1>2, <3>1, <3>2 DEF CodesInv, SecretsFresh, Unspent
    <2>9. OffersFresh'
        <3> SUFFICES ASSUME NEW q \in Slots, Offering(requests'[q]) PROVE OfferFresh(q)'
            BY DEF OffersFresh, OfferFresh
        <3>1. q # s /\ requests'[q] = requests[q]
            BY <1>2 DEF QuietRequests, Offering, Idle
        <3>2. requests[q].new # None
            BY <2>4, <3>1, SoundRequest DEF AccessInv, Sound, Offering
        <3>3. r.op = "setup2fa" => requests[q].new # r.new
            BY <1>1, <3>1 DEF CodesInv, OffersFresh, OfferFresh, Offering
        <3>4. admins[name].secret # requests[q].new
            BY <2>1, <3>1 DEF CodesInv, OffersFresh, OfferFresh
        <3>5. row.secret # requests[q].new
            BY <2>2, <3>2, <3>3, <3>4
        <3>6. \A n \in DOMAIN admins' : admins'[n].secret # requests'[q].new
            BY <2>1, <2>3, <3>1, <3>5 DEF CodesInv, OffersFresh, OfferFresh
        <3>7. \A p \in Slots : Offering(requests'[p]) => requests'[p] = requests[p]
            BY <1>2 DEF QuietRequests
        <3> QED BY <1>2, <3>1, <3>6, <3>7 DEF CodesInv, OffersFresh, OfferFresh, Unspent
    <2>10. CodesKnown' /\ CodesWorkOnce' /\ DOMAIN history'.codes = RecoveryCodes
        BY <1>2 DEF CodesInv, CodesKnown, CodesWorkOnce, QuietRequests
    <2> QED BY <2>7, <2>8, <2>9, <2>10 DEF CodesInv
<1> QED BY <1>3, <1>4 DEF updateAdminSecurity

\* A code that is used was on the list of one account, and is on none then.
LEMMA UseCode ==
  ASSUME AccessInv, CodesInv, NEW s \in Slots, tryRecoveryCode(s)
  PROVE  CodesInv'
<1> DEFINE r == requests[s]
           name == r.name
           c == r.second
           own == admins[name].secret
           rest == Head(r.row).codes \ {c}
<1>1. /\ r \in LoginRequest /\ Consuming(r) /\ name \in DOMAIN admins /\ admins[name] \in Row
      /\ c \in Head(r.row).codes
    <2>1. r \in LoginRequest /\ At(s, "login", "consume")
        BY SoundRequest, RequestKinds DEF AccessInv, tryRecoveryCode, At
    <2>2. name \in DOMAIN admins /\ admins[name] \in Row
        BY <2>1, SoundRequest DEF AccessInv, AccountsOK, At, Sound, WasRow
    <2> QED BY <2>1, <2>2 DEF CodesInv, CodesKnown, Consuming, At
<1>2. QuietRequests
    <2>1. PICK phase \in {"pass", "fail"} : requests' = [requests EXCEPT ![s] = InPhase(r, phase)]
        BY DEF tryRecoveryCode, Advance
    <2> DEFINE new == InPhase(r, phase)
    <2>2. requests' = [requests EXCEPT ![s] = new]
        BY <2>1
    <2>3. new.kind = "login" /\ new.phase = phase
        BY <1>1, LoginPhase
    <2> HIDE DEF new
    <2> QED BY <2>2, <2>3, QuietSlot DEF Offering, Consuming
<1>3. CASE admins' = admins /\ history' = history
    BY <1>2, <1>3, QuietCodes DEF CodesUnchanged
<1>4. CASE /\ CodeStillThere(Head(r.row), admins[name])
           /\ admins' = [admins EXCEPT ![name].codes = rest]
           /\ history' = [history EXCEPT !.codes[c] = @ + 1]
    <2>1. c \in admins[name].codes /\ rest = admins[name].codes \ {c}
        BY <1>1, <1>4 DEF CodeStillThere
    <2>2. own \in Secrets /\ own # None /\ c \in CodesOf[own] /\ history.codes[c] = 0 /\ own \in history.drawn
        BY <1>1, <2>1 DEF CodesInv, OwnSecrets, ListsFresh, SecretsFresh, Unspent, Row
    <2>3. /\ history'.drawn = history.drawn /\ DOMAIN history'.codes = RecoveryCodes /\ history'.codes[c] = 1
          /\ \A d \in RecoveryCodes : d # c => history'.codes[d] = history.codes[d]
        <3>1. history'.drawn = history.drawn /\ history'.codes = [history.codes EXCEPT ![c] = @ + 1]
            BY <1>4 DEF AccessInv, FailuresOK
        <3>2. c \in RecoveryCodes /\ DOMAIN history.codes = RecoveryCodes
            BY <2>2 DEF RecoveryCodes, CodesInv
        <3> HIDE DEF c
        <3> QED BY <2>2, <3>1, <3>2
    <2>4. /\ DOMAIN admins' = DOMAIN admins /\ \A n \in DOMAIN admins : n # name => admins'[n] = admins[n]
          /\ admins'[name].codes = rest /\ admins'[name].secret = own
        <3>1. admins' = [admins EXCEPT ![name] = [admins[name] EXCEPT !.codes = rest]]
            BY <1>4
        <3> HIDE DEF rest
        <3>2. admins'[name] = [admins[name] EXCEPT !.codes = rest]
            BY <1>1, <3>1 DEF AccessInv, AccountsOK
        <3>3. admins'[name].codes = rest /\ admins'[name].secret = own
            BY <1>1, <3>2 DEF Row
        <3> QED BY <1>1, <3>1, <3>3 DEF AccessInv, AccountsOK
    <2> HIDE DEF rest
    <2>5. \A n \in DOMAIN admins : admins'[n].codes \subseteq admins[n].codes /\ admins'[n].secret = admins[n].secret
        BY <2>1, <2>4
    <2>6. \A x \in Secrets : x # own => c \notin CodesOf[x]
        BY <2>2, SecretAssumption
    <2>7. \A x \in Secrets : CodesOf[x] \subseteq RecoveryCodes
        BY DEF RecoveryCodes
    <2> HIDE DEF own, c
    <2>8. \A x \in Secrets : x # own /\ Unspent(CodesOf[x]) => \A d \in CodesOf[x] : history'.codes[d] = 0
        BY <2>3, <2>6, <2>7 DEF Unspent
    <2>9. OwnSecrets(admins')
        <3>1. \A n \in DOMAIN admins : admins'[n].codes \subseteq IF admins'[n].secret = None THEN {} ELSE CodesOf[admins'[n].secret]
            BY <2>5 DEF CodesInv, OwnSecrets
        <3> QED BY <2>4, <2>5, <3>1 DEF CodesInv, OwnSecrets
    <2>10. SecretsFresh'
        BY <2>2, <2>3, <2>4, <2>5, <2>8 DEF CodesInv, SecretsFresh, Unspent
    <2>11. ListsFresh'
        <3> SUFFICES ASSUME NEW n \in DOMAIN admins, NEW d \in admins'[n].codes PROVE history'.codes[d] = 0
            BY <2>4 DEF ListsFresh, Unspent
        <3>1. d \in admins[n].codes /\ history.codes[d] = 0
            BY <2>5 DEF CodesInv, ListsFresh, Unspent
        <3>2. admins[n].secret \in Secrets /\ d \in CodesOf[admins[n].secret]
            BY <3>1 DEF AccessInv, AccountsOK, Row, CodesInv, OwnSecrets
        <3>3. d # c
            <4>1. CASE n = name
                BY <2>1, <2>4, <4>1
            <4>2. CASE n # name
                <5>1. admins[n].secret # own
                    BY <1>1, <2>2, <4>2 DEF CodesInv, OwnSecrets, own
                <5> QED BY <2>6, <3>2, <5>1
            <4> QED BY <4>1, <4>2
        <3> QED BY <2>3, <2>7, <3>1, <3>2, <3>3
    <2>12. OffersFresh'
        <3> SUFFICES ASSUME NEW q \in Slots, Offering(requests'[q]) PROVE OfferFresh(q)'
            BY DEF OffersFresh, OfferFresh
        <3>1. requests'[q] = requests[q] /\ Offering(requests[q])
            BY <1>2 DEF QuietRequests
        <3>2. requests[q].new \in Secrets
            BY <3>1, SoundRequest DEF AccessInv, Sound, Offering
        <3>3. /\ requests[q].new \in history.drawn /\ Unspent(CodesOf[requests[q].new])
              /\ \A n \in DOMAIN admins : admins[n].secret # requests[q].new
              /\ \A p \in Slots : Offering(requests[p]) /\ requests[p].new = requests[q].new => p = q
            BY <3>1 DEF CodesInv, OffersFresh, OfferFresh
        <3>4. requests[q].new # own
            BY <1>1, <3>3 DEF own
        <3>5. \A d \in CodesOf[requests[q].new] : history'.codes[d] = 0
            BY <2>8, <3>2, <3>3, <3>4
        <3>6. \A p \in Slots : Offering(requests'[p]) => requests'[p] = requests[p]
            BY <1>2 DEF QuietRequests
        <3> QED BY <2>3, <2>4, <2>5, <3>1, <3>3, <3>5, <3>6 DEF OfferFresh, Unspent
    <2>13. CodesKnown'
        BY <1>2 DEF CodesInv, CodesKnown, QuietRequests
    <2>14. CodesWorkOnce'
        BY <2>3 DEF CodesInv, CodesWorkOnce
    <2> QED BY <2>3, <2>9, <2>10, <2>11, <2>12, <2>13, <2>14 DEF CodesInv
<1> QED BY <1>3, <1>4 DEF tryRecoveryCode

LEMMA CodesStart == Init => CodesInv
<1> SUFFICES ASSUME Init PROVE CodesInv
    OBVIOUS
<1> PICK start \in Starts :
        /\ admins = start.admins /\ history.drawn = {start.admins[n].secret : n \in DOMAIN start.admins}
        /\ history.codes = [c \in RecoveryCodes |-> 0] /\ requests = [s \in Slots |-> Idle]
    BY DEF Init
<1>1. /\ OwnSecrets(admins)
      /\ \A n \in DOMAIN admins : admins[n] \in Row
    BY StartAssumption
<1>2. \A codes \in SUBSET RecoveryCodes : Unspent(codes)
    BY DEF Unspent
<1>3. SecretsFresh /\ ListsFresh
    BY <1>1, <1>2 DEF SecretsFresh, ListsFresh, RecoveryCodes, Row
<1>4. OffersFresh /\ CodesKnown
    BY DEF OffersFresh, OfferFresh, CodesKnown, Offering, Consuming, Idle
<1>5. CodesWorkOnce /\ DOMAIN history.codes = RecoveryCodes
    BY DEF CodesWorkOnce
<1> QED BY <1>1, <1>3, <1>4, <1>5 DEF CodesInv

LEMMA CodesStep == AccessInv /\ CodesInv /\ [Next]_vars => CodesInv'
<1>1. ASSUME AccessInv, CodesInv, Next
      PROVE  CodesInv'
    BY <1>1, CodeWriters, QuietCodes, CommitSetupCodes, CheckCodes, UseCode, ReadCodes, ChangeCodes, DrawCodes
       DEF CodeStep
<1>2. ASSUME AccessInv, CodesInv, UNCHANGED vars
      PROVE  CodesInv'
    BY <1>2, QuietCodes DEF vars, stored, CodesUnchanged, QuietRequests
<1> QED BY <1>1, <1>2

\* A recovery code passes one login, whoever presents it at the same time and
\* however the second factor is set up, turned on and off in between
\* (tryRecoveryCode, /admin/2fa/setup, /admin/2fa/verify, /admin/2fa/disable).
THEOREM CodesPassOnce == Spec => []CodesWorkOnce
<1>1. CodesInv => CodesWorkOnce
    BY DEF CodesInv
<1> QED BY <1>1, AccessAlways, CodesStart, CodesStep, PTL DEF Spec
=============================================================================
