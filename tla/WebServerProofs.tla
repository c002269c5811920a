--------------------------- MODULE WebServerProofs ---------------------------
(***************************************************************************)
(* Proofs about WebServer for any sites, callers, domains and bounds: once *)
(* everything is quiet, the listeners are those of the sites table.        *)
(*                                                                         *)
(* The argument: a change of the table leaves a caller that waits to       *)
(* reload, so a reload that nobody waits behind has read the table as it   *)
(* is (Current) and leaves its listeners (Matches); a server that exists   *)
(* and does not listen is owed a bind by a goroutine (Owed); and a caller  *)
(* between its Stop and its Start is alone with closed listeners           *)
(* (Challenge), so that it cannot find the server running and leave        *)
(* without the reload that puts them back.                                 *)
(***************************************************************************)
EXTENDS WebServer, TLAPS

Locked == {"building", "nested"}
Between == {"challenging", "answering", "restarting"}
Tables == [Sites -> RowSet]
JobType == [op : Ops, site : Sites \cup {NoJob.site}, copy : RowSet, issued : BOOLEAN]

TypeInv ==
    /\ row \in Tables
    /\ mu \in Callers \cup {NoCaller} /\ lego \in Callers \cup {NoCaller}
    /\ running \in BOOLEAN
    /\ srv \in [Ports -> {"nil", "made", "listening"}]
    /\ mux \in [Ports -> SUBSET Sites]
    /\ certs \subseteq Sites
    /\ spawned \in [Ports -> Nat]
    /\ panel \in {"booting", "up", "panicked"}
    /\ pc \in [Callers -> Phases]
    /\ job \in [Callers -> JobType]
    /\ loaded \in [Callers -> Tables]
    /\ ops \in Nat /\ faults \in Nat
    /\ flawed \in BOOLEAN /\ overlapped \in BOOLEAN

\* Whoever reads the table or builds from it holds Manager.mu; whoever answers
\* a challenge holds port 80; nobody does anything before the boot.
LocksInv ==
    /\ \A c \in Callers : pc[c] \in Locked => mu = c
    /\ \A c \in Callers : pc[c] = "answering" <=> lego = c
    /\ panel = "booting" => \A c \in Callers : pc[c] = "idle"

\* Between its Stop and its Start a caller is alone with a stopped server.
Challenge ==
    \A c \in Callers : pc[c] \in Between =>
        /\ ~running
        /\ \A p \in Ports : srv[p] = "nil"
        /\ \A d \in Callers \ {c} : pc[d] \notin Between \cup Locked

\* A server that exists and does not listen has a goroutine that will bind it.
Owed == \A p \in Ports : srv[p] = "made" => spawned[p] > 0

\* A reload that nobody waits behind has read the table as it is.
Current ==
    \A c \in Callers :
        pc[c] = "building" /\ (\A d \in Callers : pc[d] # "waiting") => loaded[c] = row

\* The servers, their handlers and the certificates are those of a table.
Matches(table) ==
    /\ IF On(table) = {} THEN srv["http"] = "nil" ELSE srv["http"] # "nil" /\ mux["http"] = On(table)
    /\ On(table) # {} /\ certs # {} => srv["https"] # "nil" /\ mux["https"] = On(table)
    /\ WithTLS(table, "custom") \subseteq certs /\ certs \subseteq On(table)

\* With nobody on the way to a reload, the last one stands.
Settled ==
    Up /\ ~flawed /\ (\A c \in Callers : pc[c] \notin {"waiting"} \cup Locked \cup Between)
        => Matches(row)

ServeInv == ~overlapped => Challenge /\ Owed /\ Current /\ Settled
WebInv == TypeInv /\ LocksInv /\ ServeInv

-----------------------------------------------------------------------------
(* Lemmas about the end of a reload                                        *)

\* A reload panics, or installs the sites it read, or skips some and says so.
LEMMA FinishCases ==
    ASSUME NEW sites, NEW loadable, Finish(sites, loadable)
    PROVE  \/ panel' = "panicked" /\ UNCHANGED <<srv, mux, certs, spawned, faults, flawed>>
           \/ panel' = "up" /\ flawed' = FALSE /\ NoFault /\ Install(sites, sites, loadable)
           \/ /\ panel' = "up" /\ flawed' = TRUE /\ Fault
              /\ \E handled \in SUBSET sites, withCert \in SUBSET loadable :
                    Install(sites, handled, withCert)
<1>1. CASE Clashing(sites)
    BY <1>1 DEF Finish
<1>2. CASE ~Clashing(sites)
    <2>1. \/ NoFault /\ Install(sites, sites, loadable) /\ flawed' = FALSE
          \/ Fault /\ flawed' = TRUE
             /\ \E s \in sites : \/ Install(sites, sites \ {s}, loadable \ {s})
                                \/ Install(sites, sites, loadable \ {s})
        BY <1>2 DEF Finish
    <2>2. ASSUME NEW s \in sites
          PROVE  sites \ {s} \in SUBSET sites /\ loadable \ {s} \in SUBSET loadable
        OBVIOUS
    <2>3. sites \in SUBSET sites /\ panel' = "up"
        BY <1>2 DEF Finish
    <2> QED BY <2>1, <2>2, <2>3
<1> QED BY <1>1, <1>2

LEMMA InstallTypes ==
    ASSUME TypeInv, NEW sites \in SUBSET Sites, NEW handled \in SUBSET Sites,
           NEW withCert \in SUBSET Sites, Install(sites, handled, withCert)
    PROVE  /\ srv' \in [Ports -> {"nil", "made", "listening"}]
           /\ mux' \in [Ports -> SUBSET Sites]
           /\ certs' \subseteq Sites
           /\ spawned' \in [Ports -> Nat]
<1>1. CASE sites = {}
    BY <1>1 DEF TypeInv, Install, CloseListeners
<1>2. CASE sites # {}
    BY <1>2 DEF TypeInv, Install, OpenListeners
<1> QED BY <1>1, <1>2

LEMMA FinishTypes ==
    ASSUME TypeInv, NEW sites \in SUBSET Sites, NEW loadable \in SUBSET Sites, Finish(sites, loadable)
    PROVE  /\ srv' \in [Ports -> {"nil", "made", "listening"}]
           /\ mux' \in [Ports -> SUBSET Sites]
           /\ certs' \subseteq Sites
           /\ spawned' \in [Ports -> Nat]
           /\ panel' \in {"up", "panicked"}
           /\ flawed' \in BOOLEAN /\ faults' \in Nat
<1>1. CASE panel' = "panicked" /\ UNCHANGED <<srv, mux, certs, spawned, faults, flawed>>
    BY <1>1 DEF TypeInv
<1>2. CASE panel' = "up" /\ flawed' = FALSE /\ NoFault /\ Install(sites, sites, loadable)
    BY <1>2, InstallTypes DEF TypeInv, NoFault
<1>3. ASSUME panel' = "up" /\ flawed' = TRUE /\ Fault,
             NEW handled \in SUBSET sites, NEW withCert \in SUBSET loadable,
             Install(sites, handled, withCert)
      PROVE  /\ srv' \in [Ports -> {"nil", "made", "listening"}]
             /\ mux' \in [Ports -> SUBSET Sites]
             /\ certs' \subseteq Sites
             /\ spawned' \in [Ports -> Nat]
             /\ faults' \in Nat
    <2>1. handled \in SUBSET Sites /\ withCert \in SUBSET Sites
        OBVIOUS
    <2>2. faults' \in Nat
        BY <1>3 DEF TypeInv, Fault
    <2> QED BY <1>3, <2>1, <2>2, InstallTypes
<1> QED BY <1>1, <1>2, <1>3, FinishCases

\* Installing keeps every server that exists owed, and with all handlers and
\* certificates leaves the listeners of the table that was read.
LEMMA InstallOwes ==
    ASSUME TypeInv, Owed, NEW sites, NEW handled, NEW withCert, Install(sites, handled, withCert)
    PROVE  Owed'
<1>1. CASE sites = {}
    BY <1>1 DEF TypeInv, Owed, Install, CloseListeners
<1>2. CASE sites # {}
    BY <1>2 DEF TypeInv, Owed, Install, OpenListeners
<1> QED BY <1>1, <1>2

LEMMA FinishOwes ==
    ASSUME TypeInv, Owed, NEW sites, NEW loadable, Finish(sites, loadable)
    PROVE  Owed'
<1>1. CASE UNCHANGED <<srv, spawned>>
    BY <1>1 DEF Owed
<1>2. ASSUME NEW handled, NEW withCert, Install(sites, handled, withCert)
      PROVE  Owed'
    BY <1>2, InstallOwes
<1> QED BY <1>1, <1>2, FinishCases

LEMMA InstallMatches ==
    ASSUME TypeInv, NEW table \in Tables, NEW withCert,
           Install(On(table), On(table), withCert),
           WithTLS(table, "custom") \subseteq withCert, withCert \subseteq On(table)
    PROVE  Matches(table)'
<1>1. CASE On(table) = {}
    BY <1>1 DEF Install, CloseListeners, Matches, Ports, On, WithTLS
<1>2. CASE On(table) # {}
    <2>1. "http" \in Opened /\ (certs' # {} => "https" \in Opened) /\ Opened \subseteq Ports
        BY DEF Opened, Ports
    <2>2. ASSUME NEW p \in Opened PROVE srv'[p] # "nil" /\ mux'[p] = On(table)
        BY <1>2, <2>1, <2>2 DEF Install, OpenListeners, TypeInv
    <2> QED BY <1>2, <2>1, <2>2 DEF Install, Matches
<1> QED BY <1>1, <1>2

LEMMA FinishMatches ==
    ASSUME TypeInv, NEW table \in Tables, NEW loadable, Finish(On(table), loadable),
           WithTLS(table, "custom") \subseteq loadable, loadable \subseteq On(table)
    PROVE  Up' /\ ~flawed' => Matches(table)'
BY FinishCases, InstallMatches DEF Up

\* The sites of a table are sites.
LEMMA OnSites ==
    ASSUME NEW table \in Tables
    PROVE  On(table) \in SUBSET Sites /\ \A mode : WithTLS(table, mode) \in SUBSET On(table)
BY DEF On, WithTLS

-----------------------------------------------------------------------------
(* Types and locks                                                         *)

LEMMA TypeInit == Init => TypeInv
<1> SUFFICES ASSUME Init PROVE TypeInv
    OBVIOUS
<1>1. row \in Tables
    BY WebServerAssumption DEF Init, Tables, RowSet
<1>2. NoJob \in JobType /\ NoTable \in Tables
    BY DEF NoJob, JobType, NoTable, Tables, RowSet, Off, Ops, AllTLSModes
<1> QED BY <1>1, <1>2 DEF Init, TypeInv, Phases

LEMMA TypeStep == TypeInv /\ [Next]_vars => TypeInv'
<1> SUFFICES ASSUME TypeInv, [Next]_vars PROVE TypeInv'
    OBVIOUS
<1> USE DEF Phases, Goto
<1>1. CASE UNCHANGED vars
    BY <1>1 DEF TypeInv, vars, serverVars, callerVars, boundVars, historyVars
<1>2. CASE Boot
    <2>1. CASE UNCHANGED serverVars /\ Fault /\ panel' = "up" /\ flawed' = TRUE
        BY <1>2, <2>1 DEF Boot, TypeInv, Fault, serverVars, callerVars
    <2>2. ASSUME NEW obtained \in SUBSET WithTLS(row, "acme"),
                 Finish(On(row), WithTLS(row, "custom") \cup obtained), running' = TRUE
          PROVE  TypeInv'
        <3>1. WithTLS(row, "custom") \cup obtained \in SUBSET Sites /\ On(row) \in SUBSET Sites
            BY OnSites DEF TypeInv
        <3>2. /\ srv' \in [Ports -> {"nil", "made", "listening"}] /\ mux' \in [Ports -> SUBSET Sites]
              /\ certs' \subseteq Sites /\ spawned' \in [Ports -> Nat]
              /\ panel' \in {"up", "panicked"} /\ flawed' \in BOOLEAN /\ faults' \in Nat
            BY <2>2, <3>1, FinishTypes
        <3> QED BY <1>2, <2>2, <3>2 DEF Boot, TypeInv, callerVars
    <2> QED BY <1>2, <2>1, <2>2 DEF Boot
<1>3. ASSUME NEW p \in Ports, Listen(p) PROVE TypeInv'
    BY <1>3 DEF Listen, TypeInv, callerVars, boundVars, historyVars
<1>4. ASSUME NEW c \in Callers, Edit(c) PROVE TypeInv'
    <2>1. row' \in Tables
        BY <1>4, WebServerAssumption DEF Edit, TypeInv, Tables, RowSet
    <2> QED BY <1>4, <2>1 DEF Edit, TypeInv, serverVars, historyVars
<1>5. ASSUME NEW c \in Callers, Obtain(c) PROVE TypeInv'
    <2>1. job' \in [Callers -> JobType]
        <3>1. PICK s \in Sites, o \in {"issue", "renew"} :
                job' = [job EXCEPT ![c] = [op |-> o, site |-> s, issued |-> FALSE,
                                           copy |-> IF o = "issue" THEN row[s] ELSE Off]]
            BY <1>5 DEF Obtain
        <3>2. (IF o = "issue" THEN row[s] ELSE Off) \in RowSet
            BY DEF TypeInv, Tables, Off, RowSet, AllTLSModes
        <3>3. [op |-> o, site |-> s, issued |-> FALSE,
               copy |-> IF o = "issue" THEN row[s] ELSE Off] \in JobType
            BY <3>2 DEF JobType, Ops
        <3> QED BY <3>1, <3>3 DEF TypeInv
    <2> QED BY <1>5, <2>1 DEF Obtain, TypeInv, serverVars, historyVars
<1>6. ASSUME NEW c \in Callers, Return(c) \/ ReturnIssued(c)
      PROVE  pc' \in [Callers -> Phases] /\ job' \in [Callers -> JobType]
    <2>1. NoJob \in JobType
        BY DEF NoJob, JobType, Off, Ops, RowSet, AllTLSModes
    <2> QED BY <1>6, <2>1 DEF Return, ReturnIssued, TypeInv
<1>7. ASSUME NEW c \in Callers, Load(c)
      PROVE  /\ pc' \in [Callers -> Phases] /\ job' \in [Callers -> JobType]
             /\ mu' \in Callers \cup {NoCaller} /\ loaded' \in [Callers -> Tables]
             /\ faults' \in Nat /\ flawed' \in BOOLEAN
    <2>1. CASE Read(c)
        BY <2>1 DEF Read, TypeInv, NoFault
    <2>2. CASE Fault /\ flawed' = TRUE /\ Return(c) /\ UNCHANGED <<mu, loaded>>
        BY <1>6, <2>2 DEF TypeInv, Fault
    <2> QED BY <1>7, <2>1, <2>2 DEF Load
<1>8. ASSUME NEW c \in Callers, Reload(c) PROVE TypeInv'
    BY <1>7, <1>8 DEF Reload, Meet, TypeInv, serverVars
<1>9. ASSUME NEW c \in Callers, ObtainNested(c) PROVE TypeInv'
    BY <1>9 DEF ObtainNested, TypeInv, serverVars, boundVars, historyVars
<1>10. ASSUME NEW c \in Callers, Build(c) PROVE TypeInv'
    <2>1. WithTLS(loaded[c], "custom") \in SUBSET Sites /\ On(loaded[c]) \in SUBSET Sites
        <3>1. loaded[c] \in Tables
            BY DEF TypeInv
        <3> QED BY <3>1, OnSites
    <2>2. /\ srv' \in [Ports -> {"nil", "made", "listening"}] /\ mux' \in [Ports -> SUBSET Sites]
          /\ certs' \subseteq Sites /\ spawned' \in [Ports -> Nat]
          /\ panel' \in {"up", "panicked"} /\ flawed' \in BOOLEAN /\ faults' \in Nat
        BY <1>10, <2>1, FinishTypes DEF Build
    <2>3. pc' \in [Callers -> Phases] /\ job' \in [Callers -> JobType]
        BY <1>6, <1>10 DEF Build
    <2>4. NoTable \in Tables
        BY DEF NoTable, Tables, RowSet, Off, AllTLSModes
    <2> QED BY <1>10, <2>2, <2>3, <2>4 DEF Build, TypeInv
<1>11. ASSUME NEW c \in Callers, Bounce(c) PROVE TypeInv'
    BY <1>11 DEF Bounce, CloseListeners, Meet, TypeInv, boundVars
<1>12. ASSUME NEW c \in Callers, Present(c) PROVE TypeInv'
    BY <1>12 DEF Present, TypeInv, Fault, NoFault, serverVars, historyVars
<1>13. ASSUME NEW c \in Callers, Answer(c) PROVE TypeInv'
    <2>1. job' \in [Callers -> JobType]
        BY <1>13 DEF Answer, Challenged, TypeInv, JobType
    <2>2. faults' \in Nat
        BY <1>13 DEF Answer, Challenged, TypeInv, Fault, NoFault
    <2> QED BY <1>13, <2>1, <2>2 DEF Answer, Challenged, TypeInv, serverVars, historyVars
<1>14. ASSUME NEW c \in Callers, Restart(c) PROVE TypeInv'
    <2>1. /\ pc' \in [Callers -> Phases] /\ job' \in [Callers -> JobType]
          /\ mu' \in Callers \cup {NoCaller} /\ loaded' \in [Callers -> Tables]
          /\ faults' \in Nat /\ flawed' \in BOOLEAN
        BY <1>6, <1>7, <1>14 DEF Restart, Started, TypeInv
    <2> QED BY <1>14, <2>1 DEF Restart, Meet, TypeInv, serverVars
<1>15. ASSUME NEW c \in Callers, Save(c) PROVE TypeInv'
    <2>1. [job[c].copy EXCEPT !.tls = "custom"] \in RowSet
        BY DEF TypeInv, JobType, RowSet, AllTLSModes
    <2>2. row' \in Tables
        BY <1>15, <2>1 DEF Save, TypeInv, Tables
    <2>3. NoJob \in JobType
        BY DEF NoJob, JobType, Off, Ops, RowSet, AllTLSModes
    <2> QED BY <1>15, <2>2, <2>3 DEF Save, TypeInv, serverVars, boundVars, historyVars
<1> QED BY <1>1, <1>2, <1>3, <1>4, <1>5, <1>8, <1>9, <1>10, <1>11, <1>12, <1>13, <1>14, <1>15
        DEF Next, CallerStep

LEMMA LocksInit == Init => LocksInv
BY WebServerAssumption DEF Init, LocksInv, Locked

LEMMA LocksStep == TypeInv /\ LocksInv /\ [Next]_vars => LocksInv'
<1> SUFFICES ASSUME TypeInv, LocksInv, [Next]_vars PROVE LocksInv'
    OBVIOUS
<1>1. /\ pc \in [Callers -> Phases]
      /\ \A c \in Callers : c # NoCaller
    BY WebServerAssumption DEF TypeInv
<1>2. CASE UNCHANGED vars
    BY <1>2 DEF LocksInv, vars, callerVars
<1>3. CASE Boot
    <2>1. panel' \in {"up", "panicked"}
        BY <1>3, FinishCases DEF Boot
    <2> QED BY <1>3, <2>1 DEF Boot, LocksInv, callerVars
<1>4. ASSUME NEW p \in Ports, Listen(p) PROVE LocksInv'
    BY <1>4 DEF Listen, LocksInv, callerVars
<1>5. ASSUME NEW c \in Callers, Edit(c) \/ Obtain(c) \/ Save(c) PROVE LocksInv'
    BY <1>1, <1>5 DEF Edit, Obtain, Save, LocksInv, Goto, Up, Locked
<1>6. ASSUME NEW c \in Callers, Up, Load(c), pc[c] \notin Locked \cup {"answering"},
             UNCHANGED <<lego, panel>>
      PROVE  LocksInv'
    BY <1>1, <1>6 DEF Load, Read, Return, LocksInv, Goto, Up, Locked
<1>7. ASSUME NEW c \in Callers, Reload(c) PROVE LocksInv'
    BY <1>6, <1>7 DEF Reload, Locked
<1>8. ASSUME NEW c \in Callers, ObtainNested(c) PROVE LocksInv'
    BY <1>1, <1>8 DEF ObtainNested, LocksInv, Goto, Up, Locked
<1>9. ASSUME NEW c \in Callers, Build(c) PROVE LocksInv'
    <2>1. panel' \in {"up", "panicked"}
        BY <1>9, FinishCases DEF Build
    <2>2. mu = c
        BY <1>9 DEF Build, LocksInv, Locked
    <2>3. /\ pc'[c] \in {"idle", "saving"}
          /\ \A d \in Callers \ {c} : pc'[d] = pc[d]
        BY <1>1, <1>9 DEF Build, ReturnIssued, Return, Goto
    <2> QED BY <1>9, <2>1, <2>2, <2>3 DEF Build, LocksInv, Locked
<1>10. ASSUME NEW c \in Callers, Bounce(c) PROVE LocksInv'
    BY <1>1, <1>10 DEF Bounce, LocksInv, Goto, Up, Locked
<1>11. ASSUME NEW c \in Callers, Present(c) PROVE LocksInv'
    BY <1>1, <1>11 DEF Present, LocksInv, Goto, Up, Locked
<1>12. ASSUME NEW c \in Callers, Answer(c) PROVE LocksInv'
    BY <1>1, <1>12 DEF Answer, Challenged, LocksInv, Goto, Up, Locked
<1>13. ASSUME NEW c \in Callers, Restart(c) PROVE LocksInv'
    <2>1. CASE Started(c)
        BY <1>1, <1>13, <2>1 DEF Restart, Started, ReturnIssued, Return, LocksInv, Goto, Up, Locked
    <2>2. CASE Load(c)
        BY <1>6, <1>13, <2>2 DEF Restart, Locked
    <2> QED BY <1>13, <2>1, <2>2 DEF Restart
<1> QED BY <1>2, <1>3, <1>4, <1>5, <1>7, <1>8, <1>9, <1>10, <1>11, <1>12, <1>13 DEF Next, CallerStep

-----------------------------------------------------------------------------
(* The listeners                                                           *)

LEMMA ServeInit == Init => ServeInv
BY WebServerAssumption DEF Init, ServeInv, Challenge, Owed, Current, Settled, Up, Between, Locked

\* Loading the table, by a caller that met nobody between Stop and Start.
LEMMA LoadServes ==
    ASSUME TypeInv, LocksInv, Challenge, Owed, Current, Settled, Up,
           NEW c \in Callers, Load(c), pc[c] \in {"waiting", "restarting"}, ~MeetsChallenge(c),
           UNCHANGED <<row, serverVars, panel>>
    PROVE  Challenge' /\ Owed' /\ Current' /\ Settled'
<1>1. /\ pc \in [Callers -> Phases] /\ loaded \in [Callers -> Tables]
      /\ \A d \in Callers : d # NoCaller
    BY WebServerAssumption DEF TypeInv
<1>2. Owed'
    BY DEF Owed, serverVars
<1>3. \A d \in Callers \ {c} : pc[d] \notin Between \cup Locked /\ pc'[d] = pc[d]
    BY <1>1 DEF MeetsChallenge, Load, Read, Return, Goto, LocksInv, Between, Locked
<1>4. CASE Read(c)
    <2>1. pc'[c] = "building" /\ loaded'[c] = row
        BY <1>1, <1>4 DEF Read, Goto
    <2> QED BY <1>2, <1>3, <2>1 DEF Challenge, Current, Settled, Between, Locked
<1>5. CASE flawed' = TRUE /\ Return(c) /\ UNCHANGED <<mu, loaded>>
    <2>1. pc'[c] = "idle"
        BY <1>1, <1>5 DEF Return, Goto
    <2> QED BY <1>2, <1>3, <1>5, <2>1 DEF Challenge, Current, Settled, Between, Locked
<1> QED BY <1>4, <1>5 DEF Load

LEMMA BootServes ==
    ASSUME TypeInv, LocksInv, Challenge, Owed, Current, Boot
    PROVE  Challenge' /\ Owed' /\ Current' /\ Settled'
<1>1. \A c \in Callers : pc'[c] = "idle"
    BY DEF Boot, LocksInv, callerVars
<1>2. Challenge' /\ Current'
    BY <1>1 DEF Challenge, Current, Between
<1>3. CASE panel' = "up" /\ flawed' = TRUE /\ UNCHANGED serverVars
    BY <1>2, <1>3 DEF Owed, Settled, serverVars
<1>4. ASSUME NEW obtained \in SUBSET WithTLS(row, "acme"),
             Finish(On(row), WithTLS(row, "custom") \cup obtained)
      PROVE  Owed' /\ Settled'
    <2>1. row \in Tables /\ row' = row
        BY DEF TypeInv, Boot
    <2>2. WithTLS(row, "custom") \cup obtained \subseteq On(row)
        BY <2>1, OnSites
    <2>3. Up' /\ ~flawed' => Matches(row)'
        BY <1>4, <2>1, <2>2, FinishMatches DEF Matches
    <2> QED BY <1>4, <2>1, <2>3, FinishOwes DEF Settled
<1> QED BY <1>2, <1>3, <1>4 DEF Boot

LEMMA BuildServes ==
    ASSUME TypeInv, LocksInv, Challenge, Owed, Current, NEW c \in Callers, Build(c)
    PROVE  Challenge' /\ Owed' /\ Current' /\ Settled'
<1>1. pc \in [Callers -> Phases] /\ loaded \in [Callers -> Tables]
    BY DEF TypeInv
<1>2. /\ pc[c] = "building" /\ mu = c
      /\ pc'[c] \in {"idle", "saving"}
      /\ \A d \in Callers \ {c} : pc'[d] = pc[d] /\ loaded'[d] = loaded[d]
    BY <1>1 DEF Build, ReturnIssued, Return, Goto, LocksInv, Locked
<1>3. \A d \in Callers \ {c} : pc[d] \notin Between \cup Locked
    BY <1>2 DEF Challenge, LocksInv, Locked
<1>4. Challenge' /\ Current'
    BY <1>2, <1>3 DEF Challenge, Current, Between, Locked
<1>5. Owed'
    BY FinishOwes DEF Build
<1>6. ASSUME Up', ~flawed', \A d \in Callers : pc'[d] # "waiting"
      PROVE  Matches(row)'
    <2>1. loaded[c] = row /\ row' = row /\ row \in Tables
        BY <1>2, <1>6 DEF Current, Build, TypeInv
    <2>2. WithTLS(row, "custom") \subseteq On(row)
        BY <2>1, OnSites
    <2> QED BY <1>6, <2>1, <2>2, FinishMatches DEF Build, Matches
<1> QED BY <1>4, <1>5, <1>6 DEF Settled

LEMMA ServeStep == TypeInv /\ LocksInv /\ ServeInv /\ [Next]_vars => ServeInv'
<1> SUFFICES ASSUME TypeInv, LocksInv, ServeInv, [Next]_vars, ~overlapped'
             PROVE  Challenge' /\ Owed' /\ Current' /\ Settled'
    BY DEF ServeInv
<1>1. /\ pc \in [Callers -> Phases] /\ loaded \in [Callers -> Tables]
      /\ srv \in [Ports -> {"nil", "made", "listening"}] /\ spawned \in [Ports -> Nat]
      /\ \A c \in Callers : c # NoCaller
    BY WebServerAssumption DEF TypeInv
<1>2. ~overlapped
    BY DEF Next, vars, historyVars, Boot, Listen, Edit, Obtain, CallerStep, Reload, ObtainNested, Build,
           Bounce, Present, Answer, Challenged, Restart, Save, Meet
<1>3. Challenge /\ Owed /\ Current /\ Settled
    BY <1>2 DEF ServeInv
<1>4. CASE UNCHANGED vars
    BY <1>3, <1>4 DEF Challenge, Owed, Current, Settled, Matches, Up, vars, serverVars, callerVars, historyVars
<1>5. CASE Boot
    BY <1>3, <1>5, BootServes
<1>6. ASSUME NEW p \in Ports, Listen(p) PROVE Challenge' /\ Owed' /\ Current' /\ Settled'
    <2>1. UNCHANGED <<row, running, mux, certs, callerVars, flawed>>
        BY <1>6 DEF Listen, historyVars
    <2>2. CASE srv[p] = "nil"
        <3>1. panel' = "panicked" /\ srv' = srv /\ \A q \in Ports : q # p => spawned'[q] = spawned[q]
            BY <1>1, <1>6, <2>2 DEF Listen
        <3> QED BY <1>3, <2>1, <2>2, <3>1 DEF Challenge, Owed, Current, Settled, Up, callerVars
    <2>3. CASE srv[p] # "nil"
        <3>1. ~(p = "http" /\ lego # NoCaller)
            <4> SUFFICES ASSUME p = "http", lego # NoCaller PROVE FALSE
                OBVIOUS
            <4>1. lego \in Callers /\ pc[lego] = "answering"
                BY DEF TypeInv, LocksInv
            <4> QED BY <1>3, <2>3, <4>1 DEF Challenge, Between
        <3>2. /\ srv'[p] = "listening" /\ panel' = panel
              /\ \A q \in Ports : q # p => srv'[q] = srv[q] /\ spawned'[q] = spawned[q]
            BY <1>1, <1>6, <2>3, <3>1 DEF Listen
        <3>3. \A q \in Ports : srv'[q] = "nil" <=> srv[q] = "nil"
            BY <2>3, <3>2
        <3>4. Matches(row) => Matches(row)'
            BY <2>1, <3>3 DEF Matches, Ports
        <3> QED BY <1>3, <2>1, <3>2, <3>3, <3>4 DEF Challenge, Owed, Current, Settled, Up, callerVars
    <2> QED BY <2>2, <2>3
<1>7. ASSUME NEW c \in Callers, Edit(c) \/ Save(c)
      PROVE  Challenge' /\ Owed' /\ Current' /\ Settled'
    <2>1. pc'[c] = "waiting" /\ UNCHANGED serverVars /\ \A d \in Callers \ {c} : pc'[d] = pc[d]
        BY <1>1, <1>7 DEF Edit, Save, Goto
    <2> QED BY <1>3, <2>1 DEF Challenge, Owed, Current, Settled, Between, Locked, serverVars
<1>8. ASSUME NEW c \in Callers, Obtain(c) PROVE Challenge' /\ Owed' /\ Current' /\ Settled'
    <2>1. /\ pc[c] = "idle" /\ pc'[c] = "bouncing" /\ UNCHANGED <<row, serverVars, panel, loaded, flawed>>
          /\ \A d \in Callers \ {c} : pc'[d] = pc[d]
        BY <1>1, <1>8 DEF Obtain, Goto, historyVars
    <2> QED BY <1>3, <2>1 DEF Challenge, Owed, Current, Settled, Matches, Up, Between, Locked, serverVars
<1>9. ASSUME NEW c \in Callers, Reload(c) PROVE Challenge' /\ Owed' /\ Current' /\ Settled'
    BY <1>3, <1>9, LoadServes DEF Reload, Meet
<1>10. ASSUME NEW c \in Callers, ObtainNested(c) PROVE Challenge' /\ Owed' /\ Current' /\ Settled'
    <2>1. /\ pc[c] = "building" /\ pc'[c] = "nested" /\ UNCHANGED <<row, serverVars, panel, loaded>>
          /\ \A d \in Callers \ {c} : pc'[d] = pc[d]
        BY <1>1, <1>10 DEF ObtainNested, Goto
    <2> QED BY <1>3, <2>1 DEF Challenge, Owed, Current, Settled, Between, Locked, serverVars
<1>11. ASSUME NEW c \in Callers, Build(c) PROVE Challenge' /\ Owed' /\ Current' /\ Settled'
    BY <1>3, <1>11, BuildServes
<1>12. ASSUME NEW c \in Callers, Bounce(c) PROVE Challenge' /\ Owed' /\ Current' /\ Settled'
    <2>1. /\ pc'[c] = "challenging" /\ ~running' /\ \A p \in Ports : srv'[p] = "nil"
          /\ \A d \in Callers \ {c} : pc'[d] = pc[d]
        BY <1>1, <1>12 DEF Bounce, CloseListeners, Goto
    <2>2. \A d \in Callers \ {c} : pc[d] \notin Between \cup Locked
        BY <1>1, <1>12 DEF Bounce, Meet, MeetsChallenge, LocksInv, Between, Locked
    <2> QED BY <2>1, <2>2 DEF Challenge, Owed, Current, Settled, Between, Locked
<1>13. ASSUME NEW c \in Callers, Present(c) \/ Answer(c)
       PROVE  Challenge' /\ Owed' /\ Current' /\ Settled'
    <2>1. /\ pc[c] \in Between /\ pc'[c] \in Between /\ UNCHANGED <<row, serverVars, panel, loaded>>
          /\ \A d \in Callers \ {c} : pc'[d] = pc[d]
        BY <1>1, <1>13 DEF Present, Answer, Challenged, Goto, Between
    <2> QED BY <1>3, <2>1 DEF Challenge, Owed, Current, Settled, Between, Locked, serverVars
<1>14. ASSUME NEW c \in Callers, Restart(c) PROVE Challenge' /\ Owed' /\ Current' /\ Settled'
    <2>1. pc[c] = "restarting" /\ ~running
        BY <1>3, <1>14 DEF Restart, Challenge, Between
    <2> QED BY <1>3, <1>14, <2>1, LoadServes DEF Restart, Started, Meet
<1> QED BY <1>4, <1>5, <1>6, <1>7, <1>8, <1>9, <1>10, <1>11, <1>12, <1>13, <1>14 DEF Next, CallerStep

-----------------------------------------------------------------------------
\* The locks, the mutex and the listeners keep their promises in every state.
THEOREM WebServerInvariant == Spec => []WebInv
<1>1. Init => WebInv
    BY TypeInit, LocksInit, ServeInit DEF WebInv
<1>2. WebInv /\ [Next]_vars => WebInv'
    BY TypeStep, LocksStep, ServeStep DEF WebInv
<1> QED BY <1>1, <1>2, PTL DEF Spec

\* Once all goroutines are done, ports 80 and 443 serve what the sites table
\* says, in whatever order edits, reloads and issuances came, if the last
\* reload met no error and nobody met another one's challenge (Manager.Reload,
\* portBouncer.Stop and Start, the goroutines that bind).
THEOREM QuietServerServes == Spec => []ServesEnabledSites
<1>1. ASSUME WebInv, Quiescent, ~flawed, ~overlapped PROVE ListenersMatchTable
    <2>1. Matches(row)
        BY <1>1 DEF WebInv, ServeInv, Settled, Quiescent, Locked, Between
    <2>2. \A p \in Ports : srv[p] # "nil" => srv[p] = "listening"
        BY <1>1 DEF WebInv, TypeInv, ServeInv, Owed, Quiescent
    <2> QED BY <2>1, <2>2 DEF Matches, ListenersMatchTable, Serves, Ports
<1>2. WebInv => ServesEnabledSites
    BY <1>1 DEF ServesEnabledSites
<1> QED BY <1>2, WebServerInvariant, PTL
=============================================================================
