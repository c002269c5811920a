----------------------------- MODULE WebServer -----------------------------
(***************************************************************************)
(* The built-in web server for customer sites (service/webserver), the     *)
(* ACME issuance that borrows port 80 from it (service/cert) and the site  *)
(* routes that drive both (api/site_routes.go).                            *)
(*                                                                         *)
(* Callers are goroutines: `go webserverReload()` after a change of the    *)
(* sites table, the /cert route and the renewal loop.  Manager.mu          *)
(* serialises Start, Reload and Stop, but the goroutines that bind the     *)
(* ports run without it, and so does lego's challenge server, which binds  *)
(* port 80 between a Stop and a Start.                                     *)
(***************************************************************************)
EXTENDS Naturals, FiniteSets

CONSTANTS
    Sites,       \* rows of the sites table
    Callers,     \* goroutines
    NoCaller,    \* the mutex, or the challenge port, is free
    DomainOf,    \* DomainOf[s]: the site's domain
    TLSModes,    \* TLS modes administrators choose: a subset of AllTLSModes
    Issuing,     \* whether certificates are issued
    MaxOps,      \* bound on edits and issuances
    MaxFaults    \* bound on failing calls

AllTLSModes == {"none", "custom", "acme"}
Ports == {"http", "https"}     \* :80 and :443

ASSUME WebServerAssumption ==
    /\ NoCaller \notin Callers
    /\ DOMAIN DomainOf = Sites
    /\ TLSModes \subseteq AllTLSModes
    /\ Issuing \in BOOLEAN
    /\ MaxOps \in Nat /\ MaxFaults \in Nat

Phases == {"idle", "waiting", "building", "nested", "bouncing", "challenging",
           "answering", "restarting", "saving"}
Ops == {"reload", "issue", "renew"}
RowSet == [on : BOOLEAN, tls : AllTLSModes]
Off == [on |-> FALSE, tls |-> "none"]
NoTable == [s \in Sites |-> Off]
JobSet == [op : Ops, site : Sites, copy : RowSet, issued : BOOLEAN]
NoJob == [op |-> "reload", site |-> CHOOSE s \in Sites : TRUE, copy |-> Off, issued |-> FALSE]

VARIABLES
    row,        \* row[s]: enabled or not, and TLS mode
    mu,         \* who holds Manager.mu
    running,    \* Manager.running
    srv,        \* srv[p]: "nil", "made" or "listening"
    mux,        \* mux[p]: sites the server's handler knows
    certs,      \* sites with a loaded certificate
    spawned,    \* spawned[p]: goroutines that have yet to bind the port
    lego,       \* caller whose challenge server holds port 80
    panel,      \* "booting", "up" or "panicked"
    pc,
    job,        \* job[c]: what the caller does: a reload, or an issuance for a site
                \* whose row it copied, successful or not
    loaded,     \* loaded[c]: the table as the caller's reload read it
    ops, faults,
    \* history, read by properties only
    flawed,     \* the last reload failed or skipped a site
    overlapped  \* a reload or an issuance met another one's challenge

serverVars == <<running, srv, mux, certs, spawned>>
callerVars == <<pc, job, loaded>>
boundVars == <<ops, faults>>
historyVars == <<flawed, overlapped>>
vars == <<row, mu, serverVars, lego, panel, callerVars, boundVars, historyVars>>

On(table) == {s \in Sites : table[s].on}
WithTLS(table, mode) == {s \in On(table) : table[s].tls = mode}

-----------------------------------------------------------------------------
Init ==
    /\ row \in [Sites -> [on : BOOLEAN, tls : TLSModes]]
    /\ mu = NoCaller
    /\ running = FALSE
    /\ srv = [p \in Ports |-> "nil"]
    /\ mux = [p \in Ports |-> {}]
    /\ certs = {}
    /\ spawned = [p \in Ports |-> 0]
    /\ lego = NoCaller
    /\ panel = "booting"
    /\ pc = [c \in Callers |-> "idle"]
    /\ job = [c \in Callers |-> NoJob]
    /\ loaded = [c \in Callers |-> NoTable]
    /\ ops = 0 /\ faults = 0
    /\ flawed = FALSE /\ overlapped = FALSE

Fault == faults < MaxFaults /\ faults' = faults + 1
NoFault == UNCHANGED faults

Up == panel = "up"
Goto(c, phase) == pc' = [pc EXCEPT ![c] = phase]

\* Some other caller is between its Stop and its Start.
MeetsChallenge(c) ==
    \E d \in Callers \ {c} : pc[d] \in {"challenging", "answering", "restarting"}
Meet(c) == overlapped' = (overlapped \/ MeetsChallenge(c))

Clashing(sites) == \E s, t \in sites : s # t /\ DomainOf[s] = DomainOf[t]

\* closeListenersLocked.
CloseListeners ==
    /\ srv' = [p \in Ports |-> "nil"]
    /\ mux' = [p \in Ports |-> {}]
    /\ UNCHANGED spawned

\* The servers a reload leaves: with sites on, :80 always and :443 once there
\* is a certificate.  A server that exists only gets the new handler.
Opened == {"http"} \cup IF certs' = {} THEN {} ELSE {"https"}
OpenListeners(handled) ==
    LET fresh == {p \in Opened : srv[p] = "nil"}
    IN  /\ srv' = [p \in Ports |-> IF p \in fresh THEN "made" ELSE srv[p]]
        /\ mux' = [p \in Ports |-> IF p \in Opened THEN handled ELSE mux[p]]
        /\ spawned' = [p \in Ports |-> IF p \in fresh THEN spawned[p] + 1 ELSE spawned[p]]

\* The end of reload: sites were read, handled have a handler, withCert a
\* certificate.
Install(sites, handled, withCert) ==
    /\ certs' = withCert
    /\ IF sites = {} THEN CloseListeners ELSE OpenListeners(handled)

\* The outcome of the loop over the sites: ServeMux panics when a domain is
\* registered twice, and a failing handler or certificate skips the site.
Finish(sites, loadable) ==
    IF Clashing(sites)
    THEN /\ panel' = "panicked"
         /\ UNCHANGED <<srv, mux, certs, spawned, faults, flawed>>
    ELSE /\ panel' = "up"
         /\ \/ /\ NoFault
               /\ Install(sites, sites, loadable)
               /\ flawed' = FALSE
            \/ /\ Fault
               /\ \E s \in sites :
                    \/ Install(sites, sites \ {s}, loadable \ {s})
                    \/ Install(sites, sites, loadable \ {s})
               /\ flawed' = TRUE

\* main starts the server before SetPortBouncer: certificates are obtained
\* without giving up a port, each with success or not.  The panel comes up
\* without listeners when the query fails.
Boot ==
    /\ panel = "booting"
    /\ \/ /\ \E obtained \in SUBSET WithTLS(row, "acme") :
                Finish(On(row), WithTLS(row, "custom") \cup obtained)
          /\ running' = TRUE
       \/ /\ Fault
          /\ panel' = "up" /\ flawed' = TRUE
          /\ UNCHANGED serverVars
    /\ UNCHANGED <<row, mu, lego, callerVars, ops, overlapped>>

\* A goroutine of main binds the port of the server it finds in the field, which
\* a Stop or a reload may have cleared since the goroutine was created.
Listen(p) ==
    /\ panel # "panicked"
    /\ spawned[p] > 0
    /\ spawned' = [spawned EXCEPT ![p] = @ - 1]
    /\ IF srv[p] = "nil"
       THEN panel' = "panicked" /\ UNCHANGED srv
       ELSE /\ IF srv[p] = "made" /\ ~(p = "http" /\ lego # NoCaller)
               THEN srv' = [srv EXCEPT ![p] = "listening"]
               ELSE UNCHANGED srv
            /\ UNCHANGED panel
    /\ UNCHANGED <<row, mu, running, mux, certs, lego, callerVars, boundVars, historyVars>>

-----------------------------------------------------------------------------
\* A site route creates, updates, toggles or deletes a row, and leaves a
\* goroutine behind that reloads.
Edit(c) ==
    /\ Up /\ pc[c] = "idle"
    /\ ops < MaxOps /\ ops' = ops + 1
    /\ \E s \in Sites, v \in [on : BOOLEAN, tls : TLSModes] :
        row[s] # v /\ row' = [row EXCEPT ![s] = v]
    /\ Goto(c, "waiting")
    /\ UNCHANGED <<mu, serverVars, lego, panel, job, loaded, faults, historyVars>>

\* A call returns.
Return(c) == Goto(c, "idle") /\ job' = [job EXCEPT ![c] = NoJob]

\* ObtainCert returns: the route that got a certificate goes on to save the row.
ReturnIssued(c) ==
    IF job[c].op = "issue" /\ job[c].issued
    THEN Goto(c, "saving") /\ UNCHANGED job
    ELSE Return(c)

\* Under the mutex, reload reads the table, or returns the query's error and
\* releases the mutex.
Read(c) ==
    /\ NoFault
    /\ mu' = c
    /\ loaded' = [loaded EXCEPT ![c] = row]
    /\ Goto(c, "building")
    /\ UNCHANGED <<job, flawed>>

Load(c) ==
    /\ mu = NoCaller
    /\ \/ Read(c)
       \/ Fault /\ flawed' = TRUE /\ Return(c) /\ UNCHANGED <<mu, loaded>>

Reload(c) ==
    /\ Up /\ pc[c] = "waiting"
    /\ Load(c)
    /\ Meet(c)
    /\ UNCHANGED <<row, serverVars, lego, panel, ops>>

\* A site in ACME mode: reload calls ObtainCert, whose first step is the
\* bouncer's Stop.  Stop locks the mutex that this goroutine holds, and a
\* sync.RWMutex is not reentrant: nothing leaves "nested".
ObtainNested(c) ==
    /\ Up /\ pc[c] = "building"
    /\ WithTLS(loaded[c], "acme") # {}
    /\ Goto(c, "nested")
    /\ UNCHANGED <<row, mu, serverVars, lego, panel, job, loaded, boundVars, historyVars>>

\* The rest of reload, and the return from Reload or Start.
Build(c) ==
    /\ Up /\ pc[c] = "building"
    /\ WithTLS(loaded[c], "acme") = {}
    /\ Finish(On(loaded[c]), WithTLS(loaded[c], "custom"))
    /\ mu' = NoCaller
    /\ loaded' = [loaded EXCEPT ![c] = NoTable]
    /\ running' = IF job[c].op = "reload" THEN running ELSE TRUE
    /\ ReturnIssued(c)
    /\ UNCHANGED <<row, lego, ops, overlapped>>

-----------------------------------------------------------------------------
\* The /cert route reads the row and calls ObtainCert; the renewal loop calls
\* it for a certificate on disk that is about to expire.
Obtain(c) ==
    /\ Up /\ pc[c] = "idle"
    /\ Issuing
    /\ ops < MaxOps /\ ops' = ops + 1
    /\ \E s \in Sites, o \in {"issue", "renew"} :
        job' = [job EXCEPT ![c] = [op |-> o, site |-> s, issued |-> FALSE,
                                   copy |-> IF o = "issue" THEN row[s] ELSE Off]]
    /\ Goto(c, "bouncing")
    /\ UNCHANGED <<row, mu, serverVars, lego, panel, loaded, faults, historyVars>>

\* portBouncer.Stop.
Bounce(c) ==
    /\ Up /\ pc[c] = "bouncing"
    /\ mu = NoCaller
    /\ CloseListeners
    /\ running' = FALSE
    /\ Meet(c)
    /\ Goto(c, "challenging")
    /\ UNCHANGED <<row, mu, certs, lego, panel, job, loaded, boundVars, flawed>>

(* A definition whose name extends that of the next one is the same code    *)
(* with a plausible bug in it.                                              *)

PresentWaiting(c) ==
    /\ Up /\ pc[c] = "challenging"
    /\ lego = NoCaller /\ srv["http"] # "listening"
    /\ \/ NoFault /\ lego' = c /\ Goto(c, "answering")
       \/ Fault /\ UNCHANGED lego /\ Goto(c, "restarting")
    /\ UNCHANGED <<row, mu, serverVars, panel, job, loaded, ops, historyVars>>

\* lego binds port 80, or the issuance fails: at the registration, or because
\* the port is taken.
Present(c) ==
    /\ Up /\ pc[c] = "challenging"
    /\ \/ /\ NoFault
          /\ lego = NoCaller /\ srv["http"] # "listening"
          /\ lego' = c
          /\ Goto(c, "answering")
       \/ /\ IF lego = NoCaller /\ srv["http"] # "listening" THEN Fault ELSE NoFault
          /\ Goto(c, "restarting")
          /\ UNCHANGED lego
    /\ UNCHANGED <<row, mu, serverVars, panel, job, loaded, ops, historyVars>>

\* The challenge is answered, or not, and lego gives the port up.
Challenged(c) ==
    /\ Up /\ pc[c] = "answering"
    /\ \/ NoFault /\ job' = [job EXCEPT ![c].issued = TRUE]
       \/ Fault /\ UNCHANGED job
    /\ Goto(c, "restarting")
    /\ UNCHANGED <<row, mu, serverVars, panel, loaded, ops, historyVars>>

Answer(c) == Challenged(c) /\ lego' = NoCaller

\* portBouncer.Start, deferred: nothing to do when the server runs again
\* already; an error of the reload becomes ObtainCert's error.
Started(c) ==
    /\ running
    /\ mu = NoCaller
    /\ ReturnIssued(c)
    /\ UNCHANGED <<mu, loaded, faults, flawed>>

RestartOnSuccess(c) ==
    /\ Up /\ pc[c] = "restarting"
    /\ \/ job[c].issued /\ (Started(c) \/ (~running /\ Load(c)))
       \/ ~job[c].issued /\ Return(c) /\ UNCHANGED <<mu, loaded, faults, flawed>>
    /\ Meet(c)
    /\ UNCHANGED <<row, serverVars, lego, panel, ops>>

Restart(c) ==
    /\ Up /\ pc[c] = "restarting"
    /\ Started(c) \/ (~running /\ Load(c))
    /\ Meet(c)
    /\ UNCHANGED <<row, serverVars, lego, panel, ops>>

\* The route saves the row it read before the issuance, with the paths of the
\* certificate, and leaves a goroutine behind that reloads.
Save(c) ==
    /\ Up /\ pc[c] = "saving"
    /\ row' = [row EXCEPT ![job[c].site] = [job[c].copy EXCEPT !.tls = "custom"]]
    /\ job' = [job EXCEPT ![c] = NoJob]
    /\ Goto(c, "waiting")
    /\ UNCHANGED <<mu, serverVars, lego, panel, loaded, boundVars, historyVars>>

CallerStep(c) ==
    \/ Reload(c) \/ ObtainNested(c) \/ Build(c)
    \/ Bounce(c) \/ Present(c) \/ Answer(c) \/ Restart(c) \/ Save(c)

Next ==
    \/ Boot
    \/ \E p \in Ports : Listen(p)
    \/ \E c \in Callers : Edit(c) \/ Obtain(c) \/ CallerStep(c)

\* Goroutines run, and a sync.RWMutex serves its waiters in order: whoever waits
\* for the mutex gets it when it is free again and again.  Nobody has to edit
\* sites or ask for certificates.
Fairness ==
    /\ WF_vars(Boot)
    /\ \A p \in Ports : WF_vars(Listen(p))
    /\ \A c \in Callers : SF_vars(CallerStep(c))

Spec == Init /\ [][Next]_vars /\ Fairness

-----------------------------------------------------------------------------
Quiescent ==
    /\ Up
    /\ \A c \in Callers : pc[c] = "idle"
    /\ \A p \in Ports : spawned[p] = 0

Serves(p, sites) == srv[p] = "listening" /\ mux[p] = sites

\* The listeners are what the table asks for: port 80 is open for exactly the
\* enabled sites, or free when there are none; port 443 serves them once one
\* has a certificate.
ListenersMatchTable ==
    /\ IF On(row) = {} THEN srv["http"] = "nil" ELSE Serves("http", On(row))
    /\ On(row) # {} /\ certs # {} => Serves("https", On(row))
    /\ WithTLS(row, "custom") \subseteq certs /\ certs \subseteq On(row)

\* Once all goroutines are done, the listeners match the table, whatever order
\* edits, reloads and an issuance came in, and also when the challenge failed,
\* provided the last reload met no error and no other call met an issuance
\* between its Stop and its Start.
ServesEnabledSites == Quiescent /\ ~flawed /\ ~overlapped => ListenersMatchTable

\* Every reload and every issuance returns: none waits for ever for the mutex
\* or for another one.
EveryCallReturns ==
    \A c \in Callers : (pc[c] # "idle") ~> (pc[c] = "idle" \/ panel = "panicked")

\* The one way to wait for ever is behind a reload that asks for a certificate
\* while it holds the mutex: everything else (the two mutexes, the channel of
\* the lego client, a failed challenge) lets every call return.
OnlyNestingBlocks ==
    \A c \in Callers :
        (pc[c] # "idle") ~>
            \/ pc[c] = "idle"
            \/ panel = "panicked"
            \/ \E d \in Callers : pc[d] = "nested"
=============================================================================
