--------------------------- MODULE SettingsCache ---------------------------
(***************************************************************************)
(* The settings table and the read cache in front of it (config/db.go):    *)
(* GetSetting, SetSetting, invalidateSetting, EnsureJWTSecret, and the     *)
(* transactions that write rows of the table without going through         *)
(* SetSetting.                                                             *)
(*                                                                         *)
(* Keys do not interact, so one key is modelled.  A miss reads the         *)
(* database between two critical sections of settingCache, so callers      *)
(* interleave at the query and at the store.  Time passes in ticks: an     *)
(* entry is served for TTL ticks after it was stored, and a value read     *)
(* from the database is stored within ReadTime ticks (the code bounds the  *)
(* query by a timeout, the scheduler the rest).                            *)
(***************************************************************************)
EXTENDS Goroutines

CONSTANTS
    Values,       \* values of the key
    Empty,        \* the empty string: what GetSetting returns for no row
    NoEntry,      \* the key is not cached
    TTL,          \* settingCacheTTL
    ReadTime,     \* longest time between reading a value and storing it
    MaxTime, MaxWrites, MaxBypass   \* bounds on ticks and events

ASSUME SettingsAssumption ==
    /\ Empty \notin Values
    /\ TTL \in Nat \ {0} /\ ReadTime \in Nat
    /\ MaxTime \in Nat /\ MaxWrites \in Nat /\ MaxBypass \in Nat /\ MaxFaults \in Nat
ASSUME EntryAssumption == NoEntry \notin [value : Values \cup {Empty}, at : Nat]

Contents == Values \cup {Empty}
Ops == {"get", "set", "ensure"}
SettingPhases == {"idle", "querying", "storing", "writing", "invalidating"}

VARIABLES
    row,       \* value of the key in the database, Empty when it has no row
    cache,     \* settingCache.m[key]
    now,
    panel,     \* "starting" until EnsureJWTSecret has returned, then "serving"
    op,
    got,       \* value a caller read from the database, or is to write
    readAt,    \* when it read it
    writes, bypassed,
    \* history, read by properties only
    current,   \* current[v]: last time at which the database held v
    failedAt   \* last time at which a read of the database failed

readerVars == <<pc, op, got, readAt>>
settingBounds == <<writes, bypassed, faults>>
settingVars == <<row, cache, now, panel, readerVars, settingBounds, current, failedAt>>

-----------------------------------------------------------------------------
SettingsInit ==
    /\ row = Empty
    /\ cache = NoEntry
    /\ now = 0
    /\ panel = "starting"
    /\ pc = [c \in Callers |-> "idle"]
    /\ op = [c \in Callers |-> "get"]
    /\ got = [c \in Callers |-> Empty]
    /\ readAt = [c \in Callers |-> 0]
    /\ writes = 0 /\ bypassed = 0 /\ faults = 0
    /\ current = [v \in Contents |-> 0]
    /\ failedAt = 0

LiveForever == cache # NoEntry
\* The entry may be served.  A hit returns it and changes nothing.
Live == cache # NoEntry /\ now - cache.at < TTL

\* A request handler or a background loop calls GetSetting and misses.
Get(c) ==
    /\ pc[c] = "idle" /\ panel = "serving"
    /\ ~Live
    /\ op' = [op EXCEPT ![c] = "get"]
    /\ Goto(c, "querying")
    /\ UNCHANGED <<row, cache, now, panel, got, readAt, settingBounds, current, failedAt>>

\* EnsureJWTSecret at start-up, before anything else runs.
Ensure(c) ==
    /\ panel = "starting" /\ \A d \in Callers : pc[d] = "idle"
    /\ op' = [op EXCEPT ![c] = "ensure"]
    /\ Goto(c, "querying")
    /\ UNCHANGED <<row, cache, now, panel, got, readAt, settingBounds, current, failedAt>>

QueryResult(c, nothing) ==
    \/ /\ NoFault
       /\ got' = [got EXCEPT ![c] = row]
       /\ UNCHANGED failedAt
    \/ /\ Fault
       /\ got' = [got EXCEPT ![c] = nothing]
       /\ failedAt' = now

\* The query: the row's value, or the empty string when it fails or times out.
Query(c) ==
    /\ pc[c] = "querying"
    /\ QueryResult(c, Empty)
    /\ readAt' = [readAt EXCEPT ![c] = now]
    /\ Goto(c, "storing")
    /\ UNCHANGED <<row, cache, now, panel, op, writes, bypassed, current>>

\* The second critical section of GetSetting.  EnsureJWTSecret keeps the
\* secret it got, or replaces nothing by a fresh one.
Store(c) ==
    /\ pc[c] = "storing"
    /\ cache' = [value |-> got[c], at |-> now]
    /\ IF op[c] = "ensure" /\ got[c] = Empty
       THEN /\ \E secret \in Values \ {row} : got' = [got EXCEPT ![c] = secret]
            /\ Goto(c, "writing")
            /\ UNCHANGED panel
       ELSE /\ got' = [got EXCEPT ![c] = Empty]
            /\ Goto(c, "idle")
            /\ panel' = "serving"
    /\ UNCHANGED <<row, now, op, readAt, settingBounds, current, failedAt>>

\* SetSetting by a request handler or a background loop.
Set(c) ==
    /\ pc[c] = "idle" /\ panel = "serving"
    /\ writes < MaxWrites /\ writes' = writes + 1
    /\ \E v \in Values : got' = [got EXCEPT ![c] = v]
    /\ op' = [op EXCEPT ![c] = "set"]
    /\ Goto(c, "writing")
    /\ UNCHANGED <<row, cache, now, panel, readAt, bypassed, faults, current, failedAt>>

\* The upsert.  EnsureJWTSecret ends the program when it fails.
Upsert(c) ==
    /\ pc[c] = "writing"
    /\ \/ /\ NoFault
          /\ row' = got[c]
          /\ current' = [current EXCEPT ![got[c]] = now]
       \/ /\ Fault
          /\ op[c] = "set"
          /\ UNCHANGED <<row, current>>
    /\ Goto(c, "invalidating")
    /\ UNCHANGED <<cache, now, panel, op, got, readAt, writes, bypassed, failedAt>>

\* The deferred invalidateSetting, run whether or not the upsert succeeded.
Invalidate(c) ==
    /\ pc[c] = "invalidating"
    /\ cache' = NoEntry
    /\ panel' = "serving"
    /\ Goto(c, "idle")
    /\ got' = [got EXCEPT ![c] = Empty]
    /\ UNCHANGED <<row, now, op, readAt, settingBounds, current, failedAt>>

\* A transaction that writes the row itself: set-up, restore, the accountant
\* and the external runtime do so.
Bypass ==
    /\ panel = "serving"
    /\ bypassed < MaxBypass /\ bypassed' = bypassed + 1
    /\ \E v \in Contents :
        /\ row' = v
        /\ current' = [current EXCEPT ![v] = now]
    /\ UNCHANGED <<cache, now, panel, readerVars, writes, faults, failedAt>>

\* The panel stops and starts again: the cache and every goroutine are gone.
Restart ==
    /\ panel = "serving"
    /\ writes < MaxWrites /\ writes' = writes + 1
    /\ panel' = "starting"
    /\ cache' = NoEntry
    /\ pc' = [c \in Callers |-> "idle"]
    /\ got' = [c \in Callers |-> Empty]
    /\ UNCHANGED <<row, now, op, readAt, bypassed, faults, current, failedAt>>

Tick ==
    /\ now < MaxTime
    /\ \A c \in Callers : pc[c] = "storing" => now - readAt[c] < ReadTime
    /\ now' = now + 1
    /\ current' = [current EXCEPT ![row] = now + 1]
    /\ UNCHANGED <<row, cache, panel, readerVars, settingBounds, failedAt>>

SettingsStep(c) ==
    Get(c) \/ Ensure(c) \/ Query(c) \/ Store(c) \/ Set(c) \/ Upsert(c) \/ Invalidate(c)

SettingsNext == Bypass \/ Restart \/ Tick \/ \E c \in Callers : SettingsStep(c)

SettingsSpec == SettingsInit /\ [][SettingsNext]_settingVars

-----------------------------------------------------------------------------
SettingsTypeOK ==
    /\ row \in Contents
    /\ cache \in [value : Contents, at : Nat] \cup {NoEntry}
    /\ now \in Nat /\ failedAt \in Nat
    /\ writes \in Nat /\ bypassed \in Nat /\ faults \in Nat
    /\ panel \in {"starting", "serving"}
    /\ pc \in [Callers -> SettingPhases]
    /\ op \in [Callers -> Ops]
    /\ got \in [Callers -> Contents]
    /\ readAt \in [Callers -> Nat]
    /\ current \in [Contents -> Nat]

\* v was in the database, or the outcome of a failed read, within span before
\* time, given the times recorded in held and failed.
WasIn(held, failed, v, time, span) ==
    \/ time - held[v] <= span
    \/ v = Empty /\ time - failed <= span

Was(v, time, span) == WasIn(current, failedAt, v, time, span)

\* The strengthening: what is cached was in the database, or was the outcome
\* of a failed read, at most ReadTime before it was stored; likewise for what
\* a caller has read and not stored yet.
EntriesWereCurrent ==
    /\ cache # NoEntry => cache.at <= now /\ Was(cache.value, cache.at, ReadTime)
    /\ \A c \in Callers : pc[c] = "storing" =>
          /\ readAt[c] <= now /\ now - readAt[c] <= ReadTime
          /\ Was(got[c], readAt[c], 0)

\* "settingCacheTTL bounds how stale GetSetting can be": a value GetSetting
\* serves from the cache was in the database within the last TTL + ReadTime
\* ticks, whatever writes raced with the read that cached it; an empty string
\* may also stem from a read that failed within that time.
ServedIsRecent == Live => Was(cache.value, now, TTL + ReadTime)
=============================================================================
