---------------------------- MODULE NodeTableProofs ----------------------------
(***************************************************************************)
(* Proofs about NodeTable for any rows the panel starts with, any columns, *)
(* imports, rules and outbounds that are submitted, and any bounds.        *)
(*                                                                         *)
(* The rows: ids are fresh, tags and the emails of one inbound stay        *)
(* unique, because an edit that waits holds a row the tables still have    *)
(* room for (RowsInv); recursive definitions are followed account by       *)
(* account and rule by rule, by induction over a set of numbers            *)
(* (Counting).  The cache: an answer that no commit overtook is what the   *)
(* tables say (CacheInv).  Deployments: a deployed row carries no account  *)
(* of its own, in the table, in a waiting edit and in what the engines run *)
(* (DeployInv).  Rules: every rule asks for something (RulesInv), so that  *)
(* neither engine drops one the other keeps.  Subscriptions: the engines   *)
(* only run what could be built (RunInv) and per-family addresses are      *)
(* literals (LiteralsInv), so that links are served and profiles work.     *)
(***************************************************************************)
EXTENDS NodeTable, FiniteSetTheorems, SequenceTheorems, WellFoundedInduction, TLAPS

------------------------------------------------------------------------------
(* Counting and ordering                                                   *)

\* Induction, over a set of numbers.
LEMMA Counting ==
  ASSUME NEW T, 0 \in T, \A n \in Nat : n \in T => n + 1 \in T
  PROVE  \A n \in Nat : n \in T
<1> SUFFICES ASSUME NEW m \in Nat, m \notin T PROVE FALSE
  OBVIOUS
<1> DEFINE Left == {n \in Nat : n \notin T}
<1>1. Left \subseteq Nat /\ Left # {}
  OBVIOUS
<1>2. PICK x \in Left : \A y \in Left : ~(<<y, x>> \in OpToRel(<, Nat))
  <2> HIDE DEF Left
  <2> QED BY <1>1, NatLessThanWellFounded, WFMin
<1>3. x # 0 /\ x - 1 \in Nat /\ x - 1 < x
  OBVIOUS
<1>4. x - 1 \notin Left
  BY <1>2, <1>3 DEF OpToRel
<1> QED BY <1>3, <1>4

\* A finite set of integers that is not empty has a least element.
LEMMA LeastOf ==
  ASSUME NEW S, IsFiniteSet(S), S \subseteq Int, S # {}
  PROVE  Min(S) \in S /\ \A y \in S : Min(S) <= y
<1> DEFINE T == {n \in Nat : \A U : U \subseteq Int /\ IsFiniteSet(U) /\ Cardinality(U) = n /\ U # {}
                                => \E x \in U : \A y \in U : x <= y}
<1>1. 0 \in T
  BY FS_EmptySet
<1>2. ASSUME NEW n \in Nat, n \in T PROVE n + 1 \in T
  <2> SUFFICES ASSUME NEW U, U \subseteq Int, IsFiniteSet(U), Cardinality(U) = n + 1, U # {}
               PROVE  \E x \in U : \A y \in U : x <= y
    OBVIOUS
  <2>0. \A V : V \subseteq Int /\ IsFiniteSet(V) /\ Cardinality(V) = n /\ V # {}
              => \E x \in V : \A y \in V : x <= y
    BY <1>2
  <2> HIDE DEF T
  <2>1. PICK u \in U : TRUE
    OBVIOUS
  <2>2. IsFiniteSet(U \ {u}) /\ Cardinality(U \ {u}) = n
    <3>1. IsFiniteSet(U \ {u}) /\ Cardinality(U \ {u}) = Cardinality(U) - 1
      BY <2>1, FS_RemoveElement, Zenon
    <3> QED BY <3>1
  <2>3. CASE U \ {u} = {}
    BY <2>1, <2>3
  <2>4. CASE U \ {u} # {}
    <3>1. PICK x \in U \ {u} : \A y \in U \ {u} : x <= y
      <4>1. U \ {u} \subseteq Int
        OBVIOUS
      <4> QED BY <2>0, <2>2, <2>4, <4>1
    <3> QED BY <2>1, <3>1
  <2> QED BY <2>3, <2>4
<1>3. \A n \in Nat : n \in T
  <2> HIDE DEF T
  <2> QED BY <1>1, <1>2, Counting
<1>4. \E x \in S : \A y \in S : x <= y
  BY <1>3, FS_CardinalityType
<1> QED BY <1>4 DEF Min

\* So has one of places in a sequence, and a last one.
LEMMA LastPlace ==
  ASSUME NEW n \in Nat, NEW S, S \subseteq 1..n, S # {}
  PROVE  Max(S) \in S /\ \A y \in S : y <= Max(S)
<1> DEFINE T == {k \in Nat : \A U : U \subseteq 1..k /\ U # {} => \E x \in U : \A y \in U : y <= x}
<1>1. 0 \in T
  OBVIOUS
<1>2. ASSUME NEW k \in Nat, k \in T PROVE k + 1 \in T
  <2> SUFFICES ASSUME NEW U, U \subseteq 1..(k + 1), U # {} PROVE \E x \in U : \A y \in U : y <= x
    OBVIOUS
  <2>1. CASE k + 1 \in U
    BY <2>1
  <2>2. CASE k + 1 \notin U
    <3>1. U \subseteq 1..k
      BY <2>2
    <3> QED BY <1>2, <3>1
  <2> QED BY <2>1, <2>2
<1>3. n \in T
  <2> HIDE DEF T
  <2> QED BY <1>1, <1>2, Counting
<1>4. \E x \in S : \A y \in S : y <= x
  BY <1>3
<1> QED BY <1>4 DEF Max

LEMMA FirstPlace ==
  ASSUME NEW n \in Nat, NEW S, S \subseteq 1..n, S # {}
  PROVE  Min(S) \in S /\ \A y \in S : Min(S) <= y
<1>1. IsFiniteSet(1..n) /\ S \in SUBSET (1..n) /\ S \subseteq Int
  BY FS_Interval
<1>2. IsFiniteSet(S)
  BY <1>1, FS_Subset
<1> QED BY <1>1, <1>2, LeastOf


\* ToSeqById lists each row of a table once.
LEMMA ToSeqByIdLists ==
  ASSUME NEW S, IsTable(S)
  PROVE  /\ Cardinality(S) \in Nat
         /\ ToSeqById(S) \in [1..Cardinality(S) -> S]
         /\ \A r \in S : \E i \in 1..Cardinality(S) : ToSeqById(S)[i] = r
         /\ \A i, j \in 1..Cardinality(S) : ToSeqById(S)[i] = ToSeqById(S)[j] => i = j
<1> DEFINE Below(r) == {q \in S : q.id < r.id}
           n == Cardinality(S)
           rank == [r \in S |-> Cardinality(Below(r)) + 1]
<1>0. n \in Nat /\ IsFiniteSet(1..n) /\ Cardinality(1..n) = n
  BY FS_CardinalityType, FS_Interval DEF IsTable
<1>1. ASSUME NEW r \in S PROVE IsFiniteSet(Below(r)) /\ Cardinality(Below(r)) \in Nat /\ Cardinality(Below(r)) < n
  <2>1. Below(r) \subseteq S /\ r \notin Below(r) /\ IsFiniteSet(S)
    BY DEF IsTable
  <2>2. IsFiniteSet(Below(r)) /\ Cardinality(Below(r)) <= n /\ Cardinality(Below(r)) # n
    BY <2>1, FS_Subset
  <2>3. Cardinality(Below(r)) \in Nat
    BY <2>2, FS_CardinalityType
  <2> QED BY <1>0, <2>2, <2>3
<1>2. ASSUME NEW r \in S, NEW q \in S, r.id < q.id PROVE Cardinality(Below(r)) < Cardinality(Below(q))
  <2>1. Below(r) \subseteq Below(q) /\ r \in Below(q) /\ r \notin Below(r)
    BY <1>2 DEF IsTable
  <2>2. Cardinality(Below(r)) <= Cardinality(Below(q)) /\ Cardinality(Below(r)) # Cardinality(Below(q))
    BY <1>1, <2>1, FS_Subset
  <2> HIDE DEF Below
  <2> QED BY <1>1, <2>2
<1>3. rank \in [S -> 1..n]
  <2> HIDE DEF Below, n
  <2> QED BY <1>0, <1>1
<1>4. ASSUME NEW r \in S, NEW q \in S, rank[r] = rank[q] PROVE r = q
  <2> HIDE DEF Below
  <2>1. Cardinality(Below(r)) = Cardinality(Below(q))
    BY <1>1, <1>4
  <2>2. ~(r.id < q.id) /\ ~(q.id < r.id)
    BY <1>1, <1>2, <2>1
  <2> QED BY <2>2 DEF IsTable
<1>5. rank \in Injection(S, 1..n)
  <2> HIDE DEF rank, n
  <2> QED BY <1>3, <1>4 DEF Injection, IsInjective
<1>6. rank \in Surjection(S, 1..n)
  <2> HIDE DEF rank
  <2> QED BY <1>0, <1>5, FS_Injection
<1>7. ASSUME NEW i \in 1..n PROVE \E r \in S : Cardinality(Below(r)) = i - 1
  <2>1. PICK r \in S : rank[r] = i
    <3> HIDE DEF rank, n
    <3> QED BY <1>6 DEF Surjection
  <2> HIDE DEF Below, n
  <2> QED BY <1>0, <1>1, <2>1
<1>8. ASSUME NEW i \in 1..n PROVE ToSeqById(S)[i] \in S /\ Cardinality(Below(ToSeqById(S)[i])) = i - 1
  BY <1>7 DEF ToSeqById
<1>9. ToSeqById(S) \in [1..n -> S]
  BY <1>8 DEF ToSeqById
<1>10. ASSUME NEW r \in S PROVE \E i \in 1..n : ToSeqById(S)[i] = r
  <2> DEFINE i == rank[r]
  <2>1. i \in 1..n
    BY <1>3
  <2>2. ToSeqById(S)[i] \in S /\ Cardinality(Below(ToSeqById(S)[i])) = i - 1
    BY <1>8, <2>1
  <2>3. rank[ToSeqById(S)[i]] = i
    <3> HIDE DEF Below, n
    <3> QED BY <2>1, <2>2
  <2> QED BY <1>4, <2>1, <2>2, <2>3
<1>11. ASSUME NEW i \in 1..n, NEW j \in 1..n, ToSeqById(S)[i] = ToSeqById(S)[j] PROVE i = j
  <2>1. i - 1 = j - 1
    BY <1>8, <1>11
  <2> QED BY <1>0, <2>1
<1> QED BY <1>0, <1>9, <1>10, <1>11

LEMMA SeqIsFunction ==
  ASSUME NEW s, IsSeq(s)
  PROVE  Len(s) \in Nat /\ DOMAIN s = 1..Len(s)
  BY DEF IsSeq

LEMMA FunctionIsSeq ==
  ASSUME NEW n \in Nat, NEW S, NEW f \in [1..n -> S]
  PROVE  IsSeq(f) /\ Len(f) = n
<1>1. f \in [1..n -> ToSet(f)]
  BY DEF ToSet
<1> HIDE DEF ToSet
<1>2. f \in Seq(ToSet(f)) /\ Len(f) = n
  BY <1>1
<1> QED BY <1>2 DEF IsSeq

LEMMA MemberIsSeq ==
  ASSUME NEW S, NEW f \in Seq(S)
  PROVE  IsSeq(f)
<1>1. Len(f) \in Nat /\ f \in [1..Len(f) -> S]
  OBVIOUS
<1> QED BY <1>1, FunctionIsSeq

LEMMA AppendToSeq ==
  ASSUME NEW s, IsSeq(s), NEW e
  PROVE  /\ IsSeq(Append(s, e)) /\ Append(s, e) # << >>
         /\ Len(Append(s, e)) = Len(s) + 1 /\ Append(s, e)[Len(s) + 1] = e
         /\ \A i \in 1..Len(s) : Append(s, e)[i] = s[i]
<1> DEFINE S == ToSet(s) \cup {e}
<1>1. s \in Seq(S)
  BY DEF IsSeq
<1>2. Append(s, e) \in Seq(S)
  BY <1>1
<1>3. Len(s) \in Nat /\ Len(Append(s, e)) = Len(s) + 1 /\ Append(s, e)[Len(s) + 1] = e
      /\ \A i \in 1..Len(s) : Append(s, e)[i] = s[i]
  BY <1>1
<1>5. IsSeq(Append(s, e))
  <2> HIDE DEF S
  <2> QED BY <1>2, MemberIsSeq
<1>6. Append(s, e) # << >>
  BY <1>3
<1> QED BY <1>3, <1>5, <1>6

------------------------------------------------------------------------------
(* Finding a free name                                                     *)

\* Of more names than are taken the first free one exists.
LEMMA FirstFree ==
  ASSUME NEW taken, IsFiniteSet(taken), NEW tried,
         DOMAIN tried = 1..(Cardinality(taken) + 1),
         \A i, j \in DOMAIN tried : tried[i] = tried[j] => i = j
  PROVE  LET k == Min({i \in DOMAIN tried : tried[i] \notin taken})
         IN  /\ k \in DOMAIN tried /\ tried[k] \notin taken
             /\ \A j \in DOMAIN tried : j < k => tried[j] \in taken
<1> DEFINE n == Cardinality(taken)
           free == {i \in DOMAIN tried : tried[i] \notin taken}
<1>1. n \in Nat /\ n + 1 \in Nat
  BY FS_CardinalityType
<1>2. free # {}
  <2> SUFFICES ASSUME free = {} PROVE FALSE
    OBVIOUS
  <2>1. IsFiniteSet(1..(n + 1)) /\ Cardinality(1..(n + 1)) = n + 1
    BY <1>1, FS_Interval
  <2> DEFINE f == [i \in 1..(n + 1) |-> tried[i]]
  <2>2. f \in [1..(n + 1) -> taken]
    OBVIOUS
  <2>3. Cardinality(taken) < Cardinality(1..(n + 1))
    BY <1>1, <2>1
  <2>4. \E i, j \in 1..(n + 1) : i # j /\ f[i] = f[j]
    <3> DEFINE D == 1..(n + 1)
    <3>1. IsFiniteSet(D) /\ f \in [D -> taken] /\ Cardinality(taken) < Cardinality(D)
      BY <2>1, <2>2, <2>3
    <3> HIDE DEF f, D, n
    <3>2. \E i, j \in D : i # j /\ f[i] = f[j]
      BY <3>1, FS_PigeonHole
    <3> QED BY <3>2 DEF D
  <2> QED BY <2>4
<1>3. free \subseteq 1..(n + 1)
  OBVIOUS
<1>4. Min(free) \in free /\ \A y \in free : Min(free) <= y
  <2> HIDE DEF free, n
  <2> QED BY <1>1, <1>2, <1>3, FirstPlace
<1> HIDE DEF n
<1>5. \A j \in DOMAIN tried : j \in Int /\ Min(free) \in Int
  BY <1>1, <1>4
<1> QED BY <1>4, <1>5

\* The column of a finite table is finite.
LEMMA FiniteImage ==
  ASSUME NEW D, IsFiniteSet(D), NEW f, DOMAIN f = D
  PROVE  IsFiniteSet({f[x] : x \in D})
<1> DEFINE g == [x \in D |-> f[x]]
           T == {f[x] : x \in D}
<1>1. g \in Surjection(D, T)
  BY DEF Surjection
<1> HIDE DEF g, T
<1>2. IsFiniteSet(T)
  BY <1>1, FS_Surjection
<1> QED BY <1>2 DEF T

\* The email an account is stored with is no other client's of the inbound;
\* it is the preferred one if that is free.
LEMMA UniqueEmail ==
  ASSUME NEW rows, IsFiniteSet(rows), NEW inbound, NEW preferred, IsName(preferred), NEW id
  PROVE  LET email == ensureUniqueClientEmail(rows, inbound, preferred, id)
         IN  /\ IsName(email)
             /\ \A c \in rows : c.inbound = inbound /\ c.id # id => c.email # email
             /\ (\A c \in rows : c.inbound = inbound /\ c.id # id => c.email # preferred) => email = preferred
<1> DEFINE D == {c \in {d \in rows : d.inbound = inbound} : c.id # id}
           taken == {c.email : c \in {d \in rows : d.inbound = inbound /\ d.id # id}}
           tried == [k \in 1..(Cardinality(taken) + 1) |-> IF k = 1 THEN preferred ELSE Append(preferred, k)]
           k == Min({i \in DOMAIN tried : tried[i] \notin taken})
<1>1. IsFiniteSet(taken)
  <2> DEFINE E == {d \in rows : d.inbound = inbound /\ d.id # id}
             f == [c \in E |-> c.email]
  <2>1. IsFiniteSet(E)
    BY FS_Subset
  <2>2. IsFiniteSet({f[c] : c \in E})
    <3> HIDE DEF E
    <3> QED BY <2>1, FiniteImage
  <2>3. {f[c] : c \in E} = taken
    OBVIOUS
  <2> QED BY <2>2, <2>3
<1>2. Cardinality(taken) \in Nat
  BY <1>1, FS_CardinalityType
<1>3. ASSUME NEW i \in DOMAIN tried PROVE i \in Nat /\ IsName(tried[i])
  <2> HIDE DEF taken
  <2> QED BY <1>2, AppendToSeq DEF IsName
<1>4. ASSUME NEW i \in DOMAIN tried, NEW j \in DOMAIN tried, tried[i] = tried[j] PROVE i = j
  <2> HIDE DEF taken
  <2>1. Len(preferred) \in Nat
    BY SeqIsFunction DEF IsName
  <2>2. CASE i = 1 /\ j # 1
    <3>1. Len(tried[j]) = Len(preferred) + 1 /\ tried[i] = preferred
      BY <1>2, <2>2, AppendToSeq DEF IsName
    <3> HIDE DEF tried
    <3> QED BY <1>4, <2>1, <3>1
  <2>3. CASE i # 1 /\ j = 1
    <3>1. Len(tried[i]) = Len(preferred) + 1 /\ tried[j] = preferred
      BY <1>2, <2>3, AppendToSeq DEF IsName
    <3> HIDE DEF tried
    <3> QED BY <1>4, <2>1, <3>1
  <2>4. CASE i # 1 /\ j # 1
    <3>1. tried[i] = Append(preferred, i) /\ tried[j] = Append(preferred, j)
      BY <2>4
    <3>2. tried[i][Len(preferred) + 1] = i /\ tried[j][Len(preferred) + 1] = j
      <4> HIDE DEF tried
      <4> QED BY <3>1, AppendToSeq DEF IsName
    <3> HIDE DEF tried
    <3> QED BY <1>4, <3>2
  <2> QED BY <2>2, <2>3, <2>4
<1>5. /\ k \in DOMAIN tried /\ tried[k] \notin taken
      /\ \A j \in DOMAIN tried : j < k => tried[j] \in taken
  <2>1. DOMAIN tried = 1..(Cardinality(taken) + 1)
    OBVIOUS
  <2> HIDE DEF tried, taken
  <2> QED BY <1>1, <1>4, <2>1, FirstFree
<1>6. ensureUniqueClientEmail(rows, inbound, preferred, id) = tried[k]
  BY DEF ensureUniqueClientEmail
<1>7. (\A c \in rows : c.inbound = inbound /\ c.id # id => c.email # preferred) => tried[k] = preferred
  <2> SUFFICES ASSUME \A c \in rows : c.inbound = inbound /\ c.id # id => c.email # preferred
               PROVE  tried[k] = preferred
    OBVIOUS
  <2>1. preferred \notin taken
    OBVIOUS
  <2>2. 1 \in DOMAIN tried /\ tried[1] = preferred
    <3> HIDE DEF taken
    <3> QED BY <1>2
  <2>3. ~(1 < k)
    <3> HIDE DEF tried, taken, k
    <3> QED BY <1>5, <2>1, <2>2
  <2>4. k = 1
    <3>1. k \in 1..(Cardinality(taken) + 1)
      BY <1>5
    <3> HIDE DEF tried, taken, k
    <3> QED BY <1>2, <2>3, <3>1
  <2> HIDE DEF tried, k
  <2> QED BY <2>2, <2>4
<1>8. \A c \in rows : c.inbound = inbound /\ c.id # id => c.email # tried[k]
  BY <1>5
<1> HIDE DEF tried, k
<1> QED BY <1>3, <1>5, <1>6, <1>7, <1>8

------------------------------------------------------------------------------
(* Taking over imported accounts                                           *)

LEMMA SubTable ==
  ASSUME NEW rows, IsTable(rows), NEW S \in SUBSET rows
  PROVE  IsTable(S)
<1>1. IsFiniteSet(S)
  BY FS_Subset DEF IsTable
<1> QED BY <1>1 DEF IsTable

LEMMA FirstById ==
  ASSUME NEW S, IsTable(S)
  PROVE  (ToSeqById(S) = << >> <=> S = {}) /\ (S # {} => Head(ToSeqById(S)) \in S)
<1> DEFINE f == ToSeqById(S)
           n == Cardinality(S)
<1>1. n \in Nat /\ f \in [1..n -> S] /\ (n = 0 <=> S = {})
  BY ToSeqByIdLists, FS_EmptySet DEF IsTable
<1> HIDE DEF f, n
<1>2. f \in Seq(S) /\ Len(f) = n
  BY <1>1
<1>3. f = << >> <=> n = 0
  BY <1>2
<1>4. ASSUME n # 0 PROVE Head(f) \in S
  <2>1. Head(f) = f[1] /\ 1 \in 1..n
    BY <1>1, <1>2, <1>4
  <2> QED BY <1>1, <2>1
<1> QED BY <1>1, <1>3, <1>4 DEF f

\* What an account must bring along to become a client row.
IsEntry(e) == e.uuid # "" /\ IsName(e.email) /\ e.expiry \in Int

LEMMA StatsStand ==
  ASSUME NEW stats, IsSeq(stats), NEW entry, StatsOf(stats, entry) # {}
  PROVE  Max(StatsOf(stats, entry)) \in StatsOf(stats, entry) /\ StatsOf(stats, entry) \subseteq DOMAIN stats
<1>1. StatsOf(stats, entry) \subseteq DOMAIN stats
  BY DEF StatsOf
<1> QED BY <1>1, SeqIsFunction, LastPlace

LEMMA PairIsName ==
  ASSUME NEW a, NEW b
  PROVE  IsName(<<a, b>>)
<1>1. <<a, b>> \in Seq({a, b}) /\ <<a, b>> # << >>
  OBVIOUS
<1> QED BY <1>1, MemberIsSeq DEF IsName

LEMMA ImportedIsEntry ==
  ASSUME NEW protocol, NEW u, IsAccount(u), importedClientCredential(protocol, u) # "",
         NEW stats, IsSeq(stats), \A i \in DOMAIN stats : IsStat(stats[i])
  PROVE  IsEntry(importedClient(protocol, u, stats))
<1> DEFINE cred == importedClientCredential(protocol, u)
           entry == [uuid |-> cred, email |-> IF u.email = << >> THEN deriveImportedClientEmail(cred) ELSE u.email,
                     enable |-> u.enable, expiry |-> u.expiry, used |-> 0]
<1>1. IsName(deriveImportedClientEmail(cred))
  BY PairIsName DEF deriveImportedClientEmail
<1>2. IsEntry(entry)
  BY <1>1 DEF IsEntry, IsAccount, IsName
<1>3. importedClient(protocol, u, stats) = mergeImportedClientStat(entry, stats)
  BY DEF importedClient
<1>4. CASE StatsOf(stats, entry) = {}
  BY <1>2, <1>3, <1>4 DEF mergeImportedClientStat
<1>5. CASE StatsOf(stats, entry) # {}
  <2> DEFINE t == stats[Max(StatsOf(stats, entry))]
             merged == [entry EXCEPT !.used = t.used, !.enable = t.enable,
                                     !.expiry = IF t.expiry > 0 \/ @ = 0 THEN t.expiry ELSE @]
  <2>1. t.expiry \in Int
    <3> HIDE DEF entry
    <3> QED BY <1>5, StatsStand DEF IsStat
  <2>2. mergeImportedClientStat(entry, stats) = merged
    BY <1>5 DEF mergeImportedClientStat
  <2>3. merged.uuid = entry.uuid /\ merged.email = entry.email /\ merged.expiry \in {t.expiry, entry.expiry}
    <3> HIDE DEF t, cred
    <3> QED OBVIOUS
  <2> HIDE DEF t, merged, entry
  <2> QED BY <1>2, <1>3, <2>1, <2>2, <2>3 DEF IsEntry
<1> QED BY <1>4, <1>5

\* An account is written over a client row of its inbound or into a new one,
\* under an email which no other client of the inbound has.
LEMMA TakeOverKeeps ==
  ASSUME NEW acc, acc.free \in Nat, AreClients(acc.rows, acc.free),
         NEW inbound \in Nat, 0 < inbound, inbound < acc.free, NEW entry, IsEntry(entry)
  PROVE  LET next == TakeOver(acc, inbound, entry)
         IN  next.free \in Nat /\ acc.free <= next.free /\ AreClients(next.rows, next.free)
<1> DEFINE mine    == {c \in acc.rows : c.inbound = inbound}
           byUuid  == {c \in mine : c.uuid = entry.uuid}
           byEmail == {c \in mine : c.email = entry.email}
           S       == IF byUuid # {} THEN byUuid ELSE byEmail
           found   == Existing(acc.rows, inbound, entry)
           id      == IF found = << >> THEN acc.free ELSE Head(found).id
           email   == ensureUniqueClientEmail(acc.rows, inbound, entry.email, id)
           row     == [id |-> id, inbound |-> inbound, uuid |-> entry.uuid, enable |-> entry.enable,
                       email |-> email, expiry |-> entry.expiry, used |-> entry.used]
           next    == TakeOver(acc, inbound, entry)
<1>1. found = ToSeqById(S) /\ S \subseteq acc.rows /\ IsTable(S) /\ IsTable(acc.rows)
  <2>1. found = ToSeqById(S)
    BY DEF Existing
  <2>2. IsTable(acc.rows) /\ S \in SUBSET acc.rows
    BY DEF AreClients
  <2> HIDE DEF S
  <2> QED BY <2>1, <2>2, SubTable
<1>2. (found = << >> <=> S = {}) /\ (S # {} => Head(found) \in acc.rows)
  <2> HIDE DEF S, found
  <2> QED BY <1>1, FirstById
<1>3. next = IF found = << >> THEN [rows |-> acc.rows \cup {Inserted(row)}, free |-> acc.free + 1]
             ELSE [rows |-> (acc.rows \ {Head(found)}) \cup {row}, free |-> acc.free]
  BY DEF TakeOver
<1>4. /\ IsName(email)
      /\ \A c \in acc.rows : c.inbound = inbound /\ c.id # id => c.email # email
  <2>1. IsFiniteSet(acc.rows) /\ IsName(entry.email)
    BY <1>1 DEF IsEntry, IsTable
  <2> HIDE DEF id
  <2> QED BY <2>1, UniqueEmail
<1> HIDE DEF S, found, next, email
<1>5. CASE found = << >>
  <2> DEFINE new == Inserted(row)
             rows == acc.rows \cup {new}
  <2>1. id = acc.free /\ new.id = acc.free /\ new.inbound = inbound /\ new.email = email
        /\ new.uuid = entry.uuid /\ new.expiry = entry.expiry /\ DOMAIN new = ClientColumns
    BY <1>5 DEF Inserted, ClientColumns
  <2>2. next.rows = rows /\ next.free = acc.free + 1
    BY <1>3, <1>5
  <2> HIDE DEF new, row, id
  <2>3. IsClient(new, acc.free + 1)
    <3>1. IsClientRow(new)
      BY <1>4, <2>1 DEF IsClientRow, IsEntry
    <3>2. new.id \in 1..acc.free /\ new.inbound \in 1..acc.free /\ acc.free + 1 - 1 = acc.free
      BY <2>1
    <3> QED BY <3>1, <3>2 DEF IsClient
  <2>4. \A c \in acc.rows : IsClient(c, acc.free + 1) /\ c.id # new.id
    BY <2>1 DEF AreClients, IsClient
  <2>5. IsFiniteSet(rows)
    BY <1>1, FS_AddElement DEF IsTable
  <2>6. IsTable(rows)
    BY <1>1, <2>1, <2>4, <2>5 DEF IsTable
  <2>7. \A c, d \in rows : c.inbound = d.inbound /\ c.email = d.email => c = d
    BY <1>4, <2>1, <2>4 DEF AreClients
  <2>8. \A c \in rows : IsClient(c, acc.free + 1)
    BY <2>3, <2>4
  <2> HIDE DEF rows
  <2>9. AreClients(rows, acc.free + 1)
    BY <2>6, <2>7, <2>8 DEF AreClients
  <2> QED BY <2>2, <2>9 DEF next
<1>6. CASE found # << >>
  <2> DEFINE old == Head(found)
             rows == (acc.rows \ {old}) \cup {row}
  <2>1. old \in acc.rows /\ old.id \in Nat /\ 0 < old.id /\ old.id < acc.free
    BY <1>2, <1>6 DEF AreClients, IsClient
  <2>2. id = old.id /\ row.id = old.id /\ row.inbound = inbound /\ row.email = email
        /\ row.uuid = entry.uuid /\ row.expiry = entry.expiry /\ DOMAIN row = ClientColumns
    BY <1>6 DEF ClientColumns
  <2>3. next.rows = rows /\ next.free = acc.free
    BY <1>3, <1>6
  <2> HIDE DEF row, old, id
  <2>4. IsClient(row, acc.free)
    <3>1. IsClientRow(row)
      BY <1>4, <2>2 DEF IsClientRow, IsEntry
    <3>2. row.id \in 1..(acc.free - 1) /\ row.inbound \in 1..(acc.free - 1)
      BY <2>1, <2>2
    <3> QED BY <3>1, <3>2 DEF IsClient
  <2>5. \A c \in acc.rows \ {old} : IsClient(c, acc.free) /\ c.id # row.id
    BY <1>1, <2>1, <2>2 DEF AreClients, IsTable
  <2>6. IsFiniteSet(rows)
    BY <1>1, FS_AddElement, FS_RemoveElement DEF IsTable
  <2>7. IsTable(rows)
    BY <1>1, <2>1, <2>2, <2>5, <2>6 DEF IsTable
  <2>8. \A c, d \in rows : c.inbound = d.inbound /\ c.email = d.email => c = d
    BY <1>4, <2>2, <2>5 DEF AreClients
  <2>9. \A c \in rows : IsClient(c, acc.free)
    BY <2>4, <2>5
  <2> HIDE DEF rows
  <2>10. AreClients(rows, acc.free)
    BY <2>7, <2>8, <2>9 DEF AreClients
  <2> QED BY <2>3, <2>10 DEF next
<1> QED BY <1>5, <1>6 DEF next

LEMMA AccountsAreSeq ==
  ASSUME NEW in, IsSettings(in.settings)
  PROVE  /\ Len(AccountsIn(in)) \in Nat /\ DOMAIN AccountsIn(in) = 1..Len(AccountsIn(in))
         /\ \A k \in DOMAIN AccountsIn(in) : IsAccount(AccountsIn(in)[k])
<1>1. CASE in.settings.json = "empty"
  BY <1>1 DEF AccountsIn
<1>2. CASE in.settings.json # "empty"
  <2>1. AccountsIn(in) = in.settings.clients
    BY <1>2 DEF AccountsIn
  <2>2. IsSeq(in.settings.clients) /\ \A k \in DOMAIN in.settings.clients : IsAccount(in.settings.clients[k])
    BY DEF IsSettings
  <2> QED BY <2>1, <2>2, SeqIsFunction
<1> QED BY <1>1, <1>2

\* syncImportedInboundClients takes over one account after the other.
TakesOver(taken, rows, free, in, stats) ==
  /\ taken[0] = [rows |-> rows, free |-> free]
  /\ \A k \in 1..Len(AccountsIn(in)) : taken[k] = TakeAccount(taken[k - 1], in, stats, AccountsIn(in)[k])
  /\ syncImportedInboundClients(rows, free, in, stats) = taken[Len(AccountsIn(in))]

LEMMA SyncTakesOver ==
  ASSUME NEW rows, NEW free, NEW in, Len(AccountsIn(in)) \in Nat, NEW stats
  PROVE  \E taken : TakesOver(taken, rows, free, in, stats)
<1> DEFINE base == [rows |-> rows, free |-> free]
           Step(acc, k) == TakeAccount(acc, in, stats, AccountsIn(in)[k])
           Fold(g, n) == g = [k \in 0..n |-> IF k = 0 THEN base ELSE Step(g[k - 1], k)]
           T == {n \in Nat : \E g : Fold(g, n)}
           last == Len(AccountsIn(in))
           taken == CHOOSE g : Fold(g, last)
<1>2. 0 \in T
  <2> DEFINE g == [k \in 0..0 |-> base]
  <2> HIDE DEF base, Step
  <2>1. Fold(g, 0)
    OBVIOUS
  <2> QED BY <2>1
<1>3. ASSUME NEW n \in Nat, n \in T PROVE n + 1 \in T
  <2> HIDE DEF base, Step
  <2>1. PICK g : Fold(g, n)
    BY <1>3
  <2> DEFINE h == [k \in 0..(n + 1) |-> IF k = 0 THEN base ELSE Step(g[k - 1], k)]
  <2>2. \A k \in 0..n : h[k] = g[k]
    BY <2>1
  <2>3. \A k \in 0..(n + 1) : k # 0 => k - 1 \in 0..n
    OBVIOUS
  <2>4. \A k \in 0..(n + 1) : h[k] = IF k = 0 THEN base ELSE Step(h[k - 1], k)
    BY <2>2, <2>3
  <2>5. Fold(h, n + 1)
    BY <2>4
  <2> HIDE DEF h, Fold
  <2> QED BY <2>5
<1>4. Fold(taken, last)
  <2>1. last \in T
    <3> HIDE DEF T
    <3> QED BY <1>2, <1>3, Counting
  <2> HIDE DEF Fold, last
  <2> QED BY <2>1
<1>5. syncImportedInboundClients(rows, free, in, stats) = taken[last]
  BY DEF syncImportedInboundClients
<1> HIDE DEF taken, Step, base
<1>6. taken[0] = base /\ \A k \in 1..last : taken[k] = Step(taken[k - 1], k)
  BY <1>4
<1>7. TakesOver(taken, rows, free, in, stats)
  BY <1>5, <1>6 DEF TakesOver, Step, base
<1> QED BY <1>7

\* The client table remains one, whatever is imported.
LEMMA SyncKeepsClients ==
  ASSUME NEW rows, NEW free \in Nat, AreClients(rows, free),
         NEW in, in.id \in 1..(free - 1), IsSettings(in.settings),
         NEW stats, IsSeq(stats), \A i \in DOMAIN stats : IsStat(stats[i])
  PROVE  LET synced == syncImportedInboundClients(rows, free, in, stats)
         IN  synced.free \in Nat /\ free <= synced.free /\ AreClients(synced.rows, synced.free)
<1> DEFINE last == Len(AccountsIn(in))
<1>1. last \in Nat
  BY AccountsAreSeq
<1>2. PICK taken : TakesOver(taken, rows, free, in, stats)
  BY <1>1, SyncTakesOver
<1> DEFINE Good(k) == taken[k].free \in Nat /\ free <= taken[k].free /\ AreClients(taken[k].rows, taken[k].free)
           T == {k \in Nat : k <= last => Good(k)}
<1>3. 0 \in T
  BY <1>2 DEF TakesOver
<1>4. ASSUME NEW n \in Nat, n \in T PROVE n + 1 \in T
  <2> SUFFICES ASSUME n + 1 <= last PROVE Good(n + 1)
    OBVIOUS
  <2> DEFINE u == AccountsIn(in)[n + 1]
             acc == taken[n]
  <2>1. Good(n) /\ n + 1 \in 1..last
    BY <1>1, <1>4
  <2>2. taken[n + 1] = TakeAccount(acc, in, stats, u)
    <3>1. n + 1 - 1 = n
      OBVIOUS
    <3> QED BY <1>2, <2>1, <3>1 DEF TakesOver
  <2>3. IsAccount(u)
    BY <2>1, AccountsAreSeq
  <2>4. CASE importedClientCredential(in.protocol, u) = ""
    BY <2>1, <2>2, <2>4 DEF TakeAccount
  <2>5. CASE importedClientCredential(in.protocol, u) # ""
    <3> DEFINE entry == importedClient(in.protocol, u, stats)
               next == TakeOver(acc, in.id, entry)
    <3>1. taken[n + 1] = next
      BY <2>2, <2>5 DEF TakeAccount
    <3>2. IsEntry(entry)
      <4> HIDE DEF u
      <4> QED BY <2>3, <2>5, ImportedIsEntry
    <3>3. in.id \in Nat /\ 0 < in.id /\ in.id < acc.free
      BY <2>1
    <3> HIDE DEF entry, acc
    <3>4. next.free \in Nat /\ acc.free <= next.free /\ AreClients(next.rows, next.free)
      BY <2>1, <3>2, <3>3, TakeOverKeeps DEF acc
    <3> HIDE DEF next
    <3> QED BY <2>1, <3>1, <3>4 DEF acc
  <2> QED BY <2>4, <2>5
<1>5. Good(last)
  <2>1. last \in T
    <3> HIDE DEF T
    <3> QED BY <1>1, <1>3, <1>4, Counting
  <2> HIDE DEF Good
  <2> QED BY <1>1, <2>1
<1> QED BY <1>2, <1>5 DEF TakesOver

------------------------------------------------------------------------------
(* The tables through the handlers                                         *)

LEMMA MoreIds ==
  ASSUME NEW n \in Nat, NEW m \in Nat, n <= m
  PROVE  /\ \A in : IsInbound(in, n) => IsInbound(in, m)
         /\ \A c : IsClient(c, n) => IsClient(c, m)
         /\ \A rows : AreInbounds(rows, n) => AreInbounds(rows, m)
         /\ \A rows : AreClients(rows, n) => AreClients(rows, m)
<1>1. \A i : i \in 1..(n - 1) => i \in 1..(m - 1)
  OBVIOUS
<1>2. \A in : IsInbound(in, n) => IsInbound(in, m)
  BY <1>1 DEF IsInbound
<1>3. \A c : IsClient(c, n) => IsClient(c, m)
  BY <1>1 DEF IsClient
<1> QED BY <1>2, <1>3 DEF AreInbounds, AreClients

LEMMA InsertedRows ==
  ASSUME NEW n
  PROVE  /\ \A in : IsInbound(in, n) => IsInbound(Inserted(in), n) /\ Inserted(in).id = in.id
         /\ \A c : IsClient(c, n) => /\ IsClient(Inserted(c), n) /\ Inserted(c).id = c.id
                                     /\ Inserted(c).inbound = c.inbound /\ Inserted(c).email = c.email
<1>1. ASSUME NEW in, IsInbound(in, n) PROVE IsInbound(Inserted(in), n) /\ Inserted(in).id = in.id
  <2>1. DOMAIN in = InboundColumns /\ IsForm(in) /\ in.id \in 1..(n - 1)
    BY <1>1 DEF IsInbound, IsInboundRow
  <2>2. DOMAIN Inserted(in) = InboundColumns
    BY <2>1 DEF Inserted
  <2>3. Inserted(in).id = in.id /\ Inserted(in).settings = in.settings /\ Inserted(in).tag = in.tag
    BY <2>1 DEF Inserted, InboundColumns
  <2>4. IsForm(Inserted(in))
    BY <2>1, <2>2, <2>3 DEF IsForm
  <2> QED BY <2>1, <2>2, <2>3, <2>4 DEF IsInbound, IsInboundRow
<1>2. ASSUME NEW c, IsClient(c, n)
      PROVE  /\ IsClient(Inserted(c), n) /\ Inserted(c).id = c.id
             /\ Inserted(c).inbound = c.inbound /\ Inserted(c).email = c.email
  <2>1. DOMAIN c = ClientColumns
    BY <1>2 DEF IsClient, IsClientRow
  <2>2. DOMAIN Inserted(c) = ClientColumns
    BY <2>1 DEF Inserted
  <2>3. /\ Inserted(c).id = c.id /\ Inserted(c).inbound = c.inbound /\ Inserted(c).email = c.email
        /\ Inserted(c).uuid = c.uuid /\ Inserted(c).expiry = c.expiry
    BY <2>1 DEF Inserted, ClientColumns
  <2> QED BY <1>2, <2>2, <2>3 DEF IsClient, IsClientRow
<1> QED BY <1>1, <1>2

LEMMA RowIsInbound ==
  ASSUME NEW f, IsForm(f), NEW n, NEW id \in 1..(n - 1)
  PROVE  IsInbound(Row(id, f), n) /\ Row(id, f).id = id /\ Row(id, f).tag = f.tag
<1>1. DOMAIN Row(id, f) = InboundColumns
  BY DEF Row, InboundColumns
<1>2. Row(id, f).id = id /\ Row(id, f).settings = f.settings /\ Row(id, f).tag = f.tag
  BY DEF Row
<1>3. IsForm(Row(id, f))
  BY <1>1, <1>2 DEF IsForm
<1> QED BY <1>1, <1>2, <1>3 DEF IsInbound, IsInboundRow

\* One row written into a table in place of the row with its id.
LEMMA WrittenInbound ==
  ASSUME NEW rows, NEW n \in Nat, AreInbounds(rows, n), NEW in, IsInbound(in, n),
         \A other \in rows : other.tag = in.tag => other.id = in.id
  PROVE  AreInbounds({other \in rows : other.id # in.id} \cup {in}, n)
<1> DEFINE rest == {other \in rows : other.id # in.id}
           new  == rest \cup {in}
<1>1. IsFiniteSet(new)
  <2>1. IsFiniteSet(rest)
    BY FS_Subset DEF AreInbounds, IsTable
  <2> HIDE DEF rest
  <2> QED BY <2>1, FS_AddElement
<1>2. \A r \in new : IsInbound(r, n) /\ r.id \in Int
  BY DEF AreInbounds, IsTable, IsInbound
<1>3. \A r, q \in new : r.id = q.id => r = q
  BY DEF AreInbounds, IsTable
<1>4. \A r, q \in new : r.tag = q.tag => r = q
  BY DEF AreInbounds
<1> HIDE DEF new
<1>5. AreInbounds(new, n)
  BY <1>1, <1>2, <1>3, <1>4 DEF AreInbounds, IsTable
<1> QED BY <1>5 DEF new

LEMMA WrittenClient ==
  ASSUME NEW rows, NEW n \in Nat, AreClients(rows, n), NEW c, IsClient(c, n),
         \A d \in rows : d.inbound = c.inbound /\ d.email = c.email => d.id = c.id
  PROVE  AreClients({d \in rows : d.id # c.id} \cup {c}, n)
<1> DEFINE rest == {d \in rows : d.id # c.id}
           new  == rest \cup {c}
<1>1. IsFiniteSet(new)
  <2>1. IsFiniteSet(rest)
    BY FS_Subset DEF AreClients, IsTable
  <2> HIDE DEF rest
  <2> QED BY <2>1, FS_AddElement
<1>2. \A r \in new : IsClient(r, n) /\ r.id \in Int
  BY DEF AreClients, IsTable, IsClient
<1>3. \A r, q \in new : r.id = q.id => r = q
  BY DEF AreClients, IsTable
<1>4. \A r, q \in new : r.inbound = q.inbound /\ r.email = q.email => r = q
  BY DEF AreClients
<1> HIDE DEF new
<1>5. AreClients(new, n)
  BY <1>1, <1>2, <1>3, <1>4 DEF AreClients, IsTable
<1> QED BY <1>5 DEF new

LEMMA FewerRows ==
  ASSUME NEW n
  PROVE  /\ \A rows : AreInbounds(rows, n) => \A S \in SUBSET rows : AreInbounds(S, n)
         /\ \A rows : AreClients(rows, n) => \A S \in SUBSET rows : AreClients(S, n)
<1>1. \A rows : IsTable(rows) => \A S \in SUBSET rows : IsTable(S)
  BY SubTable
<1> QED BY <1>1 DEF AreInbounds, AreClients

\* Some clients of a table changed, but for what identifies them.
LEMMA ChangedClients ==
  ASSUME NEW rows, NEW n, AreClients(rows, n), NEW chosen \in SUBSET rows, NEW f, DOMAIN f = chosen,
         \A c \in chosen : /\ IsClientRow(f[c])
                           /\ f[c].id = c.id /\ f[c].inbound = c.inbound /\ f[c].email = c.email
  PROVE  AreClients((rows \ chosen) \cup {f[c] : c \in chosen}, n)
<1> DEFINE new == (rows \ chosen) \cup {f[c] : c \in chosen}
<1>1. IsFiniteSet(new)
  <2>1. IsFiniteSet(chosen) /\ IsFiniteSet(rows \ chosen)
    BY FS_Subset DEF AreClients, IsTable
  <2>2. IsFiniteSet({f[c] : c \in chosen})
    BY <2>1, FiniteImage
  <2> QED BY <2>1, <2>2, FS_Union
<1>2. \A r \in new : \E c \in rows : /\ r.id = c.id /\ r.inbound = c.inbound /\ r.email = c.email
                                     /\ IsClientRow(r)
                                     /\ ((r = c /\ c \notin chosen) \/ (r = f[c] /\ c \in chosen))
  <2> SUFFICES ASSUME NEW r \in new
               PROVE  \E c \in rows : /\ r.id = c.id /\ r.inbound = c.inbound /\ r.email = c.email
                                      /\ IsClientRow(r)
                                      /\ ((r = c /\ c \notin chosen) \/ (r = f[c] /\ c \in chosen))
    OBVIOUS
  <2>1. CASE r \in rows \ chosen
    <3>1. r \in rows /\ r \notin chosen
      BY <2>1
    <3>2. IsClientRow(r)
      BY <3>1 DEF AreClients, IsClient
    <3> QED BY <3>1, <3>2
  <2>2. CASE r \notin rows \ chosen
    <3>1. PICK c \in chosen : r = f[c]
      BY <2>2
    <3> QED BY <3>1
  <2> QED BY <2>1, <2>2
<1> HIDE DEF new
<1>4. \A r \in new : IsClient(r, n) /\ r.id \in Int
  BY <1>2 DEF AreClients, IsTable, IsClient
<1>5. \A r, q \in new : r.id = q.id => r = q
  BY <1>2 DEF AreClients, IsTable
<1>6. \A r, q \in new : r.inbound = q.inbound /\ r.email = q.email => r = q
  BY <1>2 DEF AreClients
<1>7. AreClients(new, n)
  BY <1>1, <1>4, <1>5, <1>6 DEF AreClients, IsTable
<1> QED BY <1>7 DEF new

------------------------------------------------------------------------------
(* The tables in every state                                               *)

\* A saved edit writes the row it read, which may be gone by then.
EditHolds ==
  edit # << >> => /\ Head(edit).kind = "inbound" => IsInbound(Head(edit).row, nextId)
                  /\ Head(edit).kind = "client" => IsClient(Head(edit).row, nextId)

RowsInv ==
  /\ nextId \in Nat /\ 0 < nextId
  /\ AreInbounds(inbounds, nextId)
  /\ AreClients(clients, nextId)
  /\ EditHolds

\* The rows of an answer: a list, with expiry times.
IsAnswer(rows) == \E n \in Nat : DOMAIN rows = 1..n /\ \A i \in 1..n : rows[i].expiry \in Int

IsCurrent(e) == e.rows = ActiveRows(e.uuid, e.at)

IsFill(f) ==
  /\ DOMAIN f = {"key", "uuid", "rows", "at", "overtaken"} /\ IsAnswer(f.rows)
  /\ ~f.overtaken => IsCurrent(f)

IsEntryOf(e) ==
  /\ DOMAIN e = {"rows", "at", "storedAt", "uuid", "expiresAt", "overtaken"} /\ IsAnswer(e.rows)
  /\ e.expiresAt = EarliestExpiry(e.rows)
  /\ invalidations = 0 /\ ~e.overtaken => IsCurrent(e)

CacheInv ==
  /\ now \in Nat /\ invalidations \in Nat /\ DOMAIN cache = Keys
  /\ \A k \in Keys : cache[k] = << >> \/ \E e : cache[k] = <<e>> /\ IsEntryOf(e)
  /\ \A f \in fills : IsFill(f)

LEMMA TablesStart ==
  ASSUME Init PROVE RowsInv
<1>1. PICK t \in Tables : inbounds = t.inbounds /\ clients = t.clients /\ nextId = 10 /\ edit = << >>
  BY DEF Init
<1>2. AreInbounds(t.inbounds, 10) /\ AreClients(t.clients, 10)
  BY NodeTableAssumption DEF NodeTableAssumption
<1> QED BY <1>1, <1>2 DEF RowsInv, EditHolds

LEMMA TablesAsTheyAre ==
  ASSUME RowsInv, UNCHANGED <<inbounds, clients, nextId, edit>>
  PROVE  RowsInv'
  BY DEF RowsInv, EditHolds

\* An edit under way stays possible while no id is taken back.
LEMMA EditStays ==
  ASSUME RowsInv, nextId' \in Nat, nextId <= nextId', edit' = edit \/ edit' = << >>
  PROVE  EditHolds'
<1>1. CASE edit' = << >>
  BY <1>1 DEF EditHolds
<1>2. CASE edit' = edit
  BY <1>2, MoreIds DEF RowsInv, EditHolds
<1> QED BY <1>1, <1>2

\* The transaction that writes an inbound and takes over its accounts.
LEMMA WriteKeepsTables ==
  ASSUME RowsInv, NEW free \in Nat, nextId <= free, NEW in, IsInbound(in, free),
         NEW stats, IsSeq(stats), \A i \in DOMAIN stats : IsStat(stats[i]),
         WriteInbound(in, free, stats)
  PROVE  /\ nextId' \in Nat /\ nextId <= nextId'
         /\ AreInbounds(inbounds', nextId') /\ AreClients(clients', nextId')
<1> DEFINE synced == syncImportedInboundClients(clients, free, in, stats)
           written == {other \in inbounds : other.id # in.id} \cup {in}
<1>1. inbounds' = written /\ clients' = synced.rows /\ nextId' = synced.free /\ TagFree(in.tag, in.id)
  BY DEF WriteInbound
<1>2. AreInbounds(inbounds, free) /\ AreClients(clients, free)
  BY MoreIds DEF RowsInv
<1>3. synced.free \in Nat /\ free <= synced.free /\ AreClients(synced.rows, synced.free)
  <2>1. in.id \in 1..(free - 1) /\ IsSettings(in.settings)
    BY DEF IsInbound, IsInboundRow, IsForm
  <2> QED BY <1>2, <2>1, SyncKeepsClients
<1>4. AreInbounds(written, free)
  <2>1. \A other \in inbounds : other.tag = in.tag => other.id = in.id
    BY <1>1 DEF TagFree
  <2> QED BY <1>2, <2>1, WrittenInbound
<1>5. AreInbounds(written, synced.free)
  <2> HIDE DEF written
  <2> QED BY <1>3, <1>4, MoreIds
<1>6. nextId <= synced.free
  <2> HIDE DEF synced
  <2> QED BY <1>3 DEF RowsInv
<1> QED BY <1>1, <1>3, <1>5, <1>6

LEMMA NoStats ==
  IsSeq(<< >>) /\ \A i \in DOMAIN << >> : IsStat(<< >>[i])
<1>1. << >> \in [1..0 -> {}]
  OBVIOUS
<1> QED BY <1>1, FunctionIsSeq

LEMMA CreateInboundRows ==
  ASSUME RowsInv, NEW form \in InboundForms, CreateInbound(form)
  PROVE  RowsInv'
<1> DEFINE in == Inserted(Row(nextId, form))
<1>1. WriteInbound(in, nextId + 1, << >>) /\ edit' = edit
  BY DEF CreateInbound
<1>2. nextId \in Nat /\ nextId + 1 \in Nat /\ nextId <= nextId + 1 /\ nextId \in 1..(nextId + 1 - 1)
  BY DEF RowsInv
<1>3. IsForm(form)
  BY NodeTableAssumption DEF NodeTableAssumption
<1>4. IsInbound(in, nextId + 1)
  BY <1>2, <1>3, RowIsInbound, InsertedRows
<1> HIDE DEF in
<1>5. /\ nextId' \in Nat /\ nextId <= nextId'
      /\ AreInbounds(inbounds', nextId') /\ AreClients(clients', nextId')
  BY <1>1, <1>2, <1>4, NoStats, WriteKeepsTables
<1>6. EditHolds'
  BY <1>1, <1>5, EditStays
<1> QED BY <1>5, <1>6 DEF RowsInv

LEMMA BeginEditInboundRows ==
  ASSUME RowsInv, NEW in \in inbounds, NEW form \in InboundForms, BeginEditInbound(in, form)
  PROVE  RowsInv'
<1> DEFINE row == Row(in.id, form)
<1>1. edit' = <<[kind |-> "inbound", row |-> row]>> /\ UNCHANGED <<inbounds, clients, nextId>>
  BY DEF BeginEditInbound, tables
<1>2. IsForm(form)
  BY NodeTableAssumption DEF NodeTableAssumption
<1>3. in.id \in 1..(nextId - 1)
  BY DEF RowsInv, AreInbounds, IsInbound
<1>4. IsInbound(row, nextId)
  BY <1>2, <1>3, RowIsInbound
<1> HIDE DEF row
<1>5. Head(edit').kind = "inbound" /\ Head(edit').row = row
  BY <1>1
<1>6. EditHolds'
  BY <1>1, <1>4, <1>5 DEF EditHolds
<1> QED BY <1>1, <1>6 DEF RowsInv

LEMMA SaveInboundRows ==
  ASSUME RowsInv, SaveInbound
  PROVE  RowsInv'
<1> DEFINE row == Head(edit).row
           gone == \A in \in inbounds : in.id # row.id
           in == IF gone THEN Inserted(row) ELSE row
<1>1. edit' = << >> /\ IsInbound(row, nextId)
  BY DEF SaveInbound, RowsInv, EditHolds
<1>2. IsInbound(in, nextId) /\ nextId \in Nat /\ nextId <= nextId
  BY <1>1, InsertedRows DEF RowsInv
<1>3. WriteInbound(in, nextId, << >>) \/ UNCHANGED <<inbounds, clients, nextId>>
  BY DEF SaveInbound
<1> HIDE DEF in
<1>4. /\ nextId' \in Nat /\ nextId <= nextId'
      /\ AreInbounds(inbounds', nextId') /\ AreClients(clients', nextId')
  <2>1. CASE WriteInbound(in, nextId, << >>)
    BY <1>2, <2>1, NoStats, WriteKeepsTables
  <2>2. CASE UNCHANGED <<inbounds, clients, nextId>>
    BY <1>2, <2>2 DEF RowsInv
  <2> QED BY <1>3, <2>1, <2>2
<1>5. EditHolds'
  BY <1>1, <1>4, EditStays
<1> QED BY <1>4, <1>5 DEF RowsInv

LEMMA DeleteInboundRows ==
  ASSUME RowsInv, NEW in \in inbounds, DeleteInbound(in)
  PROVE  RowsInv'
<1>1. /\ inbounds' \in SUBSET inbounds /\ clients' \in SUBSET clients
      /\ nextId' = nextId /\ edit' = edit
  BY DEF DeleteInbound
<1>2. AreInbounds(inbounds', nextId) /\ AreClients(clients', nextId)
  BY <1>1, FewerRows DEF RowsInv
<1> QED BY <1>1, <1>2 DEF RowsInv, EditHolds


(* The 3x-ui import                                                        *)

LEMMA PairAppended ==
  ASSUME NEW s, IsSeq(s), NEW a, NEW b
  PROVE  IsSeq(s \o <<a, b>>) /\ Len(s \o <<a, b>>) = Len(s) + 2 /\ (s \o <<a, b>>)[Len(s) + 2] = b
<1> DEFINE S == ToSet(s) \cup {a, b}
           p == <<a, b>>
<1>1. s \in Seq(S) /\ p \in Seq(S) /\ Len(p) = 2 /\ p[2] = b /\ Len(s) \in Nat
  BY DEF IsSeq
<1> HIDE DEF S, p
<1>2. s \o p \in Seq(S) /\ Len(s \o p) = Len(s) + 2
  <2>1. s \o p \in Seq(S) /\ Len(s \o p) = Len(s) + Len(p)
    BY <1>1, ConcatProperties, Zenon
  <2> QED BY <1>1, <2>1
<1>4. (s \o p)[Len(s) + 2] = b
  <2> DEFINE m == Len(s) + 2
  <2>1. m \in 1..(Len(s) + Len(p)) /\ ~(m <= Len(s)) /\ m - Len(s) = 2
    BY <1>1
  <2>2. (s \o p)[m] = p[m - Len(s)]
    <3> HIDE DEF m
    <3> QED BY <1>1, <2>1, ConcatProperties
  <2> QED BY <1>1, <2>1, <2>2
<1>3. IsSeq(s \o p)
  BY <1>2, MemberIsSeq
<1> QED BY <1>2, <1>3, <1>4 DEF p

\* An imported row gets a tag no inbound has.
LEMMA UniqueTag ==
  ASSUME RowsInv, NEW preferred, IsSeq(preferred)
  PROVE  /\ IsSeq(ensureUniqueInboundTag(preferred))
         /\ \A in \in inbounds : in.tag # ensureUniqueInboundTag(preferred)
<1> DEFINE taken == {in.tag : in \in inbounds}
           tried == [k \in 1..(Cardinality(taken) + 1) |-> IF k = 1 THEN preferred ELSE preferred \o <<"-", k>>]
           k == Min({i \in DOMAIN tried : tried[i] \notin taken})
<1>1. IsFiniteSet(taken)
  <2> DEFINE f == [in \in inbounds |-> in.tag]
  <2>0. IsFiniteSet(inbounds) /\ DOMAIN f = inbounds
    BY DEF RowsInv, AreInbounds, IsTable
  <2>1. IsFiniteSet({f[in] : in \in inbounds})
    <3> HIDE DEF f
    <3> QED BY <2>0, FiniteImage
  <2>2. {f[in] : in \in inbounds} = taken
    OBVIOUS
  <2> QED BY <2>1, <2>2
<1>2. Cardinality(taken) \in Nat
  BY <1>1, FS_CardinalityType
<1>3. ASSUME NEW i \in DOMAIN tried PROVE IsSeq(tried[i])
  <2> HIDE DEF taken
  <2> QED BY <1>2, PairAppended
<1>4. ASSUME NEW i \in DOMAIN tried, NEW j \in DOMAIN tried, tried[i] = tried[j] PROVE i = j
  <2> HIDE DEF taken
  <2>1. Len(preferred) \in Nat
    BY SeqIsFunction
  <2>2. CASE i = 1 /\ j # 1
    <3>1. Len(tried[j]) = Len(preferred) + 2 /\ tried[i] = preferred
      BY <1>2, <2>2, PairAppended
    <3> HIDE DEF tried
    <3> QED BY <1>4, <2>1, <3>1
  <2>3. CASE i # 1 /\ j = 1
    <3>1. Len(tried[i]) = Len(preferred) + 2 /\ tried[j] = preferred
      BY <1>2, <2>3, PairAppended
    <3> HIDE DEF tried
    <3> QED BY <1>4, <2>1, <3>1
  <2>4. CASE i # 1 /\ j # 1
    <3>1. tried[i] = preferred \o <<"-", i>> /\ tried[j] = preferred \o <<"-", j>>
      BY <2>4
    <3> HIDE DEF tried
    <3>2. tried[i][Len(preferred) + 2] = i /\ tried[j][Len(preferred) + 2] = j
      BY <3>1, PairAppended
    <3> QED BY <1>4, <3>2
  <2> QED BY <2>2, <2>3, <2>4
<1>5. k \in DOMAIN tried /\ tried[k] \notin taken
  <2>1. DOMAIN tried = 1..(Cardinality(taken) + 1)
    OBVIOUS
  <2> HIDE DEF tried, taken
  <2> QED BY <1>1, <1>4, <2>1, FirstFree
<1>6. ensureUniqueInboundTag(preferred) = tried[k]
  BY DEF ensureUniqueInboundTag
<1>7. \A in \in inbounds : in.tag # tried[k]
  BY <1>5
<1> HIDE DEF tried, k
<1> QED BY <1>3, <1>5, <1>6, <1>7

\* What an import may bring along.
IsItem(item) ==
  IsForm(item.columns) /\ IsSeq(item.stats) /\ \A i \in DOMAIN item.stats : IsStat(item.stats[i])

LEMMA ImportedRow ==
  ASSUME RowsInv, NEW item, IsItem(item)
  PROVE  LET row == importThreeXUIInbound(item)
         IN  /\ IsInbound(row, nextId + 1) /\ row.id = nextId
             /\ row.protocol = item.columns.protocol /\ row.settings = item.columns.settings
<1> DEFINE tag == ensureUniqueInboundTag(item.columns.tag)
           columns == [item.columns EXCEPT !.tag = ensureUniqueInboundTag(@), !.addr = "", !.v4 = "", !.v6 = ""]
<1>1. IsForm(item.columns) /\ InboundColumns \ {"id"} \subseteq DOMAIN item.columns /\ IsSeq(item.columns.tag)
  BY DEF IsItem, IsForm
<1>2. IsSeq(tag)
  BY <1>1, UniqueTag
<1>3. DOMAIN columns = DOMAIN item.columns
  OBVIOUS
<1>4. columns.settings = item.columns.settings /\ columns.protocol = item.columns.protocol /\ columns.tag = tag
  BY <1>1 DEF InboundColumns
<1>5. importThreeXUIInbound(item) = Row(nextId, columns)
  BY DEF importThreeXUIInbound
<1> HIDE DEF columns, tag
<1>6. IsForm(columns)
  BY <1>1, <1>2, <1>3, <1>4 DEF IsForm
<1>7. nextId \in 1..(nextId + 1 - 1)
  BY DEF RowsInv
<1>8. Row(nextId, columns).protocol = columns.protocol /\ Row(nextId, columns).settings = columns.settings
  BY DEF Row
<1> QED BY <1>4, <1>5, <1>6, <1>7, <1>8, RowIsInbound

LEMMA ImportRows ==
  ASSUME RowsInv, NEW item, IsItem(item), Import3xui(item)
  PROVE  RowsInv'
<1> DEFINE in == Inserted(importThreeXUIInbound(item))
<1>1. WriteInbound(in, nextId + 1, item.stats) /\ edit' = edit
  BY DEF Import3xui
<1>2. nextId \in Nat /\ nextId + 1 \in Nat /\ nextId <= nextId + 1
  BY DEF RowsInv
<1>3. IsInbound(in, nextId + 1)
  BY ImportedRow, InsertedRows
<1> HIDE DEF in
<1>4. /\ nextId' \in Nat /\ nextId <= nextId'
      /\ AreInbounds(inbounds', nextId') /\ AreClients(clients', nextId')
  BY <1>1, <1>2, <1>3, WriteKeepsTables DEF IsItem
<1>5. EditHolds'
  BY <1>1, <1>4, EditStays
<1> QED BY <1>4, <1>5 DEF RowsInv

\* The rows of one inbound, in table order.
LEMMA MineInOrder ==
  ASSUME RowsInv, NEW S \in SUBSET clients
  PROVE  /\ Cardinality(S) \in Nat /\ ToSeqById(S) \in [1..Cardinality(S) -> S]
         /\ \A c \in S : \E i \in 1..Cardinality(S) : ToSeqById(S)[i] = c
         /\ \A i, j \in 1..Cardinality(S) : ToSeqById(S)[i] = ToSeqById(S)[j] => i = j
<1>1. IsTable(S)
  BY SubTable DEF RowsInv, AreClients
<1> QED BY <1>1, ToSeqByIdLists

\* An export is something that can be imported.
LEMMA ExportedIsItem ==
  ASSUME RowsInv, NEW in \in inbounds
  PROVE  IsItem(buildThreeXUIInboundExport(in))
<1> DEFINE mine == {c \in clients : c.inbound = in.id}
           n == Cardinality(mine)
           rows == ToSeqById(mine)
           accounts == buildThreeXUISettingsClients(in, mine)
           stats == buildThreeXUIClientStats(mine)
           item == buildThreeXUIInboundExport(in)
<1>1. n \in Nat /\ rows \in [1..n -> mine]
  BY MineInOrder
<1>2. \A i \in 1..n : rows[i] \in clients /\ IsSeq(rows[i].email) /\ rows[i].expiry \in Int
  <2> HIDE DEF rows, n
  <2> QED BY <1>1 DEF RowsInv, AreClients, IsClient, IsClientRow, IsName
<1>3. DOMAIN accounts = 1..n /\ DOMAIN stats = 1..n
  BY <1>1 DEF buildThreeXUISettingsClients, buildThreeXUIClientStats
<1>4. \A i \in 1..n : accounts[i].email = rows[i].email /\ accounts[i].expiry = rows[i].expiry
  BY <1>1 DEF buildThreeXUISettingsClients
<1>5. \A i \in 1..n : stats[i].expiry = rows[i].expiry
  BY <1>1 DEF buildThreeXUIClientStats
<1>6. IsSeq(accounts) /\ IsSeq(stats)
  <2>1. accounts = [i \in 1..n |-> accounts[i]]
    BY <1>1, <1>3 DEF buildThreeXUISettingsClients
  <2>2. stats = [i \in 1..n |-> stats[i]]
    BY <1>1, <1>3 DEF buildThreeXUIClientStats
  <2> HIDE DEF accounts, stats, n
  <2>3. accounts \in [1..n -> {accounts[i] : i \in 1..n}] /\ stats \in [1..n -> {stats[i] : i \in 1..n}]
    BY <2>1, <2>2
  <2> QED BY <1>1, <2>3, FunctionIsSeq
<1>7. item.stats = stats /\ item.columns = [in EXCEPT !.settings.json = "ok", !.settings.clients = accounts]
  BY DEF buildThreeXUIInboundExport
<1> HIDE DEF accounts, stats, item, n, rows
<1>8. DOMAIN in = InboundColumns /\ IsForm(in) /\ IsSettings(in.settings)
  BY DEF RowsInv, AreInbounds, IsInbound, IsInboundRow, IsForm
<1>9. DOMAIN item.columns = InboundColumns /\ item.columns.tag = in.tag
      /\ item.columns.settings = [in.settings EXCEPT !.json = "ok", !.clients = accounts]
  BY <1>7, <1>8 DEF InboundColumns
<1>10. DOMAIN in.settings = {"json", "method", "psk", "flow", "obfs", "clients"}
  BY <1>8 DEF IsSettings
<1>11. DOMAIN item.columns.settings = {"json", "method", "psk", "flow", "obfs", "clients"}
       /\ item.columns.settings.clients = accounts
  BY <1>9, <1>10
<1>12. \A i \in DOMAIN accounts : IsAccount(accounts[i])
  BY <1>2, <1>3, <1>4 DEF IsAccount
<1>13. IsSettings(item.columns.settings)
  BY <1>6, <1>11, <1>12 DEF IsSettings
<1>14. IsForm(item.columns)
  BY <1>8, <1>9, <1>13 DEF IsForm
<1>15. \A i \in DOMAIN stats : IsStat(stats[i])
  BY <1>2, <1>3, <1>5 DEF IsStat
<1> QED BY <1>6, <1>7, <1>14, <1>15 DEF IsItem, item


(* The client handlers                                                     *)

LEMMA CreateClientRows ==
  ASSUME RowsInv, NEW in \in inbounds, NEW email \in Emails, NEW uuid \in Uuids, NEW expiry \in Expiries,
         CreateClient(in, email, uuid, expiry)
  PROVE  RowsInv'
<1> DEFINE c == [id |-> nextId, inbound |-> in.id, email |-> email, uuid |-> uuid,
                 enable |-> TRUE, expiry |-> expiry, used |-> 0]
           rows == {d \in clients : d.id # c.id} \cup {c}
<1>1. /\ clients' = clients \cup {c} /\ nextId' = nextId + 1 /\ EmailFree(in.id, email, 0)
      /\ inbounds' = inbounds /\ edit' = edit
  BY DEF CreateClient
<1>2. nextId \in Nat /\ 0 < nextId /\ nextId + 1 \in Nat /\ nextId <= nextId + 1
      /\ in.id \in 1..(nextId + 1 - 1) /\ nextId \in 1..(nextId + 1 - 1)
  BY DEF RowsInv, AreInbounds, IsInbound
<1>3. IsName(email) /\ uuid # "" /\ expiry \in Int
  BY NodeTableAssumption DEF NodeTableAssumption
<1>4. c.id = nextId /\ c.inbound = in.id /\ c.email = email /\ c.uuid = uuid /\ c.expiry = expiry
      /\ DOMAIN c = ClientColumns
  BY DEF ClientColumns
<1> HIDE DEF c
<1>5. IsClientRow(c)
  BY <1>3, <1>4 DEF IsClientRow
<1>6. IsClient(c, nextId + 1)
  BY <1>2, <1>4, <1>5 DEF IsClient
<1>7. \A d \in clients : d.id \in 1..(nextId - 1)
  BY DEF RowsInv, AreClients, IsClient
<1>8. \A d \in clients : d.id # c.id /\ d.id # 0
  BY <1>2, <1>4, <1>7
<1>9. \A d \in clients : d.inbound = c.inbound /\ d.email = c.email => d.id = c.id
  BY <1>1, <1>4, <1>8 DEF EmailFree
<1>10. AreClients(clients, nextId + 1) /\ AreInbounds(inbounds, nextId + 1)
  BY <1>2, MoreIds DEF RowsInv
<1>11. AreClients(rows, nextId + 1)
  BY <1>2, <1>6, <1>9, <1>10, WrittenClient
<1>12. clients' = rows
  BY <1>1, <1>8
<1>13. EditHolds'
  BY <1>1, <1>2, EditStays
<1>14. nextId' \in Nat /\ 0 < nextId'
  BY <1>1, <1>2
<1> QED BY <1>1, <1>10, <1>11, <1>12, <1>13, <1>14 DEF RowsInv

LEMMA BeginEditClientRows ==
  ASSUME RowsInv, NEW c \in clients, NEW email \in Emails, NEW enable, NEW expiry \in Expiries,
         BeginEditClient(c, email, enable, expiry)
  PROVE  RowsInv'
<1> DEFINE row == [c EXCEPT !.email = email, !.enable = enable, !.expiry = expiry]
<1>1. edit' = <<[kind |-> "client", row |-> row]>> /\ UNCHANGED <<inbounds, clients, nextId>>
  BY DEF BeginEditClient, tables
<1>2. IsName(email) /\ expiry \in Int
  BY NodeTableAssumption DEF NodeTableAssumption
<1>3. IsClient(c, nextId) /\ DOMAIN c = ClientColumns /\ c.uuid # ""
  BY DEF RowsInv, AreClients, IsClient, IsClientRow
<1>4. row.id = c.id /\ row.inbound = c.inbound /\ row.email = email /\ row.uuid = c.uuid /\ row.expiry = expiry
      /\ DOMAIN row = ClientColumns
  BY <1>3 DEF ClientColumns
<1> HIDE DEF row
<1>5. IsClientRow(row)
  BY <1>2, <1>3, <1>4 DEF IsClientRow
<1>6. IsClient(row, nextId)
  BY <1>3, <1>4, <1>5 DEF IsClient
<1>7. Head(edit').kind = "client" /\ Head(edit').row = row
  BY <1>1
<1>8. EditHolds'
  BY <1>1, <1>6, <1>7 DEF EditHolds
<1> QED BY <1>1, <1>8 DEF RowsInv

LEMMA SaveClientRows ==
  ASSUME RowsInv, SaveClient
  PROVE  RowsInv'
<1> DEFINE row == Head(edit).row
           gone == \A c \in clients : c.id # row.id
           c == IF gone THEN Inserted(row) ELSE row
           rows == {d \in clients : d.id # row.id} \cup {c}
<1>1. edit' = << >> /\ IsClient(row, nextId) /\ UNCHANGED <<inbounds, nextId>>
  BY DEF SaveClient, RowsInv, EditHolds
<1>2. IsClient(c, nextId) /\ c.id = row.id /\ c.inbound = row.inbound /\ c.email = row.email
  BY <1>1, InsertedRows
<1>3. (EmailFree(row.inbound, row.email, row.id) /\ clients' = rows) \/ clients' = clients
  BY DEF SaveClient
<1> HIDE DEF c, row
<1>4. AreClients(clients', nextId)
  <2>1. CASE EmailFree(row.inbound, row.email, row.id) /\ clients' = rows
    <3>1. \A d \in clients : d.inbound = c.inbound /\ d.email = c.email => d.id = c.id
      BY <1>2, <2>1 DEF EmailFree
    <3>2. nextId \in Nat /\ AreClients(clients, nextId)
      BY DEF RowsInv
    <3>3. AreClients({d \in clients : d.id # c.id} \cup {c}, nextId)
      BY <1>2, <3>1, <3>2, WrittenClient
    <3> QED BY <1>2, <2>1, <3>3
  <2>2. CASE clients' = clients
    BY <2>2 DEF RowsInv
  <2> QED BY <1>3, <2>1, <2>2
<1> QED BY <1>1, <1>4 DEF RowsInv, EditHolds

LEMMA ChangeClientsRows ==
  ASSUME RowsInv, NEW chosen \in SUBSET clients, NEW op \in {"delete", "enable", "disable", "reset_traffic"},
         ChangeClients(chosen, op)
  PROVE  RowsInv'
<1> DEFINE On(c) == [c EXCEPT !.enable = TRUE]
           Off(c) == [c EXCEPT !.enable = FALSE]
           Reset(c) == [c EXCEPT !.used = 0]
           Same(d, c) == IsClientRow(d) /\ d.id = c.id /\ d.inbound = c.inbound /\ d.email = c.email
<1>1. inbounds' = inbounds /\ nextId' = nextId /\ edit' = edit
  BY DEF ChangeClients
<1>2. ASSUME NEW c \in clients PROVE Same(On(c), c) /\ Same(Off(c), c) /\ Same(Reset(c), c)
  <2>1. IsClientRow(c) /\ DOMAIN c = ClientColumns
    BY DEF RowsInv, AreClients, IsClient, IsClientRow
  <2>2. ASSUME NEW d, DOMAIN d = ClientColumns, d.id = c.id, d.inbound = c.inbound, d.email = c.email,
               d.uuid = c.uuid, d.expiry = c.expiry
        PROVE  Same(d, c)
    BY <2>1, <2>2 DEF IsClientRow
  <2>3. Same(On(c), c)
    <3> DEFINE d == On(c)
    <3>1. DOMAIN d = ClientColumns /\ d.id = c.id /\ d.inbound = c.inbound /\ d.email = c.email
          /\ d.uuid = c.uuid /\ d.expiry = c.expiry
      BY <2>1 DEF ClientColumns
    <3> HIDE DEF d, Same
    <3>2. Same(d, c)
      BY <2>2, <3>1
    <3> QED BY <3>2 DEF d
  <2>4. Same(Off(c), c)
    <3> DEFINE d == Off(c)
    <3>1. DOMAIN d = ClientColumns /\ d.id = c.id /\ d.inbound = c.inbound /\ d.email = c.email
          /\ d.uuid = c.uuid /\ d.expiry = c.expiry
      BY <2>1 DEF ClientColumns
    <3> HIDE DEF d, Same
    <3>2. Same(d, c)
      BY <2>2, <3>1
    <3> QED BY <3>2 DEF d
  <2>5. Same(Reset(c), c)
    <3> DEFINE d == Reset(c)
    <3>1. DOMAIN d = ClientColumns /\ d.id = c.id /\ d.inbound = c.inbound /\ d.email = c.email
          /\ d.uuid = c.uuid /\ d.expiry = c.expiry
      BY <2>1 DEF ClientColumns
    <3> HIDE DEF d, Same
    <3>2. Same(d, c)
      BY <2>2, <3>1
    <3> QED BY <3>2 DEF d
  <2> HIDE DEF On, Off, Reset, Same
  <2> QED BY <2>3, <2>4, <2>5
<1>3. AreClients(clients, nextId)
  BY DEF RowsInv
<1>4. ASSUME NEW f, DOMAIN f = chosen, \A c \in chosen : Same(f[c], c)
      PROVE  AreClients((clients \ chosen) \cup {f[c] : c \in chosen}, nextId)
  BY <1>3, <1>4, ChangedClients
<1>5. CASE op = "delete"
  <2>1. clients' = clients \ chosen
    BY <1>5 DEF ChangeClients
  <2>2. AreClients(clients', nextId)
    BY <1>3, <2>1, FewerRows
  <2> QED BY <1>1, <2>2 DEF RowsInv, EditHolds
<1>6. CASE op # "delete"
  <2> DEFINE f == [c \in chosen |-> IF op = "enable" THEN On(c) ELSE IF op = "disable" THEN Off(c) ELSE Reset(c)]
             new == (clients \ chosen) \cup {f[c] : c \in chosen}
  <2>1. DOMAIN f = chosen /\ \A c \in chosen : f[c] \in {On(c), Off(c), Reset(c)}
    <3> HIDE DEF On, Off, Reset
    <3> QED OBVIOUS
  <2>2. clients' = new
    <3>1. CASE op = "enable"
      <4>1. clients' = (clients \ chosen) \cup {On(c) : c \in chosen}
        BY <3>1 DEF ChangeClients
      <4> HIDE DEF On, Off, Reset
      <4> QED BY <3>1, <4>1
    <3>2. CASE op = "disable"
      <4>1. clients' = (clients \ chosen) \cup {Off(c) : c \in chosen}
        BY <3>2 DEF ChangeClients
      <4> HIDE DEF On, Off, Reset
      <4> QED BY <3>2, <4>1
    <3>3. CASE op = "reset_traffic"
      <4>1. clients' = (clients \ chosen) \cup {Reset(c) : c \in chosen}
        BY <3>3 DEF ChangeClients
      <4> HIDE DEF On, Off, Reset
      <4> QED BY <3>3, <4>1
    <3> HIDE DEF new
    <3> QED BY <1>6, <3>1, <3>2, <3>3
  <2> HIDE DEF f, On, Off, Reset
  <2>3. \A c \in chosen : Same(f[c], c)
    <3> HIDE DEF Same
    <3> QED BY <1>2, <2>1
  <2>4. AreClients(new, nextId)
    <3> HIDE DEF Same
    <3> QED BY <1>4, <2>1, <2>3
  <2> QED BY <1>1, <2>2, <2>4 DEF RowsInv, EditHolds
<1> QED BY <1>5, <1>6


(* The rows of a deployment                                                *)

\* What every preset plans: an inbound with one account of its own.
IsPlanned(p) ==
  IsSeq(p.tag) /\ p.protocol # "shadowsocks" /\ \E flow : p.settings = PresetSettings(NewUuid, flow)

LEMMA SingletonIsName ==
  ASSUME NEW a
  PROVE  IsName(<<a>>)
<1>1. <<a>> \in Seq({a}) /\ <<a>> # << >>
  OBVIOUS
<1> QED BY <1>1, MemberIsSeq DEF IsName

LEMMA PairOfPlans ==
  ASSUME NEW p, NEW q
  PROVE  LET both == <<p>> \o <<q>>
         IN  Len(both) = 2 /\ DOMAIN both = 1..2 /\ both[1] = p /\ both[2] = q
<1> DEFINE S == {p, q}
           s == <<p>>
           t == <<q>>
<1>1. s \in Seq(S) /\ t \in Seq(S) /\ Len(s) = 1 /\ Len(t) = 1 /\ s[1] = p /\ t[1] = q
  OBVIOUS
<1> HIDE DEF S, s, t
<1>2. /\ s \o t \in Seq(S) /\ Len(s \o t) = Len(s) + Len(t)
      /\ \A i \in 1..(Len(s) + Len(t)) : (s \o t)[i] = IF i <= Len(s) THEN s[i] ELSE t[i - Len(s)]
  BY <1>1, ConcatProperties
<1>3. Len(s \o t) = 2 /\ (s \o t)[1] = p /\ (s \o t)[2] = q
  BY <1>1, <1>2
<1>4. DOMAIN (s \o t) = 1..2
  BY <1>2, <1>3
<1> QED BY <1>3, <1>4 DEF s, t

LEMMA PlansAreSeq ==
  ASSUME NEW preset \in Presets
  PROVE  /\ Len(Plan(preset)) \in Nat /\ DOMAIN Plan(preset) = 1..Len(Plan(preset))
         /\ \A k \in 1..Len(Plan(preset)) : IsPlanned(Plan(preset)[k])
<1>1. preset \in {"stable", "speed", "combo", "weaknet"}
  BY NodeTableAssumption DEF NodeTableAssumption
<1>2. ASSUME NEW proto, proto # "shadowsocks", NEW text, NEW port, NEW flow, NEW stream
      PROVE  IsPlanned(PlannedInbound(proto, <<text>>, port, PresetSettings(NewUuid, flow), stream))
  BY <1>2, SingletonIsName DEF IsPlanned, PlannedInbound, IsName
<1> DEFINE s == expandStableEgress(Busy, NewUuid)
           f == expandSpeed(Busy, Domain, NewUuid)
           w == expandWeakNetwork(Busy, Domain, NewUuid)
<1>3. \E p : s = <<p>> /\ IsPlanned(p)
  BY <1>2 DEF expandStableEgress
<1>4. \E p : f = <<p>> /\ IsPlanned(p)
  BY <1>2, ZenonT(30) DEF expandSpeed
<1>5. \E p, q : w = <<p, q>> /\ IsPlanned(p) /\ IsPlanned(q)
  <2> DEFINE hy2 == pickPortExcluding(443, Busy, {})
             tuic == pickPortExcluding(8443, Busy, {hy2})
             p == PlannedInbound("hysteria2", <<"smart-weaknet-hy2">>, hy2, PresetSettings(NewUuid, ""),
                                 certStreamForHy2TUIC(Domain))
             q == PlannedInbound("tuic", <<"smart-weaknet-tuic">>, tuic, PresetSettings(NewUuid, ""),
                                 certStreamForHy2TUIC(Domain))
  <2>1. w = <<p, q>>
    BY DEF expandWeakNetwork
  <2> HIDE DEF hy2, tuic
  <2>2. IsPlanned(p)
    BY <1>2
  <2>3. IsPlanned(q)
    BY <1>2
  <2> HIDE DEF p, q, w
  <2> QED BY <2>1, <2>2, <2>3
<1> HIDE DEF s, f, w
<1>6. CASE preset = "stable"
  <2>1. Plan(preset) = s
    BY <1>6 DEF Plan, Expand, s
  <2> QED BY <1>3, <2>1
<1>7. CASE preset = "speed"
  <2>1. Plan(preset) = f
    BY <1>7 DEF Plan, Expand, f
  <2> QED BY <1>4, <2>1
<1>8. CASE preset = "weaknet"
  <2>1. Plan(preset) = w
    BY <1>8 DEF Plan, Expand, w
  <2> QED BY <1>5, <2>1
<1>9. CASE preset = "combo"
  <2>1. Plan(preset) = s \o f
    BY <1>9 DEF Plan, Expand, expandCombo, s, f
  <2>2. PICK p, q : s = <<p>> /\ f = <<q>> /\ IsPlanned(p) /\ IsPlanned(q)
    BY <1>3, <1>4
  <2>3. Len(s \o f) = 2 /\ DOMAIN (s \o f) = 1..2 /\ (s \o f)[1] = p /\ (s \o f)[2] = q
    BY <2>2, PairOfPlans
  <2> QED BY <2>1, <2>2, <2>3
<1> QED BY <1>1, <1>6, <1>7, <1>8, <1>9

\* A row whose engines' accounts are its client rows alone.
Sealed(in) == in.settings.clients = << >> /\ in.protocol # "shadowsocks"

\* What has been made of a plan so far.
IsMade(acc) ==
  /\ DOMAIN acc = {"rows", "users", "free", "result"}
  /\ acc.free \in Nat /\ nextId <= acc.free
  /\ AreInbounds(acc.rows, acc.free) /\ AreClients(acc.users, acc.free)
  /\ \A in \in acc.rows \ inbounds : Sealed(in) /\ nextId <= in.id

LEMMA PlannedRow ==
  ASSUME NEW p, IsPlanned(p), NEW n \in Nat, 0 < n
  PROVE  LET row   == Row(n, PresetColumns(p, Domain))
             users == presetClients(p.settings).clients
         IN  /\ IsInbound(row, n + 2) /\ row.id = n /\ Sealed(row)
             /\ Len(users) = 1 /\ DOMAIN users = {1}
             /\ users[1].email = <<"default">> /\ users[1].id = NewUuid
<1> DEFINE columns == PresetColumns(p, Domain)
           row == Row(n, columns)
           account == [id |-> NewUuid, password |-> "", email |-> <<"default">>, enable |-> TRUE, expiry |-> 0]
<1>1. PICK flow : p.settings = PresetSettings(NewUuid, flow)
  BY DEF IsPlanned
<1>2. DOMAIN p.settings = {"json", "method", "psk", "flow", "obfs", "clients"}
  BY <1>1 DEF PresetSettings
<1>3. presetClients(p.settings).clients = <<account>>
  <2>1. PresetSettings(NewUuid, flow).clients = <<account>>
    BY DEF PresetSettings
  <2>2. presetClients(p.settings).clients = p.settings.clients
    BY DEF presetClients
  <2> HIDE DEF account
  <2> QED BY <1>1, <2>1, <2>2
<1>4. /\ DOMAIN columns.settings = {"json", "method", "psk", "flow", "obfs", "clients"}
      /\ columns.settings.clients = << >>
  <2> DEFINE set == presetClients(p.settings).settings
  <2>1. DOMAIN set = {"json", "method", "psk", "flow", "obfs", "clients"} /\ set.clients = << >>
    BY <1>2 DEF presetClients
  <2>2. columns.settings = set
    BY DEF PresetColumns
  <2> HIDE DEF set, columns
  <2> QED BY <2>1, <2>2
<1>5. columns.tag = p.tag /\ columns.protocol = p.protocol /\ InboundColumns \ {"id"} \subseteq DOMAIN columns
  BY DEF PresetColumns, InboundColumns
<1>6. row.settings = columns.settings /\ row.protocol = columns.protocol
  BY DEF Row
<1> HIDE DEF columns, row
<1>7. IsSettings(columns.settings)
  <2>1. IsSeq(<< >>) /\ DOMAIN << >> = {}
    BY NoStats
  <2> QED BY <1>4, <2>1 DEF IsSettings
<1>8. IsForm(columns)
  BY <1>5, <1>7 DEF IsForm, IsPlanned
<1>9. n \in 1..(n + 2 - 1)
  OBVIOUS
<1>10. IsInbound(row, n + 2) /\ row.id = n
  BY <1>8, <1>9, RowIsInbound DEF row
<1>11. Sealed(row)
  <2>1. row.settings.clients = << >>
    BY <1>4, <1>6
  <2>2. row.protocol # "shadowsocks"
    BY <1>5, <1>6 DEF IsPlanned
  <2> QED BY <2>1, <2>2 DEF Sealed
<1>12. Len(<<account>>) = 1 /\ DOMAIN <<account>> = {1} /\ <<account>>[1].email = <<"default">>
       /\ <<account>>[1].id = NewUuid
  <2>1. account.email = <<"default">> /\ account.id = NewUuid
    OBVIOUS
  <2> HIDE DEF account
  <2> QED BY <2>1
<1> QED BY <1>3, <1>10, <1>11, <1>12 DEF row, columns

\* One more row, with its client.
LEMMA PlannedIsMade ==
  ASSUME RowsInv, NEW acc, IsMade(acc), NEW p, IsPlanned(p)
  PROVE  IsMade(CreatePlanned(acc, p))
<1> DEFINE n == acc.free
           row == Row(n, PresetColumns(p, Domain))
           users == presetClients(p.settings).clients
           user == [id |-> n + 1, inbound |-> n, email |-> <<"default">>,
                    uuid |-> NewUuid, enable |-> TRUE, expiry |-> 0, used |-> 0]
           new == {[id |-> n + i, inbound |-> row.id, email |-> users[i].email,
                    uuid |-> users[i].id, enable |-> TRUE, expiry |-> 0, used |-> 0] : i \in DOMAIN users}
           next == CreatePlanned(acc, p)
<1>1. n \in Nat /\ 0 < n /\ nextId <= n /\ nextId \in Nat /\ n + 2 \in Nat /\ n <= n + 2
  BY DEF IsMade, RowsInv
<1>2. /\ IsInbound(row, n + 2) /\ row.id = n /\ Sealed(row)
      /\ Len(users) = 1 /\ DOMAIN users = {1} /\ users[1].email = <<"default">> /\ users[1].id = NewUuid
  <2> HIDE DEF n
  <2> QED BY <1>1, PlannedRow
<1>3. next = IF \E in \in acc.rows : in.enable /\ in.port = row.port THEN [acc EXCEPT !.result = "port_taken"]
             ELSE IF \E in \in acc.rows : in.tag = row.tag THEN [acc EXCEPT !.result = "tag_taken"]
             ELSE [acc EXCEPT !.rows = @ \cup {row}, !.users = @ \cup new, !.free = @ + 1 + Len(users)]
  BY DEF CreatePlanned
<1> HIDE DEF next, row, users
<1>4. new = {user}
  BY <1>2
<1> HIDE DEF new
<1>5. CASE next \in {[acc EXCEPT !.result = "port_taken"], [acc EXCEPT !.result = "tag_taken"]}
  <2>1. DOMAIN next = DOMAIN acc /\ next.rows = acc.rows /\ next.users = acc.users /\ next.free = acc.free
    BY <1>5 DEF IsMade
  <2> QED BY <2>1 DEF IsMade, next
<1>6. CASE /\ next = [acc EXCEPT !.rows = @ \cup {row}, !.users = @ \cup new, !.free = @ + 1 + Len(users)]
           /\ \A in \in acc.rows : in.tag # row.tag
  <2>1. /\ DOMAIN next = DOMAIN acc /\ next.rows = acc.rows \cup {row} /\ next.users = acc.users \cup {user}
        /\ next.free = n + 2
    <3>1. DOMAIN next = DOMAIN acc /\ next.rows = acc.rows \cup {row} /\ next.users = acc.users \cup {user}
          /\ next.free = acc.free + 1 + 1
      BY <1>2, <1>4, <1>6 DEF IsMade
    <3> QED BY <1>1, <3>1
  <2>2. AreInbounds(acc.rows, n + 2) /\ AreClients(acc.users, n + 2)
    BY <1>1, MoreIds DEF IsMade
  <2>3. \A in \in acc.rows : in.id # row.id
    <3>1. \A in \in acc.rows : in.id \in 1..(n - 1)
      BY DEF IsMade, AreInbounds, IsInbound
    <3> QED BY <1>1, <1>2, <3>1
  <2>4. AreInbounds(next.rows, n + 2)
    <3>1. AreInbounds({in \in acc.rows : in.id # row.id} \cup {row}, n + 2)
      BY <1>1, <1>2, <1>6, <2>2, WrittenInbound
    <3>2. {in \in acc.rows : in.id # row.id} \cup {row} = next.rows
      BY <2>1, <2>3
    <3> QED BY <3>1, <3>2
  <2>5. \A c \in acc.users : c.id # user.id /\ c.inbound # user.inbound
    <3>1. \A c \in acc.users : c.id \in 1..(n - 1) /\ c.inbound \in 1..(n - 1)
      BY DEF IsMade, AreClients, IsClient
    <3>2. user.id = n + 1 /\ user.inbound = n
      OBVIOUS
    <3> HIDE DEF user
    <3> QED BY <1>1, <3>1, <3>2
  <2>6. IsClient(user, n + 2)
    <3>1. user.id = n + 1 /\ user.inbound = n /\ user.email = <<"default">> /\ user.uuid = NewUuid
          /\ user.expiry = 0
      OBVIOUS
    <3>6. DOMAIN user = ClientColumns
      BY DEF ClientColumns
    <3> HIDE DEF user
    <3>2. IsName(user.email) /\ user.uuid # ""
      BY <3>1, SingletonIsName, NodeTableAssumption DEF NodeTableAssumption
    <3>5. user.expiry \in Int
      BY <3>1
    <3>3. IsClientRow(user)
      BY <3>2, <3>5, <3>6 DEF IsClientRow
    <3>4. n + 1 \in 1..(n + 2 - 1) /\ n \in 1..(n + 2 - 1)
      BY <1>1
    <3> QED BY <3>1, <3>3, <3>4 DEF IsClient
  <2> HIDE DEF user
  <2>7. AreClients(next.users, n + 2)
    <3>1. AreClients({c \in acc.users : c.id # user.id} \cup {user}, n + 2)
      BY <1>1, <2>2, <2>5, <2>6, WrittenClient
    <3>2. {c \in acc.users : c.id # user.id} \cup {user} = next.users
      BY <2>1, <2>5
    <3> QED BY <3>1, <3>2
  <2>8. \A in \in next.rows \ inbounds : Sealed(in) /\ nextId <= in.id
    BY <1>1, <1>2, <2>1 DEF IsMade
  <2>9. next.free \in Nat /\ nextId <= next.free
    <3> HIDE DEF n
    <3> QED BY <1>1, <2>1
  <2> HIDE DEF n
  <2>10. IsMade(next)
    BY <2>1, <2>4, <2>7, <2>8, <2>9 DEF IsMade
  <2> QED BY <2>10 DEF next
<1> QED BY <1>3, <1>5, <1>6 DEF next

\* DeployRows makes one row after the other.
MakesRows(made, plan) ==
  /\ made[0] = [rows |-> inbounds, users |-> clients, free |-> nextId, result |-> "deployed"]
  /\ \A k \in 1..Len(plan) : made[k] = IF made[k - 1].result # "deployed" THEN made[k - 1]
                                       ELSE CreatePlanned(made[k - 1], plan[k])
  /\ DeployRows(plan) = made[Len(plan)]

LEMMA DeployMakesRows ==
  ASSUME NEW plan, Len(plan) \in Nat
  PROVE  \E made : MakesRows(made, plan)
<1> DEFINE base == [rows |-> inbounds, users |-> clients, free |-> nextId, result |-> "deployed"]
           Step(acc, k) == IF acc.result # "deployed" THEN acc ELSE CreatePlanned(acc, plan[k])
           Fold(g, n) == g = [k \in 0..n |-> IF k = 0 THEN base ELSE Step(g[k - 1], k)]
           T == {n \in Nat : \E g : Fold(g, n)}
           last == Len(plan)
           made == CHOOSE g : Fold(g, last)
<1>2. 0 \in T
  <2> DEFINE g == [k \in 0..0 |-> base]
  <2> HIDE DEF base, Step
  <2>1. Fold(g, 0)
    OBVIOUS
  <2> QED BY <2>1
<1>3. ASSUME NEW n \in Nat, n \in T PROVE n + 1 \in T
  <2> HIDE DEF base, Step
  <2>1. PICK g : Fold(g, n)
    BY <1>3
  <2> DEFINE h == [k \in 0..(n + 1) |-> IF k = 0 THEN base ELSE Step(g[k - 1], k)]
  <2>2. \A k \in 0..n : h[k] = g[k]
    BY <2>1
  <2>3. \A k \in 0..(n + 1) : k # 0 => k - 1 \in 0..n
    OBVIOUS
  <2>4. \A k \in 0..(n + 1) : h[k] = IF k = 0 THEN base ELSE Step(h[k - 1], k)
    BY <2>2, <2>3
  <2>5. Fold(h, n + 1)
    BY <2>4
  <2> HIDE DEF h, Fold
  <2> QED BY <2>5
<1>4. Fold(made, last)
  <2>1. last \in T
    <3> HIDE DEF T
    <3> QED BY <1>2, <1>3, Counting
  <2> HIDE DEF Fold, last
  <2> QED BY <2>1
<1>5. DeployRows(plan) = made[last]
  BY DEF DeployRows
<1> HIDE DEF made, Step, base
<1>6. made[0] = base /\ \A k \in 1..last : made[k] = Step(made[k - 1], k)
  BY <1>4
<1>7. MakesRows(made, plan)
  BY <1>5, <1>6 DEF MakesRows, Step, base
<1> QED BY <1>7

LEMMA DeployedRows ==
  ASSUME RowsInv, NEW preset \in Presets
  PROVE  IsMade(DeployRows(Plan(preset)))
<1> DEFINE plan == Plan(preset)
           last == Len(plan)
<1>1. last \in Nat /\ \A k \in 1..last : IsPlanned(plan[k])
  BY PlansAreSeq
<1> HIDE DEF plan
<1>2. PICK made : MakesRows(made, plan)
  BY <1>1, DeployMakesRows
<1> DEFINE T == {k \in Nat : k <= last => IsMade(made[k])}
<1>3. 0 \in T
  <2>1. made[0] = [rows |-> inbounds, users |-> clients, free |-> nextId, result |-> "deployed"]
    BY <1>2 DEF MakesRows
  <2>2. IsMade(made[0])
    BY <2>1 DEF IsMade, RowsInv
  <2> QED BY <2>2
<1>4. ASSUME NEW n \in Nat, n \in T PROVE n + 1 \in T
  <2> SUFFICES ASSUME n + 1 <= last PROVE IsMade(made[n + 1])
    OBVIOUS
  <2>1. IsMade(made[n]) /\ n + 1 \in 1..last /\ n + 1 - 1 = n
    BY <1>1, <1>4
  <2>2. made[n + 1] = IF made[n].result # "deployed" THEN made[n] ELSE CreatePlanned(made[n], plan[n + 1])
    BY <1>2, <2>1 DEF MakesRows
  <2>3. IsMade(CreatePlanned(made[n], plan[n + 1]))
    BY <1>1, <2>1, PlannedIsMade
  <2> QED BY <2>1, <2>2, <2>3
<1>5. IsMade(made[last])
  <2>1. last \in T
    <3> HIDE DEF T, last
    <3> QED BY <1>1, <1>3, <1>4, Counting
  <2> QED BY <1>1, <2>1
<1> QED BY <1>2, <1>5 DEF MakesRows, plan

LEMMA DeployKeepsRows ==
  ASSUME RowsInv, NEW preset \in Presets, Deploy(preset)
  PROVE  RowsInv'
<1> DEFINE made == DeployRows(Plan(preset))
<1>1. IsMade(made)
  BY DeployedRows
<1>2. /\ edit' = edit
      /\ \/ inbounds' = made.rows /\ clients' = made.users /\ nextId' = made.free
         \/ UNCHANGED <<inbounds, clients, nextId>>
  BY DEF Deploy
<1> HIDE DEF made
<1>3. CASE UNCHANGED <<inbounds, clients, nextId>>
  BY <1>2, <1>3, TablesAsTheyAre
<1>4. CASE inbounds' = made.rows /\ clients' = made.users /\ nextId' = made.free
  <2>1. /\ nextId' \in Nat /\ nextId <= nextId' /\ 0 < nextId'
        /\ AreInbounds(inbounds', nextId') /\ AreClients(clients', nextId')
    BY <1>1, <1>4 DEF IsMade, RowsInv
  <2>2. EditHolds'
    BY <1>2, <2>1, EditStays
  <2> QED BY <2>1, <2>2 DEF RowsInv
<1> QED BY <1>2, <1>3, <1>4

LEMMA RollbackKeepsRows ==
  ASSUME RowsInv, RollbackDeployment
  PROVE  RowsInv'
<1>1. /\ inbounds' \in SUBSET inbounds /\ clients' \in SUBSET clients
      /\ nextId' = nextId /\ edit' = edit
  BY DEF RollbackDeployment
<1>2. AreInbounds(inbounds', nextId) /\ AreClients(clients', nextId)
  BY <1>1, FewerRows DEF RowsInv
<1> QED BY <1>1, <1>2 DEF RowsInv, EditHolds


------------------------------------------------------------------------------
(* The cached subscriptions                                                *)

LEMMA CacheStarts ==
  ASSUME Init PROVE CacheInv
<1>1. cache = [k \in Keys |-> << >>] /\ fills = {} /\ invalidations = 0 /\ now = 1
  BY DEF Init
<1> QED BY <1>1 DEF CacheInv

\* What the data base says changes only with its rows.
LEMMA SameAnswers ==
  ASSUME UNCHANGED <<inbounds, clients>>
  PROVE  \A e : IsCurrent(e)' <=> IsCurrent(e)
<1>1. ASSUME NEW uuid, NEW at PROVE ActiveRows(uuid, at)' = ActiveRows(uuid, at)
  BY DEF ActiveRows
<1> QED BY <1>1 DEF IsCurrent

LEMMA CacheAsItWas ==
  ASSUME CacheInv, UNCHANGED <<inbounds, clients, cache, fills, invalidations, now>>
  PROVE  CacheInv'
<1>1. \A e : IsEntryOf(e) => IsEntryOf(e)'
  BY SameAnswers DEF IsEntryOf
<1>2. \A f : IsFill(f) => IsFill(f)'
  BY SameAnswers DEF IsFill
<1> QED BY <1>1, <1>2 DEF CacheInv

LEMMA OvertakenFills ==
  ASSUME CacheInv, fills' = Overtaken
  PROVE  \A f \in fills' : IsFill(f)'
<1> SUFFICES ASSUME NEW f \in fills' PROVE IsFill(f)'
  OBVIOUS
<1>1. PICK g \in fills : f = [g EXCEPT !.overtaken = TRUE]
  BY DEF Overtaken
<1>2. DOMAIN g = {"key", "uuid", "rows", "at", "overtaken"} /\ IsAnswer(g.rows)
  BY DEF CacheInv, IsFill
<1>3. DOMAIN f = {"key", "uuid", "rows", "at", "overtaken"} /\ f.rows = g.rows /\ f.overtaken = TRUE
  BY <1>1, <1>2
<1> QED BY <1>2, <1>3 DEF IsFill

\* While a handler has yet to invalidate, entries may be out of date.
LEMMA CommitKeepsCache ==
  ASSUME CacheInv, CommitThenInvalidate, now' = now
  PROVE  CacheInv'
<1>1. invalidations' = invalidations + 1 /\ fills' = Overtaken /\ cache' = cache
  BY DEF CommitThenInvalidate
<1>2. invalidations' \in Nat /\ invalidations' # 0
  BY <1>1 DEF CacheInv
<1>3. \A e : IsEntryOf(e) => IsEntryOf(e)'
  BY <1>2 DEF IsEntryOf
<1>4. \A f \in fills' : IsFill(f)'
  BY <1>1, OvertakenFills
<1> QED BY <1>1, <1>2, <1>3, <1>4 DEF CacheInv

LEMMA CommitOnlyKeepsCache ==
  ASSUME CacheInv, CommitOnly, now' = now
  PROVE  CacheInv'
<1>1. /\ fills' = Overtaken /\ invalidations' = invalidations
      /\ cache' = [k \in Keys |-> [i \in DOMAIN cache[k] |-> [cache[k][i] EXCEPT !.overtaken = TRUE]]]
  BY DEF CommitOnly
<1>2. ASSUME NEW k \in Keys PROVE cache'[k] = << >> \/ \E e : cache'[k] = <<e>> /\ IsEntryOf(e)'
  <2>1. cache'[k] = [i \in DOMAIN cache[k] |-> [cache[k][i] EXCEPT !.overtaken = TRUE]]
    BY <1>1
  <2>2. CASE cache[k] = << >>
    <3>1. cache'[k] = << >>
      BY <2>1, <2>2
    <3> QED BY <3>1
  <2>3. CASE \E e : cache[k] = <<e>> /\ IsEntryOf(e)
    <3>1. PICK e : cache[k] = <<e>> /\ IsEntryOf(e)
      BY <2>3
    <3> DEFINE d == [e EXCEPT !.overtaken = TRUE]
    <3>2. cache'[k] = <<d>>
      <4>1. cache'[k] = [i \in 1..1 |-> d]
        <5>1. DOMAIN cache[k] = 1..1 /\ \A i \in 1..1 : cache[k][i] = e
          BY <3>1
        <5>2. \A i \in 1..1 : [cache[k][i] EXCEPT !.overtaken = TRUE] = d
          BY <5>1
        <5> HIDE DEF d
        <5> QED BY <2>1, <5>1, <5>2
      <4> HIDE DEF d
      <4>2. <<d>> = [i \in 1..1 |-> d]
        OBVIOUS
      <4> QED BY <4>1, <4>2
    <3>3. DOMAIN e = {"rows", "at", "storedAt", "uuid", "expiresAt", "overtaken"} /\ IsAnswer(e.rows)
          /\ e.expiresAt = EarliestExpiry(e.rows)
      BY <3>1 DEF IsEntryOf
    <3>4. DOMAIN d = DOMAIN e /\ d.rows = e.rows /\ d.expiresAt = e.expiresAt /\ d.overtaken = TRUE
      BY <3>3
    <3> HIDE DEF d
    <3>5. IsEntryOf(d)'
      BY <3>3, <3>4 DEF IsEntryOf
    <3> QED BY <3>2, <3>5
  <2> QED BY <2>2, <2>3 DEF CacheInv
<1>3. DOMAIN cache' = Keys
  BY <1>1
<1>4. \A f \in fills' : IsFill(f)'
  BY <1>1, OvertakenFills
<1> QED BY <1>1, <1>2, <1>3, <1>4 DEF CacheInv

LEMMA InvalidateKeepsCache ==
  ASSUME CacheInv, InvalidateSubCache
  PROVE  CacheInv'
<1>1. /\ invalidations' \in Nat /\ cache' = [k \in Keys |-> << >>]
      /\ UNCHANGED <<inbounds, clients, fills, now>>
  BY DEF InvalidateSubCache, CacheInv, tables
<1>2. \A f : IsFill(f) => IsFill(f)'
  BY <1>1, SameAnswers DEF IsFill
<1> QED BY <1>1, <1>2 DEF CacheInv

LEMMA AnswersAreLists ==
  ASSUME RowsInv, NEW uuid, NEW at
  PROVE  IsAnswer(ActiveRows(uuid, at))
<1> DEFINE active == {c \in clients : /\ c.uuid = uuid /\ c.enable
                                      /\ ~(c.expiry > 0 /\ c.expiry <= at)
                                      /\ \E in \in inbounds : in.id = c.inbound /\ in.enable}
           rows == ToSeqById(active)
           n == Cardinality(active)
           answer == ActiveRows(uuid, at)
<1>1. active \in SUBSET clients
  OBVIOUS
<1>2. answer = [i \in DOMAIN rows |-> [in |-> CHOOSE in \in inbounds : in.id = rows[i].inbound,
                                       expiry |-> rows[i].expiry]]
  BY DEF ActiveRows
<1> HIDE DEF active, answer
<1>3. n \in Nat /\ rows \in [1..n -> active]
  BY <1>1, MineInOrder
<1>4. \A c \in clients : c.expiry \in Int
  BY DEF RowsInv, AreClients, IsClient, IsClientRow
<1> HIDE DEF rows, n
<1>5. DOMAIN answer = 1..n
  BY <1>2, <1>3
<1>6. \A i \in 1..n : answer[i].expiry = rows[i].expiry /\ rows[i] \in clients
  BY <1>1, <1>2, <1>3
<1> QED BY <1>3, <1>4, <1>5, <1>6 DEF IsAnswer, answer

LEMMA MissKeepsCache ==
  ASSUME RowsInv, CacheInv, NEW req \in SubRequests, SubscriptionMiss(req)
  PROVE  CacheInv'
<1> DEFINE k == Key(req)
           rows == ActiveRows(req.uuid, now)
           f == [key |-> k, uuid |-> req.uuid, rows |-> rows, at |-> now, overtaken |-> FALSE]
<1>1. /\ cache' = [cache EXCEPT ![k] = << >>] /\ (fills' = fills \/ fills' = fills \cup {f})
      /\ UNCHANGED <<inbounds, clients, invalidations, now>>
  BY DEF SubscriptionMiss, tables
<1>2. IsFill(f)
  <2>1. IsAnswer(rows)
    BY AnswersAreLists
  <2>2. DOMAIN f = {"key", "uuid", "rows", "at", "overtaken"} /\ f.rows = rows /\ f.uuid = req.uuid /\ f.at = now
    OBVIOUS
  <2> HIDE DEF f
  <2> QED BY <2>1, <2>2 DEF IsFill, IsCurrent
<1> HIDE DEF f, k
<1>3. \A g : IsFill(g) => IsFill(g)'
  BY <1>1, SameAnswers DEF IsFill
<1>4. \A e : IsEntryOf(e) => IsEntryOf(e)'
  BY <1>1, SameAnswers DEF IsEntryOf
<1>5. \A g \in fills' : IsFill(g)'
  BY <1>1, <1>2, <1>3 DEF CacheInv
<1>6. DOMAIN cache' = Keys /\ \A j \in Keys : cache'[j] \in {cache[j], << >>}
  BY <1>1 DEF CacheInv
<1>7. \A j \in Keys : cache'[j] = << >> \/ \E e : cache'[j] = <<e>> /\ IsEntryOf(e)'
  BY <1>4, <1>6 DEF CacheInv
<1> QED BY <1>1, <1>5, <1>6, <1>7 DEF CacheInv

LEMMA PutKeepsCache ==
  ASSUME CacheInv, NEW f \in fills, subCachePut(f)
  PROVE  CacheInv'
<1> DEFINE e == [rows |-> f.rows, at |-> f.at, storedAt |-> now, uuid |-> f.uuid,
                 expiresAt |-> EarliestExpiry(f.rows), overtaken |-> f.overtaken]
<1>1. /\ cache' = [cache EXCEPT ![f.key] = <<e>>] /\ fills' = fills \ {f}
      /\ UNCHANGED <<inbounds, clients, invalidations, now>>
  BY DEF subCachePut, tables
<1>2. IsEntryOf(e)
  <2>1. IsAnswer(f.rows) /\ (~f.overtaken => IsCurrent(f))
    BY DEF CacheInv, IsFill
  <2>2. /\ DOMAIN e = {"rows", "at", "storedAt", "uuid", "expiresAt", "overtaken"}
        /\ e.rows = f.rows /\ e.at = f.at /\ e.uuid = f.uuid
        /\ e.expiresAt = EarliestExpiry(f.rows) /\ e.overtaken = f.overtaken
    OBVIOUS
  <2> HIDE DEF e
  <2> QED BY <2>1, <2>2 DEF IsEntryOf, IsCurrent
<1> HIDE DEF e
<1>3. \A g : IsFill(g) => IsFill(g)'
  BY <1>1, SameAnswers DEF IsFill
<1>4. \A d : IsEntryOf(d) => IsEntryOf(d)'
  BY <1>1, SameAnswers DEF IsEntryOf
<1>5. DOMAIN cache' = Keys /\ \A j \in Keys : cache'[j] \in {cache[j], <<e>>}
  BY <1>1 DEF CacheInv
<1>6. \A j \in Keys : cache'[j] = << >> \/ \E d : cache'[j] = <<d>> /\ IsEntryOf(d)'
  BY <1>2, <1>4, <1>5 DEF CacheInv
<1> QED BY <1>1, <1>3, <1>5, <1>6 DEF CacheInv

LEMMA TickKeepsCache ==
  ASSUME CacheInv, Tick
  PROVE  CacheInv'
<1>1. now' = now + 1 /\ UNCHANGED <<inbounds, clients, cache, fills, invalidations>>
  BY DEF Tick, tables
<1>2. \A e : IsEntryOf(e) => IsEntryOf(e)'
  BY <1>1, SameAnswers DEF IsEntryOf
<1>3. \A f : IsFill(f) => IsFill(f)'
  BY <1>1, SameAnswers DEF IsFill
<1> QED BY <1>1, <1>2, <1>3 DEF CacheInv

\* The cached expiry is no later than that of any account of the answer.
LEMMA EarliestOfAll ==
  ASSUME NEW rows, IsAnswer(rows), NEW i \in DOMAIN rows, rows[i].expiry > 0
  PROVE  EarliestExpiry(rows) \in Int /\ EarliestExpiry(rows) # 0 /\ EarliestExpiry(rows) <= rows[i].expiry
<1> DEFINE all == {rows[j].expiry : j \in DOMAIN rows}
           times == all \ {0}
<1>1. PICK n \in Nat : DOMAIN rows = 1..n /\ \A j \in 1..n : rows[j].expiry \in Int
  BY DEF IsAnswer
<1>2. IsFiniteSet(times)
  <2> DEFINE f == [j \in 1..n |-> rows[j].expiry]
  <2>1. IsFiniteSet(1..n) /\ DOMAIN f = 1..n
    BY FS_Interval
  <2>2. {f[j] : j \in 1..n} = all
    BY <1>1
  <2>3. IsFiniteSet(all)
    <3> HIDE DEF f, all
    <3>1. IsFiniteSet({f[j] : j \in 1..n})
      BY <2>1, FiniteImage
    <3> QED BY <2>2, <3>1
  <2> HIDE DEF all
  <2> QED BY <2>3, FS_Subset
<1>3. times \subseteq Int /\ rows[i].expiry \in times /\ 0 \notin times
  BY <1>1
<1> HIDE DEF times
<1>4. Min(times) \in times /\ Min(times) <= rows[i].expiry
  BY <1>2, <1>3, LeastOf
<1>5. EarliestExpiry(rows) = Min(times)
  BY <1>3 DEF EarliestExpiry, Min0, times
<1> QED BY <1>3, <1>4, <1>5

LEMMA CacheHolds ==
  ASSUME CacheInv PROVE CachedAnswersHold
<1>1. CacheIsCurrent
  <2> SUFFICES ASSUME invalidations = 0, NEW k \in Keys, NEW i \in DOMAIN cache[k], ~cache[k][i].overtaken
               PROVE  cache[k][i].rows = ActiveRows(cache[k][i].uuid, cache[k][i].at)
    BY DEF CacheIsCurrent
  <2>1. PICK e : cache[k] = <<e>> /\ IsEntryOf(e)
    BY DEF CacheInv
  <2>2. cache[k][i] = e
    BY <2>1
  <2> QED BY <2>1, <2>2 DEF IsEntryOf, IsCurrent
<1>2. CacheEndsWithEntitlement
  <2> SUFFICES ASSUME NEW k \in Keys, subCacheGet(k) # << >>
               PROVE  LET e == Head(subCacheGet(k))
                      IN  /\ now - e.storedAt <= TTL
                          /\ \A i \in DOMAIN e.rows : e.rows[i].expiry > 0 => now < e.rows[i].expiry
    BY DEF CacheEndsWithEntitlement
  <2>1. cache[k] # << >> /\ subCacheFresh(Head(cache[k])) /\ subCacheGet(k) = cache[k]
    BY DEF subCacheGet
  <2>2. PICK e : cache[k] = <<e>> /\ IsEntryOf(e)
    BY <2>1 DEF CacheInv
  <2>3. Head(subCacheGet(k)) = e /\ subCacheFresh(e)
    BY <2>1, <2>2
  <2>4. now - e.storedAt <= TTL /\ ~(e.expiresAt # 0 /\ now >= e.expiresAt)
    BY <2>3 DEF subCacheFresh
  <2>5. ASSUME NEW i \in DOMAIN e.rows, e.rows[i].expiry > 0 PROVE now < e.rows[i].expiry
    <3>1. EarliestExpiry(e.rows) \in Int /\ EarliestExpiry(e.rows) # 0 /\ EarliestExpiry(e.rows) <= e.rows[i].expiry
      BY <2>2, <2>5, EarliestOfAll DEF IsEntryOf
    <3>2. e.expiresAt = EarliestExpiry(e.rows) /\ now \in Nat /\ e.rows[i].expiry \in Int
      BY <2>2 DEF IsEntryOf, CacheInv, IsAnswer
    <3> QED BY <2>4, <3>1, <3>2
  <2> QED BY <2>3, <2>4, <2>5
<1> QED BY <1>1, <1>2 DEF CachedAnswersHold


------------------------------------------------------------------------------
(* What the engines accept on deployed rows                                *)

PresetTags == {<<"smart-stable-egress">>, <<"smart-speed-hy2">>, <<"smart-weaknet-hy2">>, <<"smart-weaknet-tuic">>}

\* An administrator who submits a preset's tag brings no accounts along.
FormsAreSealed == \A form \in InboundForms : form.tag \in PresetTags => Sealed(form)

SealedIfDeployed(in) == in.id \in deployed /\ in.tag \in PresetTags => Sealed(in)

DeployInv ==
  /\ \A id \in deployed : id \in 1..(nextId - 1)
  /\ AreInbounds(running.inbounds, nextId)
  /\ \A in \in inbounds \cup running.inbounds : SealedIfDeployed(in)
  /\ edit # << >> /\ Head(edit).kind = "inbound" => SealedIfDeployed(Head(edit).row)

LEMMA DeployStarts ==
  ASSUME Init PROVE DeployInv
<1>1. deployed = {} /\ running = NothingYet /\ edit = << >>
  BY DEF Init
<1>2. running.inbounds = {}
  BY <1>1 DEF NothingYet
<1>3. AreInbounds(running.inbounds, nextId)
  BY <1>2, FS_EmptySet DEF AreInbounds, IsTable
<1> QED BY <1>1, <1>3 DEF DeployInv, SealedIfDeployed

\* A step that neither deploys nor applies.
LEMMA DeployStays ==
  ASSUME RowsInv, DeployInv, UNCHANGED <<deployed, running>>, nextId' \in Nat, nextId <= nextId',
         \A in \in inbounds' : in \in inbounds \/ SealedIfDeployed(in),
         edit' \in {edit, << >>} \/ SealedIfDeployed(Head(edit').row)
  PROVE  DeployInv'
<1>1. \A id \in deployed : id \in 1..(nextId' - 1)
  BY DEF DeployInv, RowsInv
<1>2. AreInbounds(running.inbounds, nextId')
  BY MoreIds DEF DeployInv, RowsInv
<1>3. \A in : SealedIfDeployed(in)' <=> SealedIfDeployed(in)
  BY DEF SealedIfDeployed
<1>4. (edit # << >> /\ Head(edit).kind = "inbound" => SealedIfDeployed(Head(edit).row))'
  BY DEF DeployInv, SealedIfDeployed
<1> QED BY <1>1, <1>2, <1>3, <1>4 DEF DeployInv

LEMMA InsertedIsSealed ==
  ASSUME NEW n, NEW in, IsInbound(in, n)
  PROVE  SealedIfDeployed(in) => SealedIfDeployed(Inserted(in))
<1>1. DOMAIN in = InboundColumns
  BY DEF IsInbound, IsInboundRow
<1>2. /\ Inserted(in).id = in.id /\ Inserted(in).tag = in.tag
      /\ Inserted(in).settings = in.settings /\ Inserted(in).protocol = in.protocol
  BY <1>1 DEF Inserted, InboundColumns
<1> QED BY <1>2 DEF SealedIfDeployed, Sealed

\* A new id is not a deployed one.
LEMMA NewIsSealed ==
  ASSUME RowsInv, DeployInv, NEW in, in.id = nextId
  PROVE  SealedIfDeployed(in)
<1>1. nextId \notin deployed
  BY DEF DeployInv, RowsInv
<1> QED BY <1>1 DEF SealedIfDeployed

\* Where the rows of a file come from.
LEMMA EndpointsOfRows ==
  ASSUME NEW e \in Endpoints
  PROVE  \E in \in running.inbounds :
           LET cs == fetchClientsByInbound(running.clients, in)
           IN  e = buildXrayInbound(in, cs) \/ e = buildSingboxInbound(in, cs)
<1> DEFINE x == XrayConfig(running.inbounds, running.clients, running.rules)
           s == SingboxConfig(running.inbounds, running.clients, running.rules, running.outbounds, running.dual, TRUE)
<1>1. e \in x.endpoints \/ e \in s.endpoints
  BY DEF Endpoints, Configured
<1>2. CASE e \in x.endpoints
  BY <1>2 DEF XrayConfig
<1>3. CASE e \in s.endpoints
  BY <1>3 DEF SingboxConfig, SingboxRows
<1> QED BY <1>1, <1>2, <1>3

LEMMA SealedAccounts ==
  ASSUME NEW in, Sealed(in), NEW cs
  PROVE  /\ \A a \in buildXrayInbound(in, cs).accounts : \E c \in cs : a.cred = <<c.uuid>>
         /\ \A a \in buildSingboxInbound(in, cs).accounts : \E c \in cs : a.cred = <<c.uuid>>
<1>1. in.protocol # "shadowsocks" /\ in.settings.clients = << >>
  BY DEF Sealed
<1>2. \A a \in UserAccounts(in, cs) : \E c \in cs : a.cred = <<c.uuid>>
  BY <1>1 DEF UserAccounts
<1>3. XrayAccounts(in, cs) \subseteq UserAccounts(in, cs)
  BY <1>1 DEF XrayAccounts
<1>4. SingboxAccounts(in, cs) = UserAccounts(in, cs)
  BY <1>1 DEF SingboxAccounts
<1>5. buildXrayInbound(in, cs).accounts = XrayAccounts(in, cs)
  BY DEF buildXrayInbound, Endpoint
<1>6. buildSingboxInbound(in, cs).accounts = SingboxAccounts(in, cs)
  BY DEF buildSingboxInbound, Endpoint
<1> QED BY <1>2, <1>3, <1>4, <1>5, <1>6

LEMMA PlannedTagsArePresets ==
  PlannedTags \subseteq PresetTags
<1> SUFFICES ASSUME NEW preset \in Presets, NEW i \in DOMAIN Plan(preset) PROVE Plan(preset)[i].tag \in PresetTags
  BY DEF PlannedTags
<1>1. preset \in {"stable", "speed", "combo", "weaknet"}
  BY NodeTableAssumption DEF NodeTableAssumption
<1> DEFINE s == expandStableEgress(Busy, NewUuid)
           f == expandSpeed(Busy, Domain, NewUuid)
           w == expandWeakNetwork(Busy, Domain, NewUuid)
<1>2. \E p : s = <<p>> /\ p.tag \in PresetTags
  <2> DEFINE port == pickPortExcluding(443, Busy, {})
             p == PlannedInbound("vless", <<"smart-stable-egress">>, port, PresetSettings(NewUuid, "vision"),
                                 RealityStream("smart-key", "target"))
  <2>1. s = <<p>>
    BY DEF expandStableEgress
  <2> HIDE DEF port, s
  <2>2. p.tag = <<"smart-stable-egress">>
    BY DEF PlannedInbound
  <2> HIDE DEF p
  <2> QED BY <2>1, <2>2 DEF PresetTags
<1>3. \E p : f = <<p>> /\ p.tag \in PresetTags
  <2> DEFINE port == pickPortExcluding(443, Busy, {})
             p == PlannedInbound("hysteria2", <<"smart-speed-hy2">>, port, PresetSettings(NewUuid, ""),
                                 certStreamForHy2TUIC(Domain))
  <2>1. f = <<p>>
    BY DEF expandSpeed
  <2> HIDE DEF port, f
  <2>2. p.tag = <<"smart-speed-hy2">>
    BY DEF PlannedInbound
  <2> HIDE DEF p
  <2> QED BY <2>1, <2>2 DEF PresetTags
<1>4. DOMAIN w = {1, 2} /\ w[1].tag \in PresetTags /\ w[2].tag \in PresetTags
  <2> DEFINE hy2 == pickPortExcluding(443, Busy, {})
             tuic == pickPortExcluding(8443, Busy, {hy2})
             p == PlannedInbound("hysteria2", <<"smart-weaknet-hy2">>, hy2, PresetSettings(NewUuid, ""),
                                 certStreamForHy2TUIC(Domain))
             q == PlannedInbound("tuic", <<"smart-weaknet-tuic">>, tuic, PresetSettings(NewUuid, ""),
                                 certStreamForHy2TUIC(Domain))
  <2>1. w = <<p, q>>
    BY DEF expandWeakNetwork
  <2> HIDE DEF hy2, tuic, w
  <2>2. p.tag = <<"smart-weaknet-hy2">>
    BY DEF PlannedInbound
  <2>3. q.tag = <<"smart-weaknet-tuic">>
    BY DEF PlannedInbound
  <2> HIDE DEF p, q
  <2>4. DOMAIN w = {1, 2} /\ w[1] = p /\ w[2] = q
    BY <2>1
  <2> QED BY <2>2, <2>3, <2>4 DEF PresetTags
<1> HIDE DEF s, f, w
<1>5. CASE preset = "stable"
  <2>1. Plan(preset) = s
    BY <1>5 DEF Plan, Expand, s
  <2> QED BY <1>2, <2>1
<1>6. CASE preset = "speed"
  <2>1. Plan(preset) = f
    BY <1>6 DEF Plan, Expand, f
  <2> QED BY <1>3, <2>1
<1>7. CASE preset = "weaknet"
  <2>1. Plan(preset) = w
    BY <1>7 DEF Plan, Expand, w
  <2> QED BY <1>4, <2>1
<1>8. CASE preset = "combo"
  <2>1. Plan(preset) = s \o f
    BY <1>8 DEF Plan, Expand, expandCombo, s, f
  <2>2. PICK p, q : s = <<p>> /\ f = <<q>> /\ p.tag \in PresetTags /\ q.tag \in PresetTags
    BY <1>2, <1>3
  <2>3. Len(s \o f) = 2 /\ DOMAIN (s \o f) = 1..2 /\ (s \o f)[1] = p /\ (s \o f)[2] = q
    BY <2>2, PairOfPlans
  <2> QED BY <2>1, <2>2, <2>3
<1> QED BY <1>1, <1>5, <1>6, <1>7, <1>8

LEMMA DeployedIsSealed ==
  ASSUME DeployInv PROVE DeployedAcceptsOnlyRows
<1> SUFFICES ASSUME NEW in \in running.inbounds, in.id \in deployed, in.tag \in PlannedTags,
                    NEW e \in Endpoints, e.tag = in.tag, NEW a \in e.accounts
             PROVE  a.cred \in {<<c.uuid>> : c \in {d \in running.clients : d.inbound = in.id /\ d.enable}}
  BY DEF DeployedAcceptsOnlyRows
<1>1. Sealed(in)
  BY PlannedTagsArePresets DEF DeployInv, SealedIfDeployed
<1>2. PICK r \in running.inbounds :
        LET cs == fetchClientsByInbound(running.clients, r)
        IN  e = buildXrayInbound(r, cs) \/ e = buildSingboxInbound(r, cs)
  BY EndpointsOfRows
<1> DEFINE cs == fetchClientsByInbound(running.clients, r)
<1>3. e = buildXrayInbound(r, cs) \/ e = buildSingboxInbound(r, cs)
  BY <1>2
<1> HIDE DEF cs
<1>4. e.tag = r.tag
  <2>1. buildXrayInbound(r, cs).tag = r.tag
    BY DEF buildXrayInbound, Endpoint
  <2>2. buildSingboxInbound(r, cs).tag = r.tag
    BY DEF buildSingboxInbound, Endpoint
  <2> QED BY <1>3, <2>1, <2>2
<1>5. r = in
  BY <1>4 DEF DeployInv, AreInbounds
<1>6. \E c \in cs : a.cred = <<c.uuid>>
  BY <1>1, <1>3, <1>5, SealedAccounts
<1> QED BY <1>5, <1>6 DEF cs, fetchClientsByInbound


------------------------------------------------------------------------------
(* Every step                                                              *)

\* The steps that write no rows: rules, outbounds, Apply and requests.
Elsewhere ==
  \/ \E rule \in Rules : CreateRule(rule)
  \/ \E i \in DOMAIN rules : DeleteRule(i)
  \/ \E ob \in Outbounds : CreateOutbound(ob)
  \/ \E ob \in outbounds, enable \in BOOLEAN : UpdateOutbound(ob, enable)
  \/ \E ob \in outbounds : DeleteOutbound(ob)

LEMMA ElsewhereLeaves ==
  ASSUME Elsewhere
  PROVE  UNCHANGED <<inbounds, clients, nextId, deployed, running, edit, cache, fills, invalidations, now>>
<1>1. ASSUME NEW rule, CreateRule(rule)
      PROVE  UNCHANGED <<inbounds, clients, nextId, deployed, running, edit, cache, fills, invalidations, now>>
  BY <1>1 DEF CreateRule
<1>2. ASSUME NEW i, DeleteRule(i)
      PROVE  UNCHANGED <<inbounds, clients, nextId, deployed, running, edit, cache, fills, invalidations, now>>
  BY <1>2 DEF DeleteRule
<1>3. ASSUME NEW changed, ChangeOutbounds(changed)
      PROVE  UNCHANGED <<inbounds, clients, nextId, deployed, running, edit, cache, fills, invalidations, now>>
  BY <1>3 DEF ChangeOutbounds
<1>4. \A ob, enable : CreateOutbound(ob) \/ UpdateOutbound(ob, enable) \/ DeleteOutbound(ob) =>
                        \E changed : ChangeOutbounds(changed)
  BY DEF CreateOutbound, UpdateOutbound, DeleteOutbound
<1> QED BY <1>1, <1>2, <1>3, <1>4 DEF Elsewhere

LEMMA NextCases ==
  ASSUME Next
  PROVE  \/ \E form \in InboundForms : CreateInbound(form)
         \/ \E in \in inbounds, form \in InboundForms : BeginEditInbound(in, form)
         \/ SaveInbound
         \/ \E in \in inbounds : DeleteInbound(in)
         \/ \E item : IsItem(item) /\ Import3xui(item)
         \/ \E in \in inbounds : Import3xui(buildThreeXUIInboundExport(in))
         \/ \E in \in inbounds, email \in Emails, uuid \in Uuids, expiry \in Expiries :
              CreateClient(in, email, uuid, expiry)
         \/ \E c \in clients, email \in Emails, enable \in BOOLEAN, expiry \in Expiries :
              BeginEditClient(c, email, enable, expiry)
         \/ SaveClient
         \/ \E chosen \in SUBSET clients, op \in {"delete", "enable", "disable", "reset_traffic"} :
              ChangeClients(chosen, op)
         \/ Elsewhere
         \/ \E preset \in Presets : Deploy(preset)
         \/ RollbackDeployment
         \/ InvalidateSubCache
         \/ \E dual \in BOOLEAN : Apply(dual)
         \/ \E req \in SubRequests : SubscriptionMiss(req)
         \/ \E f \in fills : subCachePut(f)
         \/ Tick
<1>1. \A item \in ImportItems : IsItem(item)
  BY NodeTableAssumption DEF NodeTableAssumption, IsItem
<1>2. \A item \in ImportItems : Import3xui(item) => \E i : IsItem(i) /\ Import3xui(i)
  BY <1>1
<1> QED BY <1>2 DEF Next, Elsewhere

LEMMA RowsStep ==
  ASSUME RowsInv, [Next]_vars PROVE RowsInv'
<1>1. CASE UNCHANGED vars
  BY <1>1, TablesAsTheyAre DEF vars
<1>2. CASE Next
  <2>1. ASSUME NEW form \in InboundForms, CreateInbound(form) PROVE RowsInv'
    BY <2>1, CreateInboundRows
  <2>2. ASSUME NEW in \in inbounds, NEW form \in InboundForms, BeginEditInbound(in, form) PROVE RowsInv'
    BY <2>2, BeginEditInboundRows
  <2>3. CASE SaveInbound
    BY <2>3, SaveInboundRows
  <2>4. ASSUME NEW in \in inbounds, DeleteInbound(in) PROVE RowsInv'
    BY <2>4, DeleteInboundRows
  <2>5. ASSUME NEW item, IsItem(item), Import3xui(item) PROVE RowsInv'
    BY <2>5, ImportRows
  <2>6. ASSUME NEW in \in inbounds, Import3xui(buildThreeXUIInboundExport(in)) PROVE RowsInv'
    BY <2>6, ExportedIsItem, ImportRows
  <2>7. ASSUME NEW in \in inbounds, NEW email \in Emails, NEW uuid \in Uuids, NEW expiry \in Expiries,
               CreateClient(in, email, uuid, expiry)
        PROVE  RowsInv'
    BY <2>7, CreateClientRows
  <2>8. ASSUME NEW c \in clients, NEW email \in Emails, NEW enable \in BOOLEAN, NEW expiry \in Expiries,
               BeginEditClient(c, email, enable, expiry)
        PROVE  RowsInv'
    BY <2>8, BeginEditClientRows
  <2>9. CASE SaveClient
    BY <2>9, SaveClientRows
  <2>10. ASSUME NEW chosen \in SUBSET clients, NEW op \in {"delete", "enable", "disable", "reset_traffic"},
                ChangeClients(chosen, op)
         PROVE  RowsInv'
    BY <2>10, ChangeClientsRows
  <2>11. CASE Elsewhere
    BY <2>11, ElsewhereLeaves, TablesAsTheyAre
  <2>12. ASSUME NEW preset \in Presets, Deploy(preset) PROVE RowsInv'
    BY <2>12, DeployKeepsRows
  <2>13. CASE RollbackDeployment
    BY <2>13, RollbackKeepsRows
  <2>14. CASE InvalidateSubCache
    BY <2>14, TablesAsTheyAre DEF InvalidateSubCache, tables
  <2>15. ASSUME NEW dual, Apply(dual) PROVE RowsInv'
    BY <2>15, TablesAsTheyAre DEF Apply, tables
  <2>16. ASSUME NEW req, SubscriptionMiss(req) PROVE RowsInv'
    BY <2>16, TablesAsTheyAre DEF SubscriptionMiss, tables
  <2>17. ASSUME NEW f, subCachePut(f) PROVE RowsInv'
    BY <2>17, TablesAsTheyAre DEF subCachePut, tables
  <2>18. CASE Tick
    BY <2>18, TablesAsTheyAre DEF Tick, tables
  <2> QED BY <1>2, NextCases, <2>1, <2>2, <2>3, <2>4, <2>5, <2>6, <2>7, <2>8, <2>9, <2>10, <2>11, <2>12, <2>13,
             <2>14, <2>15, <2>16, <2>17, <2>18
<1> QED BY <1>1, <1>2

LEMMA CacheStep ==
  ASSUME RowsInv, CacheInv, [Next]_vars PROVE CacheInv'
<1>1. CASE UNCHANGED vars
  BY <1>1, CacheAsItWas DEF vars
<1>2. CASE Next
  <2>1. ASSUME NEW form \in InboundForms, CreateInbound(form) PROVE CacheInv'
    BY <2>1, CommitKeepsCache DEF CreateInbound, WriteInbound
  <2>2. ASSUME NEW in \in inbounds, NEW form \in InboundForms, BeginEditInbound(in, form) PROVE CacheInv'
    BY <2>2, CacheAsItWas DEF BeginEditInbound, tables
  <2>3. CASE SaveInbound
    BY <2>3, CommitKeepsCache, CacheAsItWas DEF SaveInbound, WriteInbound
  <2>4. ASSUME NEW in \in inbounds, DeleteInbound(in) PROVE CacheInv'
    BY <2>4, CommitKeepsCache DEF DeleteInbound
  <2>5. ASSUME NEW item, Import3xui(item) PROVE CacheInv'
    BY <2>5, CommitKeepsCache DEF Import3xui, WriteInbound
  <2>7. ASSUME NEW in \in inbounds, NEW email \in Emails, NEW uuid \in Uuids, NEW expiry \in Expiries,
               CreateClient(in, email, uuid, expiry)
        PROVE  CacheInv'
    BY <2>7, CommitKeepsCache DEF CreateClient
  <2>8. ASSUME NEW c \in clients, NEW email \in Emails, NEW enable \in BOOLEAN, NEW expiry \in Expiries,
               BeginEditClient(c, email, enable, expiry)
        PROVE  CacheInv'
    BY <2>8, CacheAsItWas DEF BeginEditClient, tables
  <2>9. CASE SaveClient
    BY <2>9, CommitKeepsCache, CacheAsItWas DEF SaveClient
  <2>10. ASSUME NEW chosen \in SUBSET clients, NEW op \in {"delete", "enable", "disable", "reset_traffic"},
                ChangeClients(chosen, op)
         PROVE  CacheInv'
    BY <2>10, CommitKeepsCache DEF ChangeClients
  <2>11. CASE Elsewhere
    BY <2>11, ElsewhereLeaves, CacheAsItWas
  <2>12. ASSUME NEW preset \in Presets, Deploy(preset) PROVE CacheInv'
    <3>1. now' = now /\ (CommitOnly \/ UNCHANGED <<inbounds, clients, cache, fills, invalidations>>)
      BY <2>12 DEF Deploy
    <3> QED BY <3>1, CommitOnlyKeepsCache, CacheAsItWas
  <2>13. CASE RollbackDeployment
    BY <2>13, CommitOnlyKeepsCache DEF RollbackDeployment
  <2>14. CASE InvalidateSubCache
    BY <2>14, InvalidateKeepsCache
  <2>15. ASSUME NEW dual, Apply(dual) PROVE CacheInv'
    BY <2>15, CacheAsItWas DEF Apply, tables
  <2>16. ASSUME NEW req \in SubRequests, SubscriptionMiss(req) PROVE CacheInv'
    BY <2>16, MissKeepsCache
  <2>17. ASSUME NEW f \in fills, subCachePut(f) PROVE CacheInv'
    BY <2>17, PutKeepsCache
  <2>18. CASE Tick
    BY <2>18, TickKeepsCache
  <2> QED BY <1>2, NextCases, <2>1, <2>2, <2>3, <2>4, <2>5, <2>7, <2>8, <2>9, <2>10, <2>11, <2>12, <2>13,
             <2>14, <2>15, <2>16, <2>17, <2>18
<1> QED BY <1>1, <1>2

LEMMA DeployStep ==
  ASSUME FormsAreSealed, RowsInv, RowsInv', DeployInv, [Next]_vars PROVE DeployInv'
<1>0. nextId \in Nat /\ nextId' \in Nat /\ 0 < nextId
  BY DEF RowsInv
<1>1. CASE UNCHANGED vars
  BY <1>0, <1>1, DeployStays DEF vars
<1>2. CASE Next
  <2>1. ASSUME NEW form \in InboundForms, CreateInbound(form) PROVE DeployInv'
    <3> DEFINE in == Inserted(Row(nextId, form))
    <3>1. WriteInbound(in, nextId + 1, << >>) /\ UNCHANGED <<deployed, running, edit>>
      BY <2>1 DEF CreateInbound
    <3>2. nextId + 1 \in Nat /\ nextId \in 1..(nextId + 1 - 1) /\ nextId <= nextId + 1
      BY <1>0
    <3>3. IsInbound(in, nextId + 1) /\ in.id = nextId
      <4>1. IsForm(form)
        BY NodeTableAssumption DEF NodeTableAssumption
      <4>2. IsInbound(Row(nextId, form), nextId + 1) /\ Row(nextId, form).id = nextId
        BY <3>2, <4>1, RowIsInbound
      <4> QED BY <4>2, InsertedRows
    <3> HIDE DEF in
    <3>4. nextId <= nextId'
      BY <3>1, <3>2, <3>3, NoStats, WriteKeepsTables
    <3>5. \A other \in inbounds' : other \in inbounds \/ other = in
      BY <3>1 DEF WriteInbound
    <3>6. SealedIfDeployed(in)
      BY <3>3, NewIsSealed
    <3> QED BY <1>0, <3>1, <3>4, <3>5, <3>6, DeployStays
  <2>2. ASSUME NEW in \in inbounds, NEW form \in InboundForms, BeginEditInbound(in, form) PROVE DeployInv'
    <3> DEFINE row == Row(in.id, form)
    <3>1. edit' = <<[kind |-> "inbound", row |-> row]>> /\ UNCHANGED <<inbounds, nextId, deployed, running>>
      BY <2>2 DEF BeginEditInbound, tables
    <3>2. row.tag = form.tag /\ row.settings = form.settings /\ row.protocol = form.protocol
      BY DEF Row
    <3> HIDE DEF row
    <3>3. Head(edit').row = row
      BY <3>1
    <3>4. SealedIfDeployed(row)
      BY <3>2 DEF SealedIfDeployed, FormsAreSealed, Sealed
    <3> QED BY <1>0, <3>1, <3>3, <3>4, DeployStays
  <2>3. CASE SaveInbound
    <3> DEFINE row == Head(edit).row
               in == IF \A other \in inbounds : other.id # row.id THEN Inserted(row) ELSE row
    <3>1. /\ IsInbound(row, nextId) /\ SealedIfDeployed(row)
          /\ edit' = << >> /\ UNCHANGED <<deployed, running>>
      BY <2>3 DEF SaveInbound, RowsInv, EditHolds, DeployInv
    <3>2. WriteInbound(in, nextId, << >>) \/ UNCHANGED <<inbounds, nextId>>
      BY <2>3 DEF SaveInbound
    <3> HIDE DEF row
    <3>3. IsInbound(in, nextId) /\ SealedIfDeployed(in)
      BY <3>1, InsertedRows, InsertedIsSealed
    <3> HIDE DEF in
    <3>4. CASE WriteInbound(in, nextId, << >>)
      <4>1. nextId <= nextId'
        BY <1>0, <3>3, <3>4, NoStats, WriteKeepsTables
      <4>2. \A other \in inbounds' : other \in inbounds \/ other = in
        BY <3>4 DEF WriteInbound
      <4> QED BY <1>0, <3>1, <3>3, <4>1, <4>2, DeployStays
    <3>5. CASE UNCHANGED <<inbounds, nextId>>
      BY <1>0, <3>1, <3>5, DeployStays
    <3> QED BY <3>2, <3>4, <3>5
  <2>4. ASSUME NEW in \in inbounds, DeleteInbound(in) PROVE DeployInv'
    BY <1>0, <2>4, DeployStays DEF DeleteInbound
  <2>5. ASSUME NEW item, IsItem(item), Import3xui(item) PROVE DeployInv'
    <3> DEFINE in == Inserted(importThreeXUIInbound(item))
    <3>1. WriteInbound(in, nextId + 1, item.stats) /\ UNCHANGED <<deployed, running, edit>>
      BY <2>5 DEF Import3xui
    <3>2. nextId + 1 \in Nat /\ nextId <= nextId + 1
      BY <1>0
    <3>3. IsInbound(in, nextId + 1) /\ in.id = nextId
      BY <2>5, ImportedRow, InsertedRows
    <3> HIDE DEF in
    <3>4. nextId <= nextId'
      BY <2>5, <3>1, <3>2, <3>3, WriteKeepsTables DEF IsItem
    <3>5. \A other \in inbounds' : other \in inbounds \/ other = in
      BY <3>1 DEF WriteInbound
    <3>6. SealedIfDeployed(in)
      BY <3>3, NewIsSealed
    <3> QED BY <1>0, <3>1, <3>4, <3>5, <3>6, DeployStays
  <2>6. ASSUME NEW in \in inbounds, Import3xui(buildThreeXUIInboundExport(in)) PROVE DeployInv'
    BY <2>5, <2>6, ExportedIsItem
  <2>7. ASSUME NEW in \in inbounds, NEW email \in Emails, NEW uuid \in Uuids, NEW expiry \in Expiries,
               CreateClient(in, email, uuid, expiry)
        PROVE  DeployInv'
    <3>1. nextId' = nextId + 1 /\ UNCHANGED <<inbounds, deployed, running, edit>>
      BY <2>7 DEF CreateClient
    <3> QED BY <1>0, <3>1, DeployStays
  <2>8. ASSUME NEW c \in clients, NEW email \in Emails, NEW enable \in BOOLEAN, NEW expiry \in Expiries,
               BeginEditClient(c, email, enable, expiry)
        PROVE  DeployInv'
    <3> DEFINE row == [c EXCEPT !.email = email, !.enable = enable, !.expiry = expiry]
    <3>1. edit' = <<[kind |-> "client", row |-> row]>> /\ UNCHANGED <<inbounds, nextId, deployed, running>>
      BY <2>8 DEF BeginEditClient, tables
    <3> HIDE DEF row
    <3>2. Head(edit').kind = "client"
      BY <3>1
    <3> QED BY <3>1, <3>2 DEF DeployInv, SealedIfDeployed
  <2>9. CASE SaveClient
    BY <1>0, <2>9, DeployStays DEF SaveClient
  <2>10. ASSUME NEW chosen \in SUBSET clients, NEW op \in {"delete", "enable", "disable", "reset_traffic"},
                ChangeClients(chosen, op)
         PROVE  DeployInv'
    BY <1>0, <2>10, DeployStays DEF ChangeClients
  <2>11. CASE Elsewhere
    BY <1>0, <2>11, ElsewhereLeaves, DeployStays
  <2>12. ASSUME NEW preset \in Presets, Deploy(preset) PROVE DeployInv'
    <3> DEFINE made == DeployRows(Plan(preset))
               next == [inbounds |-> made.rows, clients |-> made.users, rules |-> rules, outbounds |-> outbounds,
                        dual |-> running.dual]
    <3>1. edit' = edit /\ \/ UNCHANGED <<inbounds, nextId, deployed, running>>
                          \/ /\ inbounds' = made.rows /\ nextId' = made.free /\ running' = next
                             /\ deployed' = {in.id : in \in made.rows \ inbounds}
      BY <2>12 DEF Deploy
    <3>2. IsMade(made)
      BY DeployedRows
    <3> HIDE DEF made
    <3>3. CASE UNCHANGED <<inbounds, nextId, deployed, running>>
      BY <1>0, <3>1, <3>3, DeployStays
    <3>4. CASE /\ inbounds' = made.rows /\ nextId' = made.free /\ running' = next
               /\ deployed' = {in.id : in \in made.rows \ inbounds}
      <4>1. running'.inbounds = made.rows
        BY <3>4
      <4>2. \A id \in deployed' : id \in 1..(nextId' - 1) /\ nextId <= id
        BY <3>2, <3>4 DEF IsMade, AreInbounds, IsInbound
      <4>3. \A in \in made.rows : in.id \in deployed' => Sealed(in)
        <5> SUFFICES ASSUME NEW in \in made.rows, in.id \in deployed' PROVE Sealed(in)
          OBVIOUS
        <5>1. PICK other \in made.rows \ inbounds : other.id = in.id
          BY <3>4
        <5>2. other = in
          BY <3>2, <5>1 DEF IsMade, AreInbounds, IsTable
        <5> QED BY <3>2, <5>1, <5>2 DEF IsMade
      <4>4. edit # << >> /\ Head(edit).kind = "inbound" => Head(edit).row.id \notin deployed'
        <5>1. edit # << >> /\ Head(edit).kind = "inbound" => Head(edit).row.id \in 1..(nextId - 1)
          BY DEF RowsInv, EditHolds, IsInbound
        <5> QED BY <1>0, <4>2, <5>1
      <4> QED BY <3>1, <3>2, <3>4, <4>1, <4>2, <4>3, <4>4 DEF DeployInv, SealedIfDeployed, IsMade
    <3> QED BY <3>1, <3>3, <3>4
  <2>13. CASE RollbackDeployment
    <3>1. deployed' = {} /\ nextId' = nextId
      BY <2>13 DEF RollbackDeployment
    <3>2. running' = running \/ running'.inbounds = inbounds'
      BY <2>13 DEF RollbackDeployment
    <3>3. AreInbounds(running'.inbounds, nextId')
      BY <3>1, <3>2 DEF DeployInv, RowsInv
    <3> QED BY <3>1, <3>3 DEF DeployInv, SealedIfDeployed
  <2>14. CASE InvalidateSubCache
    BY <1>0, <2>14, DeployStays DEF InvalidateSubCache, tables
  <2>15. ASSUME NEW dual, Apply(dual) PROVE DeployInv'
    <3>1. running' = Snapshot(dual) /\ UNCHANGED <<inbounds, nextId, deployed, edit>>
      BY <2>15 DEF Apply, tables
    <3>2. running'.inbounds = inbounds
      BY <3>1 DEF Snapshot
    <3> QED BY <3>1, <3>2 DEF DeployInv, SealedIfDeployed, RowsInv
  <2>16. ASSUME NEW req, SubscriptionMiss(req) PROVE DeployInv'
    BY <1>0, <2>16, DeployStays DEF SubscriptionMiss, tables
  <2>17. ASSUME NEW f, subCachePut(f) PROVE DeployInv'
    BY <1>0, <2>17, DeployStays DEF subCachePut, tables
  <2>18. CASE Tick
    BY <1>0, <2>18, DeployStays DEF Tick, tables
  <2> QED BY <1>2, NextCases, <2>1, <2>2, <2>3, <2>4, <2>5, <2>6, <2>7, <2>8, <2>9, <2>10, <2>11, <2>12, <2>13,
             <2>14, <2>15, <2>16, <2>17, <2>18
<1> QED BY <1>1, <1>2

\* Ids, tags, emails and credentials of the rows stay what the handlers, the
\* engines and the accounting rely on, whatever is submitted, imported,
\* deployed and edited in between.
THEOREM TablesInvariant == Spec => []RowsInv
<1>1. Init => RowsInv
  BY TablesStart
<1>2. RowsInv /\ [Next]_vars => RowsInv'
  BY RowsStep
<1> QED BY <1>1, <1>2, PTL DEF Spec

\* No cached subscription outlives its accounts, and none is stale without a
\* reason, in every state (subCacheGet, InvalidateSubCache).
THEOREM CachedAnswersAreRight == Spec => []CachedAnswersHold
<1>1. Init => CacheInv
  BY CacheStarts
<1>2. RowsInv /\ CacheInv /\ [Next]_vars => CacheInv'
  BY CacheStep
<1>3. CacheInv => CachedAnswersHold
  BY CacheHolds
<1> QED BY <1>1, <1>2, <1>3, TablesInvariant, PTL DEF Spec

\* The inline credentials of a preset never come back: on a deployed inbound
\* the engines accept the enabled client rows alone (presetClients), as long
\* as no administrator submits accounts under a preset's tag.
THEOREM DeployedRowsStaySealed ==
  ASSUME FormsAreSealed
  PROVE  Spec => []DeployedAcceptsOnlyRows
<1>1. Init => DeployInv
  BY DeployStarts
<1>2. RowsInv /\ RowsInv' /\ DeployInv /\ [Next]_vars => DeployInv'
  BY DeployStep
<1>3. DeployInv => DeployedAcceptsOnlyRows
  BY DeployedIsSealed
<1> QED BY <1>1, <1>2, <1>3, TablesInvariant, PTL DEF Spec


------------------------------------------------------------------------------
(* The ports of a plan                                                     *)

\* A port that is free is found, and the preferred one first.
LEMMA PortsArePicked ==
  ASSUME NEW preferred, NEW busy, NEW exclude,
         NEW port \in {preferred} \cup ToSet(PortFallbacks), port \notin exclude, port \notin busy
  PROVE  LET picked == pickPortExcluding(preferred, busy, exclude)
         IN  /\ picked \notin exclude /\ picked \notin busy
             /\ preferred \notin exclude /\ preferred \notin busy => picked = preferred
<1> DEFINE S == {preferred} \cup ToSet(PortFallbacks)
           one == <<preferred>>
           tried == one \o PortFallbacks
           n == Len(PortFallbacks) + 1
           Usable(k) == isPortUsable(tried[k], busy, exclude)
           usable == {k \in DOMAIN tried : Usable(k)}
<1>1. PortFallbacks \in Seq(S) /\ one \in Seq(S) /\ Len(one) = 1 /\ one[1] = preferred
  <2>1. PortFallbacks \in Seq(ToSet(PortFallbacks))
    BY NodeTableAssumption DEF NodeTableAssumption, IsSeq
  <2> HIDE DEF ToSet
  <2> QED BY <2>1
<1>2. n \in Nat /\ tried \in Seq(S) /\ Len(tried) = n
      /\ \A i \in 1..n : tried[i] = IF i <= 1 THEN one[i] ELSE PortFallbacks[i - 1]
  <2> HIDE DEF S, one
  <2>1. /\ tried \in Seq(S) /\ Len(tried) = Len(one) + Len(PortFallbacks)
        /\ \A i \in 1..(Len(one) + Len(PortFallbacks)) :
             tried[i] = IF i <= Len(one) THEN one[i] ELSE PortFallbacks[i - Len(one)]
    BY <1>1, ConcatProperties
  <2>2. Len(PortFallbacks) \in Nat /\ Len(one) + Len(PortFallbacks) = n
    BY <1>1
  <2> HIDE DEF tried
  <2> QED BY <1>1, <2>1, <2>2
<1>3. DOMAIN tried = 1..n
  <2> HIDE DEF tried, S, n
  <2> QED BY <1>2
<1>4. tried[1] = preferred /\ 1 \in 1..n
  BY <1>1, <1>2
<1>5. \E i \in 1..n : tried[i] = port
  <2>1. CASE port = preferred
    BY <1>4, <2>1
  <2>2. CASE port # preferred
    <3>1. PICK j \in 1..Len(PortFallbacks) : PortFallbacks[j] = port
      BY <1>1, <2>2 DEF ToSet
    <3>2. j + 1 \in 1..n /\ ~(j + 1 <= 1) /\ j + 1 - 1 = j
      BY <1>1
    <3>3. tried[j + 1] = PortFallbacks[j]
      <4> HIDE DEF tried, n
      <4> QED BY <1>2, <3>2
    <3> QED BY <3>1, <3>2, <3>3
  <2> QED BY <2>1, <2>2
<1>6. usable \subseteq 1..n /\ usable # {}
  <2> HIDE DEF tried
  <2> QED BY <1>3, <1>5 DEF isPortUsable
<1>7. Min(usable) \in usable /\ \A y \in usable : Min(usable) <= y
  <2> HIDE DEF usable, n
  <2> QED BY <1>2, <1>6, FirstPlace
<1>8. pickPortExcluding(preferred, busy, exclude) = tried[Min(usable)]
  BY <1>6 DEF pickPortExcluding
<1> HIDE DEF tried
<1>9. tried[Min(usable)] \notin exclude /\ tried[Min(usable)] \notin busy
  BY <1>7 DEF isPortUsable
<1>10. ASSUME preferred \notin exclude, preferred \notin busy PROVE tried[Min(usable)] = preferred
  <2>1. 1 \in usable
    BY <1>3, <1>4, <1>10 DEF isPortUsable
  <2> HIDE DEF usable
  <2>2. Min(usable) <= 1 /\ Min(usable) \in 1..n
    BY <1>6, <1>7, <2>1
  <2>3. Min(usable) = 1
    <3> HIDE DEF n
    <3> QED BY <1>2, <2>2
  <2> QED BY <1>4, <2>3
<1> HIDE DEF usable
<1> QED BY <1>8, <1>9, <1>10

\* A row is refused for its port only when an enabled row has it.
LEMMA PortRefused ==
  ASSUME NEW acc, DOMAIN acc = {"rows", "users", "free", "result"}, acc.result # "port_taken",
         NEW p, \A in \in acc.rows : in.enable => in.port # p.port
  PROVE  CreatePlanned(acc, p).result # "port_taken"
<1> DEFINE row == Row(acc.free, PresetColumns(p, Domain))
           next == CreatePlanned(acc, p)
<1>1. row.port = p.port
  BY DEF Row, PresetColumns
<1> HIDE DEF row
<1>2. next.result \in {"tag_taken", acc.result}
  BY <1>1 DEF CreatePlanned, row
<1> QED BY <1>2

LEMMA AddedPlanned ==
  ASSUME NEW acc, DOMAIN acc = {"rows", "users", "free", "result"}, acc.result = "deployed", NEW p
  PROVE  LET next == CreatePlanned(acc, p)
         IN  /\ DOMAIN next = DOMAIN acc
             /\ \A in \in next.rows : in \in acc.rows \/ in.port = p.port
<1> DEFINE row == Row(acc.free, PresetColumns(p, Domain))
           next == CreatePlanned(acc, p)
<1>1. row.port = p.port
  BY DEF Row, PresetColumns
<1> HIDE DEF row
<1>2. DOMAIN next = DOMAIN acc /\ next.rows \subseteq acc.rows \cup {row}
  BY DEF CreatePlanned, row
<1> HIDE DEF next
<1> QED BY <1>1, <1>2 DEF next

LEMMA PlanOfOne ==
  ASSUME NEW plan, NEW p, plan = <<p>>, p.port \notin Busy
  PROVE  DeployRows(plan).result # "port_taken"
<1>1. Len(plan) = 1 /\ plan[1] = p
  OBVIOUS
<1>2. PICK made : MakesRows(made, plan)
  BY <1>1, DeployMakesRows
<1>3. made[0] = [rows |-> inbounds, users |-> clients, free |-> nextId, result |-> "deployed"]
  BY <1>2 DEF MakesRows
<1>4. DOMAIN made[0] = {"rows", "users", "free", "result"} /\ made[0].result = "deployed" /\ made[0].rows = inbounds
  BY <1>3
<1>5. DeployRows(plan) = CreatePlanned(made[0], p)
  BY <1>1, <1>2, <1>4 DEF MakesRows
<1>6. \A in \in inbounds : in.enable => in.port # p.port
  BY DEF Busy
<1> QED BY <1>4, <1>5, <1>6, PortRefused

LEMMA PlanOfTwo ==
  ASSUME NEW plan, NEW p, NEW q, plan = <<p, q>>, p.port \notin Busy, q.port \notin Busy, q.port # p.port
  PROVE  DeployRows(plan).result # "port_taken"
<1>1. Len(plan) = 2 /\ plan[1] = p /\ plan[2] = q
  OBVIOUS
<1>2. PICK made : MakesRows(made, plan)
  BY <1>1, DeployMakesRows
<1>3. made[0] = [rows |-> inbounds, users |-> clients, free |-> nextId, result |-> "deployed"]
  BY <1>2 DEF MakesRows
<1>4. DOMAIN made[0] = {"rows", "users", "free", "result"} /\ made[0].result = "deployed" /\ made[0].rows = inbounds
  BY <1>3
<1>5. 1 \in 1..2 /\ 2 \in 1..2 /\ 1 - 1 = 0 /\ 2 - 1 = 1
  OBVIOUS
<1>6. made[1] = CreatePlanned(made[0], p)
  BY <1>1, <1>2, <1>4, <1>5 DEF MakesRows
<1>7. DeployRows(plan) = IF made[1].result # "deployed" THEN made[1] ELSE CreatePlanned(made[1], q)
  BY <1>1, <1>2, <1>5 DEF MakesRows
<1>8. \A in \in inbounds : in.enable => in.port # p.port /\ in.port # q.port
  BY DEF Busy
<1>9. made[1].result # "port_taken"
  BY <1>4, <1>6, <1>8, PortRefused
<1>10. ASSUME made[1].result = "deployed" PROVE CreatePlanned(made[1], q).result # "port_taken"
  <2>1. DOMAIN made[1] = {"rows", "users", "free", "result"}
        /\ \A in \in made[1].rows : in \in inbounds \/ in.port = p.port
    BY <1>4, <1>6, AddedPlanned
  <2>2. \A in \in made[1].rows : in.enable => in.port # q.port
    BY <1>8, <2>1
  <2> QED BY <1>9, <2>1, <2>2, PortRefused
<1> QED BY <1>7, <1>9, <1>10

LEMMA TwoFree ==
  ASSUME NEW F, Cardinality(F) >= 2, NEW x PROVE \E y \in F : y # x
<1>1. Cardinality({}) = 0 /\ Cardinality({x}) = 1
  BY FS_EmptySet, FS_Singleton
<1>2. F # {}
  BY <1>1
<1>3. F # {x}
  <2> SUFFICES ASSUME F = {x} PROVE FALSE
    OBVIOUS
  <2>1. Cardinality(F) = 1
    BY <1>1
  <2> QED BY <2>1
<1> QED BY <1>2, <1>3

LEMMA PlansFit == PresetsFit
<1> DEFINE free == ({443} \cup ToSet(PortFallbacks)) \ Busy
           first == pickPortExcluding(443, Busy, {})
           second == pickPortExcluding(8443, Busy, {first})
<1>1. ASSUME free # {} PROVE first \notin Busy /\ (443 \notin Busy => first = 443)
  <2>1. PICK port \in {443} \cup ToSet(PortFallbacks) : port \notin Busy /\ port \notin {}
    BY <1>1
  <2> HIDE DEF first
  <2> QED BY <2>1, PortsArePicked DEF first
<1>2. ASSUME Cardinality(free) >= 1 PROVE free # {}
  BY <1>2, FS_EmptySet
<1>3. ASSUME Cardinality(free) >= 2 PROVE second \notin Busy /\ second # first
  <2>1. \E y \in free : y # first
    <3> HIDE DEF free, first
    <3> QED BY <1>3, TwoFree
  <2>2. PICK port \in free : port # first
    BY <2>1
  <2>3. 443 \notin Busy => first = 443
    BY <1>1, <2>2
  <2> HIDE DEF first
  <2>4. port \in ToSet(PortFallbacks) /\ port \notin Busy /\ port \notin {first}
    BY <2>2, <2>3
  <2>5. second \notin {first} /\ second \notin Busy
    <3> DEFINE e == {first}
    <3>1. port \in {8443} \cup ToSet(PortFallbacks) /\ port \notin e /\ port \notin Busy
      BY <2>4
    <3> HIDE DEF e
    <3>2. pickPortExcluding(8443, Busy, e) \notin e /\ pickPortExcluding(8443, Busy, e) \notin Busy
      BY <3>1, PortsArePicked
    <3> QED BY <3>2 DEF e
  <2> QED BY <2>5
<1> HIDE DEF free, first, second
<1> SUFFICES ASSUME NEW preset \in Presets, preset # "combo", FreeFor(Len(Plan(preset)))
             PROVE  DeployRows(Plan(preset)).result # "port_taken"
  BY DEF PresetsFit, PlanFits
<1>4. Cardinality(free) >= Len(Plan(preset))
  BY DEF FreeFor, free
<1>5. preset \in {"stable", "speed", "weaknet"}
  BY NodeTableAssumption DEF NodeTableAssumption
<1>6. CASE preset = "stable"
  <2> DEFINE p == PlannedInbound("vless", <<"smart-stable-egress">>, first, PresetSettings(NewUuid, "vision"),
                                 RealityStream("smart-key", "target"))
  <2>1. Plan(preset) = <<p>>
    BY <1>6 DEF Plan, Expand, expandStableEgress, first
  <2>2. p.port = first
    BY DEF PlannedInbound
  <2> HIDE DEF p
  <2>3. Len(Plan(preset)) = 1
    BY <2>1
  <2>4. first \notin Busy
    BY <1>1, <1>2, <1>4, <2>3
  <2> QED BY <2>1, <2>2, <2>4, PlanOfOne
<1>7. CASE preset = "speed"
  <2> DEFINE p == PlannedInbound("hysteria2", <<"smart-speed-hy2">>, first, PresetSettings(NewUuid, ""),
                                 certStreamForHy2TUIC(Domain))
  <2>1. Plan(preset) = <<p>>
    BY <1>7 DEF Plan, Expand, expandSpeed, first
  <2>2. p.port = first
    BY DEF PlannedInbound
  <2> HIDE DEF p
  <2>3. Len(Plan(preset)) = 1
    BY <2>1
  <2>4. first \notin Busy
    BY <1>1, <1>2, <1>4, <2>3
  <2> QED BY <2>1, <2>2, <2>4, PlanOfOne
<1>8. CASE preset = "weaknet"
  <2> DEFINE p == PlannedInbound("hysteria2", <<"smart-weaknet-hy2">>, first, PresetSettings(NewUuid, ""),
                                 certStreamForHy2TUIC(Domain))
             q == PlannedInbound("tuic", <<"smart-weaknet-tuic">>, second, PresetSettings(NewUuid, ""),
                                 certStreamForHy2TUIC(Domain))
  <2>1. Plan(preset) = <<p, q>>
    <3>1. Plan(preset) = expandWeakNetwork(Busy, Domain, NewUuid)
      BY <1>8 DEF Plan, Expand
    <3>2. expandWeakNetwork(Busy, Domain, NewUuid) = <<p, q>>
      BY DEF expandWeakNetwork, first, second
    <3> QED BY <3>1, <3>2
  <2>2. p.port = first /\ q.port = second
    BY DEF PlannedInbound
  <2> HIDE DEF p, q
  <2>3. Len(Plan(preset)) = 2
    BY <2>1
  <2>4. first \notin Busy
    <3>1. free # {}
      BY <1>4, <2>3, FS_EmptySet
    <3> QED BY <1>1, <3>1
  <2>5. second \notin Busy /\ second # first
    BY <1>3, <1>4, <2>3
  <2> QED BY <2>1, <2>2, <2>4, <2>5, PlanOfTwo
<1> QED BY <1>5, <1>6, <1>7, <1>8

\* A plan is refused for its ports only when the host has too few free ones,
\* in every state, for every list of fallbacks and whatever else listens
\* (expandWeakNetwork, pickPortExcluding).
THEOREM PlansAlwaysFit == Spec => []PresetsFit
<1>1. PresetsFit
  BY PlansFit
<1> QED BY <1>1, PTL


------------------------------------------------------------------------------
(* The table of rules                                                      *)

\* Every handler asks a rule for something to match.
RulesInv == AreRules(rules)

LEMMA RemoveAtKeepsRules ==
  ASSUME NEW rs, AreRules(rs), NEW i \in DOMAIN rs
  PROVE  AreRules(RemoveAt(rs, i))
<1> DEFINE S == ToSet(rs)
           one == SubSeq(rs, 1, i - 1)
           two == SubSeq(rs, i + 1, Len(rs))
<1>1. rs \in Seq(S) /\ Len(rs) \in Nat /\ i \in 1..Len(rs)
  BY SeqIsFunction DEF AreRules, IsSeq
<1> HIDE DEF S
<1>2. one \in Seq(S) /\ two \in Seq(S)
  BY <1>1
<1>3. RemoveAt(rs, i) \in Seq(S)
  BY <1>2 DEF RemoveAt
<1>4. \A r \in S : r.domain \cup r.ip \cup r.port # {}
  BY DEF AreRules, S, ToSet
<1>5. \A j \in DOMAIN RemoveAt(rs, i) : RemoveAt(rs, i)[j] \in S
  BY <1>3
<1> QED BY <1>3, <1>4, <1>5, MemberIsSeq DEF AreRules

LEMMA CreateRuleKeepsRules ==
  ASSUME RulesInv, NEW rule, CreateRule(rule)
  PROVE  RulesInv'
<1> DEFINE row == Inserted(rule)
<1>1. rules' = Append(rules, row) /\ rule.domain \cup rule.ip \cup rule.port # {}
  BY DEF CreateRule, validateRoutingRule
<1>2. row.domain \cup row.ip \cup row.port # {}
  BY <1>1 DEF Inserted
<1> HIDE DEF row
<1>3. IsSeq(rules)
  BY DEF RulesInv, AreRules
<1>4. /\ IsSeq(rules') /\ Len(rules') = Len(rules) + 1 /\ rules'[Len(rules) + 1] = row
      /\ \A i \in 1..Len(rules) : rules'[i] = rules[i]
  BY <1>1, <1>3, AppendToSeq
<1>5. DOMAIN rules' = 1..(Len(rules) + 1) /\ DOMAIN rules = 1..Len(rules) /\ Len(rules) \in Nat
  BY <1>3, <1>4, SeqIsFunction
<1>6. ASSUME NEW i \in DOMAIN rules' PROVE rules'[i].domain \cup rules'[i].ip \cup rules'[i].port # {}
  <2>1. CASE i = Len(rules) + 1
    BY <1>2, <1>4, <2>1
  <2>2. CASE i \in 1..Len(rules)
    BY <1>4, <1>5, <2>2 DEF RulesInv, AreRules
  <2> QED BY <1>5, <2>1, <2>2
<1> QED BY <1>4, <1>6 DEF RulesInv, AreRules

\* Only their own handlers change the rules and the outbounds.
LEMMA RoutingCases ==
  ASSUME [Next]_vars PROVE UNCHANGED routing \/ Elsewhere
<1>1. CASE UNCHANGED vars
  BY <1>1 DEF vars, routing
<1>2. CASE Next
  <2> USE DEF routing
  <2>1. ASSUME NEW form, CreateInbound(form) PROVE UNCHANGED routing
    BY <2>1 DEF CreateInbound
  <2>2. ASSUME NEW in, NEW form, BeginEditInbound(in, form) PROVE UNCHANGED routing
    BY <2>2 DEF BeginEditInbound, tables
  <2>3. SaveInbound => UNCHANGED routing
    BY DEF SaveInbound
  <2>4. ASSUME NEW in, DeleteInbound(in) PROVE UNCHANGED routing
    BY <2>4 DEF DeleteInbound
  <2>5. ASSUME NEW item, Import3xui(item) PROVE UNCHANGED routing
    BY <2>5 DEF Import3xui
  <2>6. ASSUME NEW in, NEW email, NEW uuid, NEW expiry, CreateClient(in, email, uuid, expiry)
        PROVE  UNCHANGED routing
    BY <2>6 DEF CreateClient
  <2>7. ASSUME NEW c, NEW email, NEW enable, NEW expiry, BeginEditClient(c, email, enable, expiry)
        PROVE  UNCHANGED routing
    BY <2>7 DEF BeginEditClient, tables
  <2>8. SaveClient => UNCHANGED routing
    BY DEF SaveClient
  <2>9. ASSUME NEW chosen, NEW op, ChangeClients(chosen, op) PROVE UNCHANGED routing
    BY <2>9 DEF ChangeClients
  <2>10. ASSUME NEW preset, Deploy(preset) PROVE UNCHANGED routing
    BY <2>10 DEF Deploy
  <2>11. RollbackDeployment => UNCHANGED routing
    BY DEF RollbackDeployment
  <2>12. InvalidateSubCache \/ Tick => UNCHANGED routing
    BY DEF InvalidateSubCache, Tick, tables
  <2>13. ASSUME NEW dual, Apply(dual) PROVE UNCHANGED routing
    BY <2>13 DEF Apply, tables
  <2>14. ASSUME NEW req, SubscriptionMiss(req) PROVE UNCHANGED routing
    BY <2>14 DEF SubscriptionMiss, tables
  <2>15. ASSUME NEW f, subCachePut(f) PROVE UNCHANGED routing
    BY <2>15 DEF subCachePut, tables
  <2> HIDE DEF routing
  <2> QED BY <1>2, NextCases, <2>1, <2>2, <2>3, <2>4, <2>5, <2>6, <2>7, <2>8, <2>9, <2>10, <2>11, <2>12, <2>13,
             <2>14, <2>15
<1> QED BY <1>1, <1>2

LEMMA RulesStep ==
  ASSUME RulesInv, [Next]_vars PROVE RulesInv'
<1>1. CASE UNCHANGED rules
  BY <1>1 DEF RulesInv, AreRules, IsSeq
<1>2. ASSUME NEW rule, CreateRule(rule) PROVE RulesInv'
  BY <1>2, CreateRuleKeepsRules
<1>3. ASSUME NEW i \in DOMAIN rules, DeleteRule(i) PROVE RulesInv'
  <2>1. rules' = RemoveAt(rules, i)
    BY <1>3 DEF DeleteRule
  <2> QED BY <2>1, RemoveAtKeepsRules DEF RulesInv
<1>4. \A ob, enable : CreateOutbound(ob) \/ UpdateOutbound(ob, enable) \/ DeleteOutbound(ob) => UNCHANGED rules
  BY DEF CreateOutbound, UpdateOutbound, DeleteOutbound, ChangeOutbounds
<1>5. UNCHANGED routing => UNCHANGED rules
  BY DEF routing
<1> QED BY <1>1, <1>2, <1>3, <1>4, <1>5, RoutingCases DEF Elsewhere

\* The kinds of outbound sing-box is given (buildSingboxOutbound).
Kinds == {"wireguard", "socks5", "http"}

\* No outbound of another kind is submitted: the handlers do not ask.
OutboundsAreKnown == \A ob \in Outbounds : ob.protocol \in Kinds

KnownInv == \A ob \in outbounds : ob.protocol \in Kinds

LEMMA KnownStep ==
  ASSUME OutboundsAreKnown, KnownInv, [Next]_vars PROVE KnownInv'
<1>1. CASE UNCHANGED outbounds
  BY <1>1 DEF KnownInv
<1>2. ASSUME NEW ob \in Outbounds, CreateOutbound(ob) PROVE KnownInv'
  <2>1. outbounds' = outbounds \cup {Inserted(ob)}
    BY <1>2 DEF CreateOutbound, ChangeOutbounds
  <2>2. Inserted(ob).protocol = ob.protocol
    BY DEF Inserted
  <2> QED BY <2>1, <2>2 DEF KnownInv, OutboundsAreKnown
<1>3. ASSUME NEW ob \in outbounds, NEW enable, UpdateOutbound(ob, enable) PROVE KnownInv'
  <2> DEFINE row == [ob EXCEPT !.enable = enable]
  <2>1. outbounds' = (outbounds \ {ob}) \cup {row}
    BY <1>3 DEF UpdateOutbound, ChangeOutbounds
  <2>2. row.protocol = ob.protocol
    OBVIOUS
  <2> HIDE DEF row
  <2> QED BY <2>1, <2>2 DEF KnownInv
<1>4. ASSUME NEW ob \in outbounds, DeleteOutbound(ob) PROVE KnownInv'
  BY <1>4 DEF DeleteOutbound, ChangeOutbounds, KnownInv
<1>5. ASSUME NEW rule, CreateRule(rule) PROVE UNCHANGED outbounds
  BY <1>5 DEF CreateRule
<1>6. ASSUME NEW i, DeleteRule(i) PROVE UNCHANGED outbounds
  BY <1>6 DEF DeleteRule
<1>7. UNCHANGED routing => UNCHANGED outbounds
  BY DEF routing
<1> QED BY <1>1, <1>2, <1>3, <1>4, <1>5, <1>6, <1>7, RoutingCases DEF Elsewhere

\* EnabledRules goes through the table rule by rule.
Collects(kept, rs) ==
  /\ kept[0] = << >>
  /\ \A k \in 1..Len(rs) :
       kept[k] = IF rs[k].enable THEN UniqueRoutingRules(kept[k - 1], rs[k]) ELSE kept[k - 1]
  /\ EnabledRules(rs) = kept[Len(rs)]

LEMMA EnabledRulesCollects ==
  ASSUME NEW rs, Len(rs) \in Nat
  PROVE  \E kept : Collects(kept, rs)
<1> DEFINE Step(acc, k) == IF rs[k].enable THEN UniqueRoutingRules(acc, rs[k]) ELSE acc
           Fold(g, n) == g = [k \in 0..n |-> IF k = 0 THEN << >> ELSE Step(g[k - 1], k)]
           T == {n \in Nat : \E g : Fold(g, n)}
           last == Len(rs)
           kept == CHOOSE g : Fold(g, last)
<1>2. 0 \in T
  <2> DEFINE g == [k \in 0..0 |-> << >>]
  <2> HIDE DEF Step
  <2>1. Fold(g, 0)
    OBVIOUS
  <2> QED BY <2>1
<1>3. ASSUME NEW n \in Nat, n \in T PROVE n + 1 \in T
  <2> HIDE DEF Step
  <2>1. PICK g : Fold(g, n)
    BY <1>3
  <2> DEFINE h == [k \in 0..(n + 1) |-> IF k = 0 THEN << >> ELSE Step(g[k - 1], k)]
  <2>2. \A k \in 0..n : h[k] = g[k]
    BY <2>1
  <2>3. \A k \in 0..(n + 1) : k # 0 => k - 1 \in 0..n
    OBVIOUS
  <2>4. \A k \in 0..(n + 1) : h[k] = IF k = 0 THEN << >> ELSE Step(h[k - 1], k)
    BY <2>2, <2>3
  <2>5. Fold(h, n + 1)
    BY <2>4
  <2> HIDE DEF h, Fold
  <2> QED BY <2>5
<1>4. Fold(kept, last)
  <2>1. last \in T
    <3> HIDE DEF T
    <3> QED BY <1>2, <1>3, Counting
  <2> HIDE DEF Fold, last
  <2> QED BY <2>1
<1>5. EnabledRules(rs) = kept[last]
  BY DEF EnabledRules
<1> HIDE DEF kept, Step
<1>6. kept[0] = << >> /\ \A k \in 1..last : kept[k] = Step(kept[k - 1], k)
  BY <1>4
<1>7. Collects(kept, rs)
  BY <1>5, <1>6 DEF Collects, Step
<1> QED BY <1>7

\* What it keeps are rules of the table.
LEMMA EnabledAreRules ==
  ASSUME NEW rs, AreRules(rs)
  PROVE  AreRules(EnabledRules(rs))
<1> DEFINE last == Len(rs)
           S == ToSet(rs)
<1>1. last \in Nat /\ DOMAIN rs = 1..last
  BY SeqIsFunction DEF AreRules
<1>2. PICK kept : Collects(kept, rs)
  BY <1>1, EnabledRulesCollects
<1>3. \A k \in 1..last : rs[k] \in S
  BY <1>1 DEF ToSet
<1>0. \A r \in S : r.domain \cup r.ip \cup r.port # {}
  BY DEF AreRules, ToSet
<1> HIDE DEF S
<1> DEFINE T == {k \in Nat : k <= last => kept[k] \in Seq(S)}
<1>4. 0 \in T
  <2>1. kept[0] = << >>
    BY <1>2 DEF Collects
  <2>2. << >> \in Seq(S)
    OBVIOUS
  <2>3. kept[0] \in Seq(S)
    BY <2>1, <2>2
  <2> QED BY <2>3
<1>5. ASSUME NEW n \in Nat, n \in T PROVE n + 1 \in T
  <2> SUFFICES ASSUME n + 1 <= last PROVE kept[n + 1] \in Seq(S)
    OBVIOUS
  <2>1. kept[n] \in Seq(S) /\ n + 1 \in 1..last /\ n + 1 - 1 = n
    BY <1>1, <1>5
  <2>2. kept[n + 1] = IF rs[n + 1].enable THEN UniqueRoutingRules(kept[n], rs[n + 1]) ELSE kept[n]
    BY <1>2, <2>1 DEF Collects
  <2>3. rs[n + 1] \in S
    BY <1>3, <2>1
  <2>4. UniqueRoutingRules(kept[n], rs[n + 1]) \in Seq(S)
    BY <2>1, <2>3 DEF UniqueRoutingRules
  <2> QED BY <2>1, <2>2, <2>4
<1>6. EnabledRules(rs) \in Seq(S)
  <2>1. last \in T
    <3> HIDE DEF T
    <3> QED BY <1>1, <1>4, <1>5, Counting
  <2>2. kept[last] \in Seq(S)
    BY <1>1, <2>1
  <2> QED BY <1>2, <2>2 DEF Collects
<1>7. \A i \in DOMAIN EnabledRules(rs) : EnabledRules(rs)[i] \in S
  BY <1>6
<1> QED BY <1>0, <1>6, <1>7, MemberIsSeq DEF AreRules

\* SingboxRules translates the enabled rules one by one.
Translates(made, rs) ==
  /\ made[0] = << >>
  /\ \A k \in 1..Len(EnabledRules(rs)) : made[k] = made[k - 1] \o buildSingboxRoutingRule(EnabledRules(rs)[k])
  /\ SingboxRules(rs) = made[Len(EnabledRules(rs))]

LEMMA SingboxRulesTranslate ==
  ASSUME NEW rs, Len(EnabledRules(rs)) \in Nat
  PROVE  \E made : Translates(made, rs)
<1> DEFINE enabled == EnabledRules(rs)
           Step(acc, k) == acc \o buildSingboxRoutingRule(enabled[k])
           Fold(g, n) == g = [k \in 0..n |-> IF k = 0 THEN << >> ELSE Step(g[k - 1], k)]
           T == {n \in Nat : \E g : Fold(g, n)}
           last == Len(enabled)
           made == CHOOSE g : Fold(g, last)
<1>2. 0 \in T
  <2> DEFINE g == [k \in 0..0 |-> << >>]
  <2> HIDE DEF Step
  <2>1. Fold(g, 0)
    OBVIOUS
  <2> QED BY <2>1
<1>3. ASSUME NEW n \in Nat, n \in T PROVE n + 1 \in T
  <2> HIDE DEF Step
  <2>1. PICK g : Fold(g, n)
    BY <1>3
  <2> DEFINE h == [k \in 0..(n + 1) |-> IF k = 0 THEN << >> ELSE Step(g[k - 1], k)]
  <2>2. \A k \in 0..n : h[k] = g[k]
    BY <2>1
  <2>3. \A k \in 0..(n + 1) : k # 0 => k - 1 \in 0..n
    OBVIOUS
  <2>4. \A k \in 0..(n + 1) : h[k] = IF k = 0 THEN << >> ELSE Step(h[k - 1], k)
    BY <2>2, <2>3
  <2>5. Fold(h, n + 1)
    BY <2>4
  <2> HIDE DEF h, Fold
  <2> QED BY <2>5
<1>4. Fold(made, last)
  <2>1. last \in T
    <3> HIDE DEF T
    <3> QED BY <1>2, <1>3, Counting
  <2> HIDE DEF Fold, last
  <2> QED BY <2>1
<1>5. SingboxRules(rs) = made[last]
  BY DEF SingboxRules
<1> HIDE DEF made, Step
<1>6. made[0] = << >> /\ \A k \in 1..last : made[k] = Step(made[k - 1], k)
  BY <1>4
<1>7. Translates(made, rs)
  BY <1>5, <1>6 DEF Translates, Step
<1> QED BY <1>7

Translated(r) ==
  [domain |-> r.domain, ip |-> r.ip, port |-> Numeric(r.port),
   outbound |-> IF r.outbound = "block" THEN "reject" ELSE r.outbound]

\* The part of a rule that sing-box can be asked for.
Asks(r) == r.domain \cup r.ip \cup Numeric(r.port) # {}

LEMMA TranslatedFields ==
  ASSUME NEW r
  PROVE  /\ Translated(r).domain = r.domain /\ Translated(r).ip = r.ip /\ Translated(r).port = Numeric(r.port)
         /\ Translated(r).outbound = IF r.outbound = "block" THEN "reject" ELSE r.outbound
  BY DEF Translated

LEMMA OneTranslated ==
  ASSUME NEW r
  PROVE  buildSingboxRoutingRule(r) = IF Asks(r) THEN <<Translated(r)>> ELSE << >>
  BY DEF buildSingboxRoutingRule, Asks, Translated

LEMMA OneMore ==
  ASSUME NEW S, NEW s \in Seq(S), NEW e \in S
  PROVE  /\ s \o <<e>> \in Seq(S) /\ Len(s \o <<e>>) = Len(s) + 1 /\ (s \o <<e>>)[Len(s) + 1] = e
         /\ \A i \in 1..Len(s) : (s \o <<e>>)[i] = s[i]
<1>1. <<e>> \in Seq(S) /\ Len(<<e>>) = 1 /\ <<e>>[1] = e
  OBVIOUS
<1> QED BY <1>1

\* sing-box's rules are translations of enabled ones, and when none is dropped
\* they are those of all of them in the same order.
LEMMA SingboxRulesAre ==
  ASSUME NEW rs, IsSeq(EnabledRules(rs))
  PROVE  LET enabled == EnabledRules(rs)
         IN  /\ SingboxRules(rs) \in Seq({Translated(enabled[j]) : j \in DOMAIN enabled})
             /\ (\A j \in DOMAIN enabled : Asks(enabled[j])) =>
                  /\ Len(SingboxRules(rs)) = Len(enabled)
                  /\ \A j \in DOMAIN enabled : SingboxRules(rs)[j] = Translated(enabled[j])
<1> DEFINE enabled == EnabledRules(rs)
           last == Len(enabled)
           S == {Translated(enabled[j]) : j \in DOMAIN enabled}
           All == \A j \in DOMAIN enabled : Asks(enabled[j])
<1>1. last \in Nat /\ DOMAIN enabled = 1..last
  BY SeqIsFunction
<1>2. PICK made : Translates(made, rs)
  BY <1>1, SingboxRulesTranslate
<1>3. \A j \in 1..last : Translated(enabled[j]) \in S
  BY <1>1
<1> DEFINE Same(k) == Len(made[k]) = k /\ \A j \in 1..k : made[k][j] = Translated(enabled[j])
           Good(k) == made[k] \in Seq(S) /\ (All => Same(k))
           T == {k \in Nat : k <= last => Good(k)}
<1> HIDE DEF S
<1>4. 0 \in T
  <2>1. made[0] = << >>
    BY <1>2 DEF Translates
  <2>2. << >> \in Seq(S) /\ Len(<< >>) = 0
    OBVIOUS
  <2>3. made[0] \in Seq(S) /\ Len(made[0]) = 0
    BY <2>1, <2>2
  <2>4. Same(0)
    BY <2>3
  <2>5. Good(0)
    BY <2>3, <2>4
  <2> HIDE DEF Good
  <2> QED BY <2>5
<1>5. ASSUME NEW n \in Nat, n \in T PROVE n + 1 \in T
  <2> SUFFICES ASSUME n + 1 <= last PROVE Good(n + 1)
    BY <1>5
  <2> DEFINE r == enabled[n + 1]
             was == made[n]
  <2>1. Good(n) /\ n + 1 \in 1..last /\ n + 1 - 1 = n
    BY <1>1, <1>5
  <2>2. made[n + 1] = was \o buildSingboxRoutingRule(r)
    <3> DEFINE Joined(s, k) == s \o buildSingboxRoutingRule(enabled[k])
    <3>1. \A k \in 1..last : made[k] = Joined(made[k - 1], k)
      BY <1>2 DEF Translates
    <3>2. n + 1 \in 1..last /\ n + 1 - 1 = n
      BY <2>1
    <3>3. made[n + 1] = Joined(was, n + 1)
      <4> HIDE DEF Joined, enabled
      <4> QED BY <3>1, <3>2
    <3> QED BY <3>3
  <2>3. Translated(r) \in S /\ was \in Seq(S)
    BY <1>3, <2>1
  <2>4. All => Asks(r)
    BY <1>1, <2>1
  <2>5. CASE Asks(r)
    <3> DEFINE e == Translated(r)
    <3>1. made[n + 1] = was \o <<e>>
      BY <2>2, <2>5, OneTranslated
    <3> HIDE DEF e, enabled, All
    <3>2. /\ made[n + 1] \in Seq(S) /\ Len(made[n + 1]) = Len(was) + 1 /\ made[n + 1][Len(was) + 1] = e
          /\ \A i \in 1..Len(was) : made[n + 1][i] = was[i]
      BY <2>3, <3>1, OneMore DEF e
    <3>3. ASSUME All PROVE Same(n + 1)
      <4>1. Len(was) = n /\ \A j \in 1..n : was[j] = Translated(enabled[j])
        BY <2>1, <3>3
      <4>2. ASSUME NEW j \in 1..(n + 1) PROVE made[n + 1][j] = Translated(enabled[j])
        <5>1. CASE j = n + 1
          BY <3>2, <4>1, <5>1 DEF e
        <5>2. CASE j \in 1..n
          BY <3>2, <4>1, <5>2
        <5> QED BY <5>1, <5>2
      <4> QED BY <3>2, <4>1, <4>2
    <3> HIDE DEF Same
    <3>4. made[n + 1] \in Seq(S)
      BY <3>2
    <3> QED BY <3>3, <3>4
  <2>6. CASE ~Asks(r)
    <3>1. made[n + 1] = was
      <4>1. buildSingboxRoutingRule(r) = << >>
        BY <2>6, OneTranslated
      <4> HIDE DEF was
      <4> QED BY <2>2, <2>3, <4>1
    <3>2. ~All
      BY <2>4, <2>6
    <3> HIDE DEF Same, All
    <3> QED BY <2>3, <3>1, <3>2
  <2> QED BY <2>5, <2>6
<1>6. Good(last)
  <2>1. last \in T
    <3> HIDE DEF T
    <3> QED BY <1>1, <1>4, <1>5, Counting
  <2> HIDE DEF Good, last
  <2> QED BY <1>1, <2>1
<1>7. SingboxRules(rs) = made[last]
  BY <1>2 DEF Translates
<1> QED BY <1>1, <1>6, <1>7 DEF S

\* Asking for domains and for addresses is one question when one is not asked.
LEMMA SameHits ==
  ASSUME NEW one, NEW two, NEW d, one = {} \/ two = {}
  PROVE  Hits(one, d) /\ Hits(two, d) <=> Hits(one \cup two, d)
  BY DEF Hits

LEMMA RoutedAlike == RulesInv => EnginesRouteAlike
<1> DEFINE E == EnabledRules(rules)
           X == XrayRules(rules)
           S == SingboxRules(rules)
<1> SUFFICES ASSUME RulesInv,
                    \A i \in DOMAIN E : /\ E[i].domain = {} \/ E[i].ip = {}
                                        /\ E[i].port = Numeric(E[i].port) /\ E[i].outbound \in {"direct", "block"},
                    NEW d
             PROVE  XrayRoute(X, d) = (IF SingboxRoute(S, d) = "reject" THEN "block" ELSE SingboxRoute(S, d))
  <2> HIDE DEF E, X, S
  <2> QED BY DEF EnginesRouteAlike, E, X, S
<1>1. AreRules(E)
  BY EnabledAreRules DEF RulesInv
<1>2. IsSeq(E) /\ Len(E) \in Nat /\ DOMAIN E = 1..Len(E)
  BY <1>1, SeqIsFunction DEF AreRules
<1>3. \A i \in DOMAIN E : Asks(E[i])
  BY <1>1 DEF AreRules, Asks
<1>4. S \in Seq({Translated(E[j]) : j \in DOMAIN E}) /\ Len(S) = Len(E)
      /\ \A j \in DOMAIN E : S[j] = Translated(E[j])
  BY <1>2, <1>3, SingboxRulesAre
<1>5. DOMAIN X = DOMAIN E /\ \A j \in DOMAIN E : X[j] = NormalizeRoutingRule(E[j])
  BY DEF XrayRules, buildXrayRoutingRule
<1>6. DOMAIN S = DOMAIN E
  BY <1>2, <1>4
<1>7. \A j \in DOMAIN E : /\ X[j].domain = E[j].domain /\ X[j].ip = E[j].ip /\ X[j].port = E[j].port
                          /\ X[j].outbound = E[j].outbound
  BY <1>5 DEF NormalizeRoutingRule
<1> HIDE DEF E, X, S
<1>8. \A j \in DOMAIN E : /\ S[j].domain = E[j].domain /\ S[j].ip = E[j].ip /\ S[j].port = E[j].port
                          /\ S[j].outbound = IF E[j].outbound = "block" THEN "reject" ELSE E[j].outbound
  <2>1. \A j \in DOMAIN E : S[j] = Translated(E[j])
    BY <1>4
  <2> SUFFICES ASSUME NEW j \in DOMAIN E
               PROVE  /\ S[j].domain = E[j].domain /\ S[j].ip = E[j].ip /\ S[j].port = E[j].port
                      /\ S[j].outbound = IF E[j].outbound = "block" THEN "reject" ELSE E[j].outbound
    OBVIOUS
  <2>2. S[j] = Translated(E[j]) /\ E[j].port = Numeric(E[j].port)
    BY <2>1
  <2> QED BY <2>2, TranslatedFields
<1> DEFINE XHit(i) == Hits(X[i].domain, d) /\ Hits(X[i].ip, d) /\ Hits(X[i].port, d)
           SHit(i) == Hits(S[i].domain \cup S[i].ip, d) /\ Hits(S[i].port, d)
           xhit == {i \in DOMAIN X : XHit(i)}
           shit == {i \in DOMAIN S : SHit(i)}
<1>9. ASSUME NEW j \in DOMAIN E PROVE XHit(j) <=> SHit(j)
  <2>1. E[j].domain = {} \/ E[j].ip = {}
    OBVIOUS
  <2>2. Hits(E[j].domain, d) /\ Hits(E[j].ip, d) <=> Hits(E[j].domain \cup E[j].ip, d)
    BY <2>1, SameHits
  <2> QED BY <1>7, <1>8, <2>2, ZenonT(30)
<1>10. xhit = shit
  <2> HIDE DEF XHit, SHit
  <2> QED BY <1>5, <1>6, <1>9
<1>11. XrayRoute(X, d) = IF xhit = {} THEN "direct" ELSE X[Min(xhit)].outbound
  BY DEF XrayRoute
<1>12. SingboxRoute(S, d) = IF shit = {} THEN "direct" ELSE S[Min(shit)].outbound
  BY DEF SingboxRoute
<1>13. CASE xhit = {}
  <2> HIDE DEF xhit, shit
  <2> QED BY <1>10, <1>11, <1>12, <1>13
<1>14. CASE xhit # {}
  <2>1. xhit \subseteq 1..Len(E)
    BY <1>2, <1>5
  <2> HIDE DEF xhit, shit
  <2>2. IsFiniteSet(1..Len(E)) /\ 1..Len(E) \subseteq Int
    BY <1>2, FS_Interval
  <2>3. IsFiniteSet(xhit) /\ xhit \subseteq Int
    BY <2>1, <2>2, FS_Subset
  <2>4. Min(xhit) \in xhit
    BY <1>14, <2>3, LeastOf
  <2> DEFINE j == Min(xhit)
  <2>5. j \in DOMAIN E
    BY <1>2, <2>1, <2>4
  <2> HIDE DEF j
  <2>6. XrayRoute(X, d) = E[j].outbound
    BY <1>7, <1>11, <1>14, <2>5 DEF j
  <2>7. SingboxRoute(S, d) = IF E[j].outbound = "block" THEN "reject" ELSE E[j].outbound
    BY <1>8, <1>10, <1>12, <1>14, <2>5 DEF j
  <2> QED BY <2>5, <2>6, <2>7
<1> QED BY <1>13, <1>14

LEMMA FileIsClosed == RulesInv /\ KnownInv => RulesNeverBreakTheFile
<1> DEFINE E == EnabledRules(rules)
           S == SingboxRules(rules)
           file == SingboxConfig({}, {}, rules, outbounds, TRUE, TRUE)
           Custom == {ob.tag : ob \in {o \in outbounds : o.enable}}
<1> SUFFICES ASSUME RulesInv, KnownInv, \A i \in DOMAIN E : E[i].outbound \in {"direct", "block"} \cup Custom
             PROVE  Closed(file)
  <2> HIDE DEF E, file, Custom
  <2> QED BY DEF RulesNeverBreakTheFile, E, file, Custom
<1>1. file.rules = S /\ file.outbounds = SingboxOutbounds(outbounds) /\ file.ruleSets = buildSingboxRuleSets(rules)
  <2>1. SingboxRows({}, TRUE) = {}
    BY DEF SingboxRows
  <2> QED BY <2>1 DEF SingboxConfig
<1>2. IsSeq(E)
  BY EnabledAreRules DEF RulesInv, AreRules
<1>3. S \in Seq({Translated(E[j]) : j \in DOMAIN E})
  BY <1>2, SingboxRulesAre
<1>4. {"direct"} \cup Custom \subseteq file.outbounds
  <2>1. ASSUME NEW ob \in outbounds, ob.enable PROVE ob.tag \in SingboxOutbounds(outbounds)
    <3>1. buildSingboxOutbound(ob) = {ob.tag}
      BY DEF KnownInv, Kinds, buildSingboxOutbound
    <3> QED BY <2>1, <3>1 DEF SingboxOutbounds
  <2>2. "direct" \in SingboxOutbounds(outbounds)
    BY DEF SingboxOutbounds
  <2> HIDE DEF file
  <2> QED BY <1>1, <2>1, <2>2
<1>5. \A j \in DOMAIN E : \A t \in E[j].domain \cup E[j].ip :
        t[1] \in {"geosite", "geoip"} /\ t # <<"geoip", "private">> => t \in file.ruleSets
  <2>1. \A j \in DOMAIN E : E[j] \in ToSet(E)
    BY DEF ToSet
  <2> HIDE DEF file
  <2> QED BY <1>1, <2>1 DEF buildSingboxRuleSets
<1> HIDE DEF E, S, file, Custom
<1>6. ASSUME NEW i \in DOMAIN S
      PROVE  /\ S[i].outbound \in file.outbounds \cup {"reject"}
             /\ {t \in S[i].domain : t[1] = "geosite"} \subseteq file.ruleSets
             /\ {t \in S[i].ip : t[1] = "geoip" /\ t[2] # "private"} \subseteq file.ruleSets
  <2>1. PICK j \in DOMAIN E : S[i] = Translated(E[j])
    BY <1>3
  <2>2. /\ S[i].domain = E[j].domain /\ S[i].ip = E[j].ip
        /\ S[i].outbound = IF E[j].outbound = "block" THEN "reject" ELSE E[j].outbound
    BY <2>1 DEF Translated
  <2>3. S[i].outbound \in file.outbounds \cup {"reject"}
    BY <1>4, <2>2
  <2>4. ASSUME NEW t \in S[i].domain, t[1] = "geosite" PROVE t \in file.ruleSets
    <3>1. t # <<"geoip", "private">>
      BY <2>4
    <3> QED BY <1>5, <2>2, <2>4, <3>1
  <2>5. ASSUME NEW t \in S[i].ip, t[1] = "geoip", t[2] # "private" PROVE t \in file.ruleSets
    <3>1. t # <<"geoip", "private">>
      BY <2>5
    <3> QED BY <1>5, <2>2, <2>5, <3>1
  <2> QED BY <2>3, <2>4, <2>5
<1> QED BY <1>1, <1>6 DEF Closed

\* A table of rules means the same to both engines and stops neither, in every
\* state (buildXrayRoutingRule, buildSingboxRoutingRule, buildSingboxRuleSets),
\* as long as every outbound submitted is of a kind sing-box is given.
THEOREM RulesAlwaysWorkAlike ==
  ASSUME OutboundsAreKnown
  PROVE  Spec => []RulesWorkAlike
<1>1. Init => RulesInv /\ KnownInv
  BY NodeTableAssumption DEF Init, RulesInv, KnownInv, NodeTableAssumption
<1>2. RulesInv /\ [Next]_vars => RulesInv'
  BY RulesStep
<1>3. KnownInv /\ [Next]_vars => KnownInv'
  BY KnownStep
<1>4. RulesInv /\ KnownInv => RulesWorkAlike
  BY RoutedAlike, FileIsClosed DEF RulesWorkAlike
<1> QED BY <1>1, <1>2, <1>3, <1>4, PTL DEF Spec


------------------------------------------------------------------------------
(* Exporting and importing again                                           *)

LEMMA Triple ==
  ASSUME NEW a, NEW b, NEW c
  PROVE  DOMAIN <<a, b, c>> = 1..3 /\ <<a, b, c>>[1] = a /\ <<a, b, c>>[2] = b /\ <<a, b, c>>[3] = c
  OBVIOUS

FirstOf(texts, none) ==
  LET filled == {i \in DOMAIN texts : texts[i] # none}
  IN  IF filled = {} THEN none ELSE texts[Min(filled)]

\* Three texts, empty or all the same.
Filled(a, b, c, x, none) ==
  /\ x # none /\ a \in {none, x} /\ b \in {none, x} /\ c \in {none, x}
  /\ a = x \/ b = x \/ c = x

LEMMA FirstFilled ==
  ASSUME NEW none, NEW x, NEW a, NEW b, NEW c, Filled(a, b, c, x, none)
  PROVE  FirstOf(<<a, b, c>>, none) = x
<1> DEFINE texts == <<a, b, c>>
           filled == {i \in DOMAIN texts : texts[i] # none}
<1>1. DOMAIN texts = 1..3 /\ texts[1] = a /\ texts[2] = b /\ texts[3] = c
  BY Triple
<1>2. FirstOf(texts, none) = IF filled = {} THEN none ELSE texts[Min(filled)]
  BY DEF FirstOf
<1> HIDE DEF texts
<1>3. \A i \in 1..3 : i = 1 \/ i = 2 \/ i = 3
  OBVIOUS
<1>4. filled \subseteq 1..3 /\ filled # {} /\ \A i \in filled : texts[i] = x
  BY <1>1, <1>3 DEF Filled
<1>5. IsFiniteSet(1..3) /\ 1..3 \subseteq Int
  <2>1. 1 \in Int /\ 3 \in Int /\ 1..3 \subseteq Int
    OBVIOUS
  <2> QED BY <2>1, FS_Interval, Zenon
<1> HIDE DEF filled
<1>6. IsFiniteSet(filled) /\ filled \subseteq Int
  BY <1>4, <1>5, FS_Subset
<1>7. Min(filled) \in filled
  BY <1>4, <1>6, LeastOf
<1> QED BY <1>2, <1>4, <1>7 DEF texts

LEMMA FirstTexts ==
  ASSUME NEW texts
  PROVE  FirstNonEmpty(texts) = FirstOf(texts, "")
  BY Zenon DEF FirstNonEmpty, FirstOf

LEMMA FilledText ==
  ASSUME NEW x, NEW a, NEW b, NEW c, Filled(a, b, c, x, "")
  PROVE  FirstNonEmpty(<<a, b, c>>) = x
<1>1. FirstOf(<<a, b, c>>, "") = x
  BY FirstFilled, Zenon
<1> QED BY <1>1, FirstTexts, Zenon

\* An account nobody has yet becomes a new row with the email it brings along.
IsNew(acc, inbound, entry, row) ==
  /\ TakeOver(acc, inbound, entry) = [rows |-> acc.rows \cup {row}, free |-> acc.free + 1]
  /\ row.uuid = entry.uuid /\ row.email = entry.email
  /\ row.expiry = entry.expiry /\ row.used = entry.used

LEMMA TakeNew ==
  ASSUME NEW acc, IsFiniteSet(acc.rows), NEW inbound, NEW entry, IsName(entry.email),
         \A c \in acc.rows : c.uuid # entry.uuid /\ c.email # entry.email
  PROVE  \E row : IsNew(acc, inbound, entry, row)
<1> DEFINE found == Existing(acc.rows, inbound, entry)
           email == ensureUniqueClientEmail(acc.rows, inbound, entry.email, acc.free)
           row == [id |-> acc.free, inbound |-> inbound, uuid |-> entry.uuid, enable |-> entry.enable,
                   email |-> email, expiry |-> entry.expiry, used |-> entry.used]
<1>1. found = ToSeqById({})
  <2>1. {c \in {d \in acc.rows : d.inbound = inbound} : c.uuid = entry.uuid} = {}
    OBVIOUS
  <2>2. {c \in {d \in acc.rows : d.inbound = inbound} : c.email = entry.email} = {}
    OBVIOUS
  <2> QED BY <2>1, <2>2 DEF Existing
<1>2. found = << >>
  <2>1. IsTable({})
    BY FS_EmptySet DEF IsTable
  <2> QED BY <1>1, <2>1, FirstById
<1>3. email = entry.email
  BY UniqueEmail
<1>4. TakeOver(acc, inbound, entry) = [rows |-> acc.rows \cup {Inserted(row)}, free |-> acc.free + 1]
  BY <1>2 DEF TakeOver
<1> HIDE DEF email
<1>5. /\ Inserted(row).uuid = entry.uuid /\ Inserted(row).email = email
      /\ Inserted(row).expiry = entry.expiry /\ Inserted(row).used = entry.used
  BY DEF Inserted
<1> HIDE DEF row
<1>6. IsNew(acc, inbound, entry, Inserted(row))
  BY <1>3, <1>4, <1>5 DEF IsNew
<1> QED BY <1>6

Mine(in) == {c \in clients : c.inbound = in.id}

LEMMA ExportedFields ==
  ASSUME RowsInv, NEW in \in inbounds
  PROVE  LET item == buildThreeXUIInboundExport(in)
         IN  /\ item.stats = buildThreeXUIClientStats(Mine(in))
             /\ item.columns.protocol = in.protocol
             /\ item.columns.settings.json = "ok"
             /\ item.columns.settings.clients = buildThreeXUISettingsClients(in, Mine(in))
<1> DEFINE accounts == buildThreeXUISettingsClients(in, Mine(in))
           item == buildThreeXUIInboundExport(in)
<1>1. /\ item.stats = buildThreeXUIClientStats(Mine(in))
      /\ item.columns = [in EXCEPT !.settings.json = "ok", !.settings.clients = accounts]
  BY DEF buildThreeXUIInboundExport, Mine
<1> HIDE DEF accounts, item
<1>2. DOMAIN in = InboundColumns /\ DOMAIN in.settings = {"json", "method", "psk", "flow", "obfs", "clients"}
  BY DEF RowsInv, AreInbounds, IsInbound, IsInboundRow, IsForm, IsSettings
<1>3. /\ item.columns.protocol = in.protocol
      /\ item.columns.settings = [in.settings EXCEPT !.json = "ok", !.clients = accounts]
  BY <1>1, <1>2 DEF InboundColumns
<1>4. item.columns.settings.json = "ok" /\ item.columns.settings.clients = accounts
  BY <1>2, <1>3
<1> QED BY <1>1, <1>3, <1>4 DEF item, accounts

\* What is exported of one client row says which account it was.
LEMMA ExportedEntry ==
  ASSUME RowsInv, NEW in \in inbounds,
         \A c, d \in Mine(in) : c.uuid = d.uuid => c = d,
         NEW k \in 1..Cardinality(Mine(in))
  PROVE  LET c == ToSeqById(Mine(in))[k]
             u == buildThreeXUISettingsClients(in, Mine(in))[k]
             entry == importedClient(in.protocol, u, buildThreeXUIClientStats(Mine(in)))
         IN  /\ importedClientCredential(in.protocol, u) # ""
             /\ entry.uuid = c.uuid /\ entry.email = c.email /\ entry.expiry = c.expiry /\ entry.used = c.used
<1> DEFINE mine == Mine(in)
           n == Cardinality(mine)
           rows == ToSeqById(mine)
           c == rows[k]
           u == buildThreeXUISettingsClients(in, mine)[k]
           stats == buildThreeXUIClientStats(mine)
           cred == importedClientCredential(in.protocol, u)
           pass == in.protocol \in {"trojan", "hysteria2", "shadowsocks"}
<1>1. n \in Nat /\ rows \in [1..n -> mine] /\ \A i, j \in 1..n : rows[i] = rows[j] => i = j
  BY MineInOrder DEF Mine
<1>2. c \in mine /\ c.uuid # "" /\ IsName(c.email) /\ c.expiry \in Int
  <2>1. c \in mine /\ c \in clients
    BY <1>1 DEF Mine
  <2> HIDE DEF c
  <2> QED BY <2>1 DEF RowsInv, AreClients, IsClient, IsClientRow
<1>3. /\ u.id = (IF pass THEN "" ELSE c.uuid) /\ u.password = (IF pass THEN c.uuid ELSE "")
      /\ u.email = c.email /\ u.enable = c.enable /\ u.expiry = c.expiry
  BY <1>1 DEF buildThreeXUISettingsClients
<1>4. /\ DOMAIN stats = 1..n
      /\ \A i \in 1..n : stats[i].uuid = rows[i].uuid /\ stats[i].expiry = rows[i].expiry /\ stats[i].used = rows[i].used
  BY <1>1 DEF buildThreeXUIClientStats
<1> HIDE DEF u, stats, pass
<1>5. cred = c.uuid
  <2> DEFINE a == IF pass THEN u.password ELSE ""
  <2>1. cred = FirstNonEmpty(<<a, u.id, u.password>>)
    BY DEF importedClientCredential, pass
  <2> HIDE DEF c
  <2>2. Filled(a, u.id, u.password, c.uuid, "")
    BY <1>2, <1>3 DEF Filled
  <2> HIDE DEF a, cred
  <2> QED BY <2>1, <2>2, FilledText
<1> HIDE DEF cred
<1> DEFINE entry == [uuid |-> cred, email |-> IF u.email = << >> THEN deriveImportedClientEmail(cred) ELSE u.email,
                     enable |-> u.enable, expiry |-> u.expiry, used |-> 0]
           where == StatsOf(stats, entry)
<1>6. entry.uuid = c.uuid /\ entry.expiry = c.expiry
  BY <1>3, <1>5
<1>7. entry.email = c.email
  <2>1. u.email # << >>
    BY <1>2, <1>3 DEF IsName
  <2>2. entry.email = IF u.email = << >> THEN deriveImportedClientEmail(cred) ELSE u.email
    OBVIOUS
  <2> HIDE DEF entry
  <2> QED BY <1>3, <2>1, <2>2
<1>8. importedClient(in.protocol, u, stats) = mergeImportedClientStat(entry, stats)
  BY DEF importedClient, cred
<1>0. DOMAIN entry = {"uuid", "email", "enable", "expiry", "used"}
  OBVIOUS
<1> HIDE DEF entry
<1>9. where = {k}
  <2>1. \A i \in 1..n : stats[i].uuid = entry.uuid <=> i = k
    <3> SUFFICES ASSUME NEW i \in 1..n PROVE stats[i].uuid = entry.uuid <=> i = k
      OBVIOUS
    <3>1. rows[i] \in Mine(in) /\ c \in Mine(in)
      BY <1>1, <1>2
    <3>2. stats[i].uuid = rows[i].uuid
      BY <1>4
    <3>3. rows[i].uuid = c.uuid => rows[i] = c
      BY <3>1
    <3>4. rows[i] = c => i = k
      BY <1>1
    <3> HIDE DEF rows
    <3> QED BY <1>6, <3>2, <3>3, <3>4
  <2>2. {i \in DOMAIN stats : stats[i].uuid = entry.uuid} = {k}
    BY <1>4, <2>1
  <2> QED BY <2>2 DEF StatsOf
<1>10. Max(where) = k
  BY <1>9 DEF Max
<1> DEFINE t == stats[k]
           merged == [entry EXCEPT !.used = t.used, !.enable = t.enable,
                                   !.expiry = IF t.expiry > 0 \/ @ = 0 THEN t.expiry ELSE @]
<1>11. mergeImportedClientStat(entry, stats) = merged
  <2> HIDE DEF where
  <2>1. where # {}
    BY <1>9
  <2> QED BY <1>10, <2>1 DEF mergeImportedClientStat, where
<1>12. t.expiry = c.expiry /\ t.used = c.used
  BY <1>4
<1> HIDE DEF t, c
<1>13. /\ merged.uuid = entry.uuid /\ merged.email = entry.email /\ merged.used = t.used
       /\ merged.expiry \in {t.expiry, entry.expiry}
  BY <1>0
<1> HIDE DEF merged
<1>14. /\ merged.uuid = c.uuid /\ merged.email = c.email /\ merged.expiry = c.expiry /\ merged.used = c.used
  BY <1>6, <1>7, <1>12, <1>13
<1>15. cred # ""
  BY <1>2, <1>5
<1> QED BY <1>8, <1>11, <1>14, <1>15 DEF c, u, stats, cred

Account(c) == [email |-> c.email, uuid |-> c.uuid, expiry |-> c.expiry, used |-> c.used]

LEMMA SameAccount ==
  ASSUME NEW c, NEW d
  PROVE  /\ Account(c) = Account(d) => c.uuid = d.uuid /\ c.email = d.email
         /\ (c.uuid = d.uuid /\ c.email = d.email /\ c.expiry = d.expiry /\ c.used = d.used) => Account(c) = Account(d)
<1>1. Account(c).uuid = c.uuid /\ Account(c).email = c.email /\ Account(d).uuid = d.uuid /\ Account(d).email = d.email
  BY DEF Account
<1>2. ASSUME c.uuid = d.uuid, c.email = d.email, c.expiry = d.expiry, c.used = d.used PROVE Account(c) = Account(d)
  BY <1>2 DEF Account
<1>3. ASSUME Account(c) = Account(d) PROVE c.uuid = d.uuid /\ c.email = d.email
  BY <1>1, <1>3
<1> QED BY <1>2, <1>3

\* The copy of an exported inbound gets, account by account, what the exported
\* one has.
LEMMA CopiedAccounts ==
  ASSUME RowsInv, NEW in \in inbounds, \A c, d \in Mine(in) : c.uuid = d.uuid => c = d,
         NEW copy, copy.protocol = in.protocol, NEW free \in Nat,
         AccountsIn(copy) = buildThreeXUISettingsClients(in, Mine(in))
  PROVE  LET synced == syncImportedInboundClients({}, free, copy, buildThreeXUIClientStats(Mine(in)))
         IN  {Account(c) : c \in synced.rows} = {Account(c) : c \in Mine(in)}
<1> DEFINE mine == Mine(in)
           n == Cardinality(mine)
           R == ToSeqById(mine)
           stats == buildThreeXUIClientStats(mine)
           accounts == AccountsIn(copy)
<1>1. /\ n \in Nat /\ R \in [1..n -> mine] /\ \A c \in mine : \E i \in 1..n : R[i] = c
      /\ \A i, j \in 1..n : R[i] = R[j] => i = j
  BY MineInOrder DEF Mine
<1>2. Len(accounts) = n
  <2>1. accounts = [i \in 1..n |-> accounts[i]]
    BY <1>1 DEF buildThreeXUISettingsClients
  <2> HIDE DEF accounts, n
  <2>2. accounts \in [1..n -> {accounts[i] : i \in 1..n}]
    BY <2>1
  <2> QED BY <1>1, <2>2, FunctionIsSeq
<1>3. PICK taken : TakesOver(taken, {}, free, copy, stats)
  BY <1>1, <1>2, SyncTakesOver, ZenonT(30)
<1> HIDE DEF R
<1> DEFINE From(k) == \A c \in taken[k].rows : \E i \in 1..k : Account(c) = Account(R[i])
           Into(k) == \A i \in 1..k : \E c \in taken[k].rows : Account(c) = Account(R[i])
           Good(k) == IsFiniteSet(taken[k].rows) /\ From(k) /\ Into(k)
           T == {k \in Nat : k <= n => Good(k)}
<1>4. 0 \in T
  <2>1. taken[0].rows = {}
    BY <1>3 DEF TakesOver
  <2> QED BY <2>1, FS_EmptySet
<1>5. ASSUME NEW k \in Nat, k \in T PROVE k + 1 \in T
  <2> SUFFICES ASSUME k + 1 <= n PROVE Good(k + 1)
    BY <1>5
  <2> DEFINE acc == taken[k]
             u == accounts[k + 1]
             d == R[k + 1]
             entry == importedClient(in.protocol, u, stats)
  <2>1. Good(k) /\ k + 1 \in 1..n /\ k + 1 - 1 = k
    BY <1>1, <1>5
  <2>2. taken[k + 1] = TakeAccount(acc, copy, stats, u)
    BY <1>2, <1>3, <2>1 DEF TakesOver
  <2>3. /\ importedClientCredential(in.protocol, u) # ""
        /\ entry.uuid = d.uuid /\ entry.email = d.email /\ entry.expiry = d.expiry /\ entry.used = d.used
    <3>1. k + 1 \in 1..Cardinality(Mine(in))
      BY <2>1
    <3>2. u = buildThreeXUISettingsClients(in, Mine(in))[k + 1]
      OBVIOUS
    <3> HIDE DEF u, Good, accounts
    <3> QED BY <3>1, <3>2, ExportedEntry DEF R
  <2> HIDE DEF u
  <2>4. taken[k + 1] = TakeOver(acc, copy.id, entry)
    BY <2>2, <2>3 DEF TakeAccount
  <2>5. d \in mine /\ IsName(d.email)
    <3>1. d \in mine /\ d \in clients
      BY <1>1, <2>1 DEF Mine
    <3> HIDE DEF d
    <3> QED BY <3>1 DEF RowsInv, AreClients, IsClient, IsClientRow
  <2>6. \A i \in 1..k : R[i] \in mine /\ R[i] # d
    <3> SUFFICES ASSUME NEW i \in 1..k PROVE R[i] \in mine /\ R[i] # d
      OBVIOUS
    <3>1. i \in 1..n /\ k + 1 \in 1..n /\ i # k + 1
      BY <1>1, <2>1
    <3> HIDE DEF R, Good
    <3> QED BY <1>1, <3>1
  <2>7. \A i \in 1..k : R[i].uuid # d.uuid /\ R[i].email # d.email
    <3> SUFFICES ASSUME NEW i \in 1..k PROVE R[i].uuid # d.uuid /\ R[i].email # d.email
      OBVIOUS
    <3>1. R[i] \in Mine(in) /\ d \in Mine(in) /\ R[i] # d
      BY <2>5, <2>6
    <3> HIDE DEF d
    <3>2. R[i].uuid # d.uuid
      BY <3>1
    <3>3. R[i].email # d.email
      BY <3>1 DEF Mine, RowsInv, AreClients
    <3> QED BY <3>2, <3>3
  <2> HIDE DEF entry, d
  <2>8. \A c \in acc.rows : c.uuid # entry.uuid /\ c.email # entry.email
    <3> SUFFICES ASSUME NEW c \in acc.rows PROVE c.uuid # entry.uuid /\ c.email # entry.email
      OBVIOUS
    <3>1. PICK i \in 1..k : Account(c) = Account(R[i])
      BY <2>1
    <3>2. c.uuid = R[i].uuid /\ c.email = R[i].email
      BY <3>1, SameAccount
    <3> QED BY <2>3, <2>7, <3>2
  <2>9. IsFiniteSet(acc.rows) /\ IsName(entry.email)
    BY <2>1, <2>3, <2>5
  <2>10. PICK row : IsNew(acc, copy.id, entry, row)
    <3> HIDE DEF acc
    <3> QED BY <2>8, <2>9, TakeNew
  <2>11. taken[k + 1].rows = acc.rows \cup {row}
    BY <2>4, <2>10 DEF IsNew
  <2>12. Account(row) = Account(d)
    BY <2>3, <2>10, SameAccount, ZenonT(30) DEF IsNew
  <2>13. IsFiniteSet(taken[k + 1].rows)
    BY <2>9, <2>11, FS_AddElement
  <2>14. From(k + 1)
    <3> SUFFICES ASSUME NEW c \in taken[k + 1].rows PROVE \E i \in 1..(k + 1) : Account(c) = Account(R[i])
      OBVIOUS
    <3>1. CASE c = row
      BY <2>12, <3>1 DEF d
    <3>2. CASE c \in acc.rows
      <4>1. PICK i \in 1..k : Account(c) = Account(R[i])
        BY <2>1, <3>2
      <4> QED BY <4>1
    <3> QED BY <2>11, <3>1, <3>2
  <2>15. Into(k + 1)
    <3> SUFFICES ASSUME NEW i \in 1..(k + 1) PROVE \E c \in taken[k + 1].rows : Account(c) = Account(R[i])
      OBVIOUS
    <3>1. CASE i = k + 1
      BY <2>11, <2>12, <3>1 DEF d
    <3>2. CASE i \in 1..k
      <4>1. PICK c \in acc.rows : Account(c) = Account(R[i])
        BY <2>1, <3>2
      <4> QED BY <2>11, <4>1
    <3> QED BY <3>1, <3>2
  <2> QED BY <2>13, <2>14, <2>15
<1>6. Good(n)
  <2>1. n \in T
    <3> HIDE DEF T, n
    <3> QED BY <1>1, <1>4, <1>5, Counting
  <2> HIDE DEF Good, n
  <2> QED BY <1>1, <2>1
<1>7. syncImportedInboundClients({}, free, copy, stats) = taken[n]
  BY <1>2, <1>3 DEF TakesOver
<1> HIDE DEF n, stats
<1>8. \A c \in taken[n].rows : \E d \in mine : Account(c) = Account(d)
  BY <1>1, <1>6
<1>9. \A d \in mine : \E c \in taken[n].rows : Account(c) = Account(d)
  BY <1>1, <1>6
<1>10. {Account(c) : c \in taken[n].rows} = {Account(c) : c \in mine}
  BY <1>8, <1>9
<1> QED BY <1>7, <1>10 DEF stats

LEMMA RoundTrips == RowsInv => RoundTripKeepsAccounts
<1> SUFFICES ASSUME RowsInv, NEW in \in inbounds, in.settings.json # "bad",
                    \A c, d \in Mine(in) : c.uuid = d.uuid => c = d
             PROVE  LET item == buildThreeXUIInboundExport(in)
                        copy == Inserted(importThreeXUIInbound(item))
                        rows == syncImportedInboundClients({}, nextId + 1, copy, item.stats).rows
                    IN  {Account(c) : c \in rows} = {Account(c) : c \in Mine(in)}
  BY DEF RoundTripKeepsAccounts, Mine, Account
<1> DEFINE item == buildThreeXUIInboundExport(in)
           made == importThreeXUIInbound(item)
           copy == Inserted(made)
<1>1. /\ item.stats = buildThreeXUIClientStats(Mine(in)) /\ item.columns.protocol = in.protocol
      /\ item.columns.settings.json = "ok"
      /\ item.columns.settings.clients = buildThreeXUISettingsClients(in, Mine(in))
  BY ExportedFields
<1>2. IsItem(item)
  BY ExportedIsItem
<1> HIDE DEF item
<1>3. /\ IsInbound(made, nextId + 1) /\ made.protocol = item.columns.protocol
      /\ made.settings = item.columns.settings
  BY <1>2, ImportedRow
<1> HIDE DEF made
<1>4. DOMAIN made = InboundColumns
  BY <1>3 DEF IsInbound, IsInboundRow
<1>5. copy.protocol = made.protocol /\ copy.settings = made.settings
  BY <1>4 DEF Inserted, InboundColumns
<1> HIDE DEF copy
<1>6. copy.protocol = in.protocol /\ AccountsIn(copy) = buildThreeXUISettingsClients(in, Mine(in))
  BY <1>1, <1>3, <1>5 DEF AccountsIn
<1>7. nextId + 1 \in Nat
  BY DEF RowsInv
<1> QED BY <1>1, <1>6, <1>7, CopiedAccounts DEF copy, made, item

\* An inbound that is exported and imported again has the same accounts, with
\* the same counters and expiry, in every state (buildThreeXUIInboundExport,
\* importThreeXUIInbound, syncImportedInboundClients).
THEOREM RoundTripsAlwaysKeep == Spec => []RoundTripKeepsAccounts
  BY RoundTrips, TablesInvariant, PTL

------------------------------------------------------------------------------
(* What a subscription hands out                                           *)

OneText(texts, n, x, none) ==
  DOMAIN texts = 1..n /\ (\A i \in 1..n : texts[i] \in {none, x}) /\ (\E i \in 1..n : texts[i] = x)

\* Of texts that are empty or all the same, the one they are.
LEMMA OnlyText ==
  ASSUME NEW n \in Nat, NEW texts, NEW x, NEW none, OneText(texts, n, x, none)
  PROVE  FirstOf(texts, none) = x
<1> DEFINE filled == {i \in DOMAIN texts : texts[i] # none}
<1>1. FirstOf(texts, none) = IF filled = {} THEN none ELSE texts[Min(filled)]
  BY DEF FirstOf
<1>2. CASE filled = {}
  BY <1>1, <1>2 DEF OneText
<1>3. CASE filled # {}
  <2>1. filled \subseteq 1..n /\ \A i \in filled : texts[i] = x
    BY DEF OneText
  <2> HIDE DEF filled
  <2>2. Min(filled) \in filled
    BY <1>3, <2>1, FirstPlace
  <2> QED BY <1>1, <1>3, <2>1, <2>2
<1> QED BY <1>2, <1>3

Three(a, b, c, x, none) ==
  (a = none \/ a = x) /\ (b = none \/ b = x) /\ (c = none \/ c = x) /\ (a = x \/ b = x \/ c = x)

Two(a, b, x, none) == (a = none \/ a = x) /\ (b = none \/ b = x) /\ (a = x \/ b = x)

\* Of three texts of which at most one is not empty, that one.
LEMMA OneOfThree ==
  ASSUME NEW none, NEW a, NEW b, NEW c, NEW x, Three(a, b, c, x, none)
  PROVE  FirstOf(<<a, b, c>>, none) = x
<1> DEFINE texts == <<a, b, c>>
<1>1. DOMAIN texts = 1..3 /\ texts[1] = a /\ texts[2] = b /\ texts[3] = c /\ 3 \in Nat
  BY Triple
<1>2. \A i \in 1..3 : i = 1 \/ i = 2 \/ i = 3
  OBVIOUS
<1>3. 1 \in 1..3 /\ 2 \in 1..3 /\ 3 \in 1..3
  OBVIOUS
<1> HIDE DEF texts
<1>4. OneText(texts, 3, x, none)
  BY <1>1, <1>2, <1>3 DEF OneText, Three
<1>5. FirstOf(texts, none) = x
  BY <1>1, <1>4, OnlyText
<1> QED BY <1>5 DEF texts

LEMMA OneOfTwo ==
  ASSUME NEW none, NEW a, NEW b, NEW x, Two(a, b, x, none)
  PROVE  FirstOf(<<a, b>>, none) = x
<1> DEFINE texts == <<a, b>>
<1>1. DOMAIN texts = 1..2 /\ texts[1] = a /\ texts[2] = b /\ 2 \in Nat
  OBVIOUS
<1>2. \A i \in 1..2 : i = 1 \/ i = 2
  OBVIOUS
<1>3. 1 \in 1..2 /\ 2 \in 1..2
  OBVIOUS
<1> HIDE DEF texts
<1>4. OneText(texts, 2, x, none)
  BY <1>1, <1>2, <1>3 DEF OneText, Two
<1>5. FirstOf(texts, none) = x
  BY <1>1, <1>4, OnlyText
<1> QED BY <1>5 DEF texts

LEMMA OnlyOfThree ==
  ASSUME NEW a, NEW b, NEW c, NEW x, Three(a, b, c, x, "")
  PROVE  FirstNonEmpty(<<a, b, c>>) = x
<1>1. FirstOf(<<a, b, c>>, "") = x
  BY OneOfThree, Zenon
<1> QED BY <1>1, FirstTexts, Zenon

LEMMA OnlyOfTwo ==
  ASSUME NEW a, NEW b, NEW x, Two(a, b, x, "")
  PROVE  FirstNonEmpty(<<a, b>>) = x
<1>1. FirstOf(<<a, b>>, "") = x
  BY OneOfTwo, Zenon
<1> QED BY <1>1, FirstTexts, Zenon

------------------------------------------------------------------------------
(* What a stream means to each of its readers                              *)

\* The names in a stream of the usual kind are in one place.
LEMMA UsualNames ==
  ASSUME NEW st, st.json = "ok", UsualStream(st)
  PROVE  LET si == parseStream(st)
         IN  /\ st.security = "tls" => si.sni = st.tls.sni /\ si.alpn = st.tls.alpn /\ si.key = ""
             /\ st.security = "reality" => si.key = ReadRealityStreamInfo(st).key
             /\ st.security = "reality" /\ ~st.native.set => si.sni = ReadRealityStreamInfo(st).sni /\ si.alpn = ""
             /\ st.security \in {"", "none"} => si.sni = st.native.sni /\ si.alpn = st.native.alpn /\ si.key = ""
<1> DEFINE r == ReadRealityStreamInfo(st)
           si == parseStream(st)
<1>1. /\ si.sni = FirstNonEmpty(<<st.tls.sni, st.native.sni, r.sni>>)
      /\ si.alpn = FirstNonEmpty(<<st.tls.alpn, st.native.alpn>>)
      /\ si.key = r.key
  BY DEF parseStream
<1>2. ~st.reality.set => r.sni = "" /\ r.key = ""
  BY DEF ReadRealityStreamInfo
<1> HIDE DEF si, r
<1>3. CASE st.security = "tls"
  <2>1. st.native.sni = "" /\ st.native.alpn = "" /\ r.sni = "" /\ r.key = ""
    BY <1>2, <1>3 DEF UsualStream
  <2>2. si.sni = st.tls.sni
    <3>1. Three(st.tls.sni, st.native.sni, r.sni, st.tls.sni, "")
      BY <2>1, Zenon DEF Three
    <3> QED BY <1>1, <3>1, OnlyOfThree, Zenon
  <2>3. si.alpn = st.tls.alpn
    <3>1. Two(st.tls.alpn, st.native.alpn, st.tls.alpn, "")
      BY <2>1, Zenon DEF Two
    <3> QED BY <1>1, <3>1, OnlyOfTwo, Zenon
  <2> QED BY <1>1, <1>3, <2>1, <2>2, <2>3 DEF si
<1>4. CASE st.security = "reality"
  <2>1. st.tls.sni = "" /\ st.tls.alpn = ""
    BY <1>4 DEF UsualStream
  <2>2. ASSUME ~st.native.set PROVE si.sni = r.sni /\ si.alpn = ""
    <3>1. st.native.sni = "" /\ st.native.alpn = ""
      BY <2>2 DEF UsualStream
    <3>2. si.sni = r.sni
      <4>1. Three(st.tls.sni, st.native.sni, r.sni, r.sni, "")
        BY <2>1, <3>1, Zenon DEF Three
      <4> QED BY <1>1, <4>1, OnlyOfThree, Zenon
    <3>3. si.alpn = ""
      <4>1. Two(st.tls.alpn, st.native.alpn, "", "")
        BY <2>1, <3>1, Zenon DEF Two
      <4> QED BY <1>1, <4>1, OnlyOfTwo, Zenon
    <3> QED BY <3>2, <3>3
  <2> QED BY <1>1, <1>4, <2>2 DEF si, r
<1>5. CASE st.security \in {"", "none"}
  <2>1. st.tls.sni = "" /\ st.tls.alpn = "" /\ r.sni = "" /\ r.key = ""
    BY <1>2, <1>5 DEF UsualStream
  <2>2. si.sni = st.native.sni
    <3>1. Three(st.tls.sni, st.native.sni, r.sni, st.native.sni, "")
      BY <2>1, Zenon DEF Three
    <3> QED BY <1>1, <3>1, OnlyOfThree, Zenon
  <2>3. si.alpn = st.native.alpn
    <3>1. Two(st.tls.alpn, st.native.alpn, st.native.alpn, "")
      BY <2>1, Zenon DEF Two
    <3> QED BY <1>1, <3>1, OnlyOfTwo, Zenon
  <2> QED BY <1>1, <1>5, <2>1, <2>2, <2>3 DEF si
<1>6. st.security \in {"", "none", "tls", "reality"}
  BY DEF UsualStream
<1> QED BY <1>3, <1>4, <1>5, <1>6 DEF si, r

\* An engine's stream says what the subscription reads.
AsRead(si, net) ==
  /\ net.network = si.network /\ net.opts = si.opts /\ net.security = si.security
  /\ \/ si.security = "none" /\ net.sni = "" /\ net.key = ""
     \/ si.security = "tls" /\ net.sni = si.sni /\ net.key = "" /\ net.alpn = si.alpn
     \/ si.security = "reality" /\ net.sni = si.sni /\ net.key = si.key

XrayStyle(st) == st.json = "ok" => UsualStream(st) /\ ~st.native.set /\ st.network # "udp"

\* The stream block of Xray says what a link says.
LEMMA ReadByXray ==
  ASSUME NEW st, XrayStyle(st)
  PROVE  AsRead(parseStream(st), NormalizeXrayStreamSettings(st))
<1> DEFINE si == parseStream(st)
           net == NormalizeXrayStreamSettings(st)
<1>1. CASE st.json # "ok"
  BY <1>1 DEF parseStream, NormalizeXrayStreamSettings, AsRead
<1>2. CASE st.json = "ok"
  <2>1. UsualStream(st) /\ ~st.native.set
    BY <1>2 DEF XrayStyle
  <2>2. si.network = ParsedNetwork(st) /\ si.security = ParsedSecurity(st) /\ si.opts = st.opts
    BY <1>2 DEF parseStream
  <2>3. /\ net.network = IF st.network = "" THEN "tcp" ELSE st.network
        /\ net.opts = st.opts /\ net.security = IF st.security = "" THEN "none" ELSE st.security
        /\ net.sni = IF st.security = "reality" THEN ReadRealityStreamInfo(st).sni ELSE st.tls.sni
        /\ net.alpn = st.tls.alpn
        /\ net.key = IF st.security = "reality" THEN ReadRealityStreamInfo(st).key ELSE ""
    BY <1>2 DEF NormalizeXrayStreamSettings
  <2>4. net.network = si.network /\ net.security = si.security
    BY <2>1, <2>2, <2>3 DEF UsualStream, ParsedNetwork, ParsedSecurity
  <2>5. st.security # "tls" => st.tls.sni = ""
    BY <2>1 DEF UsualStream
  <2>6. st.security \in {"", "none", "tls", "reality"}
    BY <2>1 DEF UsualStream
  <2>7. /\ st.security = "tls" => si.sni = st.tls.sni /\ si.alpn = st.tls.alpn
        /\ st.security = "reality" => si.key = ReadRealityStreamInfo(st).key /\ si.sni = ReadRealityStreamInfo(st).sni
    BY <1>2, <2>1, UsualNames
  <2> HIDE DEF si, net
  <2>8. CASE st.security = "tls"
    BY <2>2, <2>3, <2>4, <2>7, <2>8 DEF AsRead, si, net
  <2>9. CASE st.security = "reality"
    BY <2>2, <2>3, <2>4, <2>7, <2>9 DEF AsRead, si, net
  <2>10. CASE st.security \in {"", "none"}
    BY <2>2, <2>3, <2>4, <2>5, <2>10 DEF AsRead, si, net
  <2> QED BY <2>6, <2>8, <2>9, <2>10
<1> QED BY <1>1, <1>2

\* What sing-box is told of a node that is not QUIC.
SingboxNet(st) ==
  LET tls == SingboxTLS(st)
      net == SingboxTransport(st)
  IN  [network |-> net.network, opts |-> net.opts, security |-> tls.security, sni |-> tls.sni,
       alpn |-> tls.alpn, key |-> tls.key]

\* So does the one of sing-box, the native tls block included.
LEMMA ReadBySingbox ==
  ASSUME NEW st, XrayStyle(st)
  PROVE  AsRead(parseStream(st), SingboxNet(st))
<1> DEFINE si == parseStream(st)
           tls == SingboxTLS(st)
           net == SingboxTransport(st)
<1>1. CASE st.json # "ok"
  BY <1>1 DEF parseStream, SingboxTLS, SingboxTransport, SingboxNet, AsRead
<1>2. CASE st.json = "ok"
  <2>1. UsualStream(st) /\ ~st.native.set /\ st.network # "udp"
    BY <1>2 DEF XrayStyle
  <2>2. si.network = ParsedNetwork(st) /\ si.security = ParsedSecurity(st) /\ si.opts = st.opts
    BY <1>2 DEF parseStream
  <2>3. net.network = si.network /\ net.opts = si.opts
    BY <1>2, <2>1, <2>2 DEF SingboxTransport, ParsedNetwork, UsualStream
  <2>4. st.security \in {"", "none", "tls", "reality"}
    BY <2>1 DEF UsualStream
  <2>5. /\ st.security = "tls" => si.sni = st.tls.sni /\ si.alpn = st.tls.alpn
        /\ st.security = "reality" => si.key = ReadRealityStreamInfo(st).key /\ si.sni = ReadRealityStreamInfo(st).sni
    BY <1>2, <2>1, UsualNames
  <2>6. si.security = IF st.security = "" THEN "none" ELSE st.security
    BY <2>1, <2>2, <2>4 DEF ParsedSecurity, UsualStream
  <2>7. /\ st.security = "tls" => tls.security = "tls" /\ tls.sni = st.tls.sni /\ tls.alpn = st.tls.alpn /\ tls.key = ""
        /\ st.security = "reality" => /\ tls.security = "reality" /\ tls.sni = ReadRealityStreamInfo(st).sni
                                      /\ tls.key = ReadRealityStreamInfo(st).key
        /\ st.security \in {"", "none"} => tls.security = "none" /\ tls.sni = "" /\ tls.key = ""
    BY <1>2, <2>1 DEF SingboxTLS
  <2>8. /\ SingboxNet(st).network = net.network /\ SingboxNet(st).opts = net.opts
        /\ SingboxNet(st).security = tls.security /\ SingboxNet(st).sni = tls.sni
        /\ SingboxNet(st).alpn = tls.alpn /\ SingboxNet(st).key = tls.key
    BY DEF SingboxNet
  <2> HIDE DEF si, net, tls
  <2> QED BY <2>3, <2>4, <2>5, <2>6, <2>7, <2>8 DEF AsRead, si
<1> QED BY <1>1, <1>2

\* A node over a stream that was read alike is served.
LEMMA StreamServes ==
  ASSUME NEW in, NEW si, NEW net, AsRead(si, net), NEW engine, NEW accounts, NEW uuid, NEW server, NEW flow,
         \E a \in accounts : a.cred = <<uuid>>
  PROVE  LET n == Secured(DialNode(in, server, <<uuid>>, si), si)
         IN  /\ Serves(Endpoint(engine, in, accounts, net, "", ""), n)
             /\ Serves(Endpoint(engine, in, accounts, net, flow, ""), [n EXCEPT !.flow = flow])
<1> DEFINE d == DialNode(in, server, <<uuid>>, si)
           n == Secured(d, si)
           m == [n EXCEPT !.flow = flow]
           e(f) == Endpoint(engine, in, accounts, net, f, "")
<1>1. \A f : /\ e(f).proto = in.protocol /\ e(f).port = in.port /\ e(f).accounts = accounts
             /\ e(f).network = net.network /\ e(f).opts = net.opts /\ e(f).security = net.security
             /\ e(f).sni = net.sni /\ e(f).alpn = net.alpn /\ e(f).key = net.key
             /\ e(f).flow = f /\ e(f).obfs = ""
  BY DEF Endpoint
<1>2. /\ n.proto = in.protocol /\ n.port = in.port /\ n.cred = <<uuid>>
      /\ n.network = si.network /\ n.opts = si.opts /\ n.flow = "" /\ n.obfs = ""
      /\ si.security = "tls" => n.security = "tls" /\ n.sni = si.sni /\ n.alpn = si.alpn /\ n.key = ""
      /\ si.security = "reality" => n.security = "reality" /\ n.sni = si.sni /\ n.alpn = "" /\ n.key = si.key
      /\ si.security = "none" => n.security = "none" /\ n.sni = "" /\ n.alpn = "" /\ n.key = ""
  BY DEF DialNode, Secured, WithTLS, WithReality, AsRead
<1>3. /\ m.proto = n.proto /\ m.port = n.port /\ m.cred = n.cred /\ m.network = n.network /\ m.opts = n.opts
      /\ m.security = n.security /\ m.sni = n.sni /\ m.alpn = n.alpn /\ m.key = n.key
      /\ m.flow = flow /\ m.obfs = n.obfs
  BY DEF DialNode, Secured, WithTLS, WithReality
<1> DEFINE ef == e(flow)
<1> HIDE DEF n, m, e
<1>4. Serves(e(""), n)
  BY <1>1, <1>2, ZenonT(30) DEF Serves, AsRead
<1>5. Serves(ef, m)
  <2>1. /\ ef.proto = in.protocol /\ ef.port = in.port /\ ef.accounts = accounts
        /\ ef.network = net.network /\ ef.opts = net.opts /\ ef.security = net.security
        /\ ef.sni = net.sni /\ ef.alpn = net.alpn /\ ef.key = net.key
        /\ ef.flow = flow /\ ef.obfs = ""
    BY <1>1
  <2> HIDE DEF ef
  <2> QED BY <1>2, <1>3, <2>1, ZenonT(30) DEF Serves, AsRead
<1> QED BY <1>4, <1>5 DEF n, m, e

\* Whoever has an enabled client row has an account.
LEMMA HasAccount ==
  ASSUME NEW in, in.protocol # "shadowsocks", NEW cs, NEW c \in cs
  PROVE  /\ \E a \in XrayAccounts(in, cs) : a.cred = <<c.uuid>>
         /\ \E a \in SingboxAccounts(in, cs) : a.cred = <<c.uuid>>
<1> DEFINE a == [cred |-> <<c.uuid>>, who |-> ClientIdentity(c)]
<1>1. a \in UserAccounts(in, cs) /\ a.cred = <<c.uuid>>
  BY DEF UserAccounts
<1>2. XrayAccounts(in, cs) = UserAccounts(in, cs) /\ SingboxAccounts(in, cs) = UserAccounts(in, cs)
  BY DEF XrayAccounts, SingboxAccounts
<1> HIDE DEF a
<1> QED BY <1>1, <1>2

StreamProtocols == {"vless", "vmess", "trojan"}

\* Links of VLESS, VMess and Trojan: either engine serves them.
LEMMA StreamLinkServed ==
  ASSUME NEW in, in.protocol \in StreamProtocols, ReadAlike(in), NEW cs, NEW c \in cs, NEW server,
         NEW n \in ShareLink(in, c.uuid, server)
  PROVE  Serves(buildXrayInbound(in, cs), n) /\ Serves(buildSingboxInbound(in, cs), n)
<1> DEFINE si == parseStream(in.stream)
           s == Secured(DialNode(in, server, <<c.uuid>>, si), si)
           flow == IF in.protocol = "vless" THEN in.settings.flow ELSE ""
<1>1. XrayStyle(in.stream)
  BY DEF ReadAlike, XrayStyle, StreamProtocols, XraySupported
<1>2. AsRead(si, NormalizeXrayStreamSettings(in.stream)) /\ AsRead(si, SingboxNet(in.stream))
  BY <1>1, ReadByXray, ReadBySingbox
<1>3. /\ \E a \in XrayAccounts(in, cs) : a.cred = <<c.uuid>>
      /\ \E a \in SingboxAccounts(in, cs) : a.cred = <<c.uuid>>
  BY HasAccount DEF StreamProtocols
<1>4. parseSettingsFlow(in.settings) = in.settings.flow
  BY DEF parseSettingsFlow, ReadAlike
<1> DEFINE m == [s EXCEPT !.flow = in.settings.flow]
<1>5. /\ in.protocol = "vless" => n = m
      /\ in.protocol # "vless" => n = s
  <2>1. CASE in.protocol = "vless"
    <3>1. ShareLink(in, c.uuid, server) = {buildVLESSLink(in, c.uuid, server, si)}
      BY <2>1 DEF ShareLink, Quic
    <3> QED BY <1>4, <2>1, <3>1 DEF buildVLESSLink
  <2>2. CASE in.protocol = "vmess"
    <3>1. ShareLink(in, c.uuid, server) = {buildVMessLink(in, c.uuid, server, si)}
      BY <2>2 DEF ShareLink, Quic
    <3> QED BY <2>2, <3>1 DEF buildVMessLink
  <2>3. CASE in.protocol = "trojan"
    <3>1. ShareLink(in, c.uuid, server) = {buildTrojanLink(in, c.uuid, server, si)}
      BY <2>3 DEF ShareLink, Quic
    <3> QED BY <2>3, <3>1 DEF buildTrojanLink
  <2> QED BY <2>1, <2>2, <2>3 DEF StreamProtocols
<1>6. buildXrayInbound(in, cs) = Endpoint("xray", in, XrayAccounts(in, cs), NormalizeXrayStreamSettings(in.stream), flow, "")
  BY DEF buildXrayInbound
<1>7. buildSingboxInbound(in, cs) = Endpoint("singbox", in, SingboxAccounts(in, cs), SingboxNet(in.stream), flow, "")
  BY DEF buildSingboxInbound, SingboxNet, QuicALPN, Quic, StreamProtocols
<1> DEFINE x(f) == Endpoint("xray", in, XrayAccounts(in, cs), NormalizeXrayStreamSettings(in.stream), f, "")
           b(f) == Endpoint("singbox", in, SingboxAccounts(in, cs), SingboxNet(in.stream), f, "")
<1>8. Serves(x(""), s) /\ Serves(x(in.settings.flow), m)
  BY <1>2, <1>3, StreamServes
<1>9. Serves(b(""), s) /\ Serves(b(in.settings.flow), m)
  BY <1>2, <1>3, StreamServes
<1> HIDE DEF s, m, x, b
<1>10. buildXrayInbound(in, cs) = x(flow) /\ buildSingboxInbound(in, cs) = b(flow)
  BY <1>6, <1>7 DEF x, b
<1>11. CASE in.protocol = "vless"
  BY <1>5, <1>8, <1>9, <1>10, <1>11
<1>12. CASE in.protocol # "vless"
  BY <1>5, <1>8, <1>9, <1>10, <1>12
<1> QED BY <1>11, <1>12

\* Links of Shadowsocks, with the credential its cipher makes.
LEMMA ShadowsocksLinkServed ==
  ASSUME NEW in, in.protocol = "shadowsocks", ReadAlike(in), NEW cs, NEW c \in cs, c.uuid # "", NEW server,
         NEW n \in ShareLink(in, c.uuid, server)
  PROVE  Serves(buildXrayInbound(in, cs), n) /\ Serves(buildSingboxInbound(in, cs), n)
<1> DEFINE x == NormalizeXrayStreamSettings(in.stream)
           b == SingboxNet(in.stream)
           cred == IF in.settings.method = "2022" THEN <<in.settings.psk, c.uuid>> ELSE <<in.settings.psk>>
<1>1. XrayStyle(in.stream)
  BY DEF ReadAlike, XrayStyle, XraySupported
<1>2. /\ parseStream(in.stream).network = "tcp" /\ parseStream(in.stream).security = "none"
      /\ parseStream(in.stream).opts = NoOpts
  BY DEF ReadAlike, parseStream, ParsedNetwork, ParsedSecurity, UsualStream, XraySupported
<1>3. /\ x.network = "tcp" /\ x.opts = NoOpts /\ x.security = "none" /\ x.sni = "" /\ x.key = ""
      /\ b.network = "tcp" /\ b.opts = NoOpts /\ b.security = "none" /\ b.sni = "" /\ b.key = ""
  BY <1>1, <1>2, ReadByXray, ReadBySingbox DEF AsRead
<1>4. in.settings.json = "ok"
  BY DEF ShareLink, parseSSSettings, Quic
<1>5. n = SSNode(in, c.uuid, server)
  BY DEF ShareLink, Quic
<1>6. ssClientPassword(parseSSSettings(in.settings).method, parseSSSettings(in.settings).password, c.uuid) = cred
  BY <1>4 DEF parseSSSettings, ssClientPassword
<1>7. /\ n.proto = in.protocol /\ n.port = in.port /\ n.cred = cred /\ n.network = "tcp" /\ n.opts = NoOpts
      /\ n.security = "none" /\ n.sni = "" /\ n.alpn = "" /\ n.key = "" /\ n.flow = "" /\ n.obfs = ""
  BY <1>5, <1>6 DEF SSNode, DialNode
<1>8. /\ \E a \in XrayAccounts(in, cs) : a.cred = cred
      /\ \E a \in SingboxAccounts(in, cs) : a.cred = cred
  <2>1. CASE in.settings.method = "2022"
    <3>1. XrayAccounts(in, cs) = UserAccounts(in, cs) /\ SingboxAccounts(in, cs) = UserAccounts(in, cs)
      BY <2>1 DEF XrayAccounts, SingboxAccounts
    <3> DEFINE a == [cred |-> <<in.settings.psk, c.uuid>>, who |-> ClientIdentity(c)]
    <3>2. a \in UserAccounts(in, cs) /\ a.cred = cred
      BY <2>1 DEF UserAccounts
    <3> HIDE DEF a, cred
    <3> QED BY <3>1, <3>2
  <2>2. CASE in.settings.method # "2022"
    <3>1. XrayAccounts(in, cs) = SharedPassword(in) /\ SingboxAccounts(in, cs) = SharedPassword(in)
      BY <2>2 DEF XrayAccounts, SingboxAccounts, ReadAlike
    <3> DEFINE a == [cred |-> <<in.settings.psk>>, who |-> <<"shared">>]
    <3>2. a \in SharedPassword(in) /\ a.cred = cred
      BY <2>2 DEF SharedPassword
    <3> HIDE DEF a, cred
    <3> QED BY <3>1, <3>2
  <2> QED BY <2>1, <2>2
<1>9. buildXrayInbound(in, cs) = Endpoint("xray", in, XrayAccounts(in, cs), x, "", "")
  BY DEF buildXrayInbound
<1>10. buildSingboxInbound(in, cs) = Endpoint("singbox", in, SingboxAccounts(in, cs), b, "", "")
  BY DEF buildSingboxInbound, SingboxNet, QuicALPN, Quic
<1> HIDE DEF x, b, cred
<1>11. ASSUME NEW engine, NEW accounts, NEW net, \E a \in accounts : a.cred = cred,
              net.network = "tcp", net.opts = NoOpts, net.security = "none", net.sni = "", net.key = ""
       PROVE  Serves(Endpoint(engine, in, accounts, net, "", ""), n)
  <2> DEFINE e == Endpoint(engine, in, accounts, net, "", "")
  <2>1. /\ e.proto = in.protocol /\ e.port = in.port /\ e.accounts = accounts /\ e.network = net.network
        /\ e.opts = net.opts /\ e.security = net.security /\ e.sni = net.sni /\ e.key = net.key
        /\ e.flow = "" /\ e.obfs = ""
    BY DEF Endpoint
  <2> HIDE DEF e
  <2>2. Serves(e, n)
    BY <1>7, <1>11, <2>1 DEF Serves
  <2> QED BY <2>2 DEF e
<1>12. Serves(buildXrayInbound(in, cs), n)
  BY <1>3, <1>8, <1>9, <1>11
<1>13. Serves(buildSingboxInbound(in, cs), n)
  BY <1>3, <1>8, <1>10, <1>11
<1> QED BY <1>12, <1>13

\* Links of Hysteria2 and TUIC: sing-box serves them.
LEMMA QuicLinkServed ==
  ASSUME NEW in, in.protocol \in Quic, ReadAlike(in), SingboxAdmits(in), NEW cs, NEW c \in cs, NEW server,
         NEW n \in ShareLink(in, c.uuid, server)
  PROVE  Serves(buildSingboxInbound(in, cs), n)
<1> DEFINE st == in.stream
           si == parseStream(st)
           tls == SingboxTLS(st)
           obfs == IF in.protocol = "hysteria2" THEN in.settings.obfs ELSE ""
           net == [network |-> "udp", opts |-> NoOpts, security |-> tls.security, sni |-> tls.sni,
                   alpn |-> QuicALPN(in, tls.alpn), key |-> tls.key]
<1>1. tls.security # "none"
  BY DEF SingboxAdmits
<1>2. st.json = "ok"
  BY <1>1 DEF SingboxTLS
<1>3. UsualStream(st) /\ st.security # "reality"
  BY <1>2 DEF ReadAlike
<1>4. tls.security = "tls" /\ tls.sni = si.sni /\ tls.alpn = si.alpn /\ tls.key = ""
  <2>1. CASE st.security = "tls"
    <3>1. tls.security = "tls" /\ tls.sni = st.tls.sni /\ tls.alpn = st.tls.alpn /\ tls.key = ""
      BY <1>2, <2>1 DEF SingboxTLS
    <3>2. si.sni = st.tls.sni /\ si.alpn = st.tls.alpn
      BY <1>2, <1>3, <2>1, UsualNames
    <3> QED BY <3>1, <3>2
  <2>2. CASE st.security \in {"", "none"}
    <3>1. tls.security = "tls" /\ tls.sni = st.native.sni /\ tls.alpn = st.native.alpn /\ tls.key = ""
      BY <1>1, <1>2, <2>2 DEF SingboxTLS
    <3>2. si.sni = st.native.sni /\ si.alpn = st.native.alpn
      BY <1>2, <1>3, <2>2, UsualNames
    <3> QED BY <3>1, <3>2
  <2> QED BY <1>3, <2>1, <2>2 DEF UsualStream
<1>5. parseHysteria2Extras(in.settings) = in.settings.obfs
  BY DEF parseHysteria2Extras, ReadAlike
<1>6. n = QuicNode(in, c.uuid, server, si)
  BY DEF ShareLink, Quic
<1>7. /\ n.proto = in.protocol /\ n.port = in.port /\ n.cred = <<c.uuid>> /\ n.network = "udp" /\ n.opts = NoOpts
      /\ n.security = "tls" /\ n.sni = si.sni /\ n.alpn = si.alpn /\ n.key = "" /\ n.flow = "" /\ n.obfs = obfs
  BY <1>5, <1>6 DEF QuicNode, WithTLS, DialNode
<1> DEFINE e == buildSingboxInbound(in, cs)
<1>8. e = Endpoint("singbox", in, SingboxAccounts(in, cs), net, "", obfs)
  BY DEF buildSingboxInbound, Quic
<1>9. /\ e.proto = in.protocol /\ e.port = in.port /\ e.accounts = SingboxAccounts(in, cs) /\ e.network = "udp"
      /\ e.opts = NoOpts /\ e.security = tls.security /\ e.sni = tls.sni /\ e.key = tls.key
      /\ e.alpn = QuicALPN(in, tls.alpn) /\ e.flow = "" /\ e.obfs = obfs
  <2> HIDE DEF e, obfs, tls
  <2> QED BY <1>8 DEF Endpoint
<1>10. \E a \in SingboxAccounts(in, cs) : a.cred = <<c.uuid>>
  BY HasAccount DEF Quic
<1>11. si.alpn \in {"", QuicALPN(in, si.alpn)}
  BY DEF QuicALPN
<1> HIDE DEF e, obfs, tls, si
<1> QED BY <1>4, <1>7, <1>9, <1>10, <1>11 DEF Serves, e

------------------------------------------------------------------------------
(* Links of the rows that the engines run                                  *)

\* The rows of an answer are enabled inbounds with an enabled client of the user.
LEMMA ActiveRow ==
  ASSUME RowsInv, NEW uuid, NEW at
  PROVE  LET rows == Answer(ActiveRows(uuid, at))
         IN  /\ \E n \in Nat : DOMAIN rows = 1..n
             /\ \A i \in DOMAIN rows :
                   /\ rows[i] \in inbounds /\ rows[i].enable
                   /\ \E c \in clients : c.uuid = uuid /\ c.enable /\ c.inbound = rows[i].id
<1> DEFINE active == {c \in clients : /\ c.uuid = uuid /\ c.enable
                                      /\ ~(c.expiry > 0 /\ c.expiry <= at)
                                      /\ \E in \in inbounds : in.id = c.inbound /\ in.enable}
           mine == ToSeqById(active)
           n == Cardinality(active)
           Of(c) == CHOOSE in \in inbounds : in.id = c.inbound
           answer == Answer(ActiveRows(uuid, at))
<1>1. active \in SUBSET clients
  OBVIOUS
<1>2. answer = [i \in DOMAIN mine |-> Of(mine[i])]
  BY DEF ActiveRows, Answer
<1>3. \A c \in active : /\ c.uuid = uuid /\ c.enable /\ c \in clients
                         /\ \E in \in inbounds : in.id = c.inbound /\ in.enable
  OBVIOUS
<1> HIDE DEF active
<1>4. n \in Nat /\ mine \in [1..n -> active]
  BY <1>1, MineInOrder
<1>5. \A c \in active : Of(c) \in inbounds /\ Of(c).enable /\ Of(c).id = c.inbound
  <2> SUFFICES ASSUME NEW c \in active PROVE Of(c) \in inbounds /\ Of(c).enable /\ Of(c).id = c.inbound
    OBVIOUS
  <2>1. PICK in \in inbounds : in.id = c.inbound /\ in.enable
    BY <1>3
  <2>2. Of(c) \in inbounds /\ Of(c).id = c.inbound
    BY <2>1
  <2>3. Of(c) = in
    <3> HIDE DEF Of
    <3> QED BY <2>1, <2>2 DEF RowsInv, AreInbounds, IsTable
  <2> QED BY <2>1, <2>2, <2>3
<1> HIDE DEF mine, n, Of
<1>6. DOMAIN answer = 1..n /\ \A i \in 1..n : answer[i] = Of(mine[i]) /\ mine[i] \in active
  BY <1>2, <1>4
<1> HIDE DEF answer
<1>7. \A i \in DOMAIN answer :
        /\ answer[i] \in inbounds /\ answer[i].enable
        /\ \E c \in clients : c.uuid = uuid /\ c.enable /\ c.inbound = answer[i].id
  BY <1>3, <1>5, <1>6
<1> QED BY <1>4, <1>6, <1>7 DEF answer

\* What the engines run was built.
RunInv == Configured(running).xray.ok /\ Configured(running).singbox.ok

LEMMA RunStarts ==
  ASSUME Init PROVE RunInv
<1>1. running = NothingYet
  BY DEF Init
<1>2. XrayConfig({}, {}, << >>).ok
  BY DEF XrayConfig
<1>3. SingboxConfig({}, {}, << >>, {}, TRUE, TRUE).ok
  BY DEF SingboxConfig, SingboxRows
<1> QED BY <1>1, <1>2, <1>3 DEF RunInv, Configured, NothingYet

LEMMA RunKept ==
  ASSUME RunInv, UNCHANGED running \/ \E next : Builds(next) /\ running' = next
  PROVE  RunInv'
  BY DEF RunInv, Builds

\* The engines only ever run what could be built.
LEMMA RunStep ==
  ASSUME RunInv, [Next]_vars PROVE RunInv'
<1>1. CASE UNCHANGED vars
  BY <1>1, RunKept DEF vars
<1>2. CASE Next
  <2>1. ASSUME NEW preset \in Presets, Deploy(preset) PROVE RunInv'
    BY <2>1, RunKept DEF Deploy
  <2>2. CASE RollbackDeployment
    <3>1. ASSUME UNCHANGED running PROVE RunInv'
      BY <3>1, RunKept
    <3>2. ASSUME NEW rest, Builds(rest), running' = rest PROVE RunInv'
      BY <3>2, RunKept
    <3> QED BY <2>2, <3>1, <3>2 DEF RollbackDeployment
  <2>3. ASSUME NEW dual, Apply(dual) PROVE RunInv'
    BY <2>3, RunKept DEF Apply
  <2>4. CASE UNCHANGED running
    BY <2>4, RunKept
  <2>5. ASSUME NEW form \in InboundForms, CreateInbound(form) PROVE UNCHANGED running
    BY <2>5 DEF CreateInbound
  <2>6. ASSUME NEW in, NEW form, BeginEditInbound(in, form) PROVE UNCHANGED running
    BY <2>6 DEF BeginEditInbound
  <2>7. CASE SaveInbound
    BY <2>4, <2>7 DEF SaveInbound
  <2>8. ASSUME NEW in, DeleteInbound(in) PROVE UNCHANGED running
    BY <2>8 DEF DeleteInbound
  <2>9. ASSUME NEW item, Import3xui(item) PROVE UNCHANGED running
    BY <2>9 DEF Import3xui
  <2>10. ASSUME NEW in, NEW email, NEW uuid, NEW expiry, CreateClient(in, email, uuid, expiry) PROVE UNCHANGED running
    BY <2>10 DEF CreateClient
  <2>11. ASSUME NEW c, NEW email, NEW enable, NEW expiry, BeginEditClient(c, email, enable, expiry) PROVE UNCHANGED running
    BY <2>11 DEF BeginEditClient
  <2>12. CASE SaveClient
    BY <2>4, <2>12 DEF SaveClient
  <2>13. ASSUME NEW chosen, NEW op, ChangeClients(chosen, op) PROVE UNCHANGED running
    BY <2>13 DEF ChangeClients
  <2>14. CASE Elsewhere
    BY <2>4, <2>14, ElsewhereLeaves
  <2>15. CASE InvalidateSubCache \/ Tick
    BY <2>4, <2>15 DEF InvalidateSubCache, Tick
  <2>16. ASSUME NEW req, SubscriptionMiss(req) PROVE UNCHANGED running
    BY <2>16 DEF SubscriptionMiss
  <2>17. ASSUME NEW f, subCachePut(f) PROVE UNCHANGED running
    BY <2>17 DEF subCachePut
  <2> QED BY <1>2, NextCases, <2>1, <2>2, <2>3, <2>4, <2>5, <2>6, <2>7, <2>8, <2>9, <2>10, <2>11, <2>12, <2>13,
             <2>14, <2>15, <2>16, <2>17
<1> QED BY <1>1, <1>2

\* Whatever link a subscription hands out is served by one of the engines.
LEMMA LinksServed == RowsInv /\ RunInv => LinksAreServed
<1> SUFFICES ASSUME RowsInv, RunInv, NEW dual \in BOOLEAN, running = Snapshot(dual), NEW uuid, NEW host,
                    NEW i \in DOMAIN Answer(ActiveRows(uuid, now)), ReadAlike(Answer(ActiveRows(uuid, now))[i]),
                    NEW n \in ShareLink(Answer(ActiveRows(uuid, now))[i], uuid,
                                        resolveInboundServerAddress(Answer(ActiveRows(uuid, now))[i], host))
             PROVE  \E e \in Endpoints : Serves(e, n)
  BY DEF LinksAreServed
<1> DEFINE in == Answer(ActiveRows(uuid, now))[i]
           cs == fetchClientsByInbound(clients, in)
           server == resolveInboundServerAddress(in, host)
           x == XrayConfig(inbounds, clients, rules)
           b == SingboxConfig(inbounds, clients, rules, outbounds, dual, TRUE)
<1>1. PICK c \in clients : c.uuid = uuid /\ c.enable /\ c.inbound = in.id /\ in \in inbounds /\ in.enable
  BY ActiveRow
<1>2. ReadAlike(in) /\ n \in ShareLink(in, c.uuid, server)
  BY <1>1
<1> HIDE DEF in, server
<1>3. c \in cs /\ c.uuid # ""
  BY <1>1 DEF fetchClientsByInbound, RowsInv, AreClients, IsClient, IsClientRow
<1>4. /\ Configured(running).xray = IF dual THEN x ELSE [ok |-> TRUE, rules |-> << >>, endpoints |-> {}]
      /\ Configured(running).singbox = b
  BY DEF Configured, Snapshot
<1>5. in.protocol \in StreamProtocols \cup {"shadowsocks"} \cup Quic
  BY <1>2 DEF ShareLink, StreamProtocols, Quic
<1> HIDE DEF cs, x, b
<1>6. CASE dual /\ in.protocol \in XraySupported
  <2>1. x.ok
    BY <1>4, <1>6 DEF RunInv
  <2>2. buildXrayInbound(in, cs) \in x.endpoints
    BY <1>1, <1>6, <2>1 DEF x, cs, XrayConfig
  <2>3. buildXrayInbound(in, cs) \in Endpoints
    BY <1>4, <1>6, <2>2 DEF Endpoints
  <2>4. Serves(buildXrayInbound(in, cs), n)
    <3>1. CASE in.protocol \in StreamProtocols
      BY <1>2, <1>3, <3>1, StreamLinkServed
    <3>2. CASE in.protocol = "shadowsocks"
      BY <1>2, <1>3, <3>2, ShadowsocksLinkServed
    <3> QED BY <1>6, <3>1, <3>2 DEF XraySupported, StreamProtocols
  <2> QED BY <2>3, <2>4
<1>7. CASE ~(dual /\ in.protocol \in XraySupported)
  <2>1. b.ok
    BY <1>4 DEF RunInv
  <2>2. in \in SingboxRows(inbounds, dual)
    BY <1>1, <1>7 DEF SingboxRows
  <2>3. SingboxAdmits(in) /\ buildSingboxInbound(in, cs) \in b.endpoints
    BY <2>1, <2>2 DEF b, cs, SingboxConfig
  <2>4. buildSingboxInbound(in, cs) \in Endpoints
    BY <1>4, <2>3 DEF Endpoints
  <2>5. Serves(buildSingboxInbound(in, cs), n)
    <3>1. CASE in.protocol \in StreamProtocols
      BY <1>2, <1>3, <3>1, StreamLinkServed
    <3>2. CASE in.protocol = "shadowsocks"
      BY <1>2, <1>3, <3>2, ShadowsocksLinkServed
    <3>3. CASE in.protocol \in Quic
      BY <1>2, <1>3, <2>3, <3>3, QuicLinkServed
    <3> QED BY <1>5, <3>1, <3>2, <3>3
  <2> QED BY <2>4, <2>5
<1> QED BY <1>6, <1>7

------------------------------------------------------------------------------
(* Profiles and links                                                      *)

\* The flag that makes a client upgrade undoes the alias.
LEMMA SameTransport ==
  ASSUME NEW in, NEW server, NEW cred, NEW st
  PROVE  DialNode(in, server, cred, Dialled(parseStream(st))) = DialNode(in, server, cred, parseStream(st))
<1> DEFINE si == parseStream(st)
           names == {"network", "security", "sni", "alpn", "insecure", "key", "opts"}
<1>1. DOMAIN si = names
  BY DEF parseStream
<1>2. si = [f \in names |-> si[f]]
  BY DEF parseStream
<1> HIDE DEF si
<1>3. Dialled(si).network = si.network /\ Dialled(si).opts = si.opts
  BY <1>1, <1>2 DEF Dialled, ClashTransport
<1>4. DialNode(in, server, cred, Dialled(si)) = DialNode(in, server, cred, si)
  BY <1>3 DEF DialNode
<1> QED BY <1>4 DEF si

\* Protocol by protocol, a proxy is the node of the link.
LEMMA ProxyIsLink ==
  ASSUME NEW in, Comparable(in), NEW uuid, NEW server
  PROVE  ClashProxy(in, uuid, server) = ShareLink(in, uuid, server)
<1> DEFINE si == parseStream(in.stream)
           d == DialNode(in, server, <<uuid>>, si)
           stream == ClashSecured(in, DialNode(in, server, <<uuid>>, Dialled(si)), si)
<1>1. stream = ClashSecured(in, d, si)
  BY SameTransport
<1>2. in.protocol = "vmess" => si.security # "reality"
  BY DEF Comparable
<1>3. in.protocol = "trojan" => si.security \in {"none", "tls", "reality"}
  BY DEF Comparable
<1>4. in.protocol = "shadowsocks" => parseSSSettings(in.settings).password # ""
  BY DEF Comparable
<1> HIDE DEF si, d
<1>5. in.protocol \in {"vless", "vmess", "trojan"} => ClashSecured(in, d, si) = Secured(d, si)
  BY <1>2, <1>3 DEF ClashSecured, Secured
<1>6. CASE in.protocol = "vless"
  <2>1. ClashProxy(in, uuid, server) = {[stream EXCEPT !.flow = parseSettingsFlow(in.settings)]}
    BY <1>6 DEF ClashProxy, Quic, si
  <2>2. ShareLink(in, uuid, server) = {buildVLESSLink(in, uuid, server, si)}
    BY <1>6 DEF ShareLink, Quic, si
  <2> HIDE DEF stream
  <2> QED BY <1>1, <1>5, <1>6, <2>1, <2>2 DEF buildVLESSLink, d
<1>7. CASE in.protocol = "vmess"
  <2>1. ClashProxy(in, uuid, server) = {stream}
    BY <1>7 DEF ClashProxy, Quic, si
  <2>2. ShareLink(in, uuid, server) = {buildVMessLink(in, uuid, server, si)}
    BY <1>7 DEF ShareLink, Quic, si
  <2> HIDE DEF stream
  <2> QED BY <1>1, <1>5, <1>7, <2>1, <2>2 DEF buildVMessLink, d
<1>8. CASE in.protocol = "trojan"
  <2>1. ClashProxy(in, uuid, server) = {stream}
    BY <1>8 DEF ClashProxy, Quic, si
  <2>2. ShareLink(in, uuid, server) = {buildTrojanLink(in, uuid, server, si)}
    BY <1>8 DEF ShareLink, Quic, si
  <2> HIDE DEF stream
  <2> QED BY <1>1, <1>5, <1>8, <2>1, <2>2 DEF buildTrojanLink, d
<1>9. CASE in.protocol = "shadowsocks"
  BY <1>4, <1>9 DEF ClashProxy, ShareLink, Quic
<1>10. CASE in.protocol \in Quic
  BY <1>10 DEF ClashProxy, ShareLink, Quic
<1>11. CASE in.protocol \notin {"vless", "vmess", "trojan", "shadowsocks"} \cup Quic
  BY <1>11 DEF ClashProxy, ShareLink, Quic
<1> QED BY <1>6, <1>7, <1>8, <1>9, <1>10, <1>11

\* The proxies of a profile come from its nodes, each at its place.
LEMMA ProxiesOfNodes ==
  ASSUME NEW nodes, NEW uuid, NEW dual
  PROVE  LET proxies == buildClashConfigNodes(nodes, uuid, dual).proxies
         IN  /\ \A q \in proxies : /\ q.pos \in DOMAIN nodes /\ q.name = nodes[q.pos].name /\ q.family = nodes[q.pos].family
                                   /\ q.dial \in ClashProxy(nodes[q.pos].in, uuid, nodes[q.pos].server)
             /\ \A i \in DOMAIN nodes : \A p \in ClashProxy(nodes[i].in, uuid, nodes[i].server) :
                  [name |-> nodes[i].name, family |-> nodes[i].family, pos |-> i, dial |-> p] \in proxies
<1> DEFINE Made(i) == {[name |-> nodes[i].name, family |-> nodes[i].family, pos |-> i, dial |-> p] :
                         p \in ClashProxy(nodes[i].in, uuid, nodes[i].server)}
           proxies == buildClashConfigNodes(nodes, uuid, dual).proxies
<1>1. proxies = UNION {Made(i) : i \in DOMAIN nodes}
  BY DEF buildClashConfigNodes
<1> HIDE DEF proxies
<1>2. \A i : \A q \in Made(i) : /\ q.pos = i /\ q.name = nodes[i].name /\ q.family = nodes[i].family
                               /\ q.dial \in ClashProxy(nodes[i].in, uuid, nodes[i].server)
  OBVIOUS
<1>3. \A i \in DOMAIN nodes : \A p \in ClashProxy(nodes[i].in, uuid, nodes[i].server) :
         [name |-> nodes[i].name, family |-> nodes[i].family, pos |-> i, dial |-> p] \in Made(i)
  OBVIOUS
<1> HIDE DEF Made
<1>4. \A q \in proxies : /\ q.pos \in DOMAIN nodes /\ q.name = nodes[q.pos].name /\ q.family = nodes[q.pos].family
                         /\ q.dial \in ClashProxy(nodes[q.pos].in, uuid, nodes[q.pos].server)
  BY <1>1, <1>2
<1>5. \A i \in DOMAIN nodes : \A p \in ClashProxy(nodes[i].in, uuid, nodes[i].server) :
         [name |-> nodes[i].name, family |-> nodes[i].family, pos |-> i, dial |-> p] \in proxies
  BY <1>1, <1>3
<1> QED BY <1>4, <1>5 DEF proxies

\* A profile and the links of one user describe the same nodes.
LEMMA ProfilesAgree == ClashAgreesWithLinks
<1> SUFFICES ASSUME NEW uuid, NEW host, NEW i \in DOMAIN Answer(ActiveRows(uuid, now)),
                    Comparable(Answer(ActiveRows(uuid, now))[i])
             PROVE  {p.dial : p \in {q \in buildClashConfig(Answer(ActiveRows(uuid, now)), uuid, host).proxies : q.pos = i}}
                      = ShareLink(Answer(ActiveRows(uuid, now))[i], uuid,
                                  resolveInboundServerAddress(Answer(ActiveRows(uuid, now))[i], host))
  BY DEF ClashAgreesWithLinks, Comparable
<1> DEFINE rows == Answer(ActiveRows(uuid, now))
           nodes == RegularNodes(rows, host)
           server == resolveInboundServerAddress(rows[i], host)
           proxies == buildClashConfigNodes(nodes, uuid, FALSE).proxies
           dials == {p.dial : p \in {q \in proxies : q.pos = i}}
<1>1. buildClashConfig(rows, uuid, host).proxies = proxies
  BY DEF buildClashConfig
<1> HIDE DEF rows
<1>2. i \in DOMAIN nodes /\ nodes[i].in = rows[i] /\ nodes[i].server = server
  BY DEF RegularNodes, rows
<1>3. ClashProxy(rows[i], uuid, server) = ShareLink(rows[i], uuid, server)
  <2> HIDE DEF server
  <2> QED BY ProxyIsLink DEF rows
<1> HIDE DEF nodes, server
<1>4. /\ \A q \in proxies : q.dial \in ClashProxy(nodes[q.pos].in, uuid, nodes[q.pos].server)
      /\ \A p \in ClashProxy(nodes[i].in, uuid, nodes[i].server) :
            [name |-> nodes[i].name, family |-> nodes[i].family, pos |-> i, dial |-> p] \in proxies
  BY <1>2, ProxiesOfNodes
<1> HIDE DEF proxies
<1>5. dials \subseteq ClashProxy(rows[i], uuid, server)
  BY <1>2, <1>4
<1>6. ASSUME NEW p \in ClashProxy(rows[i], uuid, server) PROVE p \in dials
  <2> DEFINE q == [name |-> nodes[i].name, family |-> nodes[i].family, pos |-> i, dial |-> p]
  <2>1. q \in proxies /\ q.pos = i /\ q.dial = p
    BY <1>2, <1>4, <1>6
  <2> HIDE DEF q
  <2> QED BY <2>1
<1>7. dials = ShareLink(rows[i], uuid, server)
  BY <1>3, <1>5, <1>6
<1> QED BY <1>1, <1>7 DEF rows, server, proxies

------------------------------------------------------------------------------
(* Profiles with both address families                                     *)

\* A proxy dials the server of its node.
LEMMA DialledServer ==
  ASSUME NEW in, in.protocol \in ClashSupported, NEW uuid, NEW server
  PROVE  \E p : ClashProxy(in, uuid, server) = {p} /\ p.server = server
<1> DEFINE si == parseStream(in.stream)
           d(t) == DialNode(in, server, <<uuid>>, t)
           stream == ClashSecured(in, d(Dialled(si)), si)
<1>1. \A cred, t : /\ DialNode(in, server, cred, t).server = server
                   /\ WithTLS(DialNode(in, server, cred, t), si).server = server
                   /\ WithReality(DialNode(in, server, cred, t), si).server = server
                   /\ Secured(DialNode(in, server, cred, t), si).server = server
  BY DEF DialNode, Secured, WithTLS, WithReality
<1>2. stream.server = server
  <2> HIDE DEF si
  <2> QED BY <1>1 DEF ClashSecured
<1>3. CASE in.protocol = "vless"
  <2> DEFINE p == [stream EXCEPT !.flow = parseSettingsFlow(in.settings)]
  <2>1. ClashProxy(in, uuid, server) = {p}
    BY <1>3 DEF ClashProxy, Quic
  <2>2. p.server = stream.server
    <3> HIDE DEF stream
    <3> QED OBVIOUS
  <2> HIDE DEF p, stream
  <2> QED BY <1>2, <2>1, <2>2
<1>4. CASE in.protocol \in {"vmess", "trojan"}
  <2>1. ClashProxy(in, uuid, server) = {stream}
    BY <1>4 DEF ClashProxy, Quic
  <2> HIDE DEF stream
  <2> QED BY <1>2, <2>1
<1>5. CASE in.protocol = "shadowsocks"
  <2>1. ClashProxy(in, uuid, server) = {SSNode(in, uuid, server)}
    BY <1>5 DEF ClashProxy, Quic
  <2>2. SSNode(in, uuid, server).server = server
    BY DEF SSNode, DialNode
  <2> QED BY <2>1, <2>2
<1>6. CASE in.protocol \in Quic
  <2>1. ClashProxy(in, uuid, server) = {QuicNode(in, uuid, server, si)}
    BY <1>6 DEF ClashProxy, Quic
  <2>2. QuicNode(in, uuid, server, si).server = server
    BY DEF QuicNode, WithTLS, DialNode
  <2> QED BY <2>1, <2>2
<1> QED BY <1>3, <1>4, <1>5, <1>6 DEF ClashSupported, XraySupported

\* The name of a node is one that is not taken.
LEMMA FreeNameIsFree ==
  ASSUME NEW stem, IsSeq(stem), NEW id, NEW taken, IsFiniteSet(taken)
  PROVE  FreeName(stem, id, taken) \notin taken
<1> DEFINE last == Cardinality(taken) + 1
           Try(k) == IF k = 1 THEN stem ELSE IF k = 2 THEN Append(stem, id) ELSE stem \o <<id, k - 1>>
           tried == [k \in 1..last |-> Try(k)]
           k == Min({i \in DOMAIN tried : tried[i] \notin taken})
<1>1. Cardinality(taken) \in Nat /\ Len(stem) \in Nat
  BY FS_CardinalityType, SeqIsFunction
<1>2. Len(Append(stem, id)) = Len(stem) + 1
  BY AppendToSeq
<1>3. \A i \in 3..last : LET s == stem \o <<id, i - 1>> IN Len(s) = Len(stem) + 2 /\ s[Len(stem) + 2] = i - 1
  BY PairAppended
<1>4. ASSUME NEW i \in 1..last, NEW j \in 1..last, Try(i) = Try(j) PROVE i = j
  <2>1. Len(Try(i)) = Len(stem) + (IF i = 1 THEN 0 ELSE IF i = 2 THEN 1 ELSE 2)
    BY <1>1, <1>2, <1>3
  <2>2. Len(Try(j)) = Len(stem) + (IF j = 1 THEN 0 ELSE IF j = 2 THEN 1 ELSE 2)
    BY <1>1, <1>2, <1>3
  <2>3. CASE i \in 3..last /\ j \in 3..last
    <3>1. Try(i)[Len(stem) + 2] = i - 1 /\ Try(j)[Len(stem) + 2] = j - 1
      BY <1>3, <2>3
    <3> HIDE DEF Try
    <3> QED BY <1>1, <1>4, <3>1
  <2>4. CASE ~(i \in 3..last /\ j \in 3..last)
    <3> HIDE DEF Try
    <3> QED BY <1>1, <1>4, <2>1, <2>2, <2>4
  <2> QED BY <2>3, <2>4
<1>5. DOMAIN tried = 1..last /\ \A i, j \in DOMAIN tried : tried[i] = tried[j] => i = j
  <2> HIDE DEF Try
  <2> QED BY <1>4
<1>6. k \in DOMAIN tried /\ tried[k] \notin taken
  <2> HIDE DEF tried
  <2> QED BY <1>5, FirstFree
<1>7. FreeName(stem, id, taken) = tried[k]
  BY DEF FreeName
<1> HIDE DEF tried, k
<1> QED BY <1>6, <1>7

\* A node that a profile can write and a client can dial.
IsNode(n) ==
  /\ n.in.protocol \in ClashSupported /\ n.family \in {"ipv6", "ipv4"}
  /\ FamilyOf(n.server) \in {n.family, "name"}

AreNodes(nodes) ==
  /\ IsSeq(nodes) /\ \A i \in DOMAIN nodes : IsNode(nodes[i])
  /\ \A i, j \in DOMAIN nodes : nodes[i].name = nodes[j].name => i = j

Extends(more, nodes) == \A i \in DOMAIN nodes : i \in DOMAIN more /\ more[i] = nodes[i]
HasRow(nodes, in) == \E k \in DOMAIN nodes : nodes[k].in = in

LEMMA NameBaseIsSeq ==
  ASSUME NEW in, IsSeq(in.tag), NEW family
  PROVE  IsSeq(Append(NameBase(in), family))
<1>1. IsSeq(<<in.protocol, in.port>>)
  <2> DEFINE p == <<in.protocol, in.port>>
  <2>1. p \in Seq({in.protocol, in.port})
    OBVIOUS
  <2> HIDE DEF p
  <2> QED BY <2>1, MemberIsSeq DEF p
<1>2. IsSeq(NameBase(in))
  BY <1>1 DEF NameBase
<1> QED BY <1>2, AppendToSeq

\* The names of a list are finitely many.
LEMMA NamesAreFinite ==
  ASSUME NEW nodes, IsSeq(nodes)
  PROVE  /\ ToSet(Names(nodes)) = {nodes[i].name : i \in DOMAIN nodes}
         /\ IsFiniteSet(ToSet(Names(nodes)))
<1> DEFINE f == Names(nodes)
           m == Len(nodes)
<1>1. m \in Nat /\ DOMAIN nodes = 1..m
  BY SeqIsFunction
<1> HIDE DEF m
<1>2. DOMAIN f = 1..m /\ \A i \in 1..m : f[i] = nodes[i].name
  BY <1>1 DEF Names
<1>3. ToSet(Names(nodes)) = {f[i] : i \in DOMAIN f}
  BY DEF ToSet
<1> HIDE DEF f
<1>4. IsFiniteSet(1..m)
  BY <1>1, FS_Interval
<1>5. IsFiniteSet(DOMAIN f)
  BY <1>2, <1>4
<1>6. IsFiniteSet({f[i] : i \in DOMAIN f})
  BY <1>5, FiniteImage
<1>7. {f[i] : i \in DOMAIN f} = {nodes[i].name : i \in DOMAIN nodes}
  BY <1>1, <1>2
<1> QED BY <1>3, <1>6, <1>7

\* One more node keeps a list of distinct nodes one.
LEMMA NodeAppended ==
  ASSUME NEW nodes, AreNodes(nodes), NEW n, IsNode(n), \A i \in DOMAIN nodes : nodes[i].name # n.name
  PROVE  AreNodes(Append(nodes, n)) /\ Extends(Append(nodes, n), nodes) /\ HasRow(Append(nodes, n), n.in)
<1> DEFINE more == Append(nodes, n)
           m == Len(nodes)
<1>1. IsSeq(nodes)
  BY DEF AreNodes
<1>2. m \in Nat /\ DOMAIN nodes = 1..m
  BY <1>1, SeqIsFunction
<1>3. IsSeq(more) /\ Len(more) = m + 1 /\ more[m + 1] = n /\ \A i \in 1..m : more[i] = nodes[i]
  BY <1>1, AppendToSeq
<1> HIDE DEF more, m
<1>4. DOMAIN more = 1..(m + 1)
  BY <1>3, SeqIsFunction
<1>5. /\ \A i \in DOMAIN more : i = m + 1 \/ i \in DOMAIN nodes
      /\ m + 1 \in DOMAIN more /\ \A i \in DOMAIN nodes : i \in DOMAIN more
  BY <1>2, <1>4
<1>6. \A i \in DOMAIN nodes : more[i] = nodes[i]
  BY <1>2, <1>3
<1>7. \A i \in DOMAIN more : IsNode(more[i])
  BY <1>3, <1>5, <1>6 DEF AreNodes
<1>8. ASSUME NEW i \in DOMAIN more, NEW j \in DOMAIN more, more[i].name = more[j].name PROVE i = j
  BY <1>3, <1>5, <1>6, <1>8 DEF AreNodes
<1>9. Extends(more, nodes) /\ HasRow(more, n.in)
  BY <1>3, <1>5, <1>6 DEF Extends, HasRow
<1> QED BY <1>3, <1>7, <1>8, <1>9 DEF AreNodes, more

\* An endpoint is one more node, under a name of its own.
LEMMA EndpointAdded ==
  ASSUME NEW nodes, AreNodes(nodes), NEW in, in.protocol \in ClashSupported, IsSeq(in.tag),
         NEW family \in {"ipv6", "ipv4"}, NEW server, server = "" \/ FamilyOf(server) \in {family, "name"}
  PROVE  LET more == AddEndpoint(nodes, in, family, server)
         IN  AreNodes(more) /\ Extends(more, nodes) /\ (server # "" => HasRow(more, in))
<1> DEFINE taken == ToSet(Names(nodes))
           n == [in |-> in, family |-> family, server |-> server,
                 name |-> FreeName(Append(NameBase(in), family), in.id, taken)]
<1>0. CASE server = ""
  BY <1>0 DEF AddEndpoint, Extends
<1>1. CASE server # ""
  <2>1. AddEndpoint(nodes, in, family, server) = Append(nodes, n)
    BY <1>1 DEF AddEndpoint
  <2>2. taken = {nodes[i].name : i \in DOMAIN nodes} /\ IsFiniteSet(taken)
    BY NamesAreFinite DEF AreNodes
  <2> HIDE DEF taken
  <2>3. n.name \notin taken
    BY <2>2, NameBaseIsSeq, FreeNameIsFree
  <2>4. IsNode(n) /\ n.in = in
    BY <1>1 DEF IsNode
  <2> HIDE DEF n
  <2>5. \A i \in DOMAIN nodes : nodes[i].name # n.name
    BY <2>2, <2>3
  <2>6. AreNodes(Append(nodes, n)) /\ Extends(Append(nodes, n), nodes) /\ HasRow(Append(nodes, n), n.in)
    BY <2>4, <2>5, NodeAppended
  <2> QED BY <2>1, <2>4, <2>6
<1> QED BY <1>0, <1>1

\* An explicit address fills its family; the primary one fills what is left.
LEMMA LiteralAddresses ==
  ASSUME NEW in, HasLiterals(in), NEW primary
  PROVE  LET address == FamilyAddresses(primary, normalizeServerAddress(in.v4), normalizeServerAddress(in.v6))
         IN  /\ address.ipv6 = "" \/ FamilyOf(address.ipv6) \in {"ipv6", "name"}
             /\ address.ipv4 = "" \/ FamilyOf(address.ipv4) \in {"ipv4", "name"}
             /\ primary # "" => address.ipv6 # "" \/ address.ipv4 # ""
<1> DEFINE v4 == normalizeServerAddress(in.v4)
           v6 == normalizeServerAddress(in.v6)
           fp == FamilyOf(primary)
           Fits(a, family) == a = "" \/ FamilyOf(a) = family \/ FamilyOf(a) = "name"
<1>1. v4 = in.v4 /\ v6 = in.v6
  BY AddressAssumption DEF AddressAssumption, HasLiterals, FamilyOf, normalizeServerAddress
<1>2. Fits(v4, "ipv4") /\ Fits(v6, "ipv6")
  BY <1>1 DEF HasLiterals
<1>3. fp = "ipv4" \/ fp = "ipv6" \/ fp = "name"
  BY DEF FamilyOf
<1>4. (fp = "ipv4" \/ fp = "name" => Fits(primary, "ipv4")) /\ (fp = "ipv6" \/ fp = "name" => Fits(primary, "ipv6"))
  OBVIOUS
<1> HIDE DEF v4, v6
<1> DEFINE both == fp = "name" /\ v4 = "" /\ v6 = "" /\ primary # ""
           Fill(family, own) == IF own = "" /\ (both \/ fp = family) THEN primary ELSE own
           six == Fill("ipv6", v6)
           four == Fill("ipv4", v4)
<1>5. FamilyAddresses(primary, v4, v6) = [ipv6 |-> six, ipv4 |-> four]
  BY Zenon DEF FamilyAddresses
<1>6. ~("ipv6" = "ipv4") /\ ~("ipv6" = "name") /\ ~("ipv4" = "name")
  OBVIOUS
<1> HIDE DEF fp, Fits
<1>7. Fits(six, "ipv6")
  <2>1. CASE v6 = "" /\ (both \/ fp = "ipv6")
    <3>1. six = primary
      BY <2>1, Zenon
    <3> HIDE DEF six
    <3> QED BY <1>4, <2>1, <3>1, Zenon
  <2>2. CASE ~(v6 = "" /\ (both \/ fp = "ipv6"))
    <3>1. six = v6
      BY <2>2, Zenon
    <3> QED BY <1>2, <3>1, Zenon
  <2> QED BY <2>1, <2>2, Zenon
<1>8. Fits(four, "ipv4")
  <2>1. CASE v4 = "" /\ (both \/ fp = "ipv4")
    <3>1. four = primary
      BY <2>1, Zenon
    <3> HIDE DEF four
    <3> QED BY <1>4, <2>1, <3>1, Zenon
  <2>2. CASE ~(v4 = "" /\ (both \/ fp = "ipv4"))
    <3>1. four = v4
      BY <2>2, Zenon
    <3> QED BY <1>2, <3>1, Zenon
  <2> QED BY <2>1, <2>2, Zenon
<1>9. ASSUME primary # "" PROVE six # "" \/ four # ""
  <2>1. CASE v6 # ""
    <3>1. six = v6
      BY <2>1, Zenon
    <3> QED BY <2>1, <3>1, Zenon
  <2>2. CASE v4 # ""
    <3>1. four = v4
      BY <2>2, Zenon
    <3> QED BY <2>2, <3>1, Zenon
  <2>3. CASE v6 = "" /\ v4 = "" /\ (fp = "name" \/ fp = "ipv6")
    <3>1. six = primary
      BY <1>9, <2>3, Zenon
    <3> QED BY <1>9, <3>1, Zenon
  <2>4. CASE v6 = "" /\ v4 = "" /\ fp = "ipv4"
    <3>1. four = primary
      BY <1>9, <2>4, Zenon
    <3> QED BY <1>9, <3>1, Zenon
  <2> QED BY <1>3, <2>1, <2>2, <2>3, <2>4, Zenon
<1> HIDE DEF six, four
<1>10. /\ [ipv6 |-> six, ipv4 |-> four].ipv6 = six
       /\ [ipv6 |-> six, ipv4 |-> four].ipv4 = four
  BY Zenon
<1>11. /\ six = "" \/ FamilyOf(six) \in {"ipv6", "name"}
       /\ four = "" \/ FamilyOf(four) \in {"ipv4", "name"}
  BY <1>7, <1>8, Zenon DEF Fits
<1> QED BY <1>5, <1>9, <1>10, <1>11, Zenon DEF v4, v6

\* A row adds its endpoints, and one at least if it has an address.
LEMMA InboundAdded ==
  ASSUME NEW nodes, AreNodes(nodes), NEW in, IsSeq(in.tag), HasLiterals(in), NEW host
  PROVE  LET more == AddInbound(nodes, in, host)
         IN  /\ AreNodes(more) /\ Extends(more, nodes)
             /\ in.protocol \in ClashSupported /\ resolveInboundServerAddress(in, host) # "" => HasRow(more, in)
<1> DEFINE primary == resolveInboundServerAddress(in, host)
           address == FamilyAddresses(primary, normalizeServerAddress(in.v4), normalizeServerAddress(in.v6))
           six == AddEndpoint(nodes, in, "ipv6", address.ipv6)
           both == AddEndpoint(six, in, "ipv4", address.ipv4)
<1>1. CASE in.protocol \notin ClashSupported
  BY <1>1 DEF AddInbound, Extends
<1>2. CASE in.protocol \in ClashSupported
  <2>1. AddInbound(nodes, in, host) = both
    BY <1>2 DEF AddInbound
  <2>2. /\ address.ipv6 = "" \/ FamilyOf(address.ipv6) \in {"ipv6", "name"}
        /\ address.ipv4 = "" \/ FamilyOf(address.ipv4) \in {"ipv4", "name"}
        /\ primary # "" => address.ipv6 # "" \/ address.ipv4 # ""
    BY LiteralAddresses
  <2> HIDE DEF address
  <2>3. AreNodes(six) /\ Extends(six, nodes) /\ (address.ipv6 # "" => HasRow(six, in))
    BY <1>2, <2>2, EndpointAdded
  <2> HIDE DEF six
  <2>4. AreNodes(both) /\ Extends(both, six) /\ (address.ipv4 # "" => HasRow(both, in))
    BY <1>2, <2>2, <2>3, EndpointAdded
  <2> HIDE DEF both
  <2>5. Extends(both, nodes) /\ (HasRow(six, in) => HasRow(both, in))
    BY <2>3, <2>4 DEF Extends, HasRow
  <2> QED BY <2>1, <2>2, <2>3, <2>4, <2>5
<1> QED BY <1>1, <1>2

\* The recursion of dualStackClashNodes, row by row.
NodesMade(made, rows, host) ==
  /\ made[0] = << >> /\ dualStackClashNodes(rows, host) = made[Len(rows)]
  /\ \A k \in 1..Len(rows) : made[k] = AddInbound(made[k - 1], rows[k], host)

LEMMA NodesAreMade ==
  ASSUME NEW rows, Len(rows) \in Nat, NEW host
  PROVE  \E made : NodesMade(made, rows, host)
<1> DEFINE Step(acc, k) == AddInbound(acc, rows[k], host)
           Fold(g, n) == g = [k \in 0..n |-> IF k = 0 THEN << >> ELSE Step(g[k - 1], k)]
           T == {n \in Nat : \E g : Fold(g, n)}
           last == Len(rows)
           made == CHOOSE g : Fold(g, last)
<1>2. 0 \in T
  <2> DEFINE g == [k \in 0..0 |-> << >>]
  <2> HIDE DEF Step
  <2>1. Fold(g, 0)
    OBVIOUS
  <2> QED BY <2>1
<1>3. ASSUME NEW n \in Nat, n \in T PROVE n + 1 \in T
  <2> HIDE DEF Step
  <2>1. PICK g : Fold(g, n)
    BY <1>3
  <2> DEFINE h == [k \in 0..(n + 1) |-> IF k = 0 THEN << >> ELSE Step(g[k - 1], k)]
  <2>2. \A k \in 0..n : h[k] = g[k]
    BY <2>1
  <2>3. \A k \in 0..(n + 1) : k # 0 => k - 1 \in 0..n
    OBVIOUS
  <2>4. \A k \in 0..(n + 1) : h[k] = IF k = 0 THEN << >> ELSE Step(h[k - 1], k)
    BY <2>2, <2>3
  <2>5. Fold(h, n + 1)
    BY <2>4
  <2> HIDE DEF h, Fold
  <2> QED BY <2>5
<1>4. Fold(made, last)
  <2>1. last \in T
    <3> HIDE DEF T
    <3> QED BY <1>2, <1>3, Counting
  <2> HIDE DEF Fold, last
  <2> QED BY <2>1
<1>5. dualStackClashNodes(rows, host) = made[last]
  BY DEF dualStackClashNodes
<1> HIDE DEF made, Step
<1>6. made[0] = << >> /\ \A k \in 1..last : made[k] = Step(made[k - 1], k)
  BY <1>4
<1>7. NodesMade(made, rows, host)
  BY <1>5, <1>6 DEF NodesMade, Step
<1> QED BY <1>7

\* The rows that a profile can write and that have an address.
Reachable(in, host) == in.protocol \in ClashSupported /\ resolveInboundServerAddress(in, host) # ""

\* The nodes of all rows are distinct, dialled by their family, and complete.
LEMMA DualStackNodes ==
  ASSUME NEW rows, IsSeq(rows), \A i \in DOMAIN rows : IsSeq(rows[i].tag) /\ HasLiterals(rows[i]), NEW host
  PROVE  LET nodes == dualStackClashNodes(rows, host)
         IN  AreNodes(nodes) /\ \A i \in DOMAIN rows : Reachable(rows[i], host) => HasRow(nodes, rows[i])
<1> DEFINE last == Len(rows)
<1>1. last \in Nat /\ DOMAIN rows = 1..last
  BY SeqIsFunction
<1>2. PICK made : NodesMade(made, rows, host)
  BY <1>1, NodesAreMade
<1> DEFINE Good(k) == AreNodes(made[k]) /\ \A i \in 1..k : Reachable(rows[i], host) => HasRow(made[k], rows[i])
           T == {k \in Nat : k <= last => Good(k)}
<1>3. 0 \in T
  <2>1. AreNodes(<< >>)
    BY DEF AreNodes, IsSeq
  <2> QED BY <1>2, <2>1 DEF NodesMade
<1>4. ASSUME NEW n \in Nat, n \in T PROVE n + 1 \in T
  <2> SUFFICES ASSUME n + 1 <= last PROVE Good(n + 1)
    OBVIOUS
  <2> DEFINE nodes == made[n]
             more == made[n + 1]
             in == rows[n + 1]
  <2>1. Good(n) /\ n + 1 \in DOMAIN rows /\ n + 1 - 1 = n
    BY <1>1, <1>4
  <2>2. more = AddInbound(nodes, in, host)
    BY <1>1, <1>2, <2>1 DEF NodesMade
  <2>3. IsSeq(in.tag) /\ HasLiterals(in) /\ AreNodes(nodes)
    BY <2>1
  <2>4. \A i \in 1..n : Reachable(rows[i], host) => HasRow(nodes, rows[i])
    BY <2>1
  <2> HIDE DEF nodes, in, more
  <2>5. AreNodes(more) /\ Extends(more, nodes) /\ (Reachable(in, host) => HasRow(more, in))
    BY <2>2, <2>3, InboundAdded DEF Reachable
  <2>6. \A row : HasRow(nodes, row) => HasRow(more, row)
    BY <2>5 DEF Extends, HasRow
  <2>7. \A i \in 1..(n + 1) : i \in 1..n \/ i = n + 1
    OBVIOUS
  <2>8. \A i \in 1..(n + 1) : Reachable(rows[i], host) => HasRow(more, rows[i])
    BY <2>4, <2>5, <2>6, <2>7 DEF in
  <2> QED BY <2>5, <2>8 DEF more
<1>5. last \in T
  <2> HIDE DEF T
  <2> QED BY <1>1, <1>3, <1>4, Counting
<1> QED BY <1>1, <1>2, <1>5 DEF NodesMade

------------------------------------------------------------------------------
(* The groups of a dual-stack profile                                      *)

FamilyKept(kept, nodes, family) ==
  /\ kept[0] = << >> /\ OfFamily(nodes, family) = kept[Len(nodes)]
  /\ \A k \in 1..Len(nodes) :
        kept[k] = IF nodes[k].family = family THEN Append(kept[k - 1], nodes[k]) ELSE kept[k - 1]

LEMMA FamilyIsKept ==
  ASSUME NEW nodes, Len(nodes) \in Nat, NEW family
  PROVE  \E kept : FamilyKept(kept, nodes, family)
<1> DEFINE Step(acc, k) == IF nodes[k].family = family THEN Append(acc, nodes[k]) ELSE acc
           Fold(g, n) == g = [k \in 0..n |-> IF k = 0 THEN << >> ELSE Step(g[k - 1], k)]
           T == {n \in Nat : \E g : Fold(g, n)}
           last == Len(nodes)
           kept == CHOOSE g : Fold(g, last)
<1>2. 0 \in T
  <2> DEFINE g == [k \in 0..0 |-> << >>]
  <2> HIDE DEF Step
  <2>1. Fold(g, 0)
    OBVIOUS
  <2> QED BY <2>1
<1>3. ASSUME NEW n \in Nat, n \in T PROVE n + 1 \in T
  <2> HIDE DEF Step
  <2>1. PICK g : Fold(g, n)
    BY <1>3
  <2> DEFINE h == [k \in 0..(n + 1) |-> IF k = 0 THEN << >> ELSE Step(g[k - 1], k)]
  <2>2. \A k \in 0..n : h[k] = g[k]
    BY <2>1
  <2>3. \A k \in 0..(n + 1) : k # 0 => k - 1 \in 0..n
    OBVIOUS
  <2>4. \A k \in 0..(n + 1) : h[k] = IF k = 0 THEN << >> ELSE Step(h[k - 1], k)
    BY <2>2, <2>3
  <2>5. Fold(h, n + 1)
    BY <2>4
  <2> HIDE DEF h, Fold
  <2> QED BY <2>5
<1>4. Fold(kept, last)
  <2>1. last \in T
    <3> HIDE DEF T
    <3> QED BY <1>2, <1>3, Counting
  <2> HIDE DEF Fold, last
  <2> QED BY <2>1
<1>5. OfFamily(nodes, family) = kept[last]
  BY DEF OfFamily
<1> HIDE DEF kept, Step
<1>6. kept[0] = << >> /\ \A k \in 1..last : kept[k] = Step(kept[k - 1], k)
  BY <1>4
<1>7. FamilyKept(kept, nodes, family)
  BY <1>5, <1>6 DEF FamilyKept, Step
<1> QED BY <1>7

\* The nodes of one family, no more and no fewer, up to the k-th.
IsFamily(of, nodes, family, k) ==
  /\ IsSeq(of)
  /\ \A i \in DOMAIN of : \E j \in 1..k : of[i] = nodes[j] /\ nodes[j].family = family
  /\ \A j \in 1..k : nodes[j].family = family => \E i \in DOMAIN of : of[i] = nodes[j]

\* One more node, of the family or not.
LEMMA FamilyExtended ==
  ASSUME NEW of, NEW nodes, NEW family, NEW n \in Nat, IsFamily(of, nodes, family, n)
  PROVE  IF nodes[n + 1].family = family
         THEN IsFamily(Append(of, nodes[n + 1]), nodes, family, n + 1)
         ELSE IsFamily(of, nodes, family, n + 1)
<1>1. /\ \A j \in 1..(n + 1) : j \in 1..n \/ j = n + 1
      /\ n + 1 \in 1..(n + 1) /\ \A j \in 1..n : j \in 1..(n + 1)
  OBVIOUS
<1>2. CASE nodes[n + 1].family # family
  BY <1>1, <1>2 DEF IsFamily
<1>3. CASE nodes[n + 1].family = family
  <2> DEFINE more == Append(of, nodes[n + 1])
             m == Len(of)
  <2>1. IsSeq(of)
    BY DEF IsFamily
  <2>2. m \in Nat /\ DOMAIN of = 1..m
    BY <2>1, SeqIsFunction
  <2>3. IsSeq(more) /\ Len(more) = m + 1 /\ more[m + 1] = nodes[n + 1] /\ \A i \in 1..m : more[i] = of[i]
    BY <2>1, AppendToSeq
  <2> HIDE DEF more, m
  <2>4. DOMAIN more = 1..(m + 1)
    BY <2>3, SeqIsFunction
  <2>5. /\ \A i \in DOMAIN more : i = m + 1 \/ i \in DOMAIN of
        /\ m + 1 \in DOMAIN more /\ \A i \in DOMAIN of : i \in DOMAIN more
    BY <2>2, <2>4
  <2>6. \A i \in DOMAIN of : more[i] = of[i]
    BY <2>2, <2>3
  <2>7. \A i \in DOMAIN more : \E j \in 1..(n + 1) : more[i] = nodes[j] /\ nodes[j].family = family
    BY <1>1, <1>3, <2>3, <2>5, <2>6, SMTT(30) DEF IsFamily
  <2>8. \A j \in 1..(n + 1) : nodes[j].family = family => \E i \in DOMAIN more : more[i] = nodes[j]
    BY <1>1, <2>3, <2>5, <2>6 DEF IsFamily
  <2>9. IsFamily(more, nodes, family, n + 1)
    BY <2>3, <2>7, <2>8 DEF IsFamily
  <2> QED BY <1>3, <2>9 DEF more
<1> QED BY <1>2, <1>3

LEMMA NodesOfFamily ==
  ASSUME NEW nodes, IsSeq(nodes), NEW family
  PROVE  IsFamily(OfFamily(nodes, family), nodes, family, Len(nodes))
<1> DEFINE last == Len(nodes)
<1>1. last \in Nat
  BY SeqIsFunction
<1>2. PICK kept : FamilyKept(kept, nodes, family)
  BY <1>1, FamilyIsKept
<1> DEFINE T == {k \in Nat : k <= last => IsFamily(kept[k], nodes, family, k)}
<1>3. 0 \in T
  <2>1. kept[0] = << >>
    BY <1>2 DEF FamilyKept
  <2>2. IsFamily(<< >>, nodes, family, 0)
    BY DEF IsFamily, IsSeq
  <2> QED BY <2>1, <2>2
<1>4. ASSUME NEW n \in Nat, n \in T PROVE n + 1 \in T
  <2> SUFFICES ASSUME n + 1 <= last PROVE IsFamily(kept[n + 1], nodes, family, n + 1)
    OBVIOUS
  <2>1. IsFamily(kept[n], nodes, family, n) /\ n + 1 \in 1..last /\ n + 1 - 1 = n
    BY <1>1, <1>4
  <2>2. kept[n + 1] = IF nodes[n + 1].family = family THEN Append(kept[n], nodes[n + 1]) ELSE kept[n]
    BY <1>2, <2>1 DEF FamilyKept
  <2> QED BY <2>1, <2>2, FamilyExtended
<1>5. last \in T
  <2> HIDE DEF T
  <2> QED BY <1>1, <1>3, <1>4, Counting
<1> QED BY <1>1, <1>2, <1>5 DEF FamilyKept

LEMMA Concatenated ==
  ASSUME NEW a, IsSeq(a), NEW b, IsSeq(b)
  PROVE  /\ IsSeq(a \o b) /\ Len(a \o b) = Len(a) + Len(b)
         /\ \A i \in 1..Len(a) : (a \o b)[i] = a[i]
         /\ \A i \in 1..Len(b) : (a \o b)[Len(a) + i] = b[i]
<1> DEFINE S == ToSet(a) \cup ToSet(b)
           s == a \o b
<1>1. a \in Seq(S) /\ b \in Seq(S) /\ Len(a) \in Nat /\ Len(b) \in Nat
  BY DEF IsSeq
<1> HIDE DEF S
<1>2. /\ s \in Seq(S) /\ Len(s) = Len(a) + Len(b)
      /\ \A i \in 1..(Len(a) + Len(b)) : s[i] = IF i <= Len(a) THEN a[i] ELSE b[i - Len(a)]
  BY <1>1, ConcatProperties, Zenon
<1> HIDE DEF s
<1>3. IsSeq(s)
  BY <1>2, MemberIsSeq
<1>4. \A i \in 1..Len(a) : s[i] = a[i]
  BY <1>1, <1>2
<1>5. ASSUME NEW i \in 1..Len(b) PROVE s[Len(a) + i] = b[i]
  <2> DEFINE k == Len(a) + i
  <2>1. k \in 1..(Len(a) + Len(b)) /\ ~(k <= Len(a)) /\ k - Len(a) = i
    BY <1>1
  <2> HIDE DEF k
  <2>2. s[k] = b[i]
    BY <1>2, <2>1
  <2> QED BY <2>2 DEF k
<1> QED BY <1>2, <1>3, <1>4, <1>5 DEF s

\* The places of the nodes in the groups: all are there, IPv6 before IPv4.
InOrder(s, nodes) ==
  /\ IsSeq(s)
  /\ \A i \in DOMAIN s : \E j \in DOMAIN nodes : s[i] = nodes[j]
  /\ \A j \in DOMAIN nodes : \E i \in DOMAIN s : s[i] = nodes[j]
  /\ \A i, k \in DOMAIN s : s[i].family = "ipv4" /\ s[k].family = "ipv6" => k < i

\* The groups list every node, and IPv6 before IPv4.
LEMMA FamiliesInOrder ==
  ASSUME NEW nodes, AreNodes(nodes)
  PROVE  InOrder(OfFamily(nodes, "ipv6") \o OfFamily(nodes, "ipv4") \o OfFamily(nodes, ""), nodes)
<1> DEFINE six == OfFamily(nodes, "ipv6")
           four == OfFamily(nodes, "ipv4")
           none == OfFamily(nodes, "")
           some == six \o four
           s == some \o none
           n == Len(nodes)
           p == Len(six)
           q == Len(four)
<1>1. IsSeq(nodes) /\ \A j \in DOMAIN nodes : nodes[j].family = "ipv6" \/ nodes[j].family = "ipv4"
  BY DEF AreNodes, IsNode
<1>2. n \in Nat /\ DOMAIN nodes = 1..n
  BY <1>1, SeqIsFunction
<1>3. IsFamily(six, nodes, "ipv6", n) /\ IsFamily(four, nodes, "ipv4", n) /\ IsFamily(none, nodes, "", n)
  BY <1>1, NodesOfFamily
<1>4. IsSeq(six) /\ IsSeq(four) /\ IsSeq(none)
  BY <1>3 DEF IsFamily
<1>5. "ipv6" # "ipv4" /\ "ipv6" # "" /\ "ipv4" # ""
  OBVIOUS
<1> HIDE DEF six, four, none, n
<1>0. /\ \A i \in DOMAIN six : \E j \in DOMAIN nodes : six[i] = nodes[j] /\ nodes[j].family = "ipv6"
      /\ \A j \in DOMAIN nodes : nodes[j].family = "ipv6" => \E i \in DOMAIN six : six[i] = nodes[j]
      /\ \A i \in DOMAIN four : \E j \in DOMAIN nodes : four[i] = nodes[j] /\ nodes[j].family = "ipv4"
      /\ \A j \in DOMAIN nodes : nodes[j].family = "ipv4" => \E i \in DOMAIN four : four[i] = nodes[j]
  <2>1. /\ \A i \in DOMAIN six : \E j \in 1..n : six[i] = nodes[j] /\ nodes[j].family = "ipv6"
        /\ \A j \in 1..n : nodes[j].family = "ipv6" => \E i \in DOMAIN six : six[i] = nodes[j]
    BY <1>3, Zenon DEF IsFamily
  <2>2. /\ \A i \in DOMAIN four : \E j \in 1..n : four[i] = nodes[j] /\ nodes[j].family = "ipv4"
        /\ \A j \in 1..n : nodes[j].family = "ipv4" => \E i \in DOMAIN four : four[i] = nodes[j]
    BY <1>3, Zenon DEF IsFamily
  <2> DEFINE D == DOMAIN nodes
  <2>3. 1..n = D
    BY <1>2
  <2> HIDE DEF D
  <2>4. /\ \A i \in DOMAIN six : \E j \in D : six[i] = nodes[j] /\ nodes[j].family = "ipv6"
        /\ \A j \in D : nodes[j].family = "ipv6" => \E i \in DOMAIN six : six[i] = nodes[j]
    BY <2>1, <2>3
  <2>5. /\ \A i \in DOMAIN four : \E j \in D : four[i] = nodes[j] /\ nodes[j].family = "ipv4"
        /\ \A j \in D : nodes[j].family = "ipv4" => \E i \in DOMAIN four : four[i] = nodes[j]
    BY <2>2, <2>3
  <2> QED BY <2>4, <2>5 DEF D
<1>6. \A i \in DOMAIN none : FALSE
  <2> SUFFICES ASSUME NEW i \in DOMAIN none PROVE FALSE
    OBVIOUS
  <2>1. PICK j \in 1..n : nodes[j].family = ""
    BY <1>3, Zenon DEF IsFamily
  <2> QED BY <1>1, <1>2, <1>5, <2>1, Zenon
<1>7. p \in Nat /\ q \in Nat /\ DOMAIN six = 1..p /\ DOMAIN four = 1..q
  BY <1>4, SeqIsFunction
<1>8. Len(none) = 0
  <2> DEFINE r == Len(none)
  <2>1. r \in Nat /\ DOMAIN none = 1..r
    BY <1>4, SeqIsFunction
  <2> HIDE DEF r
  <2> QED BY <1>6, <2>1 DEF r
<1>9. /\ IsSeq(some) /\ Len(some) = p + q
      /\ \A i \in 1..p : some[i] = six[i]
      /\ \A i \in 1..q : some[p + i] = four[i]
  BY <1>4, Concatenated
<1> HIDE DEF some
<1>10. IsSeq(s) /\ Len(s) = p + q /\ \A i \in 1..(p + q) : s[i] = some[i]
  <2>1. IsSeq(s) /\ Len(s) = Len(some) + Len(none) /\ \A i \in 1..Len(some) : s[i] = some[i]
    BY <1>4, <1>9, Concatenated
  <2> HIDE DEF s, p, q
  <2> QED BY <1>7, <1>8, <1>9, <2>1
<1> HIDE DEF s, p, q
<1>11. DOMAIN s = 1..(p + q)
  BY <1>10, SeqIsFunction
<1>12. /\ \A i \in 1..p : i \in DOMAIN s /\ s[i] = six[i]
       /\ \A i \in 1..q : p + i \in DOMAIN s /\ s[p + i] = four[i]
       /\ \A i \in DOMAIN s : i \in 1..p \/ \E k \in 1..q : i = p + k
  <2>1. \A i \in 1..p : i \in 1..(p + q)
    BY <1>7
  <2>2. \A i \in 1..q : p + i \in 1..(p + q)
    BY <1>7
  <2>3. ASSUME NEW i \in 1..(p + q), i \notin 1..p PROVE \E k \in 1..q : i = p + k
    <3>1. i - p \in 1..q /\ i = p + (i - p)
      BY <1>7, <2>3
    <3> QED BY <3>1
  <2> QED BY <1>9, <1>10, <1>11, <2>1, <2>2, <2>3
<1>13. /\ \A i \in 1..p : six[i].family = "ipv6" /\ \E j \in DOMAIN nodes : six[i] = nodes[j]
       /\ \A i \in 1..q : four[i].family = "ipv4" /\ \E j \in DOMAIN nodes : four[i] = nodes[j]
  <2>1. \A i \in 1..p : \E j \in DOMAIN nodes : six[i] = nodes[j] /\ nodes[j].family = "ipv6"
    BY <1>0, <1>7, Zenon
  <2>2. \A i \in 1..q : \E j \in DOMAIN nodes : four[i] = nodes[j] /\ nodes[j].family = "ipv4"
    BY <1>0, <1>7, Zenon
  <2> QED BY <2>1, <2>2
<1>14. ASSUME NEW i \in DOMAIN s PROVE \E j \in DOMAIN nodes : s[i] = nodes[j]
  BY <1>12, <1>13
<1>15. ASSUME NEW j \in DOMAIN nodes PROVE \E i \in DOMAIN s : s[i] = nodes[j]
  <2>1. CASE nodes[j].family = "ipv6"
    <3>1. PICK i \in 1..p : six[i] = nodes[j]
      BY <1>0, <1>7, <2>1, Zenon
    <3> QED BY <1>12, <3>1
  <2>2. CASE nodes[j].family = "ipv4"
    <3>1. PICK i \in 1..q : four[i] = nodes[j]
      BY <1>0, <1>7, <2>2, Zenon
    <3> QED BY <1>12, <3>1
  <2> QED BY <1>1, <2>1, <2>2
<1>16. ASSUME NEW i \in DOMAIN s, NEW k \in DOMAIN s, s[i].family = "ipv4", s[k].family = "ipv6" PROVE k < i
  <2>1. i \notin 1..p
    BY <1>5, <1>12, <1>13, <1>16
  <2>2. PICK a \in 1..q : i = p + a
    BY <1>12, <2>1
  <2>3. k \in 1..p
    <3> SUFFICES ASSUME NEW b \in 1..q, k = p + b PROVE FALSE
      BY <1>12
    <3>1. s[k] = four[b] /\ four[b].family = "ipv4"
      BY <1>12, <1>13
    <3> QED BY <1>5, <1>16, <3>1
  <2> QED BY <1>7, <2>2, <2>3
<1> QED BY <1>10, <1>14, <1>15, <1>16, Zenon DEF InOrder, s, some, six, four, none

\* As many names are written as there are nodes.
LEMMA NamesCounted ==
  ASSUME NEW nodes, AreNodes(nodes)
  PROVE  Cardinality({nodes[i].name : i \in DOMAIN nodes}) = Len(nodes)
<1> DEFINE n == Len(nodes)
           D == 1..n
           f == [i \in D |-> nodes[i].name]
           N == {nodes[i].name : i \in DOMAIN nodes}
<1>1. n \in Nat /\ DOMAIN nodes = 1..n
  BY SeqIsFunction DEF AreNodes
<1> HIDE DEF n
<1>2. IsFiniteSet(D) /\ Cardinality(D) = n
  BY <1>1, FS_Interval
<1>3. f \in Surjection(D, N)
  BY <1>1 DEF Surjection
<1>4. f \in Injection(D, N)
  BY <1>1 DEF Injection, IsInjective, AreNodes
<1> HIDE DEF D, f, N
<1>5. Cardinality(N) = Cardinality(D)
  BY <1>2, <1>3, <1>4, FS_Surjection
<1> QED BY <1>2, <1>5 DEF N, n

\* The proxies written for nodes: one of each name, of its node's family.
AreProxiesOf(proxies, nodes) ==
  /\ \A q \in proxies : \E j \in DOMAIN nodes : q.name = nodes[j].name /\ q.family = nodes[j].family
                                                 /\ q.dial.server = nodes[j].server
  /\ \A j \in DOMAIN nodes : \E q \in proxies : q.name = nodes[j].name

\* Every node has its proxy, and every proxy its node.
LEMMA ProxiesWritten ==
  ASSUME NEW nodes, AreNodes(nodes), NEW uuid, NEW dual
  PROVE  AreProxiesOf(buildClashConfigNodes(nodes, uuid, dual).proxies, nodes)
<1> DEFINE proxies == buildClashConfigNodes(nodes, uuid, dual).proxies
           Proxies(j) == ClashProxy(nodes[j].in, uuid, nodes[j].server)
           Written(j, p) == [name |-> nodes[j].name, family |-> nodes[j].family, pos |-> j, dial |-> p]
<1>1. /\ \A q \in proxies : /\ q.pos \in DOMAIN nodes /\ q.name = nodes[q.pos].name /\ q.family = nodes[q.pos].family
                            /\ q.dial \in Proxies(q.pos)
      /\ \A j \in DOMAIN nodes : \A p \in Proxies(j) : Written(j, p) \in proxies
  BY ProxiesOfNodes
<1>2. \A j \in DOMAIN nodes : \E p : Proxies(j) = {p} /\ p.server = nodes[j].server
  BY DialledServer DEF AreNodes, IsNode
<1>3. \A j, p : Written(j, p).name = nodes[j].name
  OBVIOUS
<1> HIDE DEF proxies, Proxies, Written
<1>4. \A q \in proxies : q.dial.server = nodes[q.pos].server
  BY <1>1, <1>2
<1>5. \A j \in DOMAIN nodes : \E q \in proxies : q.name = nodes[j].name
  BY <1>1, <1>2, <1>3
<1> QED BY <1>1, <1>4, <1>5 DEF AreProxiesOf, proxies

\* A profile made of nodes is one a client can load and route by.
LEMMA ProfileWorks ==
  ASSUME NEW nodes, AreNodes(nodes), NEW rows, NEW host, NEW uuid,
         \A i \in DOMAIN rows : Reachable(rows[i], host) => HasRow(nodes, rows[i])
  PROVE  WellFormed(rows, host, nodes, buildClashConfigNodes(nodes, uuid, TRUE))
<1> DEFINE profile == buildClashConfigNodes(nodes, uuid, TRUE)
           proxies == profile.proxies
           written == {p.name : p \in proxies}
           names == {nodes[i].name : i \in DOMAIN nodes}
           s == OfFamily(nodes, "ipv6") \o OfFamily(nodes, "ipv4") \o OfFamily(nodes, "")
           first == Names(s)
           FamilyOfName(name) == (CHOOSE p \in proxies : p.name = name).family
<1>1. AreProxiesOf(proxies, nodes)
  BY ProxiesWritten
<1>2. InOrder(s, nodes)
  BY FamiliesInOrder
<1>3. profile.groups.first = first /\ profile.groups.auto = first
  BY DEF buildClashConfigNodes, writeDualStackGroups
<1> HIDE DEF s, profile
<1>4. written = names
  <2> HIDE DEF proxies
  <2>1. \A q \in proxies : \E j \in DOMAIN nodes : q.name = nodes[j].name
    BY <1>1, Zenon DEF AreProxiesOf
  <2>2. \A j \in DOMAIN nodes : \E q \in proxies : q.name = nodes[j].name
    BY <1>1, Zenon DEF AreProxiesOf
  <2> QED BY <2>1, <2>2
<1>5. Cardinality(written) = Len(nodes)
  <2> HIDE DEF written
  <2> QED BY <1>4, NamesCounted
<1>6. DOMAIN first = DOMAIN s /\ \A i \in DOMAIN s : first[i] = s[i].name
  BY DEF Names
<1>7. ToSet(first) = names
  <2>1. ToSet(first) = {first[i] : i \in DOMAIN first}
    BY DEF ToSet
  <2> HIDE DEF first
  <2>2. ASSUME NEW i \in DOMAIN s PROVE first[i] \in names
    BY <1>2, <1>6 DEF InOrder
  <2>3. ASSUME NEW j \in DOMAIN nodes PROVE nodes[j].name \in {first[i] : i \in DOMAIN s}
    BY <1>2, <1>6 DEF InOrder
  <2> QED BY <1>6, <2>1, <2>2, <2>3
<1> HIDE DEF first
<1>8. \A j \in DOMAIN nodes : FamilyOfName(nodes[j].name) = nodes[j].family
  <2> SUFFICES ASSUME NEW j \in DOMAIN nodes PROVE FamilyOfName(nodes[j].name) = nodes[j].family
    OBVIOUS
  <2> DEFINE p == CHOOSE q \in proxies : q.name = nodes[j].name
  <2> HIDE DEF proxies
  <2>1. p \in proxies /\ p.name = nodes[j].name
    BY <1>1 DEF AreProxiesOf
  <2> HIDE DEF p
  <2>2. PICK k \in DOMAIN nodes : p.name = nodes[k].name /\ p.family = nodes[k].family
    BY <1>1, <2>1 DEF AreProxiesOf
  <2>3. p.family = nodes[j].family
    BY <2>1, <2>2 DEF AreNodes
  <2> QED BY <2>3 DEF p
<1> HIDE DEF FamilyOfName
<1>9. \A i \in DOMAIN first : FamilyOfName(first[i]) = s[i].family
  BY <1>2, <1>6, <1>8 DEF InOrder
<1>10. \A i, j \in DOMAIN first : FamilyOfName(first[i]) = "ipv4" /\ FamilyOfName(first[j]) = "ipv6" => j < i
  BY <1>2, <1>6, <1>9 DEF InOrder
<1>11. \A p \in proxies : FamilyOf(p.dial.server) \in {p.family, "name"}
  <2> HIDE DEF proxies
  <2> SUFFICES ASSUME NEW p \in proxies PROVE FamilyOf(p.dial.server) \in {p.family, "name"}
    OBVIOUS
  <2>1. PICK j \in DOMAIN nodes : p.family = nodes[j].family /\ p.dial.server = nodes[j].server
    BY <1>1 DEF AreProxiesOf
  <2>2. FamilyOf(nodes[j].server) \in {nodes[j].family, "name"}
    BY DEF AreNodes, IsNode
  <2> HIDE DEF FamilyOf
  <2> QED BY <2>1, <2>2
<1>12. \A i \in DOMAIN rows :
         rows[i].protocol \in ClashSupported /\ resolveInboundServerAddress(rows[i], host) # ""
           => \E k \in DOMAIN nodes : nodes[k].in = rows[i]
  BY DEF Reachable, HasRow
<1> HIDE DEF written, names
<1> HIDE DEF FamilyOf
<1>13. WellFormed(rows, host, nodes, profile)
  <2>1. Cardinality({p.name : p \in profile.proxies}) = Len(nodes)
    BY <1>5 DEF written
  <2>2. /\ ToSet(profile.groups.first) = {p.name : p \in profile.proxies}
        /\ ToSet(profile.groups.auto) = {p.name : p \in profile.proxies}
    BY <1>3, <1>4, <1>7 DEF written
  <2>3. \A i, j \in DOMAIN profile.groups.first :
          /\ (CHOOSE p \in profile.proxies : p.name = profile.groups.first[i]).family = "ipv4"
          /\ (CHOOSE p \in profile.proxies : p.name = profile.groups.first[j]).family = "ipv6"
          => j < i
    <3>1. \A i, j \in DOMAIN profile.groups.first :
            FamilyOfName(profile.groups.first[i]) = "ipv4" /\ FamilyOfName(profile.groups.first[j]) = "ipv6" => j < i
      BY <1>3, <1>10
    <3> QED BY <3>1 DEF FamilyOfName
  <2> HIDE DEF proxies
  <2> QED BY <1>11, <1>12, <2>1, <2>2, <2>3, Zenon DEF WellFormed, proxies
<1> QED BY <1>13 DEF profile

\* The inbounds, and the edit of one that waits, have literal addresses.
LiteralsInv ==
  /\ \A in \in inbounds : HasLiterals(in)
  /\ edit # << >> /\ Head(edit).kind = "inbound" => HasLiterals(Head(edit).row)

\* The rows of every answer make a profile that works.
LEMMA DualStackHolds == RowsInv /\ LiteralsInv => DualStackIsWellFormed
<1> SUFFICES ASSUME RowsInv, LiteralsInv, NEW uuid, NEW host
             PROVE  LET rows == Answer(ActiveRows(uuid, now))
                    IN  WellFormed(rows, host, dualStackClashNodes(rows, host),
                                   buildClashDualStackConfig(rows, uuid, host))
  BY DEF DualStackIsWellFormed
<1> DEFINE rows == Answer(ActiveRows(uuid, now))
           nodes == dualStackClashNodes(rows, host)
<1>1. PICK n \in Nat : DOMAIN rows = 1..n
  BY ActiveRow
<1>2. \A i \in DOMAIN rows : rows[i] \in inbounds
  BY ActiveRow
<1>3. rows = [i \in DOMAIN rows |-> rows[i]]
  <2>1. \A r : Answer(r) = [i \in DOMAIN Answer(r) |-> Answer(r)[i]]
    BY DEF Answer
  <2> QED BY <2>1
<1> HIDE DEF rows
<1>4. rows \in [1..n -> inbounds]
  BY <1>1, <1>2, <1>3
<1>5. IsSeq(rows)
  BY <1>4, FunctionIsSeq
<1>6. \A i \in DOMAIN rows : IsSeq(rows[i].tag) /\ HasLiterals(rows[i])
  <2>1. \A in \in inbounds : IsSeq(in.tag)
    BY DEF RowsInv, AreInbounds, IsInbound, IsInboundRow, IsForm
  <2> QED BY <1>2, <2>1 DEF LiteralsInv
<1>7. AreNodes(nodes) /\ \A i \in DOMAIN rows : Reachable(rows[i], host) => HasRow(nodes, rows[i])
  BY <1>5, <1>6, DualStackNodes
<1> HIDE DEF nodes
<1>8. WellFormed(rows, host, nodes, buildClashConfigNodes(nodes, uuid, TRUE))
  BY <1>7, ProfileWorks
<1>9. buildClashConfigNodes(nodes, uuid, TRUE) = buildClashDualStackConfig(rows, uuid, host)
  BY DEF buildClashDualStackConfig, nodes
<1> QED BY <1>8, <1>9 DEF rows, nodes

------------------------------------------------------------------------------
(* Literal addresses, and the theorem                                      *)

\* The columns stay literals if whatever is written has them so.
LEMMA LiteralsStay ==
  ASSUME LiteralsInv, \A in \in inbounds' : in \in inbounds \/ HasLiterals(in),
         \/ edit' = edit \/ edit' = << >>
         \/ Head(edit').kind # "inbound" \/ HasLiterals(Head(edit').row)
  PROVE  LiteralsInv'
<1> HIDE DEF HasLiterals
<1>1. \A in \in inbounds' : HasLiterals(in)
  BY DEF LiteralsInv
<1>2. CASE edit' = edit
  BY <1>1, <1>2 DEF LiteralsInv
<1>3. CASE edit' # edit
  BY <1>1, <1>3 DEF LiteralsInv
<1> QED BY <1>2, <1>3

\* Writing a row leaves its addresses alone; a submitted row was validated.
LEMMA WrittenLiterals ==
  /\ \A in : validateInbound(in) => HasLiterals(in)
  /\ \A in, n : IsInbound(in, n) /\ HasLiterals(in) => HasLiterals(Inserted(in))
  /\ \A item : IsItem(item) => HasLiterals(importThreeXUIInbound(item))
  /\ \A n, p : HasLiterals(Row(n, PresetColumns(p, Domain)))
<1>1. ASSUME NEW in, validateInbound(in) PROVE HasLiterals(in)
  BY <1>1 DEF validateInbound, validateInboundLiteralIP, HasLiterals
<1>2. ASSUME NEW in, NEW n, IsInbound(in, n), HasLiterals(in) PROVE HasLiterals(Inserted(in))
  <2>1. DOMAIN in = InboundColumns
    BY <1>2 DEF IsInbound, IsInboundRow
  <2>2. Inserted(in).v4 = in.v4 /\ Inserted(in).v6 = in.v6
    BY <2>1 DEF Inserted, InboundColumns
  <2> QED BY <1>2, <2>2, Zenon DEF HasLiterals
<1>3. ASSUME NEW item, IsItem(item) PROVE HasLiterals(importThreeXUIInbound(item))
  <2> DEFINE columns == [item.columns EXCEPT !.tag = ensureUniqueInboundTag(@), !.addr = "", !.v4 = "", !.v6 = ""]
             row == importThreeXUIInbound(item)
  <2>1. InboundColumns \ {"id"} \subseteq DOMAIN item.columns
    BY <1>3 DEF IsItem, IsForm
  <2>2. columns.v4 = "" /\ columns.v6 = ""
    BY <2>1 DEF InboundColumns
  <2>3. row = Row(nextId, columns)
    BY DEF importThreeXUIInbound
  <2> HIDE DEF columns
  <2> HIDE DEF row
  <2>6. row.v4 = columns.v4 /\ row.v6 = columns.v6
    BY <2>3 DEF Row
  <2>4. row.v4 = "" /\ row.v6 = ""
    BY <2>2, <2>6, Zenon
  <2>5. HasLiterals(row)
    BY <2>4, Zenon DEF HasLiterals
  <2> QED BY <2>5 DEF row
<1>4. ASSUME NEW n, NEW p PROVE HasLiterals(Row(n, PresetColumns(p, Domain)))
  <2> DEFINE row == Row(n, PresetColumns(p, Domain))
  <2>1. row.v4 = "" /\ row.v6 = ""
    BY DEF Row, PresetColumns
  <2> HIDE DEF row
  <2>2. HasLiterals(row)
    BY <2>1, Zenon DEF HasLiterals
  <2> QED BY <2>2 DEF row
<1> QED BY <1>1, <1>2, <1>3, <1>4

\* The rows of a deployment have their host in the primary address.
AddsLiterals(acc) == \A in \in acc.rows : in \in inbounds \/ HasLiterals(in)

LEMMA PlannedLiterals ==
  ASSUME NEW acc, IsMade(acc), AddsLiterals(acc), NEW p
  PROVE  AddsLiterals(CreatePlanned(acc, p))
<1> DEFINE row == Row(acc.free, PresetColumns(p, Domain))
           next == CreatePlanned(acc, p)
<1>1. next.rows = acc.rows \/ next.rows = acc.rows \cup {row}
  <2>1. "rows" \in DOMAIN acc
    BY DEF IsMade
  <2>2. next.rows \in {acc.rows, acc.rows \cup {row}}
    <3> HIDE DEF row
    <3> QED BY <2>1 DEF CreatePlanned, row
  <2> HIDE DEF next, row
  <2> QED BY <2>2
<1>2. HasLiterals(row)
  BY WrittenLiterals
<1> HIDE DEF row, next, HasLiterals
<1>3. AddsLiterals(next)
  BY <1>1, <1>2 DEF AddsLiterals
<1> QED BY <1>3 DEF next

\* A deployment adds no other rows.
LEMMA DeployedLiterals ==
  ASSUME RowsInv, NEW preset \in Presets
  PROVE  AddsLiterals(DeployRows(Plan(preset)))
<1> DEFINE plan == Plan(preset)
           last == Len(plan)
<1>1. last \in Nat /\ \A k \in 1..last : IsPlanned(plan[k])
  BY PlansAreSeq
<1> HIDE DEF plan
<1>2. PICK made : MakesRows(made, plan)
  BY <1>1, DeployMakesRows
<1> DEFINE T == {k \in Nat : k <= last => IsMade(made[k]) /\ AddsLiterals(made[k])}
<1>3. 0 \in T
  <2>1. made[0] = [rows |-> inbounds, users |-> clients, free |-> nextId, result |-> "deployed"]
    BY <1>2 DEF MakesRows
  <2>2. IsMade(made[0])
    BY <2>1 DEF IsMade, RowsInv
  <2>3. AddsLiterals(made[0])
    BY <2>1 DEF AddsLiterals
  <2> QED BY <2>2, <2>3
<1>4. ASSUME NEW n \in Nat, n \in T PROVE n + 1 \in T
  <2> SUFFICES ASSUME n + 1 <= last PROVE IsMade(made[n + 1]) /\ AddsLiterals(made[n + 1])
    OBVIOUS
  <2>1. IsMade(made[n]) /\ AddsLiterals(made[n]) /\ n + 1 \in 1..last /\ n + 1 - 1 = n
    BY <1>1, <1>4
  <2>2. made[n + 1] = IF made[n].result # "deployed" THEN made[n] ELSE CreatePlanned(made[n], plan[n + 1])
    BY <1>2, <2>1 DEF MakesRows
  <2>3. IsMade(CreatePlanned(made[n], plan[n + 1])) /\ AddsLiterals(CreatePlanned(made[n], plan[n + 1]))
    BY <1>1, <2>1, PlannedIsMade, PlannedLiterals
  <2> QED BY <2>1, <2>2, <2>3
<1>5. AddsLiterals(made[last])
  <2>1. last \in T
    <3> HIDE DEF T, last
    <3> QED BY <1>1, <1>3, <1>4, Counting
  <2> QED BY <1>1, <2>1
<1> QED BY <1>2, <1>5 DEF MakesRows, plan

\* Every handler that writes an inbound validated it, or leaves the columns empty.
LEMMA LiteralsStep ==
  ASSUME RowsInv, LiteralsInv, [Next]_vars PROVE LiteralsInv'
<1> USE WrittenLiterals
<1>0. nextId \in Nat /\ 0 < nextId /\ nextId \in 1..(nextId + 1 - 1)
  BY DEF RowsInv
<1>1. CASE UNCHANGED <<inbounds, edit>>
  BY <1>1, LiteralsStay
<1>2. CASE Next
  <2>1. ASSUME NEW form \in InboundForms, CreateInbound(form) PROVE LiteralsInv'
    <3> DEFINE columns == Row(nextId, form)
               in == Inserted(columns)
    <3>1. WriteInbound(in, nextId + 1, << >>) /\ validateInbound(Row(0, form)) /\ edit' = edit
      BY <2>1 DEF CreateInbound
    <3>2. HasLiterals(columns)
      <4>1. HasLiterals(Row(0, form))
        BY <3>1
      <4>2. Row(0, form).v4 = columns.v4 /\ Row(0, form).v6 = columns.v6
        BY DEF Row
      <4> HIDE DEF columns
      <4> QED BY <4>1, <4>2, Zenon DEF HasLiterals
    <3>3. IsInbound(columns, nextId + 1)
      <4>1. IsForm(form)
        BY NodeTableAssumption DEF NodeTableAssumption
      <4> HIDE DEF HasLiterals
      <4> QED BY <1>0, <4>1, RowIsInbound
    <3> HIDE DEF columns
    <3>4. HasLiterals(in)
      BY <3>2, <3>3
    <3> HIDE DEF in
    <3>5. \A other \in inbounds' : other \in inbounds \/ other = in
      BY <3>1 DEF WriteInbound
    <3> QED BY <3>1, <3>4, <3>5, LiteralsStay
  <2>2. ASSUME NEW in \in inbounds, NEW form \in InboundForms, BeginEditInbound(in, form) PROVE LiteralsInv'
    <3> DEFINE row == Row(in.id, form)
    <3>1. edit' = <<[kind |-> "inbound", row |-> row]>> /\ inbounds' = inbounds /\ validateInbound(row)
      BY <2>2 DEF BeginEditInbound, tables
    <3> HIDE DEF row
    <3>2. Head(edit').row = row
      BY <3>1
    <3>3. HasLiterals(row)
      BY <3>1
    <3> QED BY <3>1, <3>2, <3>3, LiteralsStay
  <2>3. CASE SaveInbound
    <3> DEFINE row == Head(edit).row
               in == IF \A other \in inbounds : other.id # row.id THEN Inserted(row) ELSE row
    <3>1. IsInbound(row, nextId) /\ HasLiterals(row) /\ edit' = << >>
      BY <2>3 DEF SaveInbound, RowsInv, EditHolds, LiteralsInv
    <3>2. WriteInbound(in, nextId, << >>) \/ inbounds' = inbounds
      BY <2>3 DEF SaveInbound
    <3> HIDE DEF row
    <3>3. HasLiterals(in)
      BY <3>1
    <3> HIDE DEF in
    <3>4. \A other \in inbounds' : other \in inbounds \/ other = in
      BY <3>2 DEF WriteInbound
    <3> QED BY <3>1, <3>3, <3>4, LiteralsStay
  <2>4. ASSUME NEW in \in inbounds, DeleteInbound(in) PROVE LiteralsInv'
    BY <2>4, LiteralsStay DEF DeleteInbound
  <2>5. ASSUME NEW item, IsItem(item), Import3xui(item) PROVE LiteralsInv'
    <3> DEFINE row == importThreeXUIInbound(item)
               in == Inserted(row)
    <3>1. WriteInbound(in, nextId + 1, item.stats) /\ edit' = edit
      BY <2>5 DEF Import3xui
    <3>2. IsInbound(row, nextId + 1) /\ HasLiterals(row)
      BY <2>5, ImportedRow
    <3> HIDE DEF row
    <3>3. HasLiterals(in)
      BY <3>2
    <3> HIDE DEF in
    <3>4. \A other \in inbounds' : other \in inbounds \/ other = in
      BY <3>1 DEF WriteInbound
    <3> QED BY <3>1, <3>3, <3>4, LiteralsStay
  <2>6. ASSUME NEW in \in inbounds, Import3xui(buildThreeXUIInboundExport(in)) PROVE LiteralsInv'
    BY <2>5, <2>6, ExportedIsItem
  <2>7. ASSUME NEW in, NEW email, NEW uuid, NEW expiry, CreateClient(in, email, uuid, expiry)
        PROVE  UNCHANGED <<inbounds, edit>>
    BY <2>7 DEF CreateClient
  <2>8. ASSUME NEW c, NEW email, NEW enable, NEW expiry, BeginEditClient(c, email, enable, expiry)
        PROVE  LiteralsInv'
    <3> DEFINE row == [c EXCEPT !.email = email, !.enable = enable, !.expiry = expiry]
    <3>1. edit' = <<[kind |-> "client", row |-> row]>> /\ inbounds' = inbounds
      BY <2>8 DEF BeginEditClient, tables
    <3> HIDE DEF row
    <3>2. Head(edit').kind # "inbound"
      BY <3>1
    <3> QED BY <3>1, <3>2, LiteralsStay
  <2>9. CASE SaveClient
    BY <2>9, LiteralsStay DEF SaveClient
  <2>10. ASSUME NEW chosen, NEW op, ChangeClients(chosen, op) PROVE UNCHANGED <<inbounds, edit>>
    BY <2>10 DEF ChangeClients
  <2>11. CASE Elsewhere
    BY <1>1, <2>11, ElsewhereLeaves
  <2>12. ASSUME NEW preset \in Presets, Deploy(preset) PROVE LiteralsInv'
    <3> DEFINE made == DeployRows(Plan(preset))
    <3>1. edit' = edit /\ (inbounds' = inbounds \/ inbounds' = made.rows)
      BY <2>12 DEF Deploy
    <3>2. AddsLiterals(made)
      BY DeployedLiterals
    <3> HIDE DEF made
    <3> QED BY <3>1, <3>2, LiteralsStay DEF AddsLiterals
  <2>13. CASE RollbackDeployment
    <3>1. inbounds' \subseteq inbounds /\ edit' = edit
      BY <2>13 DEF RollbackDeployment
    <3> QED BY <3>1, LiteralsStay
  <2>14. CASE InvalidateSubCache \/ Tick
    BY <1>1, <2>14 DEF InvalidateSubCache, Tick, tables
  <2>15. ASSUME NEW dual, Apply(dual) PROVE UNCHANGED <<inbounds, edit>>
    BY <2>15 DEF Apply, tables
  <2>16. ASSUME NEW req, SubscriptionMiss(req) PROVE UNCHANGED <<inbounds, edit>>
    BY <2>16 DEF SubscriptionMiss, tables
  <2>17. ASSUME NEW f, subCachePut(f) PROVE UNCHANGED <<inbounds, edit>>
    BY <2>17 DEF subCachePut, tables
  <2> QED BY <1>1, <1>2, NextCases, <2>1, <2>2, <2>3, <2>4, <2>5, <2>6, <2>7, <2>8, <2>9, <2>10, <2>11, <2>12, <2>13,
             <2>14, <2>15, <2>16, <2>17
<1> QED BY <1>1, <1>2 DEF vars, tables

LEMMA LiteralsStart ==
  ASSUME Init PROVE LiteralsInv
<1>1. PICK t \in Tables : inbounds = t.inbounds /\ edit = << >>
  BY DEF Init
<1>2. \A in \in inbounds : HasLiterals(in)
  BY <1>1, NodeTableAssumption DEF NodeTableAssumption
<1> QED BY <1>1, <1>2 DEF LiteralsInv

\* Whatever a subscription hands out is served, alike in every format and
\* loadable: the links by one of the engines that run the rows, the regular
\* profile as the links say, the dual-stack profile under names, families and
\* groups a client can route by.
THEOREM SubscriptionsAlwaysServed == Spec => []SubscriptionsAreServed
<1>1. Init => LiteralsInv /\ RunInv
  BY LiteralsStart, RunStarts
<1>2. RowsInv /\ LiteralsInv /\ RunInv /\ [Next]_vars => LiteralsInv' /\ RunInv'
  BY LiteralsStep, RunStep
<1>3. RowsInv /\ LiteralsInv /\ RunInv => SubscriptionsAreServed
  BY LinksServed, ProfilesAgree, DualStackHolds DEF SubscriptionsAreServed
<1>4. Spec => []RowsInv
  BY TablesInvariant
<1> QED BY <1>1, <1>2, <1>3, <1>4, PTL DEF Spec
================================================================================
