-------------------------- MODULE PageOrder_proofs --------------------------
(***************************************************************************)
(* The order of things in PageScripts, for any number of scripts and any   *)
(* depth of calls: each script runs once, deferred ones in the order of    *)
(* the page and before DOMContentLoaded; no markup is parsed above a       *)
(* constructor; every script writes at its own insertion point, and what   *)
(* it wrote stands behind it in the order it was written in.               *)
(***************************************************************************)
EXTENDS PageScripts_proofs
-----------------------------------------------------------------------------
(* Deferred scripts: defer_scripts is what is left of those queued, in the   *)
(* same order, and none behind one that is left has run.                     *)

Queued(d, q) ==
  /\ IsInjective(d) /\ IsInjective(q)
  /\ Range(d) \subseteq Range(q) /\ Thinned(d, q)

Sequenced(d, q, r) ==
  \A i, j \in 1..Len(q) : i < j =>
    /\ Before(r, q[i], q[j])
    /\ q[i] \in Range(d) => q[j] \notin Range(r)

LEMMA ThinnedTwice ==
  ASSUME NEW u, NEW s, NEW q, Thinned(u, s), Thinned(s, q)
  PROVE  Thinned(u, q)
<1> SUFFICES ASSUME NEW a \in DOMAIN u, NEW b \in DOMAIN u, a < b
             PROVE  \E c, d \in DOMAIN q : c < d /\ q[c] = u[a] /\ q[d] = u[b]
  BY DEF Thinned
<1>1. PICK c \in DOMAIN s, d \in DOMAIN s : c < d /\ s[c] = u[a] /\ s[d] = u[b]
  BY DEF Thinned
<1>2. PICK e \in DOMAIN q, f \in DOMAIN q : e < f /\ q[e] = s[c] /\ q[f] = s[d]
  BY <1>1 DEF Thinned
<1>3. QED
  BY <1>1, <1>2

LEMMA QueueTail ==
  ASSUME NEW S, NEW d \in Seq(S), d # << >>, NEW q \in Seq(S), Queued(d, q)
  PROVE  /\ Queued(Tail(d), q) /\ Range(Tail(d)) = Range(d) \ {Head(d)}
  BY TailList, ThinnedTwice DEF Queued

LEMMA QueueUnlinked ==
  ASSUME NEW S, NEW d \in Seq(S), NEW q \in Seq(S), Queued(d, q), NEW n
  PROVE  Queued(Unlinked(d, n), q) /\ Range(Unlinked(d, n)) = Range(d) \ {n}
<1>1. /\ IsInjective(Unlinked(d, n)) /\ Thinned(Unlinked(d, n), d)
      /\ Range(Unlinked(d, n)) = Range(d) \ {n}
  BY UnlinkedList DEF Queued
<1>2. Thinned(Unlinked(d, n), q)
  BY <1>1, ThinnedTwice DEF Queued
<1>3. QED
  BY <1>1, <1>2 DEF Queued

LEMMA QueueAppend ==
  ASSUME NEW S, NEW d \in Seq(S), NEW q \in Seq(S), Queued(d, q), NEW n \in S, n \notin Range(q)
  PROVE  Queued(Append(d, n), Append(q, n))
<1> DEFINE u == Append(d, n)
           v == Append(q, n)
<1>1. /\ u \in Seq(S) /\ DOMAIN u = 1..(Len(d) + 1) /\ \A i \in 1..Len(d) : u[i] = d[i]
      /\ u[Len(d) + 1] = n /\ Range(u) = Range(d) \union {n}
      /\ IsInjective(u)
  BY AppendList DEF Queued
<1>2. /\ v \in Seq(S) /\ DOMAIN v = 1..(Len(q) + 1) /\ \A i \in 1..Len(q) : v[i] = q[i]
      /\ v[Len(q) + 1] = n /\ Range(v) = Range(q) \union {n}
      /\ IsInjective(v)
  BY AppendList DEF Queued
<1>3. /\ DOMAIN d = 1..Len(d) /\ Len(d) \in Nat /\ DOMAIN q = 1..Len(q) /\ Len(q) \in Nat
      /\ \A e \in Range(q) : \E i \in 1..Len(q) : q[i] = e
      /\ \A i \in 1..Len(d) : d[i] \in Range(d)
  BY ListFacts
<1> HIDE DEF u, v
<1>4. ASSUME NEW a \in DOMAIN u, NEW b \in DOMAIN u, a < b
      PROVE  \E c, e \in DOMAIN v : c < e /\ v[c] = u[a] /\ v[e] = u[b]
  <2>1. a \in 1..Len(d)
    BY <1>1, <1>3, <1>4
  <2>2. CASE b \in 1..Len(d)
    <3>1. PICK c \in DOMAIN q, e \in DOMAIN q : c < e /\ q[c] = d[a] /\ q[e] = d[b]
      BY <1>3, <1>4, <2>1, <2>2 DEF Queued, Thinned
    <3>2. c \in DOMAIN v /\ e \in DOMAIN v
      BY <1>2, <1>3
    <3>3. v[c] = u[a] /\ v[e] = u[b]
      BY <1>1, <1>2, <1>3, <2>1, <2>2, <3>1
    <3>4. QED
      BY <3>1, <3>2, <3>3
  <2>3. CASE b \notin 1..Len(d)
    <3>1. b = Len(d) + 1
      BY <1>1, <1>3, <2>3
    <3>2. PICK c \in 1..Len(q) : q[c] = d[a]
      BY <1>3, <2>1 DEF Queued
    <3>3. c \in DOMAIN v /\ Len(q) + 1 \in DOMAIN v /\ c < Len(q) + 1
      BY <1>2, <1>3
    <3>4. QED
      BY <1>1, <1>2, <2>1, <3>1, <3>2, <3>3
  <2>4. QED
    BY <2>2, <2>3
<1>5. Thinned(u, v)
  BY <1>4 DEF Thinned
<1>6. QED
  BY <1>1, <1>2, <1>5 DEF Queued, u, v

LEMMA SequencedThin ==
  ASSUME NEW d, NEW u, NEW q, NEW r, Sequenced(d, q, r), Range(u) \subseteq Range(d)
  PROVE  Sequenced(u, q, r)
  BY DEF Sequenced

\* Another script than those queued runs.
LEMMA SequencedOther ==
  ASSUME NEW S, NEW d, NEW q \in Seq(S), NEW r \in Seq(S), Sequenced(d, q, r),
         NEW n \in S, n \notin Range(q)
  PROVE  Sequenced(d, q, Append(r, n))
<1> DEFINE t == Append(r, n)
<1>1. /\ Len(r) \in Nat /\ Len(t) = Len(r) + 1 /\ \A i \in 1..Len(r) : t[i] = r[i]
      /\ t[Len(r) + 1] = n /\ Range(t) = Range(r) \union {n}
  BY AppendList
<1>2. \A i \in 1..Len(q) : q[i] # n
  BY ListFacts
<1> HIDE DEF t
<1>3. \A i \in 1..Len(t) : i \in 1..Len(r) \/ t[i] = n
  BY <1>1
<1>4. ASSUME NEW i \in 1..Len(q), NEW j \in 1..Len(q), i < j
      PROVE  Before(t, q[i], q[j]) /\ (q[i] \in Range(d) => q[j] \notin Range(t))
  BY <1>1, <1>2, <1>3, <1>4 DEF Sequenced, Before
<1>5. QED
  BY <1>4 DEF Sequenced, t

\* The first one of those that are left runs.
LEMMA SequencedHead ==
  ASSUME NEW S, NEW d \in Seq(S), d # << >>, NEW q \in Seq(S), NEW r \in Seq(S),
         Queued(d, q), Sequenced(d, q, r), Head(d) \notin Range(r)
  PROVE  Sequenced(d, q, Append(r, Head(d)))
<1> DEFINE t == Append(r, Head(d))
           n == Head(d)
<1>0. Head(d) \in S
  OBVIOUS
<1>1. /\ Len(r) \in Nat /\ Len(t) = Len(r) + 1 /\ \A i \in 1..Len(r) : t[i] = r[i]
      /\ t[Len(r) + 1] = n /\ Range(t) = Range(r) \union {n}
      /\ \A i \in 1..Len(r) : r[i] \in Range(r)
  BY <1>0, AppendList, ListFacts
<1>2. /\ Len(d) \in Nat \ {0} /\ DOMAIN d = 1..Len(d) /\ d[1] = n /\ n \in Range(d)
      /\ \A e \in Range(d) : \E i \in 1..Len(d) : d[i] = e
      /\ DOMAIN q = 1..Len(q) /\ Len(q) \in Nat
  BY ListFacts
<1> HIDE DEF t, n
<1>3. ASSUME NEW i \in 1..Len(q), NEW j \in 1..Len(q), i < j, q[j] = n
      PROVE  q[i] \notin Range(d)
  <2> SUFFICES ASSUME q[i] \in Range(d)
               PROVE  FALSE
    OBVIOUS
  <2>1. PICK a \in 1..Len(d) : d[a] = q[i]
    BY <1>2
  <2>2. q[i] # q[j]
    BY <1>2, <1>3 DEF Queued, IsInjective
  <2>3. 1 \in DOMAIN d /\ a \in DOMAIN d /\ 1 < a
    BY <1>2, <1>3, <2>1, <2>2
  <2>4. PICK c \in DOMAIN q, e \in DOMAIN q : c < e /\ q[c] = d[1] /\ q[e] = d[a]
    BY <2>3 DEF Queued, Thinned
  <2>5. c = j /\ e = i
    BY <1>2, <1>3, <2>1, <2>4 DEF Queued, IsInjective
  <2>6. QED
    BY <1>2, <1>3, <2>4, <2>5
<1>4. ASSUME NEW i \in 1..Len(q), NEW j \in 1..Len(q), i < j
      PROVE  Before(t, q[i], q[j]) /\ (q[i] \in Range(d) => q[j] \notin Range(t))
  <2>0. q[i] # q[j]
    <3>1. IsInjective(q) /\ i \in DOMAIN q /\ j \in DOMAIN q /\ i # j
      BY <1>2, <1>4 DEF Queued
    <3>2. QED
      BY <3>1 DEF IsInjective
  <2>1. Before(r, q[i], q[j]) /\ (q[i] \in Range(d) => q[j] \notin Range(r))
    BY <1>4 DEF Sequenced
  <2>2. q[i] \in Range(d) => q[j] \notin Range(t)
    BY <1>1, <1>3, <1>4, <2>1
  <2>3. ASSUME NEW a \in 1..Len(t), NEW b \in 1..Len(t), t[a] = q[i], t[b] = q[j]
        PROVE  a < b
    <3>1. b \in 1..Len(r) \/ b = Len(r) + 1
      BY <1>1
    <3>2. a \in 1..Len(r) \/ (a = Len(r) + 1 /\ q[i] = n)
      BY <1>1, <2>3
    <3>3. q[i] # q[j]
      BY <2>0
    <3>4. CASE a \in 1..Len(r) /\ b \in 1..Len(r)
      BY <1>1, <2>1, <2>3, <3>4 DEF Before
    <3>5. CASE a \in 1..Len(r) /\ b = Len(r) + 1
      BY <1>1, <3>5
    <3>6. CASE a = Len(r) + 1 /\ q[i] = n
      <4>1. b \in 1..Len(r) /\ q[j] = r[b]
        BY <1>1, <2>3, <3>1, <3>3, <3>6
      <4>2. q[j] \in Range(r) /\ q[i] \in Range(d)
        BY <1>1, <1>2, <3>6, <4>1
      <4>3. QED
        BY <2>1, <4>2
    <3>7. QED
      BY <3>1, <3>2, <3>4, <3>5, <3>6
  <2>4. QED
    BY <2>2, <2>3 DEF Before
<1>5. QED
  BY <1>4 DEF Sequenced, t, n

\* A script is queued that has not run.
LEMMA SequencedAppend ==
  ASSUME NEW S, NEW d \in Seq(S), NEW q \in Seq(S), NEW r \in Seq(S), Sequenced(d, q, r),
         NEW n \in S, n \notin Range(q), n \notin Range(r)
  PROVE  Sequenced(Append(d, n), Append(q, n), r)
<1> DEFINE u == Append(d, n)
           v == Append(q, n)
<1>1. Range(u) = Range(d) \union {n}
  BY AppendList
<1>2. /\ Len(q) \in Nat /\ Len(v) = Len(q) + 1 /\ \A i \in 1..Len(q) : v[i] = q[i]
      /\ v[Len(q) + 1] = n /\ \A i \in 1..Len(q) : q[i] \in Range(q)
  BY AppendList, ListFacts
<1>3. \A i \in 1..Len(r) : r[i] # n
  BY ListFacts
<1> HIDE DEF u, v
<1>4. ASSUME NEW i \in 1..Len(v), NEW j \in 1..Len(v), i < j
      PROVE  Before(r, v[i], v[j]) /\ (v[i] \in Range(u) => v[j] \notin Range(r))
  <2>1. i \in 1..Len(q) /\ v[i] = q[i] /\ v[i] # n
    BY <1>2, <1>4
  <2>2. CASE j \in 1..Len(q)
    BY <1>1, <1>2, <1>4, <2>1, <2>2 DEF Sequenced
  <2>3. CASE j \notin 1..Len(q)
    <3>1. v[j] = n
      BY <1>2, <2>3
    <3>2. QED
      BY <1>3, <3>1 DEF Before
  <2>4. QED
    BY <2>2, <2>3
<1>5. QED
  BY <1>4 DEF Sequenced, u, v
-----------------------------------------------------------------------------
(* What the manager's lists hold, and what each operation does to them.      *)

Statuses ==
  /\ \A n \in asyncs : st[n] = "loading"
  /\ \A n \in Range(readys) \union Range(ran) : st[n] = "loaded"
  /\ \A n \in Range(defers) : st[n] \in {"loading", "loaded"}
  /\ \A n \in Range(queued) : st[n] # "idle"

Apart ==
  /\ \A n \in Range(queued) : n \notin asyncs /\ n \notin Range(readys)
  /\ \A n \in Range(readys) : n \notin Range(ran)

Listed ==
  /\ Queued(defers, queued) /\ Sequenced(defers, queued, ran)
  /\ IsInjective(ran) /\ IsInjective(readys)

Waited ==
  \A n \in Range(queued) : n \in Range(defers) \/ n \in Range(ran) \/ st[n] = "failed"

ListInv == Statuses /\ Apart /\ Listed /\ Waited

LEMMA SameLists ==
  ASSUME ListInv, UNCHANGED <<st, asyncs, defers, readys, queued, ran>>
  PROVE  ListInv'
  BY DEF ListInv, Statuses, Apart, Listed, Waited

LEMMA ScriptArrives ==
  ASSUME ListTypes, ListInv, NEW n \in Nodes, st[n] = "loading",
         st' = [st EXCEPT ![n] = "loaded"], asyncs' = asyncs \ {n},
         readys' = IF n \in asyncs THEN Append(readys, n) ELSE readys,
         UNCHANGED <<defers, queued, ran>>
  PROVE  ListInv'
<1>1. n \notin Range(readys) /\ n \notin Range(ran)
  BY DEF ListInv, Statuses
<1>2. IsInjective(readys') /\ Range(readys') = IF n \in asyncs THEN Range(readys) \union {n}
                                                ELSE Range(readys)
  <2>1. readys \in Seq(Nodes) /\ IsInjective(readys)
    BY DEF ListTypes, ListInv, Listed
  <2>2. IsInjective(Append(readys, n)) /\ Range(Append(readys, n)) = Range(readys) \union {n}
    BY <1>1, <2>1, AppendList
  <2>3. QED
    BY <2>1, <2>2
<1>3. n \in asyncs => n \notin Range(queued)
  BY DEF ListInv, Apart
<1>4. \A m \in Nodes : st'[m] = IF m = n THEN "loaded" ELSE st[m]
  BY DEF ListTypes
<1>5. /\ Range(readys) \subseteq Nodes /\ Range(ran) \subseteq Nodes /\ Range(defers) \subseteq Nodes
      /\ Range(queued) \subseteq Nodes /\ asyncs \subseteq Nodes
  BY ListFacts DEF ListTypes
<1>6. Statuses'
  BY <1>2, <1>4, <1>5 DEF ListInv, Statuses
<1>7. Apart'
  BY <1>1, <1>2, <1>3 DEF ListInv, Apart
<1>8. Listed'
  BY <1>2 DEF ListInv, Listed
<1>9. Waited'
  BY <1>4, <1>5 DEF ListInv, Waited
<1>10. QED
  BY <1>6, <1>7, <1>8, <1>9 DEF ListInv

LEMMA ScriptFails ==
  ASSUME ListTypes, ListInv, NEW n \in Nodes, st[n] = "loading",
         st' = [st EXCEPT ![n] = "failed"], asyncs' = asyncs \ {n},
         defers' = Unlinked(defers, n), UNCHANGED <<readys, queued, ran>>
  PROVE  ListInv'
<1>1. n \notin Range(readys) /\ n \notin Range(ran)
  BY DEF ListInv, Statuses
<1>2. Queued(defers', queued) /\ Range(defers') = Range(defers) \ {n}
  BY QueueUnlinked DEF ListTypes, ListInv, Listed
<1>3. Sequenced(defers', queued, ran)
  BY <1>2, SequencedThin DEF ListInv, Listed
<1>4. \A m \in Nodes : st'[m] = IF m = n THEN "failed" ELSE st[m]
  BY DEF ListTypes
<1>5. /\ Range(readys) \subseteq Nodes /\ Range(ran) \subseteq Nodes /\ Range(defers) \subseteq Nodes
      /\ Range(queued) \subseteq Nodes /\ asyncs \subseteq Nodes
  BY ListFacts DEF ListTypes
<1>6. Statuses'
  BY <1>1, <1>2, <1>4, <1>5 DEF ListInv, Statuses
<1>7. Apart'
  BY DEF ListInv, Apart
<1>8. Listed'
  BY <1>2, <1>3 DEF ListInv, Listed
<1>9. Waited'
  BY <1>2, <1>4, <1>5 DEF ListInv, Waited
<1>10. QED
  BY <1>6, <1>7, <1>8, <1>9 DEF ListInv

\* A script that is in no list begins to load, or its blocking request fails.
LEMMA ScriptIsMarked ==
  ASSUME ListTypes, ListInv, NEW n \in Nodes, st[n] \in {"idle", "loading"},
         n \notin asyncs, n \notin Range(queued),
         NEW s \in {"loading", "failed"}, st' = [st EXCEPT ![n] = s],
         UNCHANGED <<asyncs, defers, readys, queued, ran>>
  PROVE  ListInv'
<1>1. n \notin Range(readys) /\ n \notin Range(ran) /\ n \notin Range(defers)
  BY DEF ListInv, Statuses, Listed, Queued
<1>2. \A m \in Nodes : m # n => st'[m] = st[m]
  BY DEF ListTypes
<1>3. /\ Range(readys) \subseteq Nodes /\ Range(ran) \subseteq Nodes /\ Range(defers) \subseteq Nodes
      /\ Range(queued) \subseteq Nodes /\ asyncs \subseteq Nodes
  BY ListFacts DEF ListTypes
<1>4. Statuses'
  BY <1>1, <1>2, <1>3 DEF ListInv, Statuses
<1>5. Waited'
  BY <1>2, <1>3 DEF ListInv, Waited
<1>6. QED
  BY <1>4, <1>5 DEF ListInv, Apart, Listed

\* A script runs that is in no list.
LEMMA ScriptRuns ==
  ASSUME ListTypes, ListInv, NEW n \in Nodes, st[n] \in {"idle", "loading"},
         n \notin asyncs, n \notin Range(queued),
         st' = [st EXCEPT ![n] = "loaded"], ran' = Append(ran, n),
         UNCHANGED <<asyncs, defers, readys, queued>>
  PROVE  ListInv'
<1>1. n \notin Range(readys) /\ n \notin Range(ran) /\ n \notin Range(defers)
  BY DEF ListInv, Statuses, Listed, Queued
<1>2. Range(ran') = Range(ran) \union {n} /\ IsInjective(ran')
  BY <1>1, AppendList DEF ListTypes, ListInv, Listed
<1>3. \A m \in Nodes : st'[m] = IF m = n THEN "loaded" ELSE st[m]
  BY DEF ListTypes
<1>4. /\ Range(readys) \subseteq Nodes /\ Range(ran) \subseteq Nodes /\ Range(defers) \subseteq Nodes
      /\ Range(queued) \subseteq Nodes /\ asyncs \subseteq Nodes
  BY ListFacts DEF ListTypes
<1>5. Statuses'
  BY <1>1, <1>2, <1>3, <1>4 DEF ListInv, Statuses
<1>6. Apart'
  BY <1>1, <1>2 DEF ListInv, Apart
<1>7. Sequenced(defers, queued, ran')
  BY SequencedOther DEF ListTypes, ListInv, Listed
<1>8. Listed'
  BY <1>2, <1>7 DEF ListInv, Listed
<1>9. Waited'
  BY <1>2, <1>3, <1>4 DEF ListInv, Waited
<1>10. QED
  BY <1>5, <1>6, <1>8, <1>9 DEF ListInv

LEMMA ReadyRuns ==
  ASSUME ListTypes, ListInv, readys # << >>, readys' = Tail(readys),
         ran' = Append(ran, Head(readys)), UNCHANGED <<st, asyncs, defers, queued>>
  PROVE  ListInv'
<1> DEFINE n == Head(readys)
<1>1. /\ IsInjective(readys') /\ n \in Range(readys) /\ Range(readys') = Range(readys) \ {n}
  BY TailList DEF ListTypes, ListInv, Listed
<1>2. n \in Nodes /\ n \notin Range(ran) /\ n \notin Range(queued) /\ st[n] = "loaded"
  BY <1>1, ListFacts DEF ListTypes, ListInv, Apart, Statuses
<1> HIDE DEF n
<1>3. ran' = Append(ran, n)
  BY DEF n
<1>4. Range(ran') = Range(ran) \union {n} /\ IsInjective(ran')
  BY <1>2, <1>3, AppendList DEF ListTypes, ListInv, Listed
<1>5. Sequenced(defers, queued, ran')
  BY <1>2, <1>3, SequencedOther DEF ListTypes, ListInv, Listed
<1>6. Statuses'
  BY <1>1, <1>2, <1>4 DEF ListInv, Statuses
<1>7. Apart'
  BY <1>1, <1>4 DEF ListInv, Apart
<1>8. Listed'
  BY <1>1, <1>4, <1>5 DEF ListInv, Listed
<1>9. Waited'
  BY <1>4 DEF ListInv, Waited
<1>10. QED
  BY <1>6, <1>7, <1>8, <1>9 DEF ListInv

LEMMA DeferredRuns ==
  ASSUME ListTypes, ListInv, defers # << >>, Head(defers) \notin Range(ran),
         st[Head(defers)] = "loaded", ran' = Append(ran, Head(defers)),
         UNCHANGED <<st, asyncs, defers, readys, queued>>
  PROVE  ListInv'
<1> DEFINE n == Head(defers)
<1>1. n \in Range(defers) /\ n \in Nodes /\ n \in Range(queued)
  BY TailList, ListFacts DEF ListTypes, ListInv, Listed, Queued
<1>2. Sequenced(defers, queued, ran')
  BY SequencedHead DEF ListTypes, ListInv, Listed
<1> HIDE DEF n
<1>3. ran' = Append(ran, n) /\ n \notin Range(ran) /\ st[n] = "loaded"
  BY DEF n
<1>4. Range(ran') = Range(ran) \union {n} /\ IsInjective(ran')
  BY <1>1, <1>3, AppendList DEF ListTypes, ListInv, Listed
<1>5. Statuses'
  BY <1>3, <1>4 DEF ListInv, Statuses
<1>6. Apart'
  BY <1>1, <1>4 DEF ListInv, Apart
<1>7. Listed'
  BY <1>2, <1>4 DEF ListInv, Listed
<1>8. Waited'
  BY <1>4 DEF ListInv, Waited
<1>9. QED
  BY <1>5, <1>6, <1>7, <1>8 DEF ListInv

\* A deferred script has run and is removed.
LEMMA DeferredLeaves ==
  ASSUME ListTypes, ListInv, defers # << >>, Head(defers) \in Range(ran),
         defers' = Tail(defers), UNCHANGED <<st, asyncs, readys, queued, ran>>
  PROVE  ListInv'
<1>1. Queued(defers', queued) /\ Range(defers') = Range(defers) \ {Head(defers)}
  BY QueueTail DEF ListTypes, ListInv, Listed
<1>2. Sequenced(defers', queued, ran)
  BY <1>1, SequencedThin DEF ListInv, Listed
<1>3. Statuses'
  BY <1>1 DEF ListInv, Statuses
<1>4. Listed'
  BY <1>1, <1>2 DEF ListInv, Listed
<1>5. Waited'
  BY <1>1 DEF ListInv, Waited
<1>6. QED
  BY <1>3, <1>4, <1>5 DEF ListInv, Apart

LEMMA ScriptQueued ==
  ASSUME ListTypes, ListInv, NEW n \in Nodes, st[n] = "idle",
         NEW s \in {"loading", "loaded"}, st' = [st EXCEPT ![n] = s], Queue(n), UNCHANGED ran
  PROVE  ListInv'
<1>1. n \notin Range(readys) /\ n \notin Range(ran) /\ n \notin Range(queued) /\ n \notin asyncs
  BY DEF ListInv, Statuses
<1>2. /\ defers' = Append(defers, n) /\ queued' = Append(queued, n)
      /\ UNCHANGED <<asyncs, readys>>
  BY DEF Queue
<1>3. Range(defers') = Range(defers) \union {n} /\ Range(queued') = Range(queued) \union {n}
  BY <1>2, AppendList DEF ListTypes
<1>4. Queued(defers', queued')
  BY <1>1, <1>2, QueueAppend DEF ListTypes, ListInv, Listed
<1>5. Sequenced(defers', queued', ran)
  BY <1>1, <1>2, SequencedAppend DEF ListTypes, ListInv, Listed
<1>6. \A m \in Nodes : st'[m] = IF m = n THEN s ELSE st[m]
  BY DEF ListTypes
<1>7. /\ Range(readys) \subseteq Nodes /\ Range(ran) \subseteq Nodes /\ Range(defers) \subseteq Nodes
      /\ Range(queued) \subseteq Nodes /\ asyncs \subseteq Nodes
  BY ListFacts DEF ListTypes
<1>8. Statuses'
  BY <1>1, <1>2, <1>3, <1>6, <1>7 DEF ListInv, Statuses
<1>9. Apart'
  BY <1>1, <1>2, <1>3 DEF ListInv, Apart
<1>10. Listed'
  BY <1>2, <1>4, <1>5 DEF ListInv, Listed
<1>11. Waited'
  BY <1>3, <1>6, <1>7 DEF ListInv, Waited
<1>12. QED
  BY <1>8, <1>9, <1>10, <1>11 DEF ListInv

LEMMA AsyncLoads ==
  ASSUME ListTypes, ListInv, NEW n \in Nodes, st[n] = "idle",
         st' = [st EXCEPT ![n] = "loading"], asyncs' = asyncs \union {n},
         UNCHANGED <<defers, readys, queued, ran>>
  PROVE  ListInv'
<1>1. n \notin Range(readys) /\ n \notin Range(ran) /\ n \notin Range(queued)
      /\ n \notin Range(defers)
  BY DEF ListInv, Statuses
<1>2. \A m \in Nodes : st'[m] = IF m = n THEN "loading" ELSE st[m]
  BY DEF ListTypes
<1>3. /\ Range(readys) \subseteq Nodes /\ Range(ran) \subseteq Nodes /\ Range(defers) \subseteq Nodes
      /\ Range(queued) \subseteq Nodes /\ asyncs \subseteq Nodes
  BY ListFacts DEF ListTypes
<1>4. Statuses'
  BY <1>1, <1>2, <1>3 DEF ListInv, Statuses
<1>5. Apart'
  BY <1>1 DEF ListInv, Apart
<1>6. Waited'
  BY <1>1, <1>2, <1>3 DEF ListInv, Waited
<1>7. QED
  BY <1>4, <1>5, <1>6 DEF ListInv, Listed
-----------------------------------------------------------------------------
(* Blocking scripts that load, and the drain of defer_scripts.               *)

Stays(s, t, L) == \A i \in 1..Len(s) : s[i].at \in L => i \in 1..Len(t) /\ t[i] = s[i]

LEMMA StaysPush ==
  ASSUME NEW s \in Seq(Frame), NEW c, NEW L
  PROVE  Stays(s, Append(s, c), L)
<1>1. s \in Seq(Frame \union {c}) /\ c \in Frame \union {c}
  OBVIOUS
<1> DEFINE t == Append(s, c)
<1>2. Len(s) \in Nat /\ Len(t) = Len(s) + 1 /\ \A i \in 1..Len(s) : t[i] = s[i]
  BY <1>1
<1> HIDE DEF t
<1>3. Stays(s, t, L)
  BY <1>2 DEF Stays
<1>4. QED
  BY <1>3 DEF t

LEMMA StaysTrans ==
  ASSUME NEW s, NEW t, NEW u, NEW L, Stays(s, t, L), Stays(t, u, L)
  PROVE  Stays(s, u, L)
  BY DEF Stays

LEMMA KeptStays ==
  ASSUME NEW s, NEW t, NEW L, Kept(s, t, L), NEW M, M \subseteq L
  PROVE  Kept(s, t, M) /\ Stays(s, t, M)
  BY DEF Kept, Stays

\* The drain of defer_scripts, and the script that runs on it, are left alone.
DrainStays ==
  /\ stack # << >> => Top.at # "defers"
  /\ Stays(stack, stack', {"script", "defers"})
  /\ Kept(stack, stack', {"defers"})

LEMMA KeptDrainStays ==
  ASSUME stack # << >> => Top.at # "defers", Kept(stack, stack', {"script", "defers"})
  PROVE  DrainStays
  BY KeptStays DEF DrainStays

\* A call is made above s, which is what is left of the calls.
LEMMA PushDrainStays ==
  ASSUME stack # << >> => Top.at # "defers",
         NEW s \in Seq(Frame), Kept(stack, s, {"script", "defers"}),
         stack' = s \/ \E c : c.at # "defers" /\ stack' = Append(s, c)
  PROVE  DrainStays
<1>1. CASE stack' = s
  BY <1>1, KeptDrainStays
<1>2. ASSUME NEW c, c.at # "defers", stack' = Append(s, c)
      PROVE  DrainStays
  <2>1. Stays(s, stack', {"script", "defers"}) /\ Kept(s, stack', {"defers"})
    BY <1>2, StaysPush, KeptPush
  <2>2. Stays(stack, s, {"script", "defers"}) /\ Kept(stack, s, {"defers"})
    BY KeptStays
  <2>3. QED
    BY <2>1, <2>2, StaysTrans, KeptTrans DEF DrainStays
<1>3. QED
  BY <1>1, <1>2

Around ==
  \/ \E n \in Nodes : \/ DoneCallback(n) \/ ErrorCallback(n) \/ ScriptRemoves(n)
                      \/ \E k \in Kinds : ParserAdds(n, k) \/ ScriptInserts(n, k)
  \/ ErrorReturns \/ SyncReturns \/ WaitForImport \/ WaitReturns
  \/ RunReady \/ NotYet \/ TailHook \/ CodeReturns \/ Task \/ ParseReturns

LEMMA StepsAround ==
  ASSUME Next
  PROVE  \/ Around \/ Opening \/ Constructing \/ WriteInline \/ FragmentReturns
         \/ ScriptReturns \/ RunDeferred \/ NoDeferred
  BY StepsAre DEF RunsScripts, Around

LEMMA EvaluatePushes ==
  ASSUME NEW s, Evaluate(s)
  PROVE  stack' = s \/ \E c : c.at # "defers" /\ stack' = Append(s, c)
<1>1. Call("ready", None).at = "ready"
  BY CallFacts
<1>2. QED
  BY <1>1 DEF Evaluate

LEMMA AddPushes ==
  ASSUME NEW fromParser, NEW n, NEW k, AddFromElement(fromParser, n, k)
  PROVE  stack' = stack \/ \E c : c.at # "defers" /\ stack' = Append(stack, c)
<1>1. Call("sync", n).at = "sync" /\ Call("script", n).at = "script"
  BY CallFacts
<1>2. stack' \in {stack, Append(stack, Call("sync", n)), Append(stack, Call("script", n))}
  BY DEF AddFromElement, Add, Eval
<1>3. QED
  BY <1>1, <1>2

\* What a step leaves of the calls, and what it puts above them.
LEMMA StepsStay ==
  ASSUME Stacked(stack), Around \/ Opening \/ Constructing \/ WriteInline \/ FragmentReturns
  PROVE  DrainStays
<1> DEFINE L == {"script", "defers"}
           Above(s) == stack' = s \/ \E c : c.at # "defers" /\ stack' = Append(s, c)
<1>0. /\ Kept(stack, stack, L) /\ stack \in Seq(Frame)
      /\ stack # << >> /\ Top.at \notin L => Kept(stack, Below, L) /\ Below \in Seq(Frame)
  BY KeptSame, KeptPop, PopFrame DEF Stacked
<1>1. ASSUME stack # << >> => Top.at # "defers", Above(stack)
      PROVE  DrainStays
  BY ONLY <1>0, <1>1, PushDrainStays
<1>2. ASSUME stack # << >>, Top.at \notin L, Above(Below)
      PROVE  DrainStays
  BY ONLY <1>0, <1>2, PushDrainStays
<1>3. ASSUME NEW at, at # "defers", NEW n
      PROVE  /\ stack' = Append(stack, Call(at, n)) => Above(stack)
             /\ stack' = Append(Below, Call(at, n)) => Above(Below)
  BY <1>3, CallFacts
<1>4. ASSUME NEW s PROVE Evaluate(s) => Above(s)
  BY EvaluatePushes
<1>5. ASSUME NEW s PROVE DocumentIsComplete(s) => Above(s)
  <2>1. Call("event", None).at = "event"
    BY CallFacts
  <2>2. QED
    BY <2>1 DEF DocumentIsComplete
<1>6. ASSUME NEW f, NEW n, NEW k PROVE AddFromElement(f, n, k) => Above(stack)
  BY AddPushes
<1>7. \A n : stack' = Append(stack, Call("script", n)) => Above(stack)
  BY <1>3
<1> HIDE DEF Above
<1>8. ASSUME NEW n \in Nodes, DoneCallback(n) \/ ErrorCallback(n) \/ ScriptRemoves(n)
      PROVE  DrainStays
  <2>1. stack # << >> => Top.at # "defers"
    BY <1>8 DEF DoneCallback, ErrorCallback, ScriptRemoves, Ticking, At, Code
  <2>2. Above(stack)
    <3>1. CASE ScriptRemoves(n)
      BY <3>1 DEF ScriptRemoves, Above
    <3>2. QED
      BY <1>3, <1>4, <1>8, <3>1 DEF DoneCallback, ErrorCallback
  <2>3. QED
    BY <1>1, <2>1, <2>2
<1>9. ASSUME NEW n \in Nodes, NEW k \in Kinds, ParserAdds(n, k) \/ ScriptInserts(n, k)
      PROVE  DrainStays
  BY <1>1, <1>6, <1>9 DEF ParserAdds, ScriptInserts, At, Code, Parsers
<1>10. CASE ErrorReturns \/ ParseReturns
  BY <1>2, <1>4, <1>10 DEF ErrorReturns, ParseReturns, At
<1>11. CASE SyncReturns
  <2>1. stack # << >> /\ Top.at \notin L /\ Top \in Frame
    BY <1>11, PopFrame DEF SyncReturns, At
  <2>3. Above(Below)
    BY <1>11, SyncEnds DEF Above
  <2>4. QED
    BY <1>2, <2>1, <2>3
<1>12. CASE WaitForImport \/ Task \/ WriteToParser \/ Close \/ \E n \in Nodes : ParserConstructs(n)
  <2>1. stack # << >> => Top.at # "defers"
    BY <1>12 DEF WaitForImport, Task, WriteToParser, Close, ParserConstructs, Calls, At, Code, Parsers
  <2>2. Task => stack' = Append(stack, Call("task", None))
    BY DEF Task
  <2>3. Above(stack)
    BY <1>3, <1>12, <2>2 DEF WaitForImport, WriteToParser, Close, ParserConstructs
  <2>4. QED
    BY <1>1, <2>1, <2>3
<1>13. CASE WaitReturns \/ NotYet \/ CodeReturns \/ FeedReturns \/ FeedPanics \/ CloseReturns
             \/ ConstructorReturns \/ FragmentReturns
  <2>1. stack # << >> /\ Top.at \notin L /\ stack' = Below
    BY <1>13 DEF WaitReturns, NotYet, CodeReturns, FeedReturns, FeedPanics, CloseReturns,
       ConstructorReturns, FragmentReturns, EvaluateReturns, At
  <2>2. QED
    BY <1>2, <2>1 DEF Above
<1>14. CASE RunReady
  BY <1>1, <1>7, <1>14 DEF RunReady, Eval, At
<1>15. CASE TailHook
  <2>1. stack # << >> /\ Top.at \notin L
    BY <1>15 DEF TailHook, At
  <2>2. Above(stack) \/ stack' = Below
    BY <1>3, <1>5, <1>15 DEF TailHook, EvaluateReturns
  <2>3. QED
    BY <1>1, <1>2, <2>1, <2>2 DEF Above
<1>16. CASE Open
  BY <1>1, <1>16 DEF Open, Calls, At, Code, Above
<1>17. CASE WriteInline
  <2>1. PICK p : stack' = Append(stack, [Call("fragment", current) EXCEPT !.place = p])
    BY <1>17 DEF WriteInline
  <2>2. [Call("fragment", current) EXCEPT !.place = p].at = "fragment"
    BY DEF Call
  <2>3. Above(stack)
    BY <2>1, <2>2 DEF Above
  <2>4. QED
    BY <1>1, <1>17, <2>3 DEF WriteInline, Calls, At, Code
<1>18. CASE FinishReturns \/ CloseCompletes
  <2>1. stack # << >> /\ Top.at \notin L
    BY <1>18 DEF FinishReturns, CloseCompletes, At
  <2>2. PICK at \in {"closing", "closed"} : Evaluate(Phase(at)) \/ DocumentIsComplete(Phase(at))
    BY <1>18 DEF FinishReturns, CloseCompletes
  <2>3. Kept(stack, Phase(at), L) /\ Phase(at) \in Seq(Frame)
    BY <2>1, KeptPhase, PhaseTypes DEF Stacked
  <2>4. Above(Phase(at))
    BY <1>4, <1>5, <2>2
  <2> DEFINE s == Phase(at)
  <2>5. Kept(stack, s, L) /\ s \in Seq(Frame) /\ Above(s) /\ (stack # << >> => Top.at # "defers")
    BY <2>1, <2>3, <2>4
  <2> HIDE DEF s
  <2>6. QED
    BY ONLY <2>5, PushDrainStays DEF Above
<1>19. QED
  BY <1>8, <1>9, <1>10, <1>11, <1>12, <1>13, <1>14, <1>15, <1>16, <1>17, <1>18
  DEF Around, Opening, Constructing
-----------------------------------------------------------------------------
(* Every operation keeps the order of the scripts.                           *)

\* A deferred script that ran is the first one on the list, and the drain that
\* ran it is in progress and removes it.
Draining(s) ==
  \A n \in Range(defers) : n \in Range(ran) =>
    n = Head(defers) /\ \E i \in 1..Len(s) : i < Len(s) /\ s[i].at = "defers"

\* A blocking script that loads is in no list, and waited for once.
Syncing(s) ==
  \A i \in 1..Len(s) : s[i].at = "sync" =>
    /\ st[s[i].node] = "loading" /\ s[i].node \notin asyncs /\ s[i].node \notin Range(queued)
    /\ \A j \in 1..Len(s) : s[j].at = "sync" /\ s[j].node = s[i].node => i = j

LEMMA DrainKept ==
  ASSUME Stacked(stack), Stacked(stack'), DrainStays, Running(stack), Draining(stack),
         Range(ran) \subseteq Range(ran'),
         \A n \in Range(defers') : n \in Range(ran') => n \in Range(defers) /\ n \in Range(ran),
         defers # << >> /\ Head(defers) \in Range(ran) =>
           defers' # << >> /\ Head(defers') = Head(defers)
  PROVE  Running(stack)' /\ Draining(stack)'
<1>1. /\ Len(stack) \in Nat /\ Len(stack') \in Nat /\ Stays(stack, stack', {"script", "defers"})
      /\ Kept(stack, stack', {"defers"}) /\ (stack # << >> => Top.at # "defers")
  BY DEF Stacked, DrainStays
<1>2. ASSUME NEW i \in 1..Len(stack), stack[i].at = "defers"
      PROVE  /\ i < Len(stack) /\ i + 1 \in 1..Len(stack)
             /\ stack[i + 1].at = "script" /\ stack[i + 1].node = Head(defers)
             /\ defers # << >> /\ Head(defers) \in Range(ran)
             /\ i + 1 \in 1..Len(stack') /\ stack'[i + 1] = stack[i + 1]
             /\ i \in 1..Len(stack') /\ i < Len(stack') /\ stack'[i].at = "defers"
  <2>1. stack # << >>
    BY <1>1, <1>2
  <2>2. i < Len(stack) /\ i + 1 \in 1..Len(stack)
    BY <1>1, <1>2, <2>1 DEF Top
  <2>3. QED
    BY <1>1, <1>2, <2>2 DEF Running, Stays
<1>3. Running(stack)'
  <2>1. ASSUME NEW i \in 1..Len(stack'), stack'[i].at = "defers", i < Len(stack')
        PROVE  /\ stack'[i + 1].at = "script" /\ defers' # << >>
               /\ stack'[i + 1].node = Head(defers') /\ Head(defers') \in Range(ran')
    <3>1. i \in 1..Len(stack) /\ stack[i].at = "defers"
      BY <1>1, <2>1 DEF Kept
    <3>2. QED
      BY <1>2, <3>1
  <2>2. QED
    BY <2>1 DEF Running
<1>4. Draining(stack)'
  <2>1. ASSUME NEW n \in Range(defers'), n \in Range(ran')
        PROVE  n = Head(defers') /\ \E i \in 1..Len(stack') : i < Len(stack') /\ stack'[i].at = "defers"
    <3>1. n \in Range(defers) /\ n \in Range(ran)
      BY <2>1
    <3>2. n = Head(defers) /\ \E i \in 1..Len(stack) : i < Len(stack) /\ stack[i].at = "defers"
      BY <3>1 DEF Draining
    <3>3. QED
      BY <1>2, <3>1, <3>2
  <2>2. QED
    BY <2>1 DEF Draining
<1>5. QED
  BY <1>3, <1>4

LEMMA SyncsKept ==
  ASSUME Stacked(stack), Kept(stack, stack', {"sync"}), Syncing(stack),
         \A n \in Nodes : st[n] = "loading" /\ n \notin asyncs /\ n \notin Range(queued) =>
           st'[n] = "loading" /\ n \notin asyncs' /\ n \notin Range(queued')
  PROVE  Syncing(stack)'
<1>1. \A i \in 1..Len(stack) : stack[i].at = "sync" => stack[i].node \in Nodes
  BY FrameFacts DEF Stacked, Waiters
<1>2. QED
  BY <1>1 DEF Kept, Syncing

OrderInv == ListInv /\ Running(stack) /\ Draining(stack) /\ Syncing(stack)

\* The scripts on defer_scripts are queued ones, and those that ran are loaded.
LEMMA InOrder ==
  ASSUME OrderInv
  PROVE  /\ ListInv /\ Running(stack) /\ Draining(stack) /\ Syncing(stack)
         /\ \A n \in Range(defers) : n \in Range(queued) /\ st[n] \in {"loading", "loaded"}
         /\ \A n \in Range(ran) : st[n] = "loaded"
         /\ \A n \in asyncs : st[n] = "loading"
         /\ \A n \in Range(queued) : st[n] # "idle" /\ n \notin asyncs
         /\ IsInjective(defers)
  BY DEF OrderInv, ListInv, Statuses, Apart, Listed, Queued

LEMMA NothingOrdered ==
  ASSUME Stacked(stack), Stacked(stack'), OrderInv, DrainStays, Kept(stack, stack', {"sync"}),
         UNCHANGED <<st, asyncs, defers, readys, queued, ran>>
  PROVE  OrderInv'
<1>1. ListInv'
  BY SameLists DEF OrderInv
<1>2. Running(stack)' /\ Draining(stack)'
  BY DrainKept DEF OrderInv
<1>3. Syncing(stack)'
  BY SyncsKept DEF OrderInv
<1>4. QED
  BY <1>1, <1>2, <1>3 DEF OrderInv

LEMMA LoadingOrders ==
  ASSUME StackTypes, StackTypes', ListTypes, OrderInv, DrainStays, NEW n \in Nodes,
         DoneCallback(n) \/ ErrorCallback(n)
  PROVE  OrderInv'
<1>0. Stacked(stack) /\ Stacked(stack')
  BY DEF StackTypes
<1>1. /\ n \in asyncs \union Range(defers) /\ st[n] = "loading"
      /\ n \in asyncs \/ n \in Range(queued)
      /\ \A m \in Nodes : m # n => st'[m] = st[m]
      /\ asyncs' = asyncs \ {n} /\ UNCHANGED <<queued, ran>>
  BY InOrder DEF DoneCallback, ErrorCallback, past, ListTypes
<1>2. Kept(stack, stack', {"sync"})
  BY <1>0, CallKept, EvaluateKept DEF DoneCallback, ErrorCallback
<1>3. Syncing(stack)'
  BY <1>0, <1>1, <1>2, InOrder, SyncsKept
<1>4. CASE DoneCallback(n)
  <2>1. /\ st' = [st EXCEPT ![n] = "loaded"] /\ UNCHANGED <<defers, queued, ran>>
        /\ readys' = IF n \in asyncs THEN Append(readys, n) ELSE readys
    BY <1>4 DEF DoneCallback, past
  <2>2. ListInv'
    BY <1>1, <2>1, InOrder, ScriptArrives
  <2>3. Running(stack)' /\ Draining(stack)'
    BY <1>0, <2>1, InOrder, DrainKept
  <2>4. QED
    BY <1>3, <2>2, <2>3 DEF OrderInv
<1>5. CASE ErrorCallback(n)
  <2>1. /\ st' = [st EXCEPT ![n] = "failed"] /\ UNCHANGED <<readys, queued, ran>>
        /\ defers' = Unlinked(defers, n)
    BY <1>5 DEF ErrorCallback, past
  <2>2. ListInv'
    BY <1>1, <2>1, InOrder, ScriptFails
  <2>3. /\ Range(defers') \subseteq Range(defers)
        /\ defers # << >> /\ n # Head(defers) => defers' # << >> /\ Head(defers') = Head(defers)
    <3>1. defers \in Seq(Nodes) /\ IsInjective(defers)
      BY InOrder DEF ListTypes
    <3>2. QED
      BY <2>1, <3>1, UnlinkedList
  <2>4. Head(defers) \in Range(ran) => n # Head(defers)
    BY <1>1, InOrder
  <2>5. Running(stack)' /\ Draining(stack)'
    BY <1>0, <1>1, <2>3, <2>4, InOrder, DrainKept
  <2>6. QED
    BY <1>3, <2>2, <2>5 DEF OrderInv
<1>6. QED
  BY <1>4, <1>5

LEMMA SyncOrders ==
  ASSUME StackTypes, StackTypes', ListTypes, OrderInv, DrainStays, SyncReturns
  PROVE  OrderInv'
<1> DEFINE n == Top.node
           L == Len(stack)
<1>0. Stacked(stack) /\ Stacked(stack')
  BY DEF StackTypes
<1>1. /\ stack # << >> /\ Top = stack[L] /\ Top.at = "sync" /\ Top \in Frame
      /\ L \in Nat \ {0} /\ Len(Below) = L - 1 /\ Stacked(Below)
      /\ \A i \in 1..(L - 1) : Below[i] = stack[i]
  BY <1>0, PopFrame DEF SyncReturns, At
<1>2. /\ n \in Nodes /\ st[n] = "loading" /\ n \notin asyncs /\ n \notin Range(queued)
      /\ \A j \in 1..L : stack[j].at = "sync" /\ stack[j].node = n => j = L
  BY <1>1, InOrder, FrameFacts DEF Syncing, Waiters
<1>3. n \notin Range(defers)
  BY <1>2, InOrder
<1>4. UNCHANGED <<asyncs, defers, readys, queued>>
  BY DEF SyncReturns, lists, past
<1> HIDE DEF n
<1>5. Kept(Below, stack', {"sync"})
  <2>1. CASE stack' = Below
    BY <2>1, KeptSame
  <2>2. ASSUME NEW c, c.at \in {"script", "event"}, stack' = Append(Below, c)
        PROVE  Kept(Below, stack', {"sync"})
    BY <1>1, <2>2, KeptPush DEF Stacked
  <2>3. QED
    BY <1>0, <2>1, <2>2, SyncEnds
<1>6. \A m \in Nodes : m # n => st'[m] = st[m]
  BY DEF SyncReturns, ListTypes, n
<1>7. Syncing(stack)'
  <2>1. ASSUME NEW i \in 1..Len(stack'), stack'[i].at = "sync"
        PROVE  i \in 1..(L - 1) /\ stack'[i] = stack[i] /\ i \in 1..L
    BY <1>1, <1>5, <2>1 DEF Kept
  <2>2. ASSUME NEW i \in 1..L, i # L, stack[i].at = "sync"
        PROVE  stack[i].node \in Nodes /\ stack[i].node # n
    BY <1>0, <1>2, <2>2, FrameFacts DEF Waiters, Stacked
  <2>3. ASSUME NEW i \in 1..Len(stack'), stack'[i].at = "sync"
        PROVE  /\ st'[stack'[i].node] = "loading" /\ stack'[i].node \notin asyncs'
               /\ stack'[i].node \notin Range(queued')
               /\ \A j \in 1..Len(stack') :
                    stack'[j].at = "sync" /\ stack'[j].node = stack'[i].node => i = j
    <3>1. /\ i \in 1..L /\ i # L /\ stack'[i] = stack[i] /\ stack[i].at = "sync"
      BY <1>1, <2>1, <2>3
    <3>2. st'[stack[i].node] = st[stack[i].node]
      BY <1>6, <2>2, <3>1
    <3>3. QED
      BY <1>4, <2>1, <3>1, <3>2, InOrder DEF Syncing
  <2>4. QED
    BY <2>3 DEF Syncing
<1>8. CASE st' = [st EXCEPT ![n] = "loaded"] /\ ran' = Append(ran, n)
  <2>1. ListInv'
    BY <1>2, <1>4, <1>8, InOrder, ScriptRuns
  <2>2. Range(ran') = Range(ran) \union {n}
    BY <1>2, <1>8, AppendList DEF ListTypes
  <2>3. Running(stack)' /\ Draining(stack)'
    BY <1>0, <1>3, <1>4, <2>2, InOrder, DrainKept
  <2>4. QED
    BY <1>7, <2>1, <2>3 DEF OrderInv
<1>9. CASE st' = [st EXCEPT ![n] = "failed"] /\ UNCHANGED ran
  <2>1. ListInv'
    BY <1>2, <1>4, <1>9, InOrder, ScriptIsMarked
  <2>2. Running(stack)' /\ Draining(stack)'
    BY <1>0, <1>4, <1>9, InOrder, DrainKept
  <2>3. QED
    BY <1>7, <2>1, <2>2 DEF OrderInv
<1>10. QED
  BY <1>8, <1>9 DEF SyncReturns, n

LEMMA ReadyOrders ==
  ASSUME StackTypes, StackTypes', ListTypes, OrderInv, DrainStays, RunReady
  PROVE  OrderInv'
<1> DEFINE n == Head(readys)
<1>0. Stacked(stack) /\ Stacked(stack')
  BY DEF StackTypes
<1>1. /\ readys # << >> /\ readys' = Tail(readys) /\ ran' = Append(ran, n)
      /\ UNCHANGED <<st, asyncs, defers, queued>> /\ Eval(stack, n)
  BY DEF RunReady, Eval, past
<1>2. ListInv'
  BY <1>1, InOrder, ReadyRuns
<1>3. n \in Nodes /\ n \in Range(readys)
  BY <1>1, ListFacts DEF ListTypes, Range
<1>4. n \notin Range(defers)
  BY <1>3, InOrder DEF OrderInv, ListInv, Apart
<1> HIDE DEF n
<1>5. Range(ran') = Range(ran) \union {n}
  BY <1>1, <1>3, AppendList DEF ListTypes
<1>6. Running(stack)' /\ Draining(stack)'
  BY <1>0, <1>1, <1>4, <1>5, InOrder, DrainKept
<1>7. Syncing(stack)'
  <2>1. Kept(stack, stack', {"sync"})
    BY <1>0, <1>1, EvalKept
  <2>2. QED
    BY <1>0, <1>1, <2>1, InOrder, SyncsKept
<1>8. QED
  BY <1>2, <1>6, <1>7 DEF OrderInv

LEMMA AddOrders ==
  ASSUME StackTypes, StackTypes', ListTypes, OrderInv, DrainStays, NEW n \in Nodes,
         NEW fromParser \in BOOLEAN, NEW k \in Kinds, AddFromElement(fromParser, n, k)
  PROVE  OrderInv'
<1>0. Stacked(stack) /\ Stacked(stack')
  BY DEF StackTypes
<1>1. CASE k \notin Scripts \/ Started(n)
  <2>1. UNCHANGED <<st, stack, asyncs, defers, readys, queued, ran>>
    BY <1>1 DEF AddFromElement, lists
  <2>2. Kept(stack, stack', {"sync"})
    BY <2>1, KeptSame
  <2>3. QED
    BY <1>0, <2>1, <2>2, NothingOrdered
<1>2. CASE ~(k \notin Scripts \/ Started(n))
  <2> DEFINE waits == k = "src" /\ fromParser
             queue == k = "defer" \/ (k = "module" /\ ~static)
             runs == k = "inline" \/ (k = "module" /\ static)
             loads == k = "async" \/ (k = "src" /\ ~fromParser)
             s == IF k \in {"inline", "module"} THEN "loaded" ELSE "loading"
  <2>1. Add(fromParser, n, k) /\ st[n] = "idle"
    BY <1>2 DEF AddFromElement, Started
  <2>2. k \in Scripts /\ (waits \/ queue \/ runs \/ loads)
    BY <1>2, <1>0 DEF Scripts, Kinds
  <2>3. /\ st' = [st EXCEPT ![n] = s]
        /\ runs => stack' = Append(stack, Call("script", n)) /\ ran' = Append(ran, n)
        /\ ~runs => /\ stack' = IF waits THEN Append(stack, Call("sync", n)) ELSE stack
                    /\ UNCHANGED ran
        /\ queue => Queue(n)
        /\ ~queue => /\ UNCHANGED <<defers, readys, queued>>
                     /\ asyncs' = IF loads THEN asyncs \union {n} ELSE asyncs
    BY <2>1 DEF Add, Eval
  <2>4. /\ n \notin asyncs /\ n \notin Range(queued) /\ n \notin Range(defers)
        /\ n \notin Range(ran)
    BY <2>1, InOrder
  <2>5. /\ waits => ~queue /\ ~runs /\ ~loads /\ s = "loading"
        /\ queue => ~runs /\ ~loads
        /\ runs => ~loads /\ s = "loaded"
        /\ loads => s = "loading"
    OBVIOUS
  <2>6. /\ s \in {"loading", "loaded"} /\ \A m \in Nodes : m # n => st'[m] = st[m]
        /\ s = "loading" => st'[n] = "loading"
    BY <2>3 DEF ListTypes
  <2> HIDE DEF waits, queue, runs, loads, s
  <2>7. CASE waits
    <3>1. /\ st' = [st EXCEPT ![n] = "loading"] /\ UNCHANGED <<asyncs, defers, readys, queued, ran>>
          /\ stack' = Append(stack, Call("sync", n))
      BY <2>3, <2>5, <2>7
    <3>2. ListInv'
      BY <2>1, <2>4, <3>1, InOrder, ScriptIsMarked
    <3>3. Running(stack)' /\ Draining(stack)'
      BY <1>0, <3>1, InOrder, DrainKept
    <3> DEFINE c == Call("sync", n)
    <3>4. c.at = "sync" /\ c.node = n /\ c \in Frame
      <4>1. FlagTypes /\ "sync" \in Places /\ n \in Optional
        BY DEF StackTypes, Places, Busy, Waiters, Optional
      <4>2. Call("sync", n) \in Frame
        BY <4>1, MakeFrame
      <4>3. QED
        BY <4>2, CallFacts
    <3> HIDE DEF c
    <3>5. /\ Len(stack) \in Nat /\ Len(stack') = Len(stack) + 1
          /\ \A i \in 1..Len(stack) : stack'[i] = stack[i]
          /\ stack'[Len(stack) + 1] = c
      BY <1>0, <3>1, <3>4, PushFrame DEF Stacked, c
    <3>6. \A i \in 1..Len(stack) : stack[i].at = "sync" => stack[i].node \in Nodes /\ stack[i].node # n
      BY <1>0, <2>1, InOrder, FrameFacts DEF Stacked, Waiters, Syncing
    <3>7. ASSUME NEW i \in 1..Len(stack'), stack'[i].at = "sync"
          PROVE  /\ st'[stack'[i].node] = "loading" /\ stack'[i].node \notin asyncs
                 /\ stack'[i].node \notin Range(queued)
                 /\ \A j \in 1..Len(stack') :
                      stack'[j].at = "sync" /\ stack'[j].node = stack'[i].node => i = j
      <4>1. CASE i \in 1..Len(stack)
        <5>1. stack'[i] = stack[i] /\ stack[i].node # n /\ stack[i].node \in Nodes
          BY <3>5, <3>6, <3>7, <4>1
        <5>2. QED
          BY <2>6, <3>4, <3>5, <3>7, <4>1, <5>1, InOrder DEF Syncing
      <4>2. CASE i = Len(stack) + 1
        BY <2>4, <2>5, <2>6, <2>7, <3>4, <3>5, <3>6, <4>2
      <4>3. QED
        BY <3>5, <4>1, <4>2
    <3>8. Syncing(stack)'
      BY <3>1, <3>7 DEF Syncing
    <3>9. QED
      BY <3>2, <3>3, <3>8 DEF OrderInv
  <2>8. CASE ~waits
    <3>1. Kept(stack, stack', {"sync"})
      <4>1. CASE runs
        BY <1>0, <2>3, <4>1, CallKept
      <4>2. QED
        BY <2>3, <2>8, <4>1, KeptSame
    <3>2. /\ queue => /\ defers' = Append(defers, n) /\ queued' = Append(queued, n)
                      /\ UNCHANGED asyncs
          /\ Range(Append(defers, n)) = Range(defers) \union {n}
          /\ Range(Append(queued, n)) = Range(queued) \union {n}
          /\ Range(Append(ran, n)) = Range(ran) \union {n}
      BY <2>3, AppendList DEF Queue, ListTypes
    <3>3. Syncing(stack)'
      <4>1. ASSUME NEW m \in Nodes, st[m] = "loading", m \notin asyncs, m \notin Range(queued)
            PROVE  st'[m] = "loading" /\ m \notin asyncs' /\ m \notin Range(queued')
        BY <2>1, <2>3, <2>6, <3>2, <4>1
      <4>2. QED
        BY <1>0, <3>1, <4>1, InOrder, SyncsKept
    <3>4. CASE runs
      <4>1. ListInv'
        BY <2>1, <2>3, <2>4, <2>5, <3>4, InOrder, ScriptRuns
      <4>2. Running(stack)' /\ Draining(stack)'
        BY <1>0, <2>3, <2>4, <2>5, <3>2, <3>4, InOrder, DrainKept
      <4>3. QED
        BY <3>3, <4>1, <4>2 DEF OrderInv
    <3>5. CASE queue
      <4>1. ListInv'
        BY <2>1, <2>3, <2>5, <2>6, <3>5, InOrder, ScriptQueued
      <4>2. defers # << >> => defers' # << >> /\ Head(defers') = Head(defers)
        <5>1. defers' = Append(defers, n) /\ defers \in Seq(Nodes)
          BY <3>2, <3>5 DEF ListTypes
        <5>2. \A d \in Seq(Nodes) : Append(d, n) # << >> /\ (d # << >> => Head(Append(d, n)) = Head(d))
          OBVIOUS
        <5>3. QED
          BY <5>1, <5>2
      <4>3. Running(stack)' /\ Draining(stack)'
        BY <1>0, <2>3, <2>4, <2>5, <3>2, <3>5, <4>2, InOrder, DrainKept
      <4>4. QED
        BY <3>3, <4>1, <4>3 DEF OrderInv
    <3>6. CASE loads
      <4>1. UNCHANGED <<defers, readys, queued, ran>> /\ asyncs' = asyncs \union {n}
            /\ st' = [st EXCEPT ![n] = "loading"]
        BY <2>3, <2>5, <3>6
      <4>2. ListInv'
        BY <2>1, <4>1, InOrder, AsyncLoads
      <4>3. Running(stack)' /\ Draining(stack)'
        BY <1>0, <4>1, InOrder, DrainKept
      <4>4. QED
        BY <3>3, <4>2, <4>3 DEF OrderInv
    <3>7. QED
      BY <2>2, <2>8, <3>4, <3>5, <3>6
  <2>9. QED
    BY <2>7, <2>8
<1>3. QED
  BY <1>1, <1>2

\* There is no other drain below the innermost call, if that is one.
LEMMA DrainIsLow ==
  ASSUME NestInv, Stacked(stack), stack # << >>, Top.at \in Drains
  PROVE  \A i \in 1..(Len(stack) - 1) : stack[i].at \notin Busy
<1>1. Len(stack) \in Nat \ {0} /\ Top = stack[Len(stack)] /\ Len(stack) \in 1..Len(stack)
  BY PopFrame
<1>2. ~BusyBelow(stack, Len(stack))
  BY <1>1 DEF NestInv, Nested
<1>3. QED
  BY <1>2 DEF BusyBelow

LEMMA ReturnOrders ==
  ASSUME StackTypes, ListTypes, OrderInv, NestInv, ScriptReturns
  PROVE  OrderInv'
<1> DEFINE L == Len(stack)
<1>0. Stacked(stack)
  BY DEF StackTypes
<1>1. /\ stack # << >> /\ Top = stack[L] /\ Top.at = "script" /\ L \in Nat \ {0}
      /\ Len(Below) = L - 1 /\ Stacked(Below) /\ stack' = Below
      /\ \A i \in 1..(L - 1) : Below[i] = stack[i]
  BY <1>0, PopFrame DEF ScriptReturns, At
<1>2. /\ UNCHANGED <<st, asyncs, readys, queued, ran>>
      /\ defers' = IF Below # << >> /\ Last(Below).at = "defers" THEN Tail(defers) ELSE defers
  BY DEF ScriptReturns, past
<1>3. Syncing(stack)'
  <2>1. Kept(stack, stack', {"sync"})
    BY <1>0, <1>1, KeptPop
  <2>2. QED
    BY <1>0, <1>2, <2>1, InOrder, SyncsKept
<1>4. CASE Below # << >> /\ Last(Below).at = "defers"
  <2>1. defers # << >> /\ Head(defers) \in Range(ran) /\ defers' = Tail(defers)
    BY <1>0, <1>1, <1>2, <1>4, InOrder, DrainGoesOn
  <2>2. ListInv'
    BY <1>2, <2>1, InOrder, DeferredLeaves
  <2>3. Range(defers') = Range(defers) \ {Head(defers)}
    <3>1. defers \in Seq(Nodes) /\ IsInjective(defers)
      BY InOrder DEF ListTypes
    <3>2. QED
      BY <2>1, <3>1, TailList
  <2>4. Draining(stack)'
    BY <1>2, <2>3, InOrder DEF Draining
  <2>5. L - 1 \in 1..L /\ stack[L - 1].at = "defers"
    BY <1>1, <1>4 DEF Last, Stacked
  <2>6. \A i \in 1..(L - 2) : stack[i].at \notin Busy
    BY <1>1, <2>5 DEF NestInv, Nested, BusyBelow, Drains
  <2>7. Running(stack)'
    <3>1. \A i \in 1..(L - 2) : stack'[i].at # "defers"
      BY <1>1, <2>6 DEF Busy, Drains
    <3>2. \A i \in 1..Len(stack') : i < Len(stack') => i \in 1..(L - 2)
      BY <1>1
    <3>3. QED
      BY <3>1, <3>2 DEF Running
  <2>8. QED
    BY <1>3, <2>2, <2>4, <2>7 DEF OrderInv
<1>5. CASE ~(Below # << >> /\ Last(Below).at = "defers")
  <2>1. UNCHANGED defers
    BY <1>2, <1>5
  <2>2. ListInv'
    BY <1>2, <2>1, InOrder, SameLists
  <2>3. L - 1 \in 1..L => stack[L - 1].at # "defers"
    BY <1>1, <1>5 DEF Last, Stacked
  <2>4. Running(stack)'
    <3>1. ASSUME NEW i \in 1..(L - 1), i < L - 1, stack'[i].at = "defers"
          PROVE  /\ stack'[i + 1].at = "script" /\ defers' # << >>
                 /\ stack'[i + 1].node = Head(defers') /\ Head(defers') \in Range(ran')
      <4>1. i \in 1..L /\ i < L /\ i + 1 \in 1..(L - 1)
        BY <1>1, <3>1
      <4>2. stack'[i] = stack[i] /\ stack'[i + 1] = stack[i + 1]
        BY <1>1, <4>1
      <4>3. QED
        BY <1>2, <2>1, <3>1, <4>1, <4>2, InOrder DEF Running
    <3>2. QED
      BY <1>1, <3>1 DEF Running
  <2>5. Draining(stack)'
    <3>1. ASSUME NEW i \in 1..L, i < L, stack[i].at = "defers"
          PROVE  i \in 1..(L - 1) /\ i < L - 1 /\ stack'[i].at = "defers"
      BY <1>1, <2>3, <3>1
    <3>2. QED
      BY <1>1, <1>2, <2>1, <3>1, InOrder DEF Draining
  <2>6. QED
    BY <1>3, <2>2, <2>4, <2>5 DEF OrderInv
<1>6. QED
  BY <1>4, <1>5

\* A drain that has the first deferred script before it has not run it.
LEMMA NoneIsDraining ==
  ASSUME Stacked(stack), OrderInv, NestInv, AtDefers
  PROVE  /\ stack # << >> /\ Top.at \in {"ready", "defers"}
         /\ \A i \in 1..(Len(stack) - 1) : stack[i].at # "defers"
         /\ \A n \in Range(defers) : n \notin Range(ran)
<1>1. stack # << >> /\ Top.at \in {"ready", "defers"}
  BY DEF AtDefers, At
<1>2. \A i \in 1..(Len(stack) - 1) : stack[i].at # "defers"
  BY <1>1, DrainIsLow DEF Drains, Busy
<1>3. \A i \in 1..Len(stack) : i < Len(stack) => i \in 1..(Len(stack) - 1)
  BY <1>1, PopFrame
<1>4. QED
  BY <1>1, <1>2, <1>3, InOrder DEF Draining

LEMMA DeferredOrders ==
  ASSUME StackTypes, StackTypes', ListTypes, OrderInv, NestInv, RunDeferred
  PROVE  OrderInv'
<1> DEFINE L == Len(stack)
           n == Head(defers)
           s == Phase("defers")
           c == Call("script", n)
<1>0. Stacked(stack) /\ FlagTypes
  BY DEF StackTypes
<1>1. /\ AtDefers /\ stack # << >> /\ Top.at \in {"ready", "defers"} /\ defers # << >>
      /\ st[n] = "loaded" /\ stack' = Append(s, c) /\ ran' = Append(ran, n)
      /\ \A i \in 1..(L - 1) : stack[i].at # "defers"
      /\ \A m \in Range(defers) : m \notin Range(ran)
  BY <1>0, NoneIsDraining DEF RunDeferred, Eval
<1>2. UNCHANGED <<st, asyncs, defers, readys, queued>>
  BY DEF RunDeferred, lists, past
<1>3. n \in Nodes /\ n \in Range(defers)
  BY <1>1, ListFacts DEF ListTypes, Range
<1>4. ListInv'
  BY <1>1, <1>2, <1>3, InOrder, DeferredRuns
<1>5. /\ Stacked(s) /\ Len(s) = L /\ \A i \in 1..(L - 1) : s[i] = stack[i]
      /\ s[L].at = "defers"
  <2>1. stack # << >> /\ "defers" \in {"defers", "tail", "event", "closing", "closed"}
    BY <1>1
  <2>2. QED
    BY ONLY <1>0, <2>1, PhaseTypes
<1>6. c.at = "script" /\ c.node = n
  BY CallFacts
<1>7. c \in Frame
  BY <1>0, <1>3, MakeFrame DEF Places, Busy, Waiters, Optional
<1>8. Kept(stack, stack', {"sync"})
  <2>1. Kept(stack, s, {"sync"})
    BY <1>0, <1>1, KeptPhase
  <2>2. Kept(s, stack', {"sync"})
    BY <1>1, <1>5, <1>6, KeptPush DEF Stacked
  <2>3. QED
    BY <2>1, <2>2, KeptTrans
<1> HIDE DEF s, c, n
<1>9. /\ L \in Nat \ {0} /\ Len(stack') = L + 1 /\ \A i \in 1..L : stack'[i] = s[i]
      /\ stack'[L + 1] = c
  <2>1. L \in Nat \ {0}
    BY <1>0, <1>1, PopFrame
  <2>2. QED
    BY <1>1, <1>5, <1>7, <2>1, PushFrame DEF Stacked
<1>10. Range(ran') = Range(ran) \union {n}
  BY <1>1, <1>3, AppendList DEF ListTypes
<1>11. Running(stack)'
  <2>1. ASSUME NEW i \in 1..(L + 1), stack'[i].at = "defers", i < L + 1
        PROVE  i = L
    <3>1. i \in 1..L /\ (i # L => i \in 1..(L - 1))
      BY <1>9, <2>1
    <3>2. i \in 1..(L - 1) => stack'[i].at # "defers"
      BY <1>1, <1>5, <1>9, <3>1
    <3>3. QED
      BY <2>1, <3>1, <3>2
  <2>2. /\ stack'[L + 1].at = "script" /\ stack'[L + 1].node = Head(defers') /\ defers' # << >>
        /\ Head(defers') \in Range(ran')
    BY <1>1, <1>2, <1>6, <1>9, <1>10 DEF n
  <2>3. QED
    BY <1>9, <2>1, <2>2 DEF Running
<1>12. Draining(stack)'
  <2>1. L \in 1..Len(stack') /\ L < Len(stack') /\ stack'[L].at = "defers"
    BY <1>5, <1>9
  <2>2. \A m \in Range(defers') : m \in Range(ran') => m = Head(defers')
    BY <1>1, <1>2, <1>10 DEF n
  <2>3. QED
    BY <2>1, <2>2 DEF Draining
<1>13. Syncing(stack)'
  BY <1>0, <1>2, <1>8, InOrder, SyncsKept
<1>14. QED
  BY <1>4, <1>11, <1>12, <1>13 DEF OrderInv

LEMMA DrainEndsInOrder ==
  ASSUME StackTypes, OrderInv, NestInv, NoDeferred
  PROVE  OrderInv'
<1> DEFINE L == Len(stack)
           s == Phase("tail")
<1>0. Stacked(stack)
  BY DEF StackTypes
<1>1. /\ stack # << >> /\ Top.at \in {"ready", "defers"}
      /\ \A i \in 1..(L - 1) : stack[i].at # "defers"
      /\ \A n \in Range(defers) : n \notin Range(ran)
  BY <1>0, NoneIsDraining DEF NoDeferred
<1>2. UNCHANGED <<st, asyncs, defers, readys, queued, ran>> /\ stack' \in {s, Below}
  BY DEF NoDeferred, EvaluateReturns, lists, past
<1>3. /\ Len(s) = L /\ \A i \in 1..(L - 1) : s[i] = stack[i]
      /\ s[L].at = "tail"
  BY <1>0, <1>1, PhaseTypes
<1>4. /\ L \in Nat \ {0} /\ Len(Below) = L - 1 /\ \A i \in 1..(L - 1) : Below[i] = stack[i]
  BY <1>0, <1>1, PopFrame
<1>5. Kept(stack, stack', {"sync"})
  BY <1>0, <1>1, <1>2, KeptPhase, KeptPop
<1> HIDE DEF s
<1>6. \A i \in 1..Len(stack') : stack'[i].at # "defers"
  BY <1>1, <1>2, <1>3, <1>4
<1>7. ListInv' /\ Syncing(stack)'
  BY <1>0, <1>2, <1>5, InOrder, SameLists, SyncsKept
<1>8. Running(stack)' /\ Draining(stack)'
  BY <1>1, <1>2, <1>6 DEF Running, Draining
<1>9. QED
  BY <1>7, <1>8 DEF OrderInv

LEMMA OrderStep ==
  ASSUME StackTypes, StackTypes', ListTypes, OrderInv, NestInv, [Next]_vars
  PROVE  OrderInv'
<1>0. Stacked(stack) /\ Stacked(stack')
  BY DEF StackTypes
<1>1. CASE UNCHANGED vars
  <2>1. UNCHANGED <<stack, st, asyncs, defers, readys, queued, ran>>
    BY <1>1 DEF vars, lists, past
  <2>2. QED
    BY <2>1, SameLists DEF OrderInv, Running, Draining, Syncing
<1>2. ASSUME DrainStays, UNCHANGED <<st, lists, queued, ran>>, Kept(stack, stack', {"sync"})
      PROVE  OrderInv'
  BY <1>0, <1>2, NothingOrdered DEF lists
<1>3. CASE Around
  <2>1. DrainStays
    BY <1>0, <1>3, StepsStay
  <2>2. ASSUME NEW n \in Nodes, DoneCallback(n) \/ ErrorCallback(n)
        PROVE  OrderInv'
    BY <2>1, <2>2, LoadingOrders
  <2>3. ASSUME NEW n \in Nodes, NEW k \in Kinds, ParserAdds(n, k) \/ ScriptInserts(n, k)
        PROVE  OrderInv'
    BY <2>1, <2>3, AddOrders DEF ParserAdds, ScriptInserts
  <2>4. CASE SyncReturns
    BY <2>1, <2>4, SyncOrders
  <2>5. CASE RunReady
    BY <2>1, <2>5, ReadyOrders
  <2>6. CASE \/ ErrorReturns \/ WaitForImport \/ WaitReturns \/ NotYet \/ TailHook \/ CodeReturns
             \/ Task \/ ParseReturns \/ \E n \in Nodes : ScriptRemoves(n)
    <3>1. UNCHANGED <<st, lists, queued, ran>>
      BY <2>6 DEF ErrorReturns, WaitForImport, WaitReturns, NotYet, TailHook, CodeReturns, Task,
         ParseReturns, ScriptRemoves, past
    <3>2. CASE ~SyncReturns /\ \A n \in Nodes : ~ParserAdds(n, "src")
      <4>1. RunsScripts
        BY <2>6 DEF RunsScripts
      <4>2. Kept(stack, stack', {"sync"})
        BY <1>0, <3>2, <4>1, RunsScriptsKeeps
      <4>3. QED
        BY <1>2, <2>1, <3>1, <4>2
    <3>3. QED
      BY <2>3, <2>4, <3>2 DEF Kinds
  <2>7. QED
    BY <1>3, <2>2, <2>3, <2>4, <2>5, <2>6 DEF Around
<1>4. CASE Opening \/ Constructing \/ WriteInline \/ FragmentReturns
  <2>1. DrainStays
    BY <1>0, <1>4, StepsStay
  <2>2. UNCHANGED <<st, lists, queued, ran>>
    BY <1>4 DEF Opening, Open, WriteToParser, FeedReturns, FeedPanics, Close, FinishReturns,
       CloseCompletes, CloseReturns, Constructing, ParserConstructs, ConstructorReturns,
       WriteInline, FragmentReturns, past
  <2>3. Kept(stack, stack', {"sync"})
    BY <1>0, <1>4, OpeningKeeps, ConstructingKeeps, InliningKeeps
  <2>4. QED
    BY <1>2, <2>1, <2>2, <2>3
<1>5. CASE ScriptReturns
  BY <1>5, ReturnOrders
<1>6. CASE RunDeferred
  BY <1>6, DeferredOrders
<1>7. CASE NoDeferred
  BY <1>7, DrainEndsInOrder
<1>8. QED
  BY <1>1, <1>3, <1>4, <1>5, <1>6, <1>7, StepsAround
-----------------------------------------------------------------------------
(* The end of the drain waits for nothing while the page is parsed.          *)

\* The hook at the end of a drain is about to say that the page is loaded only
\* when no deferred script is left; and no document that is open then is
\* another one than the page's.
LoadInv ==
  load = "parsing" =>
    /\ parser = None
    /\ \A i \in 1..Len(stack) :
         /\ stack[i].at \notin Closers
         /\ stack[i].at = "tail" => i = Len(stack) /\ defers = << >>

LEMMA LoadKept ==
  ASSUME Stacked(stack), Stacked(stack'), LoadInv,
         load' = "parsing" => /\ load = "parsing" /\ parser' = None
                              /\ Kept(stack, stack', Closers \union {"tail"})
                              /\ stack # << >> => Top.at # "tail"
  PROVE  LoadInv'
<1> SUFFICES ASSUME load' = "parsing"
             PROVE  /\ parser' = None
                    /\ \A i \in 1..Len(stack') :
                         /\ stack'[i].at \notin Closers
                         /\ stack'[i].at = "tail" => i = Len(stack') /\ defers' = << >>
  BY DEF LoadInv
<1>1. ASSUME NEW i \in 1..Len(stack), stack[i].at = "tail" PROVE FALSE
  <2>1. i = Len(stack) /\ stack # << >>
    BY <1>1 DEF LoadInv, Stacked
  <2>2. QED
    BY <1>1, <2>1 DEF Top
<1>2. ASSUME NEW i \in 1..Len(stack') PROVE stack'[i].at \notin Closers \union {"tail"}
  BY <1>1 DEF Kept, LoadInv
<1>3. QED
  BY <1>2

LEMMA LoadStep ==
  ASSUME StackTypes, StackTypes', OrderInv, NestInv, LoadInv, [Next]_vars
  PROVE  LoadInv'
<1>0. Stacked(stack) /\ Stacked(stack')
  BY DEF StackTypes
<1> DEFINE L == Closers \union {"tail"}
<1>1. CASE UNCHANGED vars
  BY <1>1 DEF vars, flags, html5, lists, LoadInv
<1>2. CASE NoDeferred
  <2>1. /\ stack # << >> /\ Top.at \in {"ready", "defers"} /\ Top.at \in Drains
        /\ UNCHANGED <<load, parser, defers>>
        /\ (defers = << >> /\ stack' = Phase("tail")) \/ stack' = Below
    BY <1>0, <1>2, NoneIsDraining DEF NoDeferred, EvaluateReturns, flags, html5, lists, Drains
  <2>2. \A i \in 1..(Len(stack) - 1) : stack[i].at \notin Busy
    BY <1>0, <2>1, DrainIsLow
  <2>3. /\ Len(stack) \in Nat \ {0} /\ Len(Below) = Len(stack) - 1
        /\ \A i \in 1..(Len(stack) - 1) : Below[i] = stack[i]
    BY <1>0, <2>1, PopFrame
  <2>4. /\ Len(Phase("tail")) = Len(stack) /\ Phase("tail")[Len(stack)].at = "tail"
        /\ \A i \in 1..(Len(stack) - 1) : Phase("tail")[i] = stack[i]
    BY <1>0, <2>1, PhaseTypes
  <2> DEFINE s == Phase("tail")
  <2>5. CASE defers = << >> /\ stack' = s
    <3> HIDE DEF s
    <3>1. \A i \in 1..Len(stack') : i = Len(stack) \/ i \in 1..(Len(stack) - 1)
      BY <2>3, <2>4, <2>5 DEF s
    <3>2. /\ Len(stack') = Len(stack) /\ stack'[Len(stack)].at = "tail"
          /\ \A i \in 1..(Len(stack) - 1) : stack'[i] = stack[i]
      BY <2>4, <2>5 DEF s
    <3>3. \A i \in 1..(Len(stack) - 1) : i \in 1..Len(stack) /\ stack[i].at # "tail"
      BY <2>2, <2>3 DEF Busy, Drains
    <3>4. QED
      BY <2>1, <2>5, <3>1, <3>2, <3>3 DEF LoadInv, Closers
  <2>6. CASE stack' = Below
    <3>1. Kept(stack, stack', L)
      BY <1>0, <2>1, <2>6, KeptPop DEF Closers
    <3>2. QED
      BY <1>0, <2>1, <3>1, LoadKept DEF LoadInv
  <2>7. QED
    BY <2>1, <2>5, <2>6
<1>3. CASE TailHook
  <2>1. load' # "parsing" \/ (load # "parsing" /\ load' = load)
    BY <1>3 DEF TailHook, DocumentIsComplete
  <2>2. QED
    BY <2>1 DEF LoadInv
<1>4. CASE RunsScripts /\ ~TailHook /\ ~NoDeferred
  <2>1. (stack # << >> => Top.at # "tail") /\ UNCHANGED <<load, parser>>
    BY <1>4 DEF RunsScripts, ScriptReturns, DoneCallback, ErrorCallback, ScriptRemoves, ParserAdds,
       ScriptInserts, ErrorReturns, SyncReturns, WaitForImport, WaitReturns, RunReady, NotYet,
       RunDeferred, AtDefers, CodeReturns, Task, ParseReturns, At, Ticking, Code, Parsers, flags, html5
  <2>2. Kept(stack, stack', L)
    BY <1>0, <1>4, RunsScriptsKeeps DEF Closers
  <2>3. QED
    BY <1>0, <2>1, <2>2, LoadKept DEF LoadInv
<1>5. CASE Constructing \/ WriteInline \/ FragmentReturns
  <2>1. (stack # << >> => Top.at # "tail") /\ UNCHANGED <<load, parser>>
    BY <1>5 DEF Constructing, ParserConstructs, ConstructorReturns, WriteInline, FragmentReturns,
       Calls, At, Code, Parsers, flags, html5
  <2>2. Kept(stack, stack', L)
    BY <1>0, <1>5, ConstructingKeeps, InliningKeeps DEF Closers
  <2>3. QED
    BY <1>0, <2>1, <2>2, LoadKept DEF LoadInv
<1>6. CASE Opening
  <2> SUFFICES ASSUME load' = "parsing"
               PROVE  LoadInv'
    BY DEF LoadInv
  <2>1. load = "parsing" /\ parser = None
    BY <1>6 DEF Opening, Open, WriteToParser, FeedReturns, FeedPanics, Close, FinishReturns,
       CloseCompletes, CloseReturns, DocumentIsComplete, flags, LoadInv
  <2>2. stack # << >> => Top.at \notin Closers
    BY <1>0, <2>1, PopFrame DEF LoadInv
  <2>3. FeedReturns \/ FeedPanics
    BY <1>6, <2>1, <2>2 DEF Opening, Open, Opens, WriteToParser, Close, FinishReturns,
       CloseCompletes, CloseReturns, Closers, At
  <2>4. stack # << >> /\ Top.at = "feed" /\ stack' = Below /\ parser' = None
    BY <2>1, <2>3 DEF FeedReturns, FeedPanics, At, html5
  <2>5. Kept(stack, stack', L)
    BY <1>0, <2>4, KeptPop DEF Closers
  <2>6. QED
    BY <1>0, <2>1, <2>4, <2>5, LoadKept
<1>7. QED
  BY <1>1, <1>2, <1>3, <1>4, <1>5, <1>6, StepsAre
-----------------------------------------------------------------------------
(* The invariant, and what follows from it.                                  *)

OrderedInv ==
  /\ TypeInv /\ Housed(stack, kids)
  /\ NestInv /\ HandleInv /\ OrderInv /\ LoadInv

LEMMA OrderedStep == OrderedInv /\ [Next]_vars => OrderedInv'
<1> SUFFICES ASSUME OrderedInv, [Next]_vars
             PROVE  OrderedInv'
  OBVIOUS
<1>1. /\ TypeInv /\ StackTypes /\ NodeTypes /\ ListTypes /\ HandleTypes /\ Housed(stack, kids)
      /\ NestInv /\ HandleInv /\ OrderInv /\ LoadInv /\ Running(stack)
  BY DEF OrderedInv, TypeInv, StackTypes, OrderInv
<1>2. StackTypes'
  BY <1>1, StackTypesStep
<1>3. NodeTypes' /\ Housed(stack', kids')
  BY <1>1, HousedStep
<1>4. ListTypes'
  BY <1>1, ListStep
<1>5. HandleTypes' /\ HandleInv'
  BY <1>1, HandleStep
<1>6. NestInv'
  BY <1>1, NestStep
<1>7. OrderInv'
  BY <1>1, <1>2, OrderStep
<1>8. LoadInv'
  BY <1>1, <1>2, LoadStep
<1>9. QED
  BY <1>2, <1>3, <1>4, <1>5, <1>6, <1>7, <1>8 DEF OrderedInv, TypeInv, StackTypes

\* The page is about to be parsed, or never is: one call, or none.
LEMMA InitialStack ==
  ASSUME Init
  PROVE  /\ StackTypes /\ Len(stack) \in {0, 1}
         /\ \A i \in 1..Len(stack) : stack[i].at = "parse"
<1>1. FlagTypes
  BY DEF Init, FlagTypes, Optional
<1>2. Stacked(<< >>) /\ Len(<< >>) = 0
  BY BoundsAssumption DEF Stacked
<1>3. CASE stack = << >>
  BY <1>1, <1>2, <1>3 DEF StackTypes
<1>4. CASE stack = <<Call("parse", None)>>
  <2>1. Call("parse", None) \in Frame /\ Call("parse", None).at = "parse"
    BY <1>1, PlainFrame, CallFacts
  <2> DEFINE c == Call("parse", None)
  <2>2. c \in Frame /\ c.at = "parse" /\ stack = <<c>>
    BY <1>4, <2>1
  <2> HIDE DEF c
  <2>3. stack \in Seq(Frame) /\ Len(stack) = 1 /\ stack[1] = c
    BY <2>2
  <2>4. Stacked(stack)
    BY <2>3, BoundsAssumption DEF Stacked
  <2>5. QED
    BY <1>1, <2>2, <2>3, <2>4 DEF StackTypes
<1>5. QED
  BY <1>3, <1>4 DEF Init

LEMMA OrderedInit == Init => OrderedInv
<1> SUFFICES ASSUME Init
             PROVE  OrderedInv
  OBVIOUS
<1>1. /\ StackTypes /\ Len(stack) \in {0, 1} /\ \A i \in 1..Len(stack) : stack[i].at = "parse"
  BY InitialStack
<1>2. << >> \in Seq(Nodes) /\ Len(<< >>) = 0
  OBVIOUS
<1>3. NodeTypes /\ ListTypes
  BY <1>2 DEF Init, NodeTypes, ListTypes
<1>4. HandleTypes
  <2>1. Born = 1..0 /\ 0 \in 0..moves
    BY DEF Init, Born
  <2>2. QED
    BY <2>1, BoundsAssumption DEF Init, HandleTypes
<1>5. Housed(stack, kids)
  BY <1>1 DEF Housed, Init
<1>6. HandleInv
  BY <1>1, BoundsAssumption DEF HandleInv, Handled, Init, Users, Closers, Nulled
<1>7. Range(<< >>) = {} /\ IsInjective(<< >>) /\ Thinned(<< >>, << >>)
  BY <1>2 DEF Range, IsInjective, Thinned
<1>8. OrderInv
  <2>1. ListInv
    BY <1>2, <1>7 DEF Init, ListInv, Statuses, Apart, Listed, Waited, Queued, Sequenced
  <2>2. Running(stack) /\ Draining(stack) /\ Syncing(stack)
    BY <1>1, <1>7 DEF Init, Running, Draining, Syncing
  <2>3. QED
    BY <2>1, <2>2 DEF OrderInv
<1>9. LoadInv
  BY <1>1 DEF LoadInv, Init, Closers
<1>10. QED
  BY <1>1, <1>3, <1>4, <1>5, <1>6, <1>8, <1>9, NestInit DEF OrderedInv, TypeInv, StackTypes

LEMMA OrderedAlways == Spec => []OrderedInv
  BY OrderedInit, OrderedStep, PTL DEF Spec

\* A script runs at most once, whichever of the manager's lists it goes through
\* and however often the page moves it or puts it back: a script that was
\* started is never added again (ScriptManager.zig, _executed), and each
\* list gives one up before or once it ran.
THEOREM ScriptsRunOnce == Spec => []RunsOnce
<1>1. OrderedInv => RunsOnce
  BY DEF OrderedInv, OrderInv, ListInv, Listed, RunsOnce
<1>2. QED
  BY OrderedAlways, <1>1, PTL

\* Deferred scripts and inline modules run in the order the page queued them in,
\* whatever order the network answers in, which of them fail, and whatever runs
\* while one of them waits for an import.
THEOREM DeferredRunInOrder == Spec => []DeferredInOrder
<1>1. OrderedInv => DeferredInOrder
  BY DEF OrderedInv, OrderInv, ListInv, Listed, Sequenced, DeferredInOrder
<1>2. QED
  BY OrderedAlways, <1>1, PTL

\* Unless a handle was used that is gone, the streaming parsers html5ever keeps
\* are the one the document has and those that are being finished, and the
\* document is without a handle exactly while a close is in progress.
THEOREM HandlesMatch == Spec => []ParserMatchesHandles
<1>1. OrderedInv => ParserMatchesHandles
  <2> SUFFICES ASSUME OrderedInv, ~broken
               PROVE  /\ \A h \in DOMAIN handles :
                           handles[h] = "live" <=>
                             h = parser \/ \E i \in Frames({"finish"}) : stack[i].node = h
                      /\ parser = Nulled <=> Frames({"finish", "closing", "closed"}) # {}
    BY DEF ParserMatchesHandles
  <2>1. Handled(stack, parser, handles) /\ DOMAIN handles = 1..MaxMoves
    BY DEF OrderedInv, HandleInv, TypeInv, HandleTypes
  <2>2. QED
    BY <2>1 DEF Handled, Frames, Closers
<1>2. QED
  BY OrderedAlways, <1>1, PTL

\* DOMContentLoaded waits for every script the page deferred: when the page
\* stops being parsed, each of them ran, or its request failed.
THEOREM LoadedAfterDeferred == Spec => LoadedMeansDrained
<1>1. ASSUME OrderedInv, [Next]_vars
      PROVE  [load = "parsing" /\ load' # "parsing"
                => \A n \in Range(queued) : st[n] = "failed" \/ n \in Range(ran)]_vars
  <2> SUFFICES ASSUME Next, load = "parsing", load' # "parsing", NEW n \in Range(queued)
               PROVE  st[n] = "failed" \/ n \in Range(ran)
    BY <1>1 DEF vars, flags
  <2>1. Stacked(stack) /\ LoadInv /\ ListInv
    BY <1>1 DEF OrderedInv, TypeInv, OrderInv
  <2>2. TailHook \/ CloseCompletes
    BY DEF Next, DoneCallback, ErrorCallback, ParserConstructs, ScriptRemoves, ParserAdds,
       ScriptInserts, ErrorReturns, SyncReturns, WaitForImport, WaitReturns, ScriptReturns,
       RunReady, NotYet, RunDeferred, NoDeferred, CodeReturns, Task, ConstructorReturns,
       ParseReturns, Open, WriteToParser, FeedReturns, FeedPanics, WriteInline, FragmentReturns,
       Close, FinishReturns, CloseReturns, flags
  <2>3. stack # << >> /\ Top.at \in {"tail", "closing"}
    BY <2>2 DEF TailHook, CloseCompletes, At
  <2>4. Top = stack[Len(stack)] /\ Len(stack) \in 1..Len(stack)
    BY <2>1, <2>3, PopFrame
  <2>5. defers = << >>
    BY <2>1, <2>3, <2>4 DEF LoadInv, Closers
  <2>6. Range(defers) = {}
    BY <2>5 DEF Range
  <2>7. QED
    BY <2>1, <2>6 DEF ListInv, Waited
<1>2. QED
  BY OrderedAlways, <1>1, PTL DEF Spec, LoadedMeansDrained
-----------------------------------------------------------------------------
(* Constructors the parser waits for: the count of them is right, and no     *)
(* markup is parsed above one.                                               *)

Markups == {"fragment", "feed", "finish"}
Constructors(s) == {i \in 1..Len(s) : s[i].at = "constructor"}

MarkupInv ==
  /\ counter = Cardinality(Constructors(stack))
  /\ \A i \in Constructors(stack), j \in 1..Len(stack) : stack[j].at \in Markups => j < i

LEMMA MarkupKept ==
  ASSUME MarkupInv, Kept(stack, stack', {"constructor"}), UNCHANGED counter,
         \A j \in 1..Len(stack') :
           stack'[j].at \in Markups => j \in 1..Len(stack) /\ stack[j].at \in Markups
  PROVE  MarkupInv'
<1>1. Constructors(stack') = Constructors(stack)
  BY DEF Constructors, Kept
<1>2. QED
  BY <1>1 DEF MarkupInv

LEMMA FiniteConstructors ==
  ASSUME NEW s \in Seq(Frame)
  PROVE  IsFiniteSet(Constructors(s)) /\ Cardinality(Constructors(s)) \in Nat
<1>1. Len(s) \in Nat /\ Constructors(s) \subseteq 1..Len(s)
  BY DEF Constructors
<1>2. IsFiniteSet(1..Len(s))
  BY <1>1, FS_Interval
<1>3. QED
  BY <1>1, <1>2, FS_Subset, FS_CardinalityType

\* A call that parses markup is made while no constructor is in progress.
LEMMA MarkupPushed ==
  ASSUME Stacked(stack), MarkupInv, counter = 0, Kept(stack, stack', {"constructor"}),
         UNCHANGED counter
  PROVE  MarkupInv'
<1>1. Constructors(stack) = {}
  BY FiniteConstructors, FS_EmptySet DEF MarkupInv, Stacked
<1>2. Constructors(stack') = {}
  BY <1>1 DEF Constructors, Kept
<1>3. QED
  BY <1>1, <1>2 DEF MarkupInv

LEMMA ConstructingMarkup ==
  ASSUME StackTypes, MarkupInv, Constructing
  PROVE  MarkupInv'
<1> DEFINE L == Len(stack)
           C == Constructors(stack)
<1>0. Stacked(stack) /\ FlagTypes
  BY DEF StackTypes
<1>1. IsFiniteSet(C) /\ counter = Cardinality(C) /\ counter \in Nat
  BY <1>0, FiniteConstructors DEF MarkupInv, Stacked
<1>2. ASSUME NEW n \in Nodes, ParserConstructs(n)
      PROVE  MarkupInv'
  <2> DEFINE c == Call("constructor", n)
  <2>1. c \in Frame /\ c.at = "constructor"
    BY <1>0, MakeFrame, CallFacts DEF Places, Code, Optional
  <2>2. stack' = Append(stack, c) /\ counter' = counter + 1
    BY <1>2 DEF ParserConstructs
  <2> HIDE DEF c
  <2>3. /\ L \in Nat /\ Len(stack') = L + 1 /\ \A i \in 1..L : stack'[i] = stack[i]
        /\ stack'[L + 1] = c
    BY <1>0, <2>1, <2>2, PushFrame DEF Stacked
  <2>4. Constructors(stack') = C \union {L + 1}
    BY <2>1, <2>3 DEF Constructors
  <2>5. L + 1 \notin C
    BY <2>3 DEF Constructors
  <2>6. Cardinality(C \union {L + 1}) = Cardinality(C) + 1
    BY <1>1, <2>5, FS_AddElement
  <2>7. ASSUME NEW i \in Constructors(stack'), NEW j \in 1..Len(stack'), stack'[j].at \in Markups
        PROVE  j < i
    <3>1. j \in 1..L /\ stack[j].at \in Markups
      BY <2>1, <2>3, <2>7 DEF Markups
    <3>2. QED
      BY <2>3, <2>4, <3>1 DEF MarkupInv
  <2>8. QED
    BY <1>1, <2>2, <2>4, <2>6, <2>7 DEF MarkupInv
<1>3. CASE ConstructorReturns
  <2>1. /\ stack # << >> /\ Top.at = "constructor" /\ stack' = Below /\ counter' = counter - 1
        /\ L \in Nat \ {0} /\ Top = stack[L] /\ Len(stack') = L - 1
        /\ \A i \in 1..(L - 1) : stack'[i] = stack[i]
    BY <1>0, <1>3, PopFrame DEF ConstructorReturns, At
  <2>2. Constructors(stack') = C \ {L} /\ L \in C
    BY <2>1 DEF Constructors
  <2>3. Cardinality(C \ {L}) = Cardinality(C) - 1
    BY <1>1, <2>2, FS_RemoveElement
  <2>4. ASSUME NEW i \in Constructors(stack'), NEW j \in 1..Len(stack'), stack'[j].at \in Markups
        PROVE  j < i
    BY <2>1, <2>2, <2>4 DEF MarkupInv
  <2>5. QED
    BY <1>1, <2>1, <2>2, <2>3, <2>4 DEF MarkupInv
<1>4. QED
  BY <1>2, <1>3 DEF Constructing

LEMMA OpeningMarkup ==
  ASSUME Stacked(stack), MarkupInv, Opening
  PROVE  MarkupInv'
<1>1. UNCHANGED counter /\ Kept(stack, stack', {"constructor"})
  BY OpeningKeeps DEF Opening, Open, WriteToParser, FeedReturns, FeedPanics, Close, FinishReturns,
     CloseCompletes, CloseReturns, doc
<1>2. CASE Open \/ WriteToParser \/ Close
  BY <1>1, <1>2, MarkupPushed DEF Open, WriteToParser, Close, Calls
<1> DEFINE Fewer(s) ==
             \A j \in 1..Len(s) : s[j].at \in Markups => j \in 1..Len(stack) /\ stack[j].at \in Markups
<1>3. CASE FeedReturns \/ FeedPanics \/ CloseReturns
  <2>1. stack # << >> /\ stack' = Below
    BY <1>3 DEF FeedReturns, FeedPanics, CloseReturns, At
  <2>2. Fewer(stack')
    BY <2>1, PopFrame
  <2>3. QED
    BY <1>1, <2>2, MarkupKept
<1>4. CASE FinishReturns \/ CloseCompletes
  <2>1. PICK at \in {"closing", "closed"} : Evaluate(Phase(at)) \/ DocumentIsComplete(Phase(at))
    BY <1>4 DEF FinishReturns, CloseCompletes
  <2>2. stack # << >>
    BY <1>4 DEF FinishReturns, CloseCompletes, At
  <2> DEFINE s == Phase(at)
  <2>3. /\ Stacked(s) /\ Len(s) = Len(stack) /\ Len(stack) \in Nat \ {0}
        /\ \A i \in 1..(Len(stack) - 1) : s[i] = stack[i]
        /\ s[Len(stack)].at = at
    <3>1. at \in {"defers", "tail", "event", "closing", "closed"}
      OBVIOUS
    <3> DEFINE d == [Top EXCEPT !.at = at]
    <3>2. /\ Stacked(Phase(at)) /\ Len(Phase(at)) = Len(stack)
          /\ \A i \in 1..(Len(stack) - 1) : Phase(at)[i] = stack[i]
          /\ Phase(at)[Len(stack)] = d /\ d.at = at
      BY ONLY <2>2, <3>1, Stacked(stack), PhaseTypes
    <3> HIDE DEF d
    <3>3. QED
      BY <2>2, <3>2, PopFrame
  <2>4. Kept(s, stack', Markups)
    BY <2>1, <2>3, EvaluateKept, CompleteKept DEF Markups
  <2> HIDE DEF s
  <2>5. Fewer(s)
    BY <2>3 DEF Markups
  <2>6. Fewer(stack')
    BY <2>4, <2>5 DEF Kept
  <2>7. QED
    BY <1>1, <2>6, MarkupKept
<1>5. QED
  BY <1>2, <1>3, <1>4 DEF Opening

LEMMA MarkupStep ==
  ASSUME StackTypes, MarkupInv, [Next]_vars
  PROVE  MarkupInv'
<1>0. Stacked(stack)
  BY DEF StackTypes
<1>1. CASE UNCHANGED vars
  BY <1>1 DEF vars, doc, MarkupInv
<1>2. CASE RunsScripts
  <2>1. UNCHANGED counter
    BY <1>2 DEF RunsScripts, DoneCallback, ErrorCallback, ScriptRemoves, ParserAdds, ScriptInserts,
       ErrorReturns, SyncReturns, WaitForImport, WaitReturns, ScriptReturns, RunReady, NotYet,
       RunDeferred, NoDeferred, TailHook, CodeReturns, Task, ParseReturns, doc
  <2>2. Kept(stack, stack', {"constructor"}) /\ Kept(stack, stack', Markups)
    BY <1>0, <1>2, RunsScriptsKeeps DEF Markups
  <2>3. QED
    BY <2>1, <2>2, MarkupKept DEF Kept
<1>3. CASE WriteInline \/ FragmentReturns
  <2>1. UNCHANGED counter /\ Kept(stack, stack', {"constructor"})
    BY <1>0, <1>3, InliningKeeps DEF WriteInline, FragmentReturns, doc
  <2>2. CASE WriteInline
    BY <1>0, <2>1, <2>2, MarkupPushed DEF WriteInline, Calls
  <2>3. CASE FragmentReturns
    <3>1. stack # << >> /\ stack' = Below
      BY <2>3 DEF FragmentReturns, At
    <3>2. \A j \in 1..Len(stack') : j \in 1..Len(stack) /\ stack'[j] = stack[j]
      BY <1>0, <3>1, PopFrame
    <3>3. QED
      BY <2>1, <3>2, MarkupKept
  <2>4. QED
    BY <1>3, <2>2, <2>3
<1>4. QED
  BY <1>0, <1>1, <1>2, <1>3, StepsAre, OpeningMarkup, ConstructingMarkup

LEMMA MarkupInit == Init => MarkupInv
<1> SUFFICES ASSUME Init
             PROVE  MarkupInv
  OBVIOUS
<1>1. \A i \in 1..Len(stack) : stack[i].at = "parse"
  BY InitialStack
<1>2. Constructors(stack) = {} /\ counter = 0
  BY <1>1 DEF Init, Constructors
<1>3. QED
  BY <1>2, FS_EmptySet DEF MarkupInv

\* While the constructor of a custom element runs that the parser waits for, no
\* markup of document.write, open or close is parsed above it, and the count
\* that forbids it goes back to what it was (Document.zig,
\* _throw_on_dynamic_markup_insertion_counter).
THEOREM NoMarkupWhileConstructing == Spec => []NoMarkupInConstructor
<1>1. MarkupInv => NoMarkupInConstructor
  BY DEF MarkupInv, NoMarkupInConstructor, Constructors, Frames, Markups
<1>2. OrderedInv /\ MarkupInv /\ [Next]_vars => MarkupInv'
  BY MarkupStep DEF OrderedInv, TypeInv, StackTypes
<1>3. QED
  BY OrderedAlways, MarkupInit, <1>1, <1>2, PTL DEF Spec
-----------------------------------------------------------------------------
(* document.currentScript and the insertion point: every call holds those of *)
(* the script it was made from, and puts them back.                          *)

\* The node n is that of the innermost script below the i-th call.
Innermost(s, n, i) ==
  \/ n = None /\ \A j \in 1..(i - 1) : s[j].at # "script"
  \/ \E j \in 1..(i - 1) : /\ s[j].at = "script" /\ n = s[j].node
                           /\ \A k \in (j + 1)..(i - 1) : s[k].at # "script"

\* The insertion point p is the last node the script c wrote, w.
Own(w, c, p) == p = IF c = None \/ w[c] = << >> THEN None ELSE Last(w[c])

\* A script puts back the insertion point of the one it interrupted.
Traced(s, w) ==
  \A i \in 1..Len(s) :
    /\ Innermost(s, s[i].cur, i)
    /\ s[i].at = "script" => Own(w, s[i].cur, s[i].point)
    /\ s[i].at = "fragment" => s[i].node = s[i].cur

\* The scripts that run were started, r, and there is one call of each.
Authors(s, r) ==
  \A i \in 1..Len(s) : s[i].at = "script" =>
    /\ s[i].node \in Range(r)
    /\ \A j \in 1..Len(s) : s[j].at = "script" /\ s[j].node = s[i].node => i = j

\* The calls s are made from the script that runs.
Pointed(s) ==
  /\ s \in Seq(Frame) /\ Traced(s, wrote) /\ Authors(s, ran)
  /\ Innermost(s, current, Len(s) + 1)

PointInv ==
  /\ Pointed(stack) /\ Own(wrote, current, point)
  /\ \A n \in Nodes : wrote[n] # << >> => n \in Range(ran)

LEMMA AuthorsBelow ==
  ASSUME NEW s, NEW r, Authors(s, r), NEW t,
         \A i \in 1..Len(t) : i \in 1..Len(s) /\ t[i] = s[i]
  PROVE  Authors(t, r)
  BY DEF Authors

LEMMA AuthorsPush ==
  ASSUME NEW s \in Seq(Frame), NEW r, Authors(s, r), NEW q, Range(r) \subseteq Range(q),
         NEW c, c.at = "script" => c.node \in Range(q) /\ c.node \notin Range(r)
  PROVE  Authors(Append(s, c), q)
<1> DEFINE t == Append(s, c)
<1>1. s \in Seq(Frame \union {c}) /\ c \in Frame \union {c}
  OBVIOUS
<1>2. /\ Len(s) \in Nat /\ Len(t) = Len(s) + 1 /\ \A i \in 1..Len(s) : t[i] = s[i]
      /\ t[Len(s) + 1] = c
  BY <1>1
<1> HIDE DEF t
<1>3. \A i \in 1..Len(t) : (i \in 1..Len(s) /\ t[i] = s[i]) \/ (i = Len(s) + 1 /\ t[i] = c)
  BY <1>2
<1>4. Authors(t, q)
  BY <1>3 DEF Authors
<1>5. QED
  BY <1>4 DEF t

\* A script that starts was not started before.
LEMMA StartsNew ==
  ASSUME ran \in Seq(Nodes), ran' \in Seq(Nodes), IsInjective(ran'), NEW n,
         ran' = Append(ran, n)
  PROVE  n \in Nodes /\ n \notin Range(ran) /\ Range(ran') = Range(ran) \union {n}
<1>1. ran \in Seq(Nodes \union {n}) /\ n \in Nodes \union {n}
  OBVIOUS
<1>2. /\ Len(ran) \in Nat /\ Len(ran') = Len(ran) + 1 /\ \A i \in 1..Len(ran) : ran'[i] = ran[i]
      /\ ran'[Len(ran) + 1] = n /\ DOMAIN ran = 1..Len(ran) /\ DOMAIN ran' = 1..(Len(ran) + 1)
  BY <1>1
<1>3. n \in Nodes
  BY <1>2
<1>4. n \notin Range(ran)
  BY <1>2 DEF Range, IsInjective
<1>5. QED
  BY <1>1, <1>3, <1>4, AppendList

LEMMA InnermostIsOne ==
  ASSUME NEW s, NEW i \in Nat, NEW n, NEW m, Innermost(s, n, i), Innermost(s, m, i)
  PROVE  n = m
<1>1. CASE \A j \in 1..(i - 1) : s[j].at # "script"
  BY <1>1 DEF Innermost
<1>2. CASE \E j \in 1..(i - 1) : s[j].at = "script"
  <2>1. PICK j \in 1..(i - 1) : /\ s[j].at = "script" /\ n = s[j].node
                                /\ \A k \in (j + 1)..(i - 1) : s[k].at # "script"
    BY <1>2 DEF Innermost
  <2>2. PICK l \in 1..(i - 1) : /\ s[l].at = "script" /\ m = s[l].node
                                /\ \A k \in (l + 1)..(i - 1) : s[k].at # "script"
    BY <1>2 DEF Innermost
  <2>3. j = l
    BY <2>1, <2>2
  <2>4. QED
    BY <2>1, <2>2, <2>3
<1>3. QED
  BY <1>1, <1>2

\* The two agree on the calls below the i-th.
LEMMA InnermostAgrees ==
  ASSUME NEW s, NEW t, NEW i \in Nat, \A j \in 1..(i - 1) : t[j] = s[j],
         NEW n, Innermost(s, n, i)
  PROVE  Innermost(t, n, i)
<1>1. CASE n = None /\ \A j \in 1..(i - 1) : s[j].at # "script"
  BY <1>1 DEF Innermost
<1>2. ASSUME NEW j \in 1..(i - 1), s[j].at = "script", n = s[j].node,
             \A k \in (j + 1)..(i - 1) : s[k].at # "script"
      PROVE  Innermost(t, n, i)
  <2>1. t[j] = s[j] /\ \A k \in (j + 1)..(i - 1) : k \in 1..(i - 1)
    OBVIOUS
  <2>2. QED
    BY <1>2, <2>1 DEF Innermost
<1>3. QED
  BY <1>1, <1>2 DEF Innermost

\* Another call than a script's: the innermost script is the same.
LEMMA InnermostSkips ==
  ASSUME NEW s, NEW i \in Nat \ {0}, NEW n
  PROVE  /\ s[i].at # "script" => (Innermost(s, n, i + 1) <=> Innermost(s, n, i))
         /\ s[i].at = "script" => Innermost(s, s[i].node, i + 1)
<1>1. ASSUME s[i].at # "script", Innermost(s, n, i)
      PROVE  Innermost(s, n, i + 1)
  <2>1. CASE n = None /\ \A j \in 1..(i - 1) : s[j].at # "script"
    BY <1>1, <2>1 DEF Innermost
  <2>2. ASSUME NEW j \in 1..(i - 1), s[j].at = "script", n = s[j].node,
               \A k \in (j + 1)..(i - 1) : s[k].at # "script"
        PROVE  Innermost(s, n, i + 1)
    <3>1. j \in 1..(i + 1 - 1) /\ \A k \in (j + 1)..(i + 1 - 1) : k = i \/ k \in (j + 1)..(i - 1)
      OBVIOUS
    <3>2. \A k \in (j + 1)..(i + 1 - 1) : s[k].at # "script"
      BY <1>1, <2>2, <3>1
    <3>3. QED
      BY <2>2, <3>1, <3>2 DEF Innermost
  <2>3. QED
    BY <1>1, <2>1, <2>2 DEF Innermost
<1>2. ASSUME s[i].at # "script", Innermost(s, n, i + 1)
      PROVE  Innermost(s, n, i)
  <2>1. CASE n = None /\ \A j \in 1..(i + 1 - 1) : s[j].at # "script"
    BY <2>1 DEF Innermost
  <2>2. ASSUME NEW j \in 1..(i + 1 - 1), s[j].at = "script", n = s[j].node,
               \A k \in (j + 1)..(i + 1 - 1) : s[k].at # "script"
        PROVE  Innermost(s, n, i)
    <3>1. j \in 1..(i - 1) /\ \A k \in (j + 1)..(i - 1) : k \in (j + 1)..(i + 1 - 1)
      BY <1>2, <2>2
    <3>2. QED
      BY <2>2, <3>1 DEF Innermost
  <2>3. QED
    BY <1>2, <2>1, <2>2 DEF Innermost
<1>3. ASSUME s[i].at = "script"
      PROVE  Innermost(s, s[i].node, i + 1)
  <2>1. i \in 1..(i + 1 - 1) /\ (i + 1)..(i + 1 - 1) = {}
    OBVIOUS
  <2>2. QED
    BY <1>3, <2>1 DEF Innermost
<1>4. QED
  BY <1>1, <1>2, <1>3

\* A call is made from the innermost script of s.
LEMMA PushTraced ==
  ASSUME NEW s \in Seq(Frame), NEW w, Traced(s, w), NEW c, Innermost(s, c.cur, Len(s) + 1),
         c.at = "script" => Own(w, c.cur, c.point), c.at = "fragment" => c.node = c.cur
  PROVE  LET t == Append(s, c)
         IN  /\ Traced(t, w)
             /\ c.at # "script" => Innermost(t, c.cur, Len(t) + 1)
             /\ c.at = "script" => Innermost(t, c.node, Len(t) + 1)
<1> DEFINE t == Append(s, c)
<1>1. s \in Seq(Frame \union {c}) /\ c \in Frame \union {c}
  OBVIOUS
<1>2. /\ Len(s) \in Nat /\ Len(t) = Len(s) + 1 /\ \A i \in 1..Len(s) : t[i] = s[i]
      /\ t[Len(s) + 1] = c
  BY <1>1
<1> HIDE DEF t
<1>3. ASSUME NEW i \in 1..Len(s)
      PROVE  /\ Innermost(t, t[i].cur, i)
             /\ t[i].at = "script" => Own(w, t[i].cur, t[i].point)
             /\ t[i].at = "fragment" => t[i].node = t[i].cur
  <2>1. /\ Innermost(s, s[i].cur, i)
        /\ s[i].at = "script" => Own(w, s[i].cur, s[i].point)
        /\ s[i].at = "fragment" => s[i].node = s[i].cur
    BY DEF Traced
  <2>2. i \in Nat /\ t[i] = s[i] /\ \A j \in 1..(i - 1) : t[j] = s[j]
    BY <1>2
  <2>3. Innermost(t, s[i].cur, i)
    BY <2>1, <2>2, InnermostAgrees
  <2>4. QED
    BY <2>1, <2>2, <2>3
<1>4. Innermost(t, c.cur, Len(s) + 1)
  <2> DEFINE l == Len(s) + 1
  <2>1. l \in Nat /\ \A j \in 1..(l - 1) : t[j] = s[j]
    BY <1>2
  <2>2. Innermost(s, c.cur, l)
    OBVIOUS
  <2> HIDE DEF l
  <2>3. Innermost(t, c.cur, l)
    BY ONLY <2>1, <2>2, InnermostAgrees
  <2>4. QED
    BY <2>3 DEF l
<1>5. Traced(t, w)
  <2>1. \A i \in 1..Len(t) : i \in 1..Len(s) \/ i = Len(s) + 1
    BY <1>2
  <2>2. QED
    BY <1>2, <1>3, <1>4, <2>1 DEF Traced
<1>6. /\ c.at # "script" => Innermost(t, c.cur, Len(s) + 2)
      /\ c.at = "script" => Innermost(t, c.node, Len(s) + 2)
  <2>1. Len(s) + 1 \in Nat \ {0} /\ Len(s) + 1 + 1 = Len(s) + 2
    BY <1>2
  <2>2. QED
    BY <1>2, <1>4, <2>1, InnermostSkips
<1>7. Len(t) + 1 = Len(s) + 2
  BY <1>2
<1>8. QED
  BY <1>5, <1>6, <1>7 DEF t

\* What is below the innermost call, and that call under another name.
LEMMA PopTraced ==
  ASSUME Stacked(stack), stack # << >>, PointInv
  PROVE  /\ Below \in Seq(Frame) /\ Traced(Below, wrote) /\ Authors(Below, ran)
         /\ Innermost(Below, Top.cur, Len(Below) + 1)
         /\ Top.at = "script" => Own(wrote, Top.cur, Top.point)
         /\ Top.at # "script" => Pointed(Below) /\ Top.cur = current
         /\ Top.at = "fragment" => Top.node = current
<1> DEFINE L == Len(stack)
           s == Below
<1>1. /\ s \in Seq(Frame) /\ L \in Nat \ {0} /\ Len(s) = L - 1 /\ Top = stack[L]
      /\ \A i \in 1..(L - 1) : s[i] = stack[i]
  BY PopFrame DEF Stacked
<1> HIDE DEF s
<1>2. \A i \in 1..L : /\ Innermost(stack, stack[i].cur, i)
                      /\ stack[i].at = "script" => Own(wrote, stack[i].cur, stack[i].point)
                      /\ stack[i].at = "fragment" => stack[i].node = stack[i].cur
  BY DEF PointInv, Pointed, Traced
<1>3. \A i \in 1..L : i \in Nat /\ \A j \in 1..(i - 1) : s[j] = stack[j]
  BY <1>1
<1>4. ASSUME NEW i \in 1..L PROVE Innermost(s, stack[i].cur, i)
  BY <1>2, <1>3, InnermostAgrees
<1>5. Traced(s, wrote)
  <2>1. ASSUME NEW i \in 1..Len(s)
        PROVE  /\ Innermost(s, s[i].cur, i)
               /\ s[i].at = "script" => Own(wrote, s[i].cur, s[i].point)
               /\ s[i].at = "fragment" => s[i].node = s[i].cur
    <3>1. i \in 1..L /\ s[i] = stack[i]
      BY <1>1
    <3>2. QED
      BY <1>2, <1>4, <3>1
  <2>2. QED
    BY <2>1 DEF Traced
<1>6. L \in 1..L /\ Len(s) + 1 = L
  BY <1>1
<1>7. /\ Innermost(s, Top.cur, Len(s) + 1)
      /\ Top.at = "script" => Own(wrote, Top.cur, Top.point)
      /\ Top.at = "fragment" => Top.node = Top.cur
  BY <1>1, <1>2, <1>4, <1>6
<1>8. Authors(s, ran)
  <2>1. \A i \in 1..Len(s) : i \in 1..Len(stack) /\ s[i] = stack[i]
    BY <1>1
  <2>2. QED
    BY <2>1, AuthorsBelow DEF PointInv, Pointed
<1>9. ASSUME Top.at # "script"
      PROVE  Pointed(s) /\ Top.cur = current
  <2>1. Innermost(stack, current, L)
    BY <1>1, <1>9, InnermostSkips DEF PointInv, Pointed
  <2>2. Innermost(stack, Top.cur, L) /\ L \in Nat
    BY <1>1, <1>2, <1>6
  <2>3. Top.cur = current
    BY <2>1, <2>2, InnermostIsOne
  <2>4. QED
    BY <1>1, <1>5, <1>7, <1>8, <2>3 DEF Pointed
<1>10. QED
  BY <1>1, <1>5, <1>7, <1>8, <1>9 DEF s

LEMMA PhasePointed ==
  ASSUME Stacked(stack), stack # << >>, PointInv, Top.at \notin {"script", "fragment"},
         NEW at \in {"defers", "tail", "event", "closing", "closed"}
  PROVE  Pointed(Phase(at))
<1> DEFINE d == [Top EXCEPT !.at = at]
           s == Below
<1>1. /\ s \in Seq(Frame) /\ Traced(s, wrote) /\ Innermost(s, Top.cur, Len(s) + 1)
      /\ Authors(s, ran) /\ Top.cur = current
  BY PopTraced
<1>2. d.at = at /\ d.cur = Top.cur /\ d.point = Top.point /\ d \in Frame
  BY PopFrame, RelabelFrame, PhaseTypes DEF Frame
<1> HIDE DEF d, s
<1> DEFINE t == Append(s, d)
<1>3. Traced(t, wrote) /\ Innermost(t, d.cur, Len(t) + 1)
  BY <1>1, <1>2, PushTraced
<1>4. t \in Seq(Frame) /\ Authors(t, ran)
  BY <1>1, <1>2, AuthorsPush
<1>5. Phase(at) = t
  BY DEF Phase, d, s
<1> HIDE DEF t
<1>6. QED
  BY <1>1, <1>2, <1>3, <1>4, <1>5 DEF Pointed

\* A call other than a script's is made above the calls s, or none.
LEMMA PushPointed ==
  ASSUME Stacked(stack'), PointInv, NEW s, Pointed(s), UNCHANGED <<current, point, wrote, ran>>,
         \/ stack' = s
         \/ \E c : /\ stack' = Append(s, c) /\ c.cur = current
                   /\ c.at # "script" /\ (c.at = "fragment" => c.node = current)
  PROVE  PointInv'
<1>1. CASE stack' = s
  BY <1>1 DEF PointInv, Pointed
<1>2. ASSUME NEW c, stack' = Append(s, c), c.cur = current,
             c.at # "script", c.at = "fragment" => c.node = current
      PROVE  PointInv'
  <2>1. s \in Seq(Frame) /\ Traced(s, wrote) /\ Innermost(s, c.cur, Len(s) + 1)
        /\ Authors(s, ran)
    BY <1>2 DEF Pointed
  <2>2. Traced(stack', wrote) /\ Innermost(stack', current, Len(stack') + 1)
    BY <1>2, <2>1, PushTraced
  <2>3. Authors(stack', ran)
    BY <1>2, <2>1, AuthorsPush
  <2>4. QED
    BY <2>2, <2>3 DEF PointInv, Pointed, Stacked
<1>3. QED
  BY <1>1, <1>2

\* A script starts above the calls s, and interrupts the one that runs.
LEMMA EvalPointed ==
  ASSUME Stacked(stack'), PointInv, NEW s, Pointed(s), UNCHANGED wrote, NEW n, NEW c,
         ran \in Seq(Nodes), ran' \in Seq(Nodes), IsInjective(ran'), ran' = Append(ran, n),
         stack' = Append(s, c), c.at = "script", c.node = n, c.cur = current, c.point = point,
         current' = n, point' = None
  PROVE  PointInv'
<1>1. n \in Nodes /\ n \notin Range(ran) /\ Range(ran') = Range(ran) \union {n}
  BY StartsNew
<1>2. /\ s \in Seq(Frame) /\ Traced(s, wrote) /\ Innermost(s, c.cur, Len(s) + 1)
      /\ Own(wrote, c.cur, c.point) /\ Authors(s, ran)
  BY DEF Pointed, PointInv
<1>3. Traced(stack', wrote) /\ Innermost(stack', n, Len(stack') + 1)
  BY <1>2, PushTraced
<1>4. Authors(stack', ran')
  BY <1>1, <1>2, AuthorsPush
<1>5. Own(wrote, n, None) /\ \A m \in Nodes : wrote[m] # << >> => m \in Range(ran')
  BY <1>1 DEF PointInv, Own
<1>6. QED
  BY <1>3, <1>4, <1>5 DEF PointInv, Pointed, Stacked

LEMMA ScriptsPointed ==
  ASSUME StackTypes, StackTypes', ListTypes, ListTypes', IsInjective(ran'), PointInv, RunsScripts
  PROVE  PointInv'
<1> DEFINE Above(s) == \/ stack' = s
                       \/ \E c : /\ stack' = Append(s, c) /\ c.cur = current
                                 /\ c.at # "script" /\ (c.at = "fragment" => c.node = current)
<1>0. Stacked(stack) /\ Stacked(stack') /\ Pointed(stack)
  BY DEF StackTypes, PointInv
<1>1. UNCHANGED wrote
  BY DEF RunsScripts, DoneCallback, ErrorCallback, ScriptRemoves, ParserAdds, ScriptInserts,
     ErrorReturns, SyncReturns, WaitForImport, WaitReturns, ScriptReturns, RunReady, NotYet,
     RunDeferred, NoDeferred, TailHook, CodeReturns, Task, ParseReturns, past
<1>2. ASSUME NEW s, Pointed(s), UNCHANGED <<current, point, ran>>, Above(s)
      PROVE  PointInv'
  BY <1>0, <1>1, <1>2, PushPointed
<1>3. ASSUME NEW s, Pointed(s), NEW n, Eval(s, n)
      PROVE  PointInv'
  <2> DEFINE c == Call("script", n)
  <2>1. c.at = "script" /\ c.node = n /\ c.cur = current /\ c.point = point
    BY CallFacts
  <2>2. stack' = Append(s, c) /\ current' = n /\ point' = None /\ ran' = Append(ran, n)
    BY <1>3 DEF Eval
  <2> HIDE DEF c
  <2>3. QED
    BY <1>0, <1>1, <1>3, <2>1, <2>2, EvalPointed DEF ListTypes
<1>4. ASSUME NEW at, at \notin {"script", "fragment"}, NEW n, NEW s, stack' = Append(s, Call(at, n))
      PROVE  Above(s)
  BY <1>4, CallFacts
<1>5. ASSUME NEW s, Evaluate(s) \/ DocumentIsComplete(s)
      PROVE  Above(s)
  BY <1>4, <1>5 DEF Evaluate, DocumentIsComplete
<1>6. stack # << >> /\ Top.at # "script" => Pointed(Below)
  BY <1>0, PopTraced
<1> HIDE DEF Above
<1>7. ASSUME NEW n \in Nodes, DoneCallback(n) \/ ErrorCallback(n)
      PROVE  PointInv'
  BY <1>0, <1>2, <1>4, <1>5, <1>7 DEF DoneCallback, ErrorCallback, doc
<1>8. ASSUME NEW n \in Nodes, NEW k \in Kinds, NEW f \in BOOLEAN, AddFromElement(f, n, k)
      PROVE  PointInv'
  <2>1. CASE Eval(stack, n)
    BY <1>0, <1>3, <2>1
  <2>2. CASE /\ UNCHANGED <<current, point, ran>>
             /\ stack' = stack \/ stack' = Append(stack, Call("sync", n))
    BY <1>0, <1>2, <1>4, <2>2 DEF Above
  <2>3. QED
    BY <1>8, <2>1, <2>2 DEF AddFromElement, Add
<1>9. CASE SyncReturns
  <2>1. stack # << >> /\ Top.at = "sync" /\ Top \in Frame
    BY <1>0, <1>9, PopFrame DEF SyncReturns, At
  <2>2. Pointed(Below) /\ Top.cur = current
    BY <1>0, <2>1, PopTraced
  <2>3. /\ Loaded.at = "script" /\ Loaded.node = Top.node /\ Loaded.cur = current
        /\ Loaded.point = point /\ Refused.at = "event" /\ Refused.cur = current
    BY <1>0, <1>9, <2>2, SyncEnds
  <2>4. CASE (stack' = Below \/ stack' = Append(Below, Refused)) /\ UNCHANGED <<current, point, ran>>
    BY <1>2, <2>2, <2>3, <2>4 DEF Above
  <2>5. CASE /\ stack' = Append(Below, Loaded) /\ current' = Top.node /\ point' = None
             /\ ran' = Append(ran, Top.node)
    BY <1>0, <1>1, <2>2, <2>3, <2>5, EvalPointed DEF ListTypes
  <2>6. QED
    BY <1>9, <2>4, <2>5 DEF SyncReturns, Loaded, Refused
<1>10. CASE ErrorReturns \/ ParseReturns
  <2>1. stack # << >> /\ Top.at # "script" /\ Evaluate(Below) /\ UNCHANGED <<current, point, ran>>
    BY <1>10 DEF ErrorReturns, ParseReturns, At, doc
  <2>2. QED
    BY <1>2, <1>5, <1>6, <2>1
<1>11. CASE WaitReturns \/ NotYet \/ CodeReturns
  <2>1. stack # << >> /\ Top.at # "script" /\ stack' = Below /\ UNCHANGED <<current, point, ran>>
    BY <1>11 DEF WaitReturns, NotYet, CodeReturns, EvaluateReturns, At, doc
  <2>2. QED
    BY <1>2, <1>6, <2>1 DEF Above
<1>12. CASE ScriptReturns
  <2>1. stack # << >> /\ Top.at = "script" /\ stack' = Below /\ current' = Top.cur
        /\ point' = Top.point /\ UNCHANGED ran
    BY <1>12 DEF ScriptReturns, At
  <2>2. QED
    BY <1>0, <1>1, <2>1, PopTraced DEF PointInv, Pointed
<1>13. CASE RunReady
  BY <1>0, <1>3, <1>13 DEF RunReady
<1>14. AtDefers => /\ stack # << >> /\ Top.at \notin {"script", "fragment"}
                   /\ Pointed(Phase("defers")) /\ Pointed(Phase("tail")) /\ Pointed(Below)
  <2>1. AtDefers => stack # << >> /\ Top.at \notin {"script", "fragment"}
    BY DEF AtDefers, At
  <2>2. QED
    BY <1>0, <1>6, <2>1, PhasePointed
<1>15. CASE RunDeferred
  BY <1>3, <1>14, <1>15 DEF RunDeferred
<1>16. CASE NoDeferred
  BY <1>2, <1>14, <1>16 DEF NoDeferred, EvaluateReturns, doc, Above
<1>17. CASE TailHook
  <2>1. stack # << >> /\ Top.at # "script" /\ UNCHANGED <<current, point, ran>>
    BY <1>17 DEF TailHook, At, doc
  <2>2. Above(stack) \/ stack' = Below
    BY <1>4, <1>5, <1>17 DEF TailHook, EvaluateReturns
  <2>3. QED
    BY <1>0, <1>2, <1>6, <2>1, <2>2 DEF Above
<1>18. CASE WaitForImport
  BY <1>0, <1>2, <1>4, <1>18 DEF WaitForImport, doc
<1>19. CASE Task
  <2>1. stack' = Append(stack, Call("task", None)) /\ UNCHANGED <<current, point, ran>>
    BY <1>19 DEF Task, doc
  <2>2. QED
    BY <1>0, <1>2, <1>4, <2>1
<1>20. ASSUME NEW n \in Nodes, ScriptRemoves(n) PROVE PointInv'
  BY <1>0, <1>2, <1>20 DEF ScriptRemoves, doc, Above
<1>21. QED
  BY <1>7, <1>8, <1>9, <1>10, <1>11, <1>12, <1>13, <1>15, <1>16, <1>17, <1>18, <1>19, <1>20
  DEF RunsScripts, ParserAdds, ScriptInserts

LEMMA OpeningPointed ==
  ASSUME StackTypes, StackTypes', PointInv, Opening \/ Constructing
  PROVE  PointInv'
<1> DEFINE Above(s) == \/ stack' = s
                       \/ \E c : /\ stack' = Append(s, c) /\ c.cur = current
                                 /\ c.at # "script" /\ (c.at = "fragment" => c.node = current)
<1>0. Stacked(stack) /\ Stacked(stack') /\ Pointed(stack) /\ UNCHANGED <<current, point, wrote, ran>>
  BY DEF StackTypes, PointInv, Opening, Open, WriteToParser, FeedReturns, FeedPanics, Close,
     FinishReturns, CloseCompletes, CloseReturns, Constructing, ParserConstructs,
     ConstructorReturns, doc, past
<1>1. ASSUME NEW s, Pointed(s), Above(s)
      PROVE  PointInv'
  BY <1>0, <1>1, PushPointed
<1>2. ASSUME NEW at, at \notin {"script", "fragment"}, NEW n, NEW s, stack' = Append(s, Call(at, n))
      PROVE  Above(s)
  BY <1>2, CallFacts
<1>3. ASSUME NEW s, Evaluate(s) \/ DocumentIsComplete(s)
      PROVE  Above(s)
  BY <1>2, <1>3 DEF Evaluate, DocumentIsComplete
<1> HIDE DEF Above
<1>4. CASE FeedReturns \/ FeedPanics \/ CloseReturns \/ ConstructorReturns
  <2>1. stack # << >> /\ Top.at # "script" /\ stack' = Below
    BY <1>4 DEF FeedReturns, FeedPanics, CloseReturns, ConstructorReturns, At
  <2>2. QED
    BY <1>0, <1>1, <2>1, PopTraced DEF Above
<1>5. CASE Open
  BY <1>0, <1>1, <1>5 DEF Open, Above
<1>6. CASE WriteToParser \/ Close \/ \E n \in Nodes : ParserConstructs(n)
  BY <1>0, <1>1, <1>2, <1>6 DEF WriteToParser, Close, ParserConstructs
<1>7. CASE FinishReturns \/ CloseCompletes
  <2>1. PICK at \in {"closing", "closed"} : Evaluate(Phase(at)) \/ DocumentIsComplete(Phase(at))
    BY <1>7 DEF FinishReturns, CloseCompletes
  <2>2. stack # << >> /\ Top.at \notin {"script", "fragment"}
    BY <1>7 DEF FinishReturns, CloseCompletes, At
  <2>3. Pointed(Phase(at))
    BY <1>0, <2>2, PhasePointed
  <2>4. QED
    BY <1>1, <1>3, <2>1, <2>3
<1>8. QED
  BY <1>4, <1>5, <1>6, <1>7 DEF Opening, Constructing

LEMMA InliningPointed ==
  ASSUME StackTypes, StackTypes', NodeTypes, Housed(stack, kids), PointInv,
         WriteInline \/ FragmentReturns
  PROVE  PointInv'
<1>0. Stacked(stack) /\ Stacked(stack') /\ Pointed(stack)
  BY DEF StackTypes, PointInv
<1>1. CASE WriteInline
  <2>1. PICK c \in Frame :
          /\ stack' = Append(stack, c) /\ c.at = "fragment" /\ c.node = current
          /\ c.cur = current
    BY <1>1, WriteInlinePushes
  <2>2. UNCHANGED <<current, point, wrote, ran>>
    BY <1>1 DEF WriteInline, doc, past
  <2>3. QED
    BY <1>0, <2>1, <2>2, PushPointed
<1>2. CASE FragmentReturns
  <2> DEFINE new == kids[Len(stack)]
  <2>1. /\ stack # << >> /\ Top.at = "fragment" /\ Top.node \in Nodes /\ new \in Seq(Nodes)
        /\ \/ UNCHANGED <<point, wrote>>
           \/ /\ new # << >> /\ point' = Last(new)
              /\ wrote' = [wrote EXCEPT ![Top.node] = @ \o new]
    BY <1>2, FragmentMoves
  <2>2. stack' = Below /\ UNCHANGED <<current, ran>>
    BY <1>2 DEF FragmentReturns
  <2>3. Pointed(Below) /\ Top.node = current
    BY <1>0, <2>1, PopTraced
  <2> HIDE DEF new
  <2>4. CASE UNCHANGED <<point, wrote>>
    BY <1>0, <2>2, <2>3, <2>4 DEF PointInv, Pointed
  <2>5. CASE new # << >> /\ point' = Last(new) /\ wrote' = [wrote EXCEPT ![Top.node] = @ \o new]
    <3> DEFINE w == wrote[Top.node]
    <3>1. w \in Seq(Nodes)
      BY <2>1 DEF NodeTypes
    <3>2. wrote' \in [Nodes -> Seq(Nodes)] /\ wrote'[current] = w \o new
          /\ \A n \in Nodes : n # current => wrote'[n] = wrote[n]
      BY <2>1, <2>3, <2>5, <3>1 DEF NodeTypes
    <3> HIDE DEF w
    <3>3. /\ w \o new \in Seq(Nodes) /\ Len(w \o new) = Len(w) + Len(new)
          /\ \A j \in 1..Len(w) : (w \o new)[j] = w[j]
          /\ \A j \in 1..Len(new) : (w \o new)[Len(w) + j] = new[j]
      BY <2>1, <3>1, JoinedList
    <3> DEFINE z == w \o new
    <3>4. /\ DOMAIN z = 1..(Len(w) + Len(new)) /\ DOMAIN w = 1..Len(w)
          /\ Len(w) \in Nat /\ Len(new) \in Nat \ {0}
          /\ Last(new) = new[Len(new)]
      BY <2>1, <2>5, <3>1, <3>3 DEF Last
    <3>5. z[Len(w) + Len(new)] = Last(new) /\ \A j \in DOMAIN w : z[j] = w[j]
      BY <3>3, <3>4
    <3> HIDE DEF z
    <3>6. z # << >> /\ Last(z) = Last(new)
      BY <3>3, <3>4, <3>5 DEF Last, z
    <3>7. Own(wrote', current, point')
      <4>1. current # None /\ wrote'[current] = z
        BY <2>1, <2>3, <3>2, BoundsAssumption DEF z
      <4>2. QED
        BY <2>5, <3>6, <4>1 DEF Own
    <3>8. PICK l \in 1..Len(Below) : /\ Below[l].at = "script" /\ current = Below[l].node
                                     /\ \A k \in (l + 1)..Len(Below) : Below[k].at # "script"
      BY <2>1, <2>3, BoundsAssumption DEF Pointed, Innermost
    <3>9. ASSUME NEW i \in 1..Len(Below), Below[i].at = "script"
          PROVE  Own(wrote', Below[i].cur, Below[i].point)
      <4>1. Innermost(Below, Below[i].cur, i) /\ Own(wrote, Below[i].cur, Below[i].point)
        BY <2>3, <3>9 DEF Pointed, Traced
      <4>2. i <= l /\ Below[i].cur \in Optional
        BY <2>3, <3>8, <3>9, FrameFacts DEF Pointed
      <4>3. Below[i].cur # current
        <5>1. SUFFICES ASSUME Below[i].cur = current
                       PROVE  FALSE
          OBVIOUS
        <5>2. PICK j \in 1..(i - 1) : Below[j].at = "script" /\ Below[j].node = current
          BY <2>1, <2>3, <4>1, <5>1, BoundsAssumption DEF Innermost
        <5>3. j \in 1..Len(Below) /\ j # l
          BY <4>2, <5>2
        <5>4. QED
          BY <2>3, <3>8, <5>2, <5>3 DEF Pointed, Authors
      <4>4. QED
        BY <3>2, <4>1, <4>2, <4>3 DEF Own, Optional
    <3>10. Traced(Below, wrote')
      BY <2>3, <3>9 DEF Pointed, Traced
    <3>11. \A n \in Nodes : wrote'[n] # << >> => n \in Range(ran)
      <4>1. current \in Range(ran)
        BY <2>3, <3>8 DEF Pointed, Authors
      <4>2. QED
        BY <3>2, <4>1 DEF PointInv
    <3>12. QED
      BY <2>2, <2>3, <3>7, <3>10, <3>11 DEF PointInv, Pointed
  <2>6. QED
    BY <2>1, <2>4, <2>5
<1>3. QED
  BY <1>1, <1>2

LEMMA PointStep ==
  ASSUME OrderedInv, OrderedInv', PointInv, [Next]_vars
  PROVE  PointInv'
<1>0. /\ StackTypes /\ StackTypes' /\ NodeTypes /\ Housed(stack, kids)
      /\ ListTypes /\ ListTypes' /\ IsInjective(ran')
  BY DEF OrderedInv, TypeInv, StackTypes, OrderInv, ListInv, Listed
<1>1. CASE UNCHANGED vars
  BY <1>1 DEF vars, doc, past, PointInv, Pointed
<1>2. CASE Next
  BY <1>0, <1>2, StepsAre, ScriptsPointed, OpeningPointed, InliningPointed
<1>3. QED
  BY <1>1, <1>2

LEMMA PointInit == Init => PointInv
<1> SUFFICES ASSUME Init
             PROVE  PointInv
  OBVIOUS
<1>0. stack \in Seq(Frame)
  BY InitialStack DEF StackTypes, Stacked
<1>2. CASE stack = << >>
  <2>1. Len(stack) = 0
    BY <1>2
  <2>2. Innermost(stack, None, Len(stack) + 1)
    BY <2>1 DEF Innermost
  <2>3. Traced(stack, wrote) /\ Authors(stack, ran)
    BY <2>1 DEF Traced, Authors
  <2>4. QED
    BY <1>0, <2>2, <2>3 DEF PointInv, Pointed, Own, Init
<1>3. CASE stack = <<Call("parse", None)>>
  <2> DEFINE c == Call("parse", None)
  <2>1. c.at = "parse" /\ c.cur = None /\ c.point = None
    BY CallFacts DEF Init
  <2>2. stack = <<c>>
    BY <1>3
  <2> HIDE DEF c
  <2>3. Len(stack) = 1 /\ stack[1] = c
    BY <2>2
  <2>4. Innermost(stack, None, 1) /\ Innermost(stack, None, Len(stack) + 1)
    BY <2>1, <2>3 DEF Innermost
  <2>5. Traced(stack, wrote) /\ Authors(stack, ran)
    BY <2>1, <2>3, <2>4 DEF Traced, Authors
  <2>6. QED
    BY <1>0, <2>4, <2>5 DEF PointInv, Pointed, Own, Init
<1>4. QED
  BY <1>2, <1>3 DEF Init

\* document.currentScript is the innermost script that runs, whatever it
\* loads, writes or waits for, and the insertion point of document.write is a
\* node that very script wrote: none sees the insertion point of another
\* (Document.zig, _write_insertion_point; ScriptManagerBase.zig, eval).
THEOREM InsertionPointIsScripts == Spec => []InsertionPointIsOwn
<1>1. OrderedInv /\ PointInv => InsertionPointIsOwn
  <2> SUFFICES ASSUME OrderedInv, PointInv
               PROVE  InsertionPointIsOwn
    OBVIOUS
  <2> DEFINE S == Frames({"script"})
             l == CHOOSE i \in S : \A j \in S : j <= i
  <2>1. Innermost(stack, current, Len(stack) + 1) /\ Len(stack) \in Nat
    BY DEF PointInv, Pointed
  <2>2. point # None => current # None /\ point \in Range(wrote[current])
    <3>1. SUFFICES ASSUME point # None
                   PROVE  current # None /\ point \in Range(wrote[current])
      OBVIOUS
    <3>2. /\ current # None /\ wrote[current] # << >> /\ point = Last(wrote[current])
          /\ current \in Optional
      BY <3>1 DEF PointInv, Own, OrderedInv, TypeInv, FlagTypes
    <3>3. wrote[current] \in Seq(Nodes)
      BY <3>2 DEF OrderedInv, TypeInv, NodeTypes, Optional
    <3>4. Len(wrote[current]) \in DOMAIN wrote[current]
      BY <3>2, <3>3
    <3>5. QED
      BY <3>2, <3>4 DEF Last, Range
  <2>3. S = {i \in 1..Len(stack) : stack[i].at = "script"}
    BY DEF Frames
  <2> HIDE DEF S
  <2>4. CASE S = {}
    <3>1. current = None
      BY <2>1, <2>3, <2>4 DEF Innermost
    <3>2. QED
      BY <2>4, <2>2, <3>1 DEF InsertionPointIsOwn, S
  <2>5. CASE S # {}
    <3>1. PICK j \in 1..Len(stack) : /\ stack[j].at = "script" /\ current = stack[j].node
                                     /\ \A k \in (j + 1)..Len(stack) : stack[k].at # "script"
      BY <2>1, <2>3, <2>5 DEF Innermost
    <3>2. j \in S /\ \A k \in S : k <= j
      BY <2>1, <2>3, <3>1
    <3>3. l \in S /\ \A k \in S : k <= l
      BY <3>2
    <3> HIDE DEF l
    <3>4. l = j
      BY <2>1, <2>3, <3>2, <3>3
    <3>5. current = stack[l].node
      BY <3>1, <3>4
    <3>6. QED
      BY <2>5, <2>2, <3>5 DEF InsertionPointIsOwn, S, l
  <2>6. QED
    BY <2>4, <2>5
<1>2. OrderedInv /\ OrderedInv' /\ PointInv /\ [Next]_vars => PointInv'
  BY PointStep
<1>3. QED
  BY OrderedAlways, PointInit, <1>1, <1>2, PTL DEF Spec
-----------------------------------------------------------------------------
(* What document.write put into the document stands there in the order it    *)
(* was written in: what moving nodes does to the order of others.            *)

LEMMA AppendOrder ==
  ASSUME NEW k \in Seq(Nodes), NEW n \in Nodes, NEW a, NEW b, a # n, b # n,
         b \in Range(k), Before(k, a, b)
  PROVE  b \in Range(Append(k, n)) /\ Before(Append(k, n), a, b)
<1> DEFINE m == Append(k, n)
<1>1. /\ Len(k) \in Nat /\ Len(m) = Len(k) + 1 /\ \A i \in 1..Len(k) : m[i] = k[i]
      /\ m[Len(k) + 1] = n /\ Range(m) = Range(k) \union {n}
  BY AppendList
<1> HIDE DEF m
<1>2. \A i \in 1..Len(m) : m[i] # n => i \in 1..Len(k) /\ m[i] = k[i]
  BY <1>1
<1>3. b \in Range(m) /\ Before(m, a, b)
  BY <1>1, <1>2 DEF Before
<1>4. QED
  BY <1>3 DEF m

LEMMA ThinnedOrder ==
  ASSUME NEW k \in Seq(Nodes), NEW m \in Seq(Nodes), Thinned(m, k), NEW a, NEW b,
         b \in Range(k), b \in Range(m), Before(k, a, b)
  PROVE  Before(m, a, b)
<1>1. /\ Len(k) \in Nat /\ DOMAIN k = 1..Len(k) /\ Len(m) \in Nat /\ DOMAIN m = 1..Len(m)
  OBVIOUS
<1>2. a # b
  BY <1>1 DEF Before, Range
<1>3. ASSUME NEW i \in 1..Len(m), NEW j \in 1..Len(m), m[i] = a, m[j] = b
      PROVE  i < j
  <2>1. i # j
    BY <1>2, <1>3
  <2>2. ~(j < i)
    <3>1. SUFFICES ASSUME j < i
                   PROVE  FALSE
      OBVIOUS
    <3>2. i \in DOMAIN m /\ j \in DOMAIN m
      BY <1>1
    <3>3. \E c, d \in DOMAIN k : c < d /\ k[c] = m[j] /\ k[d] = m[i]
      BY <3>1, <3>2 DEF Thinned
    <3>4. PICK c, d \in DOMAIN k : c < d /\ k[c] = b /\ k[d] = a
      BY <1>3, <3>3
    <3>5. d < c
      BY <1>1, <3>4 DEF Before
    <3>6. QED
      BY <1>1, <3>4, <3>5
  <2>3. QED
    BY <1>1, <2>1, <2>2
<1>4. QED
  BY <1>3 DEF Before

LEMMA UnlinkOrder ==
  ASSUME NEW k \in Seq(Nodes), IsInjective(k), NEW n, NEW a, NEW b, b # n,
         b \in Range(k), Before(k, a, b)
  PROVE  b \in Range(Unlinked(k, n)) /\ Before(Unlinked(k, n), a, b)
<1>1. /\ Unlinked(k, n) \in Seq(Nodes) /\ Thinned(Unlinked(k, n), k)
      /\ Range(Unlinked(k, n)) = Range(k) \ {n}
  BY UnlinkedList
<1>2. QED
  BY <1>1, ThinnedOrder

\* New nodes behind n: the order of the others, and of the new ones, is kept,
\* and the new ones are behind what stands before n.
LEMMA InsertOrder ==
  ASSUME NEW s \in Seq(Nodes), IsInjective(s), NEW n \in Range(s),
         NEW new \in Seq(Nodes), IsInjective(new), \A e \in Range(new) : e \notin Range(s)
  PROVE  LET t == InsertedBehind(s, n, new)
         IN  /\ IsInjective(t) /\ Range(t) = Range(s) \union Range(new)
             /\ \A a, b : b \in Range(s) /\ a \notin Range(new) /\ Before(s, a, b) => Before(t, a, b)
             /\ \A a, b : a \notin Range(s) /\ b \in Range(new) /\ Before(new, a, b) => Before(t, a, b)
             /\ \A a, b : a \in Range(s) /\ b \in Range(new) /\ (a = n \/ Before(s, a, n))
                            => Before(t, a, b)
<1> DEFINE t == InsertedBehind(s, n, new)
           m == Len(new)
<1>0. s \in Seq(Nodes) /\ n \in Range(s) /\ new \in Seq(Nodes)
  OBVIOUS
<1> DEFINE i == CHOOSE j \in DOMAIN s : s[j] = n
<1>1. t \in Seq(Nodes) /\ Inserted(t, s, i, n, new)
  BY ONLY <1>0, InsertedList
<1> HIDE DEF i, t
<1>2. /\ i \in 1..Len(s) /\ s[i] = n /\ Len(t) = Len(s) + m
      /\ \A j \in 1..i : t[j] = s[j]
      /\ \A j \in 1..m : t[i + j] = new[j]
      /\ \A j \in (i + 1)..Len(s) : t[j + m] = s[j]
  BY <1>1 DEF Inserted
<1>3. /\ Len(s) \in Nat /\ m \in Nat /\ i \in Nat /\ i <= Len(s)
      /\ DOMAIN s = 1..Len(s) /\ DOMAIN new = 1..m /\ DOMAIN t = 1..(Len(s) + m)
      /\ Len(t) = Len(s) + m
  BY <1>1, <1>2
<1> HIDE DEF m
<1>4. ASSUME NEW j \in DOMAIN t
      PROVE  \/ j <= i /\ j \in DOMAIN s /\ t[j] = s[j]
             \/ i < j /\ j <= i + m /\ j - i \in DOMAIN new /\ t[j] = new[j - i]
             \/ i + m < j /\ j - m \in DOMAIN s /\ i < j - m /\ t[j] = s[j - m]
  <2>1. CASE j <= i
    BY <1>2, <1>3, <2>1
  <2>2. CASE i < j /\ j <= i + m
    <3>1. j - i \in 1..m /\ i + (j - i) = j
      BY <1>3, <2>2
    <3>2. QED
      BY <1>2, <1>3, <2>2, <3>1
  <2>3. CASE i + m < j
    <3>1. j - m \in (i + 1)..Len(s) /\ (j - m) + m = j
      BY <1>3, <2>3
    <3>2. QED
      BY <1>2, <1>3, <2>3, <3>1
  <2>4. QED
    BY <1>3, <2>1, <2>2, <2>3
<1>5. Range(t) = Range(s) \union Range(new)
  <2>1. Range(t) \subseteq Range(s) \union Range(new)
    BY <1>4 DEF Range
  <2>2. ASSUME NEW j \in DOMAIN s
        PROVE  s[j] \in Range(t)
    <3>1. CASE j <= i
      <4>1. j \in 1..i /\ j \in DOMAIN t
        BY <1>3, <3>1
      <4>2. QED
        BY <1>2, <4>1 DEF Range
    <3>2. CASE i < j
      <4>1. j \in (i + 1)..Len(s) /\ j + m \in DOMAIN t
        BY <1>3, <3>2
      <4>2. QED
        BY <1>2, <4>1 DEF Range
    <3>3. QED
      BY <1>3, <3>1, <3>2
  <2>3. ASSUME NEW j \in DOMAIN new
        PROVE  new[j] \in Range(t)
    <3>1. j \in 1..m /\ i + j \in DOMAIN t
      BY <1>3
    <3>2. QED
      BY <1>2, <3>1 DEF Range
  <2>4. QED
    BY <2>1, <2>2, <2>3 DEF Range
\* Where a member of one of the two lists is in the third.
<1>6. ASSUME NEW j \in DOMAIN t, t[j] \notin Range(new)
      PROVE  \/ j <= i /\ j \in DOMAIN s /\ t[j] = s[j]
             \/ i + m < j /\ j - m \in DOMAIN s /\ i < j - m /\ t[j] = s[j - m]
  BY <1>4, <1>6 DEF Range
<1>7. ASSUME NEW j \in DOMAIN t, t[j] \notin Range(s)
      PROVE  i < j /\ j <= i + m /\ j - i \in DOMAIN new /\ t[j] = new[j - i]
  BY <1>4, <1>7 DEF Range
<1>8. ASSUME NEW a, NEW b, b \in Range(s), a \notin Range(new), Before(s, a, b)
      PROVE  Before(t, a, b)
  <2>1. b \notin Range(new)
    BY <1>8
  <2>2. ASSUME NEW c \in 1..Len(t), NEW d \in 1..Len(t), t[c] = a, t[d] = b
        PROVE  c < d
    <3> DEFINE x == IF c <= i THEN c ELSE c - m
               y == IF d <= i THEN d ELSE d - m
    <3>0. c \in DOMAIN t /\ d \in DOMAIN t /\ t[c] \notin Range(new) /\ t[d] \notin Range(new)
      BY <1>1, <1>8, <2>1, <2>2
    <3>1. /\ x \in 1..Len(s) /\ s[x] = t[c] /\ (c <= i => x = c) /\ (c > i => i < x /\ c = x + m)
      BY <1>3, <1>6, <3>0
    <3>2. /\ y \in 1..Len(s) /\ s[y] = t[d] /\ (d <= i => y = d) /\ (d > i => i < y /\ d = y + m)
      BY <1>3, <1>6, <3>0
    <3> HIDE DEF x, y
    <3>3. x < y
      BY <1>8, <2>2, <3>1, <3>2 DEF Before
    <3>4. QED
      BY <1>1, <1>3, <3>1, <3>2, <3>3
  <2>3. QED
    BY <2>2 DEF Before
<1>9. ASSUME NEW a, NEW b, a \notin Range(s), b \in Range(new), Before(new, a, b)
      PROVE  Before(t, a, b)
  <2>1. b \notin Range(s)
    BY <1>9
  <2>2. ASSUME NEW c \in 1..Len(t), NEW d \in 1..Len(t), t[c] = a, t[d] = b
        PROVE  c < d
    <3>1. c - i \in 1..Len(new) /\ new[c - i] = a
      BY <1>1, <1>3, <1>7, <1>9, <2>2 DEF m
    <3>2. d - i \in 1..Len(new) /\ new[d - i] = b
      BY <1>1, <1>3, <1>7, <2>1, <2>2 DEF m
    <3>3. c - i < d - i
      BY <1>9, <3>1, <3>2 DEF Before
    <3>4. QED
      BY <1>1, <1>3, <3>3
  <2>3. QED
    BY <2>2 DEF Before
<1>10. ASSUME NEW a, NEW b, a \in Range(s), b \in Range(new), a = n \/ Before(s, a, n)
       PROVE  Before(t, a, b)
  <2>1. a \notin Range(new) /\ b \notin Range(s)
    BY <1>10
  <2>2. ASSUME NEW c \in 1..Len(t), NEW d \in 1..Len(t), t[c] = a, t[d] = b
        PROVE  c < d
    <3>0. c \in DOMAIN t /\ d \in DOMAIN t
      BY <1>1
    <3>1. i < d
      BY <1>7, <2>1, <2>2, <3>0
    <3>2. c <= i
      <4>1. \/ c <= i
            \/ i + m < c /\ c - m \in DOMAIN s /\ i < c - m /\ t[c] = s[c - m]
        BY <1>6, <2>1, <2>2, <3>0
      <4>2. SUFFICES ASSUME c - m \in DOMAIN s, i < c - m, a = s[c - m]
                     PROVE  FALSE
        BY <2>2, <4>1
      <4>3. i \in DOMAIN s /\ i # c - m
        BY <1>2, <1>3, <4>2
      <4>4. a # n
        BY <1>2, <4>2, <4>3 DEF IsInjective
      <4>5. c - m < i
        BY <1>2, <1>3, <1>10, <4>2, <4>3, <4>4 DEF Before
      <4>6. QED
        BY <1>1, <1>3, <4>2, <4>5
    <3>3. QED
      BY <1>1, <1>3, <3>1, <3>2
  <2>3. QED
    BY <2>2 DEF Before
<1>11. IsInjective(t)
  <2>1. ASSUME NEW c \in DOMAIN t, NEW d \in DOMAIN t, t[c] = t[d]
        PROVE  c = d
    <3>1. CASE t[c] \in Range(new)
      <4>1. t[c] \notin Range(s)
        BY <3>1
      <4>2. /\ c - i \in DOMAIN new /\ d - i \in DOMAIN new /\ new[c - i] = new[d - i]
        BY <1>7, <2>1, <4>1
      <4>3. c - i = d - i
        BY <4>2 DEF IsInjective
      <4>4. QED
        BY <1>3, <4>3
    <3>2. CASE t[c] \notin Range(new)
      <4> DEFINE x == IF c <= i THEN c ELSE c - m
                 y == IF d <= i THEN d ELSE d - m
      <4>1. /\ x \in DOMAIN s /\ s[x] = t[c] /\ (c <= i => x = c) /\ (c > i => i < x /\ c = x + m)
        BY <1>3, <1>6, <3>2
      <4>2. /\ y \in DOMAIN s /\ s[y] = t[d] /\ (d <= i => y = d) /\ (d > i => i < y /\ d = y + m)
        BY <1>3, <1>6, <2>1, <3>2
      <4> HIDE DEF x, y
      <4>3. x = y
        BY <2>1, <4>1, <4>2 DEF IsInjective
      <4>4. QED
        BY <1>3, <4>1, <4>2, <4>3
    <3>3. QED
      BY <3>1, <3>2
  <2>2. QED
    BY <2>1 DEF IsInjective
<1>12. QED
  BY <1>5, <1>8, <1>9, <1>10, <1>11 DEF t

\* The nodes all stand in the list k, but for the first perhaps, in their order.
Followed(k, all) ==
  \A i, j \in 1..Len(all) : i < j => all[j] \in Range(k) /\ Before(k, all[i], all[j])

LEMMA FollowedKept ==
  ASSUME NEW k, NEW m, NEW all \in Seq(Nodes), Followed(k, all),
         \A a, b \in Range(all) :
           b \in Range(k) /\ Before(k, a, b) => b \in Range(m) /\ Before(m, a, b)
  PROVE  Followed(m, all)
<1>1. \A i \in 1..Len(all) : all[i] \in Range(all)
  BY ListFacts
<1>2. QED
  BY <1>1 DEF Followed

\* A script and what it wrote.
All(w, s) == <<s>> \o w[s]

LEMMA AllFacts ==
  ASSUME NEW s \in Nodes, NEW w, w[s] \in Seq(Nodes)
  PROVE  /\ All(w, s) \in Seq(Nodes) /\ Len(All(w, s)) = Len(w[s]) + 1 /\ Len(w[s]) \in Nat
         /\ All(w, s)[1] = s /\ \A j \in 1..Len(w[s]) : All(w, s)[j + 1] = w[s][j]
         /\ Range(All(w, s)) = {s} \union Range(w[s])
<1> DEFINE r == w[s]
           one == <<s>>
           all == one \o r
<1>1. r \in Seq(Nodes) /\ one \in Seq(Nodes) /\ Len(one) = 1 /\ one[1] = s
  OBVIOUS
<1> HIDE DEF r, one
<1>2. /\ all \in Seq(Nodes) /\ Len(all) = 1 + Len(r)
      /\ \A j \in 1..1 : all[j] = one[j]
      /\ \A j \in 1..Len(r) : all[1 + j] = r[j]
  <2>1. r \in Seq(Nodes) /\ one \in Seq(Nodes)
    BY <1>1
  <2>2. /\ all \in Seq(Nodes) /\ Len(all) = Len(one) + Len(r)
        /\ \A j \in 1..Len(one) : all[j] = one[j]
        /\ \A j \in 1..Len(r) : all[Len(one) + j] = r[j]
    BY ONLY <2>1, JoinedList
  <2>3. QED
    BY <1>1, <2>2
<1> HIDE DEF all
<1>3. /\ Len(r) \in Nat /\ Len(all) = Len(r) + 1 /\ DOMAIN r = 1..Len(r)
      /\ DOMAIN all = 1..(Len(r) + 1)
      /\ all[1] = s /\ \A j \in 1..Len(r) : all[j + 1] = r[j]
  BY <1>1, <1>2
<1>4. Range(all) = {s} \union Range(r)
  <2>1. \A j \in DOMAIN all : j = 1 \/ (j - 1 \in DOMAIN r /\ all[j] = r[j - 1])
    <3>1. ASSUME NEW j \in DOMAIN all, j # 1
          PROVE  j - 1 \in DOMAIN r /\ all[j] = r[j - 1]
      <4>1. j - 1 \in 1..Len(r) /\ (j - 1) + 1 = j
        BY <1>3, <3>1
      <4>2. QED
        BY <1>3, <4>1
    <3>2. QED
      BY <3>1
  <2>2. 1 \in DOMAIN all /\ \A j \in DOMAIN r : j + 1 \in DOMAIN all /\ all[j + 1] = r[j]
    BY <1>3
  <2>3. QED
    BY <1>3, <2>1, <2>2 DEF Range
<1>5. QED
  BY <1>2, <1>3, <1>4 DEF All, all, one, r

\* Every node is in one place at most, once, and was made.
Once(ks, kd) ==
  /\ \A p \in 0..MaxDepth : IsInjective(ks[p])
  /\ \A p, q \in 0..MaxDepth : \A n \in Range(ks[p]) : n \in Range(ks[q]) => p = q
  /\ \A p \in 0..MaxDepth : \A n \in Range(ks[p]) : kd[n] # "free"

\* What a script wrote, w, stands behind it, unless it was disturbed, D.
Written(ks, w, D) ==
  \A s \in Nodes \ D : \A p \in 0..MaxDepth : s \in Range(ks[p]) => Followed(ks[p], All(w, s))

LEMMA WrittenMembers ==
  ASSUME NodeTypes, Written(kids, wrote, disturbed), NEW s \in Nodes \ disturbed,
         NEW p \in 0..MaxDepth, s \in Range(kids[p])
  PROVE  Range(All(wrote, s)) \subseteq Range(kids[p])
<1>1. /\ wrote[s] \in Seq(Nodes) /\ Followed(kids[p], All(wrote, s))
  BY DEF NodeTypes, Written
<1>2. ASSUME NEW j \in 1..Len(wrote[s])
      PROVE  wrote[s][j] \in Range(kids[p])
  <2>1. /\ 1 \in 1..Len(All(wrote, s)) /\ j + 1 \in 1..Len(All(wrote, s)) /\ 1 < j + 1
        /\ All(wrote, s)[j + 1] = wrote[s][j]
    BY <1>1, AllFacts
  <2>2. QED
    BY <1>1, <2>1 DEF Followed
<1>3. \A n \in Range(wrote[s]) : n \in Range(kids[p])
  BY <1>1, <1>2, ListFacts
<1>4. QED
  BY <1>1, <1>3, AllFacts

\* Nodes move, but none of an undisturbed script and what it wrote.
LEMMA WrittenKept ==
  ASSUME NodeTypes, Written(kids, wrote, disturbed), UNCHANGED wrote,
         disturbed \subseteq disturbed',
         \A s \in Nodes \ disturbed' : \A p \in 0..MaxDepth : s \in Range(kids'[p]) =>
           \/ wrote[s] = << >>
           \/ /\ s \in Range(kids[p])
              /\ \A a, b \in Range(All(wrote, s)) :
                   b \in Range(kids[p]) /\ Before(kids[p], a, b) =>
                     b \in Range(kids'[p]) /\ Before(kids'[p], a, b)
  PROVE  Written(kids', wrote', disturbed')
<1> SUFFICES ASSUME NEW s \in Nodes \ disturbed', NEW p \in 0..MaxDepth, s \in Range(kids'[p])
             PROVE  Followed(kids'[p], All(wrote, s))
  BY DEF Written, All
<1>1. wrote[s] \in Seq(Nodes) /\ s \in Nodes /\ s \in Nodes \ disturbed
  BY DEF NodeTypes
<1>2. All(wrote, s) \in Seq(Nodes) /\ Len(All(wrote, s)) = Len(wrote[s]) + 1
  BY <1>1, AllFacts
<1>3. CASE wrote[s] = << >>
  <2>1. Len(All(wrote, s)) = 1
    BY <1>2, <1>3
  <2>2. QED
    BY <2>1 DEF Followed
<1>4. CASE wrote[s] # << >>
  <2>1. Followed(kids[p], All(wrote, s))
    BY <1>1, <1>4 DEF Written
  <2>2. QED
    BY <1>2, <1>4, <2>1, FollowedKept
<1>5. QED
  BY <1>3, <1>4

\* Taking a node out of its place leaves the others and their order.
LEMMA WithoutOnce ==
  ASSUME NodeTypes, Once(kids, kind), NEW n, NEW p \in 0..MaxDepth
  PROVE  /\ Without(n)[p] \in Seq(Nodes) /\ IsInjective(Without(n)[p])
         /\ Range(Without(n)[p]) = Range(kids[p]) \ {n}
         /\ \A a, b : b # n /\ b \in Range(kids[p]) /\ Before(kids[p], a, b) =>
              b \in Range(Without(n)[p]) /\ Before(Without(n)[p], a, b)
<1>1. kids[p] \in Seq(Nodes) /\ IsInjective(kids[p]) /\ Without(n)[p] = Unlinked(kids[p], n)
  BY Withdrawn DEF NodeTypes, Once
<1>2. QED
  BY <1>1, UnlinkedList, UnlinkOrder

\* A node is put at the end of a place.
LEMMA PutOnce ==
  ASSUME NodeTypes, Once(kids, kind), NEW n \in Nodes, NEW p \in 0..MaxDepth,
         kids' = AtEndOf(p, n), kind'[n] # "free",
         \A m \in Nodes : kind[m] # "free" => kind'[m] # "free"
  PROVE  /\ Once(kids', kind')
         /\ \A q \in 0..MaxDepth : Range(kids'[q]) \subseteq Range(kids[q]) \union {n}
         /\ \A q \in 0..MaxDepth : \A a, b :
              a # n /\ b # n /\ b \in Range(kids[q]) /\ Before(kids[q], a, b) =>
                b \in Range(kids'[q]) /\ Before(kids'[q], a, b)
<1>1. ASSUME NEW q \in 0..MaxDepth
      PROVE  /\ IsInjective(kids'[q])
             /\ Range(kids'[q]) = IF q = p THEN (Range(kids[q]) \ {n}) \union {n}
                                  ELSE Range(kids[q]) \ {n}
             /\ \A a, b : a # n /\ b # n /\ b \in Range(kids[q]) /\ Before(kids[q], a, b) =>
                  b \in Range(kids'[q]) /\ Before(kids'[q], a, b)
  <2> DEFINE k == Without(n)[q]
             t == kids'[q]
  <2>1. /\ k \in Seq(Nodes) /\ IsInjective(k) /\ Range(k) = Range(kids[q]) \ {n}
        /\ \A a, b : b # n /\ b \in Range(kids[q]) /\ Before(kids[q], a, b) =>
             b \in Range(k) /\ Before(k, a, b)
    BY WithoutOnce
  <2>2. (q # p => t = k) /\ (q = p => t = Append(k, n))
    BY PutAtEnd
  <2> HIDE DEF k, t
  <2>3. CASE q # p
    <3>1. /\ IsInjective(t) /\ Range(t) = Range(kids[q]) \ {n}
          /\ \A a, b : a # n /\ b # n /\ b \in Range(kids[q]) /\ Before(kids[q], a, b) =>
               b \in Range(t) /\ Before(t, a, b)
      BY <2>1, <2>2, <2>3
    <3>2. QED
      BY <2>3, <3>1 DEF t
  <2>4. CASE q = p
    <3>0. t = Append(k, n) /\ k \in Seq(Nodes) /\ n \in Nodes
      BY <2>1, <2>2, <2>4
    <3>1. /\ Len(k) \in Nat /\ Len(t) = Len(k) + 1 /\ t[Len(k) + 1] = n
          /\ \A i \in 1..Len(k) : t[i] = k[i]
          /\ Range(t) = Range(k) \union {n} /\ t \in Seq(Nodes)
      BY ONLY <3>0, AppendList
    <3>2. IsInjective(t)
      <4>0. DOMAIN t = 1..(Len(k) + 1) /\ DOMAIN k = 1..Len(k) /\ n \notin Range(k)
        BY <2>1, <3>0, <3>1
      <4>1. /\ DOMAIN t = 1..(Len(k) + 1) /\ DOMAIN k = 1..Len(k)
            /\ \A i \in DOMAIN k : k[i] # n
        BY <4>0 DEF Range
      <4>2. QED
        BY <2>1, <3>1, <4>1 DEF IsInjective
    <3>3. ASSUME NEW a, NEW b, a # n, b # n, b \in Range(kids[q]), Before(kids[q], a, b)
          PROVE  b \in Range(t) /\ Before(t, a, b)
      <4>1. b \in Range(k) /\ Before(k, a, b)
        BY <2>1, <3>3
      <4>2. a # n /\ b # n
        BY <3>3
      <4>3. b \in Range(Append(k, n)) /\ Before(Append(k, n), a, b)
        BY ONLY <3>0, <4>1, <4>2, AppendOrder
      <4>4. QED
        BY <3>0, <4>3
    <3>4. Range(t) = (Range(kids[q]) \ {n}) \union {n}
      BY <2>1, <3>1
    <3>5. QED
      BY <2>4, <3>2, <3>3, <3>4 DEF t
  <2>5. QED
    BY <2>3, <2>4
<1>2. \A q \in 0..MaxDepth : \A m \in Range(kids'[q]) : m = n \/ m \in Range(kids[q])
  BY <1>1
<1>3. \A q \in 0..MaxDepth : \A m \in Range(kids[q]) : m \in Nodes
  <2>1. ASSUME NEW q \in 0..MaxDepth PROVE \A m \in Range(kids[q]) : m \in Nodes
    <3>1. kids[q] \in Seq(Nodes)
      BY DEF NodeTypes
    <3>2. QED
      BY <3>1, ListFacts
  <2>2. QED
    BY <2>1
<1>4. ASSUME NEW q \in 0..MaxDepth, NEW r \in 0..MaxDepth, NEW m \in Range(kids'[q]),
             m \in Range(kids'[r])
      PROVE  q = r
  <2>1. CASE m = n
    BY <1>1, <1>4, <2>1
  <2>2. CASE m # n
    <3>1. m \in Range(kids[q]) /\ m \in Range(kids[r])
      BY <1>2, <1>4, <2>2
    <3>2. QED
      BY <3>1 DEF Once
  <2>3. QED
    BY <2>1, <2>2
<1>5. ASSUME NEW q \in 0..MaxDepth, NEW m \in Range(kids'[q])
      PROVE  kind'[m] # "free"
  BY <1>2, <1>3 DEF Once
<1>6. Once(kids', kind')
  BY <1>1, <1>4, <1>5 DEF Once
<1>7. QED
  BY <1>1, <1>2, <1>6

LEMMA PutWritten ==
  ASSUME NodeTypes, Once(kids, kind), Written(kids, wrote, disturbed),
         NEW n \in Nodes, NEW p \in 0..MaxDepth, kids' = AtEndOf(p, n),
         kind'[n] # "free", \A m \in Nodes : kind[m] # "free" => kind'[m] # "free",
         UNCHANGED wrote, disturbed \subseteq disturbed',
         n \notin disturbed' => wrote[n] = << >>,
         \A s \in Nodes \ disturbed' : n \in Range(wrote[s]) =>
           \A q \in 0..MaxDepth : n \notin Range(kids[q])
  PROVE  Once(kids', kind') /\ Written(kids', wrote', disturbed')
<1>1. /\ Once(kids', kind')
      /\ \A q \in 0..MaxDepth : Range(kids'[q]) \subseteq Range(kids[q]) \union {n}
      /\ \A q \in 0..MaxDepth : \A a, b :
           a # n /\ b # n /\ b \in Range(kids[q]) /\ Before(kids[q], a, b) =>
             b \in Range(kids'[q]) /\ Before(kids'[q], a, b)
  BY PutOnce
<1>2. ASSUME NEW s \in Nodes \ disturbed', NEW q \in 0..MaxDepth, s \in Range(kids'[q]), s # n
      PROVE  /\ s \in Range(kids[q])
             /\ \A a, b \in Range(All(wrote, s)) :
                  b \in Range(kids[q]) /\ Before(kids[q], a, b) =>
                    b \in Range(kids'[q]) /\ Before(kids'[q], a, b)
  <2>1. s \in Range(kids[q]) /\ s \in Nodes \ disturbed /\ wrote[s] \in Seq(Nodes)
    BY <1>1, <1>2 DEF NodeTypes
  <2>2. Range(All(wrote, s)) \subseteq Range(kids[q])
    BY <2>1, WrittenMembers
  <2>3. n \notin Range(wrote[s])
    BY <2>1, <2>2, AllFacts
  <2>4. n \notin Range(All(wrote, s))
    BY <1>2, <2>1, <2>3, AllFacts
  <2>5. QED
    BY <1>1, <2>1, <2>4
<1>3. \A s \in Nodes \ disturbed' : \A q \in 0..MaxDepth : s \in Range(kids'[q]) =>
        \/ wrote[s] = << >>
        \/ /\ s \in Range(kids[q])
           /\ \A a, b \in Range(All(wrote, s)) :
                b \in Range(kids[q]) /\ Before(kids[q], a, b) =>
                  b \in Range(kids'[q]) /\ Before(kids'[q], a, b)
  BY <1>2
<1>4. QED
  BY <1>1, <1>3, WrittenKept

\* What is undisturbed when n moved wrote nothing of it.
LEMMA DisturbsFacts ==
  ASSUME NEW n, NEW s \in Nodes, s \notin Disturbs(n)
  PROVE  s # n /\ n \notin Range(wrote[s])
  BY DEF Disturbs

LEMMA RemoveWritten ==
  ASSUME NodeTypes, Once(kids, kind), Written(kids, wrote, disturbed),
         NEW n \in Nodes, ScriptRemoves(n)
  PROVE  Once(kids', kind') /\ Written(kids', wrote', disturbed')
<1>1. kids' = Without(n) /\ disturbed' = disturbed \union Disturbs(n) /\ UNCHANGED <<kind, wrote>>
  BY DEF ScriptRemoves
<1>2. ASSUME NEW q \in 0..MaxDepth
      PROVE  /\ IsInjective(kids'[q]) /\ Range(kids'[q]) = Range(kids[q]) \ {n}
             /\ \A a, b : b # n /\ b \in Range(kids[q]) /\ Before(kids[q], a, b) =>
                  b \in Range(kids'[q]) /\ Before(kids'[q], a, b)
  BY <1>1, WithoutOnce
<1>3. Once(kids', kind')
  BY <1>1, <1>2 DEF Once
<1>4. ASSUME NEW s \in Nodes \ disturbed', NEW q \in 0..MaxDepth, s \in Range(kids'[q])
      PROVE  /\ s \in Range(kids[q])
             /\ \A a, b \in Range(All(wrote, s)) :
                  b \in Range(kids[q]) /\ Before(kids[q], a, b) =>
                    b \in Range(kids'[q]) /\ Before(kids'[q], a, b)
  <2>1. s \notin Disturbs(n) /\ wrote[s] \in Seq(Nodes)
    BY <1>1, <1>4 DEF NodeTypes
  <2>2. n \notin Range(All(wrote, s))
    BY <2>1, AllFacts, DisturbsFacts
  <2>3. QED
    BY <1>2, <1>4, <2>2
<1>5. disturbed \subseteq disturbed'
  BY <1>1
<1>6. QED
  BY <1>1, <1>3, <1>4, <1>5, WrittenKept

\* The document is emptied.
LEMMA OpenWritten ==
  ASSUME NodeTypes, Once(kids, kind), Written(kids, wrote, disturbed), Opened,
         UNCHANGED <<kind, wrote>>
  PROVE  Once(kids', kind') /\ Written(kids', wrote', disturbed')
<1>1. /\ kids' = [kids EXCEPT ![0] = << >>] /\ 0 \in 0..MaxDepth
      /\ disturbed \subseteq disturbed'
  BY BoundsAssumption DEF Opened
<1>2. kids'[0] = << >> /\ \A p \in 0..MaxDepth : p # 0 => kids'[p] = kids[p]
  BY <1>1 DEF NodeTypes
<1>3. Range(<< >>) = {} /\ IsInjective(<< >>)
  BY DEF Range, IsInjective
<1>4. Once(kids', kind')
  BY <1>2, <1>3 DEF Once
<1>5. \A s \in Nodes \ disturbed' : \A p \in 0..MaxDepth : s \in Range(kids'[p]) =>
        s \in Range(kids[p]) /\ kids'[p] = kids[p]
  BY <1>2, <1>3
<1>6. QED
  BY <1>1, <1>4, <1>5, WrittenKept

\* The nodes new follow those that followed each other, behind the last of them.
LEMMA FollowedLonger ==
  ASSUME NEW k, NEW t, NEW all \in Seq(Nodes), NEW new \in Seq(Nodes), IsInjective(new),
         all # << >>, Followed(k, all), Range(new) \subseteq Range(t),
         \A a, b \in Range(all) :
           b \in Range(k) /\ Before(k, a, b) => b \in Range(t) /\ Before(t, a, b),
         \A a \in Range(all), b \in Range(new) :
           a = all[Len(all)] \/ Before(k, a, all[Len(all)]) => Before(t, a, b),
         \A a, b \in Range(new) : Before(new, a, b) => Before(t, a, b)
  PROVE  Followed(t, all \o new)
<1> DEFINE L == Len(all)
           N == Len(new)
           z == all \o new
<1>1. /\ L \in Nat \ {0} /\ N \in Nat /\ Len(z) = L + N
      /\ \A j \in 1..L : z[j] = all[j] /\ all[j] \in Range(all)
      /\ \A j \in 1..N : z[L + j] = new[j] /\ new[j] \in Range(new)
      /\ DOMAIN new = 1..N
  BY JoinedList, ListFacts
<1> HIDE DEF L, N, z
<1>2. ASSUME NEW i \in 1..(L + N), NEW j \in 1..(L + N), i < j
      PROVE  z[j] \in Range(t) /\ Before(t, z[i], z[j])
  <2>1. CASE j <= L
    <3>1. i \in 1..L /\ j \in 1..L
      BY <1>1, <1>2, <2>1
    <3>2. all[j] \in Range(k) /\ Before(k, all[i], all[j])
      BY <1>2, <3>1 DEF Followed, L
    <3>3. QED
      BY <1>1, <3>1, <3>2
  <2>2. CASE L < j
    <3>1. j - L \in 1..N /\ L + (j - L) = j
      BY <1>1, <1>2, <2>2
    <3>2. z[j] = new[j - L] /\ new[j - L] \in Range(new)
      BY <1>1, <3>1
    <3>3. CASE i <= L
      <4>1. i \in 1..L /\ z[i] = all[i] /\ all[i] \in Range(all) /\ L \in 1..L
        BY <1>1, <1>2, <3>3
      <4>2. i = L \/ Before(k, all[i], all[L])
        BY <1>1, <4>1 DEF Followed, L
      <4>3. QED
        BY <3>2, <4>1, <4>2 DEF L
    <3>4. CASE L < i
      <4>1. i - L \in 1..N /\ L + (i - L) = i /\ i - L < j - L
        BY <1>1, <1>2, <3>4
      <4>2. z[i] = new[i - L] /\ new[i - L] \in Range(new)
        BY <1>1, <4>1
      <4>3. Before(new, new[i - L], new[j - L])
        BY <1>1, <3>1, <4>1 DEF Before, IsInjective, N
      <4>4. QED
        BY <3>2, <4>2, <4>3
    <3>5. QED
      BY <1>1, <1>2, <3>3, <3>4
  <2>3. QED
    BY <1>1, <1>2, <2>1, <2>2
<1>3. QED
  BY <1>1, <1>2 DEF Followed, z

\* The fragment goes behind what an undisturbed script wrote last.
LEMMA AnchorIsLast ==
  ASSUME NodeTypes, Once(kids, kind), Written(kids, wrote, disturbed), NEW c \in Nodes \ disturbed,
         Own(wrote, c, point), NEW p \in 0..MaxDepth, NEW r \in 0..MaxDepth,
         c \in Range(kids[r]), NEW n \in InsertAfter([node |-> c, place |-> p])
  PROVE  r = p /\ n = All(wrote, c)[Len(All(wrote, c))]
<1>1. /\ wrote[c] \in Seq(Nodes) /\ Range(All(wrote, c)) \subseteq Range(kids[r])
      /\ c # None
  BY WrittenMembers, BoundsAssumption DEF NodeTypes
<1>2. /\ Len(All(wrote, c)) = Len(wrote[c]) + 1 /\ Len(wrote[c]) \in Nat
      /\ All(wrote, c)[1] = c /\ \A j \in 1..Len(wrote[c]) : All(wrote, c)[j + 1] = wrote[c][j]
      /\ Range(All(wrote, c)) = {c} \union Range(wrote[c])
  BY <1>1, AllFacts
<1>3. \/ point # None /\ point \in Range(kids[p]) /\ n = point
      \/ ~(point # None /\ point \in Range(kids[p])) /\ c \in Range(kids[p]) /\ n = c
  BY DEF InsertAfter
<1>4. CASE wrote[c] = << >>
  <2>1. point = None /\ Len(wrote[c]) = 0
    BY <1>1, <1>4 DEF Own
  <2>2. n = c /\ c \in Range(kids[p]) /\ Len(All(wrote, c)) = 1
    BY <1>2, <1>3, <2>1
  <2>3. r = p
    BY <2>2 DEF Once
  <2>4. QED
    BY <1>2, <2>2, <2>3
<1>5. CASE wrote[c] # << >>
  <2>1. point = Last(wrote[c]) /\ Len(wrote[c]) \in 1..Len(wrote[c])
    BY <1>1, <1>5 DEF Own
  <2>2. point = wrote[c][Len(wrote[c])] /\ point \in Range(wrote[c]) /\ point # None
    BY <1>1, <2>1, ListFacts, BoundsAssumption DEF Last
  <2>3. point \in Range(kids[r])
    BY <1>1, <1>2, <2>2
  <2>4. r = p
    BY <1>3, <2>3 DEF Once
  <2>5. n = point
    BY <1>3, <2>2, <2>3, <2>4
  <2>6. QED
    BY <1>2, <2>1, <2>2, <2>4, <2>5
<1>6. QED
  BY <1>4, <1>5

LEMMA FragmentWritten ==
  ASSUME StackTypes, NodeTypes, Housed(stack, kids), PointInv, FragmentReturns,
         Once(kids, kind), Written(kids, wrote, disturbed)
  PROVE  Once(kids', kind') /\ Written(kids', wrote', disturbed')
<1> DEFINE i == Len(stack)
           p == Top.place
           c == Top.node
           new == kids[i]
           k == kids[p]
<1>1. /\ stack # << >> /\ Top.at = "fragment" /\ c \in Nodes
      /\ i \in 1..MaxDepth /\ i \in 0..MaxDepth /\ new \in Seq(Nodes) /\ p \in 0..MaxDepth /\ p # i
      /\ UNCHANGED <<kind, disturbed>>
      /\ \/ kids' = [kids EXCEPT ![i] = << >>] /\ UNCHANGED <<point, wrote>>
         \/ \E n \in InsertAfter(Top) :
              /\ n \in Range(k) /\ new # << >>
              /\ kids' = [kids EXCEPT ![i] = << >>, ![p] = InsertedBehind(k, n, new)]
              /\ wrote' = [wrote EXCEPT ![c] = @ \o new]
  <2>1. UNCHANGED <<kind, disturbed>>
    BY DEF FragmentReturns
  <2>2. /\ stack # << >> /\ Top.at = "fragment" /\ c \in Nodes
        /\ i \in 1..MaxDepth /\ new \in Seq(Nodes) /\ p \in 0..MaxDepth /\ p < i
    BY FragmentMoves
  <2>3. \/ kids' = [kids EXCEPT ![i] = << >>] /\ UNCHANGED <<point, wrote>>
        \/ \E n \in InsertAfter(Top) :
             /\ n \in Range(k) /\ new # << >>
             /\ kids' = [kids EXCEPT ![i] = << >>, ![p] = InsertedBehind(k, n, new)]
             /\ wrote' = [wrote EXCEPT ![c] = @ \o new]
    BY FragmentMoves
  <2> HIDE DEF c, new, k
  <2>4. QED
    BY <2>1, <2>2, <2>3
<1>2. Own(wrote, c, point)
  <2>1. c = current
    BY <1>1, PopTraced DEF StackTypes
  <2>2. QED
    BY <2>1 DEF PointInv
<1>3. Range(<< >>) = {} /\ IsInjective(<< >>)
  BY DEF Range, IsInjective
<1>4. /\ \A q \in 0..MaxDepth : kids[q] \in Seq(Nodes) /\ IsInjective(kids[q])
      /\ \A q, r \in 0..MaxDepth : \A m \in Range(kids[q]) : m \in Range(kids[r]) => q = r
      /\ \A q \in 0..MaxDepth : \A m \in Range(kids[q]) : kind[m] # "free"
      /\ kids \in [0..MaxDepth -> Seq(Nodes)] /\ wrote \in [Nodes -> Seq(Nodes)]
  BY DEF NodeTypes, Once
<1>5. CASE kids' = [kids EXCEPT ![i] = << >>] /\ UNCHANGED <<point, wrote>>
  <2>1. kids'[i] = << >> /\ \A q \in 0..MaxDepth : q # i => kids'[q] = kids[q]
    BY <1>1, <1>4, <1>5
  <2>2. Once(kids', kind')
    <3>1. /\ \A q \in 0..MaxDepth : IsInjective(kids'[q])
          /\ \A q \in 0..MaxDepth : \A m \in Range(kids'[q]) : m \in Range(kids[q])
      BY <1>3, <1>4, <2>1
    <3>2. QED
      BY <1>1, <1>4, <3>1 DEF Once
  <2>3. \A s \in Nodes \ disturbed' : \A q \in 0..MaxDepth : s \in Range(kids'[q]) =>
          s \in Range(kids[q]) /\ kids'[q] = kids[q]
    BY <1>3, <2>1
  <2>4. QED
    BY <1>1, <1>5, <2>2, <2>3, WrittenKept
<1>6. ASSUME NEW n \in InsertAfter(Top), n \in Range(k), new # << >>,
             kids' = [kids EXCEPT ![i] = << >>, ![p] = InsertedBehind(k, n, new)],
             wrote' = [wrote EXCEPT ![c] = @ \o new]
      PROVE  Once(kids', kind') /\ Written(kids', wrote', disturbed')
  <2> DEFINE t == InsertedBehind(k, n, new)
  <2>1. /\ k \in Seq(Nodes) /\ IsInjective(k) /\ IsInjective(new)
        /\ \A e \in Range(new) : e \notin Range(k)
    BY <1>1, <1>4
  <2>2. /\ IsInjective(t) /\ Range(t) = Range(k) \union Range(new)
        /\ \A a, b : b \in Range(k) /\ a \notin Range(new) /\ Before(k, a, b) => Before(t, a, b)
        /\ \A a, b : a \notin Range(k) /\ b \in Range(new) /\ Before(new, a, b) => Before(t, a, b)
        /\ \A a, b : a \in Range(k) /\ b \in Range(new) /\ (a = n \/ Before(k, a, n))
                       => Before(t, a, b)
    <3> HIDE DEF k, new
    <3>1. k \in Seq(Nodes) /\ IsInjective(k) /\ n \in Range(k) /\ new \in Seq(Nodes)
          /\ IsInjective(new) /\ \A e \in Range(new) : e \notin Range(k)
      BY <1>1, <1>6, <2>1
    <3>2. QED
      BY ONLY <3>1, InsertOrder
  <2>3. /\ kids'[i] = << >> /\ kids'[p] = t
        /\ \A q \in 0..MaxDepth : q # i /\ q # p => kids'[q] = kids[q]
    BY <1>1, <1>4, <1>6
  <2>4. wrote'[c] = wrote[c] \o new /\ \A s \in Nodes : s # c => wrote'[s] = wrote[s]
    BY <1>1, <1>4, <1>6
  <2> HIDE DEF t
  <2>5. Once(kids', kind')
    <3>1. \A q \in 0..MaxDepth : IsInjective(kids'[q])
      BY <1>3, <1>4, <2>2, <2>3
    <3>2. \A q \in 0..MaxDepth : \A m \in Range(kids'[q]) :
            /\ q # i
            /\ q # p => m \in Range(kids[q])
            /\ q = p => m \in Range(kids[p]) \/ m \in Range(kids[i])
      BY <1>1, <1>3, <2>2, <2>3
    <3>3. \A q, r \in 0..MaxDepth : \A m \in Range(kids'[q]) : m \in Range(kids'[r]) => q = r
      BY <1>1, <1>4, <3>2
    <3>4. \A q \in 0..MaxDepth : \A m \in Range(kids'[q]) : kind'[m] # "free"
      BY <1>1, <1>4, <3>2
    <3>5. QED
      BY <3>1, <3>3, <3>4 DEF Once
  <2>6. ASSUME c \notin disturbed, NEW r \in 0..MaxDepth, c \in Range(kids[r])
        PROVE  r = p /\ n = All(wrote, c)[Len(All(wrote, c))]
    <3>1. InsertAfter(Top) = InsertAfter([node |-> c, place |-> p])
      BY DEF InsertAfter
    <3>2. QED
      BY <1>1, <1>2, <1>6, <2>6, <3>1, AnchorIsLast
  <2>7. ASSUME NEW s \in Nodes \ disturbed, NEW q \in 0..MaxDepth, s \in Range(kids'[q])
        PROVE  Followed(kids'[q], All(wrote', s))
    <3>1. q # i /\ (q = p => s \in Range(k) \/ s \in Range(new)) /\ (q # p => s \in Range(kids[q]))
      BY <1>3, <2>2, <2>3, <2>7
    <3>2. wrote[s] \in Seq(Nodes) /\ All(wrote, s) \in Seq(Nodes)
      BY <1>4, AllFacts
    <3>3. CASE s = c
      <4>1. q = p /\ s \in Range(k) /\ n = All(wrote, s)[Len(All(wrote, s))]
        BY <1>1, <2>6, <2>7, <3>1, <3>3
      <4>2. Followed(k, All(wrote, s)) /\ Range(All(wrote, s)) \subseteq Range(k)
        BY <1>1, <2>7, <3>2, <4>1, WrittenMembers DEF Written, All
      <4>3. All(wrote, s) # << >>
        BY <3>2, AllFacts
      <4>4. \A a, b \in Range(All(wrote, s)) :
              b \in Range(k) /\ Before(k, a, b) => b \in Range(t) /\ Before(t, a, b)
        BY <2>1, <2>2, <4>2
      <4>5. \A a \in Range(All(wrote, s)), b \in Range(new) :
              a = n \/ Before(k, a, n) => Before(t, a, b)
        BY <2>2, <4>2
      <4>6. \A a, b \in Range(new) : Before(new, a, b) => Before(t, a, b)
        BY <2>1, <2>2
      <4> DEFINE all == All(wrote, s)
      <4>7. Followed(t, all \o new)
        <5>1. /\ all \in Seq(Nodes) /\ new \in Seq(Nodes) /\ IsInjective(new) /\ all # << >>
              /\ Followed(k, all) /\ Range(new) \subseteq Range(t)
              /\ \A a, b \in Range(all) :
                   b \in Range(k) /\ Before(k, a, b) => b \in Range(t) /\ Before(t, a, b)
              /\ \A a \in Range(all), b \in Range(new) :
                   a = all[Len(all)] \/ Before(k, a, all[Len(all)]) => Before(t, a, b)
              /\ \A a, b \in Range(new) : Before(new, a, b) => Before(t, a, b)
          BY <1>1, <2>1, <2>2, <3>2, <4>1, <4>2, <4>3, <4>4, <4>5, <4>6
        <5> HIDE DEF all, new, k
        <5>2. QED
          BY ONLY <5>1, FollowedLonger
      <4>8. All(wrote', s) = all \o new
        <5>1. wrote[s] \in Seq(Nodes) /\ new \in Seq(Nodes) /\ <<s>> \in Seq(Nodes)
          BY <1>1, <3>2
        <5>2. wrote'[s] = wrote[s] \o new
          BY <2>4, <3>3
        <5> DEFINE one == <<s>>
                   w == wrote[s]
        <5>3. one \in Seq(Nodes) /\ w \in Seq(Nodes) /\ new \in Seq(Nodes)
          BY <5>1
        <5>4. (one \o w) \o new = one \o (w \o new)
          <6> HIDE DEF one, w, new
          <6>1. QED
            BY ONLY <5>3, ConcatAssociative, SMTT(30)
        <5>5. QED
          BY <5>2, <5>4 DEF All
      <4>9. QED
        BY <2>3, <4>1, <4>7, <4>8
    <3>4. CASE s # c
      <4>0. All(wrote', s) = All(wrote, s)
        BY <2>4, <3>4 DEF All
      <4>1. PICK r \in 0..MaxDepth : /\ s \in Range(kids[r])
                                     /\ q = p => r = p \/ r = i
                                     /\ q # p => r = q
        BY <1>1, <3>1
      <4>2. Followed(kids[r], All(wrote, s)) /\ Range(All(wrote, s)) \subseteq Range(kids[r])
        BY <2>7, <4>1, WrittenMembers DEF Written, All
      <4>3. \A a, b \in Range(All(wrote, s)) :
              b \in Range(kids[r]) /\ Before(kids[r], a, b) =>
                b \in Range(kids'[q]) /\ Before(kids'[q], a, b)
        <5>1. CASE q # p
          BY <2>3, <3>1, <4>1, <5>1
        <5>2. CASE q = p /\ r = p
          BY <2>1, <2>2, <2>3, <4>2, <5>2
        <5>3. CASE q = p /\ r = i
          BY <2>1, <2>2, <2>3, <4>2, <5>3
        <5>4. QED
          BY <4>1, <5>1, <5>2, <5>3
      <4>4. QED
        BY <3>2, <4>0, <4>2, <4>3, FollowedKept
    <3>5. QED
      BY <3>3, <3>4
  <2>8. QED
    BY <1>1, <2>5, <2>7 DEF Written, All
<1>7. QED
  BY <1>1, <1>5, <1>6

\* What was a script once loads or runs, and what is constructed is a custom
\* element.
Origins ==
  /\ \A n \in Nodes : st[n] # "idle" => kind[n] \in Scripts
  /\ \A i \in 1..Len(stack) :
       stack[i].at = "constructor" => stack[i].node \in Nodes /\ kind[stack[i].node] = "custom"

\* A node stays what it was made.
LEMMA KindsStay ==
  ASSUME NodeTypes, Next
  PROVE  \A m \in Nodes : kind[m] # "free" => kind'[m] = kind[m]
<1>1. ASSUME NEW n \in Nodes, NEW k \in Kinds, kind' = [kind EXCEPT ![n] = k],
             kind[n] = "free" \/ kind[n] = k
      PROVE  \A m \in Nodes : kind[m] # "free" => kind'[m] = kind[m]
  BY <1>1 DEF NodeTypes
<1>2. CASE UNCHANGED kind
  BY <1>2
<1>3. ASSUME NEW n \in Nodes, NEW k \in Kinds, ParserAdds(n, k) \/ ScriptInserts(n, k)
      PROVE  \A m \in Nodes : kind[m] # "free" => kind'[m] = kind[m]
  <2>1. kind' = [kind EXCEPT ![n] = k] /\ (kind[n] = "free" \/ kind[n] = k)
    BY <1>3 DEF ParserAdds, ScriptInserts, Fresh
  <2>2. QED
    BY <1>1, <2>1
<1>4. ASSUME NEW n \in Nodes, ParserConstructs(n)
      PROVE  \A m \in Nodes : kind[m] # "free" => kind'[m] = kind[m]
  <2>1. kind' = [kind EXCEPT ![n] = "custom"] /\ kind[n] = "free" /\ "custom" \in Kinds
    BY <1>4 DEF ParserConstructs, Fresh, Kinds
  <2>2. QED
    BY <1>1, <2>1
<1>5. \/ UNCHANGED kind
      \/ \E n \in Nodes : ParserConstructs(n) \/ \E k \in Kinds : ParserAdds(n, k) \/ ScriptInserts(n, k)
  BY DEF Next, DoneCallback, ErrorCallback, ScriptRemoves, ErrorReturns, SyncReturns, WaitForImport,
     WaitReturns, ScriptReturns, RunReady, NotYet, RunDeferred, NoDeferred, TailHook, CodeReturns,
     Task, ConstructorReturns, ParseReturns, Open, WriteToParser, FeedReturns, FeedPanics,
     WriteInline, FragmentReturns, Close, FinishReturns, CloseCompletes, CloseReturns, nodes
<1>6. QED
  BY <1>2, <1>3, <1>4, <1>5

\* Only scripts that load go on.
LEMMA ScriptsStart ==
  ASSUME StackTypes, NodeTypes, ListTypes, Syncing(stack), Next
  PROVE  \A m \in Nodes : st'[m] # "idle" => st[m] # "idle" \/ kind'[m] \in Scripts
<1>1. ASSUME NEW n \in Nodes, NEW v, st' = [st EXCEPT ![n] = v], st[n] # "idle" \/ kind'[n] \in Scripts
      PROVE  \A m \in Nodes : st'[m] # "idle" => st[m] # "idle" \/ kind'[m] \in Scripts
  BY <1>1 DEF ListTypes
<1>2. CASE UNCHANGED st
  BY <1>2
<1>3. ASSUME NEW n \in Nodes, DoneCallback(n) \/ ErrorCallback(n)
      PROVE  \A m \in Nodes : st'[m] # "idle" => st[m] # "idle" \/ kind'[m] \in Scripts
  <2>1. st[n] # "idle" /\ \E v : st' = [st EXCEPT ![n] = v]
    BY <1>3 DEF DoneCallback, ErrorCallback
  <2>2. QED
    BY <1>1, <2>1
<1>4. ASSUME NEW n \in Nodes, NEW k \in Kinds, ParserAdds(n, k) \/ ScriptInserts(n, k)
      PROVE  \A m \in Nodes : st'[m] # "idle" => st[m] # "idle" \/ kind'[m] \in Scripts
  <2>1. kind' = [kind EXCEPT ![n] = k] /\ \E f \in BOOLEAN : AddFromElement(f, n, k)
    BY <1>4 DEF ParserAdds, ScriptInserts
  <2>2. kind'[n] = k
    BY <2>1 DEF NodeTypes
  <2>3. UNCHANGED st \/ (k \in Scripts /\ \E v : st' = [st EXCEPT ![n] = v])
    BY <2>1 DEF AddFromElement, Add
  <2>4. QED
    BY <1>1, <1>2, <2>2, <2>3
<1>5. CASE SyncReturns
  <2>1. stack # << >> /\ Top.at = "sync" /\ Stacked(stack)
    BY <1>5 DEF SyncReturns, At, StackTypes
  <2>2. Top.node \in Nodes /\ Len(stack) \in 1..Len(stack) /\ Top = stack[Len(stack)]
    BY <2>1, PopFrame, FrameFacts DEF Waiters, Stacked
  <2>3. st[Top.node] # "idle"
    BY <2>1, <2>2 DEF Syncing
  <2>4. \E v : st' = [st EXCEPT ![Top.node] = v]
    BY <1>5 DEF SyncReturns
  <2>5. QED
    BY <1>1, <2>2, <2>3, <2>4
<1>6. \/ UNCHANGED st
      \/ SyncReturns
      \/ \E n \in Nodes : \/ DoneCallback(n) \/ ErrorCallback(n)
                          \/ \E k \in Kinds : ParserAdds(n, k) \/ ScriptInserts(n, k)
  BY DEF Next, ScriptRemoves, ErrorReturns, WaitForImport,
     WaitReturns, ScriptReturns, RunReady, NotYet, RunDeferred, NoDeferred, TailHook, CodeReturns,
     Task, ConstructorReturns, ParserConstructs, ParseReturns, Open, WriteToParser, FeedReturns,
     FeedPanics, WriteInline, FragmentReturns, Close, FinishReturns, CloseCompletes, CloseReturns
<1>7. QED
  BY <1>2, <1>3, <1>4, <1>5, <1>6

LEMMA OriginsStep ==
  ASSUME OrderedInv, Origins, [Next]_vars
  PROVE  Origins'
<1>0. /\ StackTypes /\ NodeTypes /\ ListTypes /\ Syncing(stack) /\ Stacked(stack)
  BY DEF OrderedInv, TypeInv, StackTypes, OrderInv
<1>1. CASE UNCHANGED vars
  BY <1>1 DEF vars, nodes, Origins
<1>2. CASE Next
  <2>1. \A m \in Nodes : kind[m] # "free" => kind'[m] = kind[m]
    BY <1>0, <1>2, KindsStay
  <2>2. "free" \notin Scripts /\ "free" # "custom"
    BY DEF Scripts, Kinds
  <2>3. \A n \in Nodes : st'[n] # "idle" => kind'[n] \in Scripts
    BY <1>0, <1>2, <2>1, <2>2, ScriptsStart DEF Origins
  <2> DEFINE L == {"constructor"}
  <2>4. CASE Kept(stack, stack', L) \/ (stack' = Below /\ stack # << >>)
    <3>1. \A i \in 1..Len(stack') : stack'[i].at = "constructor" => i \in 1..Len(stack) /\ stack'[i] = stack[i]
      BY <1>0, <2>4, PopFrame DEF Kept
    <3>2. QED
      BY <2>1, <2>2, <2>3, <3>1 DEF Origins
  <2>5. ASSUME NEW n \in Nodes, ParserConstructs(n)
        PROVE  Origins'
    <3> DEFINE c == Call("constructor", n)
    <3>1. stack' = Append(stack, c) /\ c.node = n /\ kind' = [kind EXCEPT ![n] = "custom"]
      BY <2>5, CallFacts DEF ParserConstructs
    <3> HIDE DEF c
    <3>2. stack \in Seq(Frame \union {c}) /\ c \in Frame \union {c}
      BY <1>0 DEF Stacked
    <3>3. \A i \in 1..Len(stack') : (i \in 1..Len(stack) /\ stack'[i] = stack[i]) \/ stack'[i] = c
      BY <3>1, <3>2
    <3>4. kind'[n] = "custom"
      BY <1>0, <3>1 DEF NodeTypes
    <3>5. QED
      BY <2>1, <2>2, <2>3, <3>1, <3>3, <3>4 DEF Origins
  <2>6. /\ L \intersect {"ready", "script", "wait", "parse", "event", "error", "task", "defers"} = {}
        /\ L \intersect {"feed", "finish", "closing", "closed", "ready", "event"} = {}
        /\ "sync" \notin L /\ "tail" \notin L /\ "fragment" \notin L
    OBVIOUS
  <2>7. CASE RunsScripts \/ Opening \/ WriteInline \/ FragmentReturns
    <3>1. Kept(stack, stack', L)
      <4> HIDE DEF L
      <4>1. QED
        BY <1>0, <2>6, <2>7, RunsScriptsKeeps, OpeningKeeps, InliningKeeps
    <3>2. QED
      <4> HIDE DEF L
      <4>1. QED
        BY <2>4, <3>1
  <2>9. CASE ConstructorReturns
    BY <2>4, <2>9 DEF ConstructorReturns, At
  <2>10. QED
    BY <1>2, <2>5, <2>7, <2>9, StepsAre DEF Constructing
<1>3. QED
  BY <1>1, <1>2

WritesInv == Origins /\ Once(kids, kind) /\ Written(kids, wrote, disturbed)

\* Only scripts write.
LEMMA OnlyScriptsWrite ==
  ASSUME OrderedInv, PointInv, Origins, NEW n \in Nodes, kind[n] \notin Scripts
  PROVE  wrote[n] = << >>
<1>1. wrote[n] # << >> => n \in Range(ran)
  BY DEF PointInv
<1>2. n \in Range(ran) => st[n] = "loaded"
  BY InOrder DEF OrderedInv
<1>3. QED
  BY <1>1, <1>2 DEF Origins

\* A node that is somewhere is moved with what it disturbs.
LEMMA MovedWritten ==
  ASSUME OrderedInv, PointInv, WritesInv, NEW n \in Nodes, NEW p \in 0..MaxDepth,
         kids' = AtEndOf(p, n), kind'[n] # "free",
         \A m \in Nodes : kind[m] # "free" => kind'[m] = kind[m],
         UNCHANGED wrote, disturbed \subseteq disturbed',
         kind[n] \notin Scripts \/ n \in disturbed',
         Homes(n) = {} \/ Disturbs(n) \subseteq disturbed'
  PROVE  Once(kids', kind') /\ Written(kids', wrote', disturbed')
<1>1. NodeTypes /\ DOMAIN kids = 0..MaxDepth
  BY DEF OrderedInv, TypeInv, NodeTypes
<1>2. n \notin disturbed' => wrote[n] = << >>
  BY OnlyScriptsWrite DEF WritesInv
<1>3. ASSUME NEW s \in Nodes \ disturbed', n \in Range(wrote[s]), NEW q \in 0..MaxDepth
      PROVE  n \notin Range(kids[q])
  BY <1>1, <1>3 DEF Homes, Disturbs
<1>4. \A m \in Nodes : kind[m] # "free" => kind'[m] # "free"
  OBVIOUS
<1>5. QED
  BY <1>1, <1>2, <1>3, <1>4, PutWritten DEF WritesInv

\* What is not made is nowhere.
LEMMA FreshIsNowhere ==
  ASSUME NodeTypes, Once(kids, kind), NEW n \in Nodes, kind[n] = "free"
  PROVE  Homes(n) = {}
<1>1. DOMAIN kids = 0..MaxDepth
  BY DEF NodeTypes
<1>2. QED
  BY <1>1 DEF Homes, Once

LEMMA WritesStep ==
  ASSUME OrderedInv, PointInv, WritesInv, [Next]_vars
  PROVE  WritesInv'
<1>0. /\ StackTypes /\ NodeTypes /\ Housed(stack, kids) /\ Stacked(stack)
      /\ Once(kids, kind) /\ Written(kids, wrote, disturbed) /\ Origins
  BY DEF OrderedInv, TypeInv, StackTypes, WritesInv
<1>1. Origins'
  BY <1>0, OriginsStep
<1>2. CASE UNCHANGED vars
  BY <1>0, <1>1, <1>2 DEF vars, nodes, past, WritesInv, Once, Written, All
<1>3. CASE Next
  <2> SUFFICES Once(kids', kind') /\ Written(kids', wrote', disturbed')
    BY <1>1 DEF WritesInv
  <2>1. \A m \in Nodes : kind[m] # "free" => kind'[m] = kind[m]
    BY <1>0, <1>3, KindsStay
  <2>2. CASE UNCHANGED <<kids, wrote, disturbed>>
    <3>1. \A p \in 0..MaxDepth : \A n \in Range(kids[p]) : n \in Nodes
      <4>1. ASSUME NEW p \in 0..MaxDepth PROVE \A n \in Range(kids[p]) : n \in Nodes
        <5>1. kids[p] \in Seq(Nodes)
          BY <1>0 DEF NodeTypes
        <5>2. QED
          BY <5>1, ListFacts
      <4>2. QED
        BY <4>1
    <3>2. QED
      BY <1>0, <2>1, <2>2, <3>1 DEF Once, Written, All
  <2>3. "free" \notin Scripts /\ "custom" \notin Scripts /\ "free" \notin Kinds /\ "custom" \in Kinds
    BY DEF Scripts, Kinds
  <2>4. 0 \in 0..MaxDepth
    BY BoundsAssumption
  <2>5. ASSUME NEW n \in Nodes, NEW k \in Kinds, ParserAdds(n, k)
        PROVE  Once(kids', kind') /\ Written(kids', wrote', disturbed')
    <3>1. /\ kind[n] = "free" /\ kind' = [kind EXCEPT ![n] = k]
          /\ kids' = AtEndOf(ParserPlace(stack), n) /\ UNCHANGED <<wrote, disturbed>>
      BY <2>5 DEF ParserAdds, Fresh
    <3>2. kind'[n] # "free" /\ Homes(n) = {} /\ ParserPlace(stack) \in 0..MaxDepth
      BY <1>0, <2>3, <3>1, FreshIsNowhere, PlaceOf DEF NodeTypes
    <3>3. QED
      BY <2>1, <2>3, <3>1, <3>2, MovedWritten
  <2>6. ASSUME NEW n \in Nodes, NEW k \in Kinds, ScriptInserts(n, k)
        PROVE  Once(kids', kind') /\ Written(kids', wrote', disturbed')
    <3>1. /\ kind' = [kind EXCEPT ![n] = k] /\ kids' = AtEndOf(0, n) /\ UNCHANGED wrote
          /\ disturbed' = disturbed \union (IF kind[n] = "free" THEN {} ELSE Disturbs(n))
      BY <2>6 DEF ScriptInserts
    <3>2. kind'[n] # "free"
      BY <1>0, <2>3, <3>1 DEF NodeTypes
    <3>3. disturbed \subseteq disturbed' /\ n \in Disturbs(n)
      BY <3>1 DEF Disturbs
    <3>4. CASE kind[n] = "free"
      BY <1>0, <2>1, <2>3, <2>4, <3>1, <3>2, <3>3, <3>4, FreshIsNowhere, MovedWritten
    <3>5. CASE kind[n] # "free"
      <4>1. n \in disturbed' /\ Disturbs(n) \subseteq disturbed'
        BY <3>1, <3>3, <3>5
      <4>2. QED
        BY <2>1, <2>4, <3>1, <3>2, <3>3, <4>1, MovedWritten
    <3>6. QED
      BY <3>4, <3>5
  <2>7. CASE ConstructorReturns
    <3> DEFINE n == Top.node
               p == ParserPlace(Below)
    <3>1. /\ stack # << >> /\ Top.at = "constructor" /\ UNCHANGED <<kind, wrote>>
          /\ kids' = AtEndOf(p, n)
          /\ disturbed' = disturbed \union (IF Homes(n) = {} THEN {} ELSE Disturbs(n))
      BY <2>7 DEF ConstructorReturns, At
    <3>2. n \in Nodes /\ kind[n] = "custom"
      <4>1. Len(stack) \in 1..Len(stack) /\ Top = stack[Len(stack)]
        BY <1>0, <3>1, PopFrame DEF Stacked
      <4>2. QED
        BY <1>0, <3>1, <4>1 DEF Origins
    <3>3. p \in 0..MaxDepth
      BY <1>0, <3>1, BelowFits, PopFrame, PlaceOf DEF Stacked
    <3> HIDE DEF n, p
    <3>4. disturbed \subseteq disturbed' /\ (Homes(n) = {} \/ Disturbs(n) \subseteq disturbed')
      BY <3>1
    <3>5. kind[n] \notin Scripts /\ kind'[n] # "free"
      BY <2>3, <3>1, <3>2
    <3>6. QED
      BY <2>1, <3>1, <3>2, <3>3, <3>4, <3>5, MovedWritten
  <2>8. CASE Opened /\ UNCHANGED <<kind, wrote>>
    BY <1>0, <2>8, OpenWritten
  <2>9. CASE Open \/ WriteToParser
    <3>1. (Opened \/ UNCHANGED <<kids, disturbed>>) /\ UNCHANGED <<kind, wrote>>
      BY <2>9 DEF Open, WriteToParser
    <3>2. QED
      BY <2>2, <2>8, <3>1
  <2>10. ASSUME NEW n \in Nodes, ScriptRemoves(n)
         PROVE  Once(kids', kind') /\ Written(kids', wrote', disturbed')
    BY <1>0, <2>10, RemoveWritten
  <2>11. CASE FragmentReturns
    BY <1>0, <2>11, FragmentWritten
  <2>12. \/ UNCHANGED <<kids, wrote, disturbed>>
         \/ ConstructorReturns \/ Open \/ WriteToParser \/ FragmentReturns
         \/ \E n \in Nodes : \/ ScriptRemoves(n)
                             \/ \E k \in Kinds : ParserAdds(n, k) \/ ScriptInserts(n, k)
    BY <1>3 DEF Next, DoneCallback, ErrorCallback, ErrorReturns, SyncReturns, WaitForImport,
       WaitReturns, ScriptReturns, RunReady, NotYet, RunDeferred, NoDeferred, TailHook, CodeReturns,
       Task, ParserConstructs, ParseReturns, FeedReturns, FeedPanics, WriteInline, Close,
       FinishReturns, CloseCompletes, CloseReturns, nodes, past
  <2>13. QED
    BY <2>2, <2>5, <2>6, <2>7, <2>9, <2>10, <2>11, <2>12
<1>4. QED
  BY <1>2, <1>3

LEMMA WritesInit == Init => WritesInv
<1> SUFFICES ASSUME Init
             PROVE  WritesInv
  OBVIOUS
<1>1. /\ \A p \in 0..MaxDepth : kids[p] = << >>
      /\ Range(<< >>) = {} /\ IsInjective(<< >>)
  BY DEF Init, Range, IsInjective
<1>2. Once(kids, kind) /\ Written(kids, wrote, disturbed)
  BY <1>1 DEF Once, Written
<1>3. \A n \in Nodes : st[n] = "idle"
  BY DEF Init
<1>4. \A i \in 1..Len(stack) : stack[i].at # "constructor"
  <2>1. CASE stack = << >>
    BY <2>1
  <2>2. CASE stack = <<Call("parse", None)>>
    <3> DEFINE c == Call("parse", None)
    <3>1. c.at = "parse" /\ stack = <<c>>
      BY <2>2, CallFacts
    <3> HIDE DEF c
    <3>2. Len(stack) = 1 /\ stack[1] = c
      BY <3>1
    <3>3. QED
      BY <3>1, <3>2
  <2>3. QED
    BY <2>1, <2>2 DEF Init
<1>5. QED
  BY <1>2, <1>3, <1>4 DEF WritesInv, Origins

\* What a script writes while the page is parsed stands behind it in the order
\* it was written in, whatever scripts of what it wrote write in between,
\* wherever the fragment is that it was written into, and whatever else is
\* inserted, moved or removed, but for the scripts whose own nodes were
\* (Document.zig, writeInternal).
THEOREM WritesStandInOrder == Spec => []WritesInOrder
<1>1. OrderedInv /\ WritesInv => WritesInOrder
  <2> SUFFICES ASSUME OrderedInv, WritesInv
               PROVE  WritesInOrder
    OBVIOUS
  <2>1. DOMAIN kids = 0..MaxDepth
    BY DEF OrderedInv, TypeInv, NodeTypes
  <2>2. QED
    BY <2>1 DEF WritesInOrder, WritesInv, Homes, Written, Followed, All
<1>2. OrderedInv /\ PointInv /\ WritesInv /\ [Next]_vars => WritesInv'
  BY WritesStep
<1>3. OrderedInv /\ OrderedInv' /\ PointInv /\ [Next]_vars => PointInv'
  BY PointStep
<1>4. QED
  BY OrderedAlways, PointInit, WritesInit, <1>1, <1>2, <1>3, PTL DEF Spec
=============================================================================
