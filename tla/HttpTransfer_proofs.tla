------------------------ MODULE HttpTransfer_proofs -------------------------
(***************************************************************************)
(* The HTTP client for any number of transfers, connections and owners, at *)
(* any depth of nested callbacks.                                          *)
(*                                                                         *)
(* Sane holds whatever pages, servers and clients do: the types, what each *)
(* call of the stack stands on, and what links a transfer to the lists it  *)
(* is on.  Entered says that curl is on the stack at most once and that    *)
(* performing tells it; Wired that every connection is in one place.       *)
(* Those need the cases left out in which the code breaks them: see each   *)
(* theorem's assumptions.                                                  *)
(***************************************************************************)
EXTENDS HttpTransferProps, FiniteSetTheorems, SequenceTheorems, TLAPS

Elements(s) == {s[i] : i \in DOMAIN s}
Distinct(s) == \A i, j \in DOMAIN s : s[i] = s[j] => i = j

Rank(K, i) == Cardinality({j \in K : j <= i})

\* Every number up to the size of K is the rank of one element of K.
LEMMA Ranks ==
  ASSUME NEW n \in Nat, NEW K \in SUBSET (1..n)
  PROVE  /\ Cardinality(K) \in Nat
         /\ \A i \in K : Rank(K, i) \in 1..Cardinality(K)
         /\ \A i, k \in K : Rank(K, i) = Rank(K, k) => i = k
         /\ \A p \in 1..Cardinality(K) : \E i \in K : Rank(K, i) = p
<1> DEFINE place == [i \in K |-> Rank(K, i)]
           m == Cardinality(K)
<1>1. IsFiniteSet(K) /\ m \in Nat
  <2>1. IsFiniteSet(1..n)
    BY FS_Interval
  <2>2. IsFiniteSet(K)
    BY <2>1, FS_Subset
  <2>3. QED
    BY <2>2, FS_CardinalityType
<1>2. ASSUME NEW i \in K
      PROVE  IsFiniteSet({j \in K : j <= i}) /\ Rank(K, i) \in 1..m
  <2> DEFINE P == {j \in K : j <= i}
  <2>1. IsFiniteSet(P) /\ Cardinality(P) \in Nat /\ Cardinality(P) <= m
    BY <1>1, FS_Subset, FS_CardinalityType
  <2>2. i \in P
    OBVIOUS
  <2>3. Cardinality(P) # 0
    BY <2>1, <2>2, FS_EmptySet
  <2>4. QED
    BY <2>1, <2>3, <1>1 DEF Rank
<1>3. ASSUME NEW i \in K, NEW k \in K, i < k PROVE Rank(K, i) # Rank(K, k)
  <2> DEFINE P == {j \in K : j <= i}
             Q == {j \in K : j <= k}
  <2>0. K \subseteq Int /\ i \in Int /\ k \in Int
    OBVIOUS
  <2>1. P \in SUBSET Q /\ k \in Q /\ k \notin P
    <3>1. \A j \in K : j <= i => j <= k
      BY <1>3, <2>0
    <3>2. k <= k /\ ~(k <= i)
      BY <1>3, <2>0
    <3>3. P \subseteq Q
      BY <3>1
    <3>4. QED
      BY <3>2, <3>3
  <2>2. IsFiniteSet(Q)
    BY <1>2
  <2>3. Cardinality(P) # Cardinality(Q)
    <3> HIDE DEF P, Q
    <3>1. QED
      BY <2>1, <2>2, FS_Subset
  <2>4. QED
    BY <2>3 DEF Rank
<1>4. \A i, k \in K : Rank(K, i) = Rank(K, k) => i = k
  BY <1>3
<1>5. place \in Injection(K, 1..m)
  BY <1>2, <1>4 DEF Injection, IsInjective
<1>6. Cardinality(1..m) = m /\ IsFiniteSet(1..m)
  BY <1>1, FS_Interval
<1>7. place \in Surjection(K, 1..m)
  <2> HIDE DEF place, m
  <2>1. QED
    BY <1>1, <1>5, <1>6, FS_Injection DEF m
<1>8. \A p \in 1..m : \E i \in K : Rank(K, i) = p
  BY <1>7 DEF Surjection
<1>9. QED
  BY <1>1, <1>2, <1>4, <1>8

\* Unlinking takes the members of S out of a list, and nothing else.
LEMMA Unlinking ==
  ASSUME NEW T, NEW s \in Seq(T), NEW S
  PROVE  /\ Without(s, S) \in Seq(T)
         /\ Elements(Without(s, S)) = Elements(s) \ S
         /\ Distinct(s) => Distinct(Without(s, S))
<1> DEFINE kept == {i \in DOMAIN s : s[i] \notin S}
           place(i) == Rank(kept, i)
           m == Cardinality(kept)
           at(p) == CHOOSE i \in kept : place(i) = p
           w == [p \in 1..m |-> s[at(p)]]
<1>1. Len(s) \in Nat /\ DOMAIN s = 1..Len(s) /\ kept \in SUBSET (1..Len(s))
  OBVIOUS
<1>2. /\ m \in Nat
      /\ \A i \in kept : place(i) \in 1..m
      /\ \A i, k \in kept : place(i) = place(k) => i = k
      /\ \A p \in 1..m : \E i \in kept : place(i) = p
  <2> HIDE DEF kept
  <2>1. Len(s) \in Nat /\ kept \in SUBSET (1..Len(s))
    BY <1>1
  <2>2. QED
    BY <2>1, Ranks
<1> HIDE DEF place, m
<1>3. \A p \in 1..m : at(p) \in kept /\ place(at(p)) = p
  BY <1>2
<1>4. \A i \in kept : at(place(i)) = i
  BY <1>2, <1>3
<1> HIDE DEF at
<1>5. w \in Seq(T) /\ DOMAIN w = 1..m
  BY <1>1, <1>2, <1>3
<1>6. Elements(w) = Elements(s) \ S
  BY <1>1, <1>2, <1>3, <1>4, <1>5 DEF Elements
<1>7. Distinct(s) => Distinct(w)
  <2> SUFFICES ASSUME Distinct(s), NEW p \in 1..m, NEW q \in 1..m, s[at(p)] = s[at(q)]
               PROVE  p = q
    BY <1>5 DEF Distinct
  <2>1. at(p) = at(q)
    BY <1>1, <1>3 DEF Distinct
  <2>2. QED
    BY <2>1, <1>3
<1>8. Without(s, S) = w
  BY DEF Without, w, place, m, at, Rank
<1>9. QED
  BY <1>5, <1>6, <1>7, <1>8
-----------------------------------------------------------------------------
(* The call stack, innermost call first. *)

\* f is a call above the call g, and f is the call right above g.
Over(s, f, g) == \E i, j \in 1..Len(s) : i < j /\ s[i] = f /\ s[j] = g
RightOver(s, f, g) == \E i \in 1..(Len(s) - 1) : s[i] = f /\ s[i + 1] = g

LEMMA Elementwise ==
  ASSUME NEW T, NEW s \in Seq(T)
  PROVE  \A x : x \in Elements(s) <=> \E i \in 1..Len(s) : s[i] = x
<1>1. DOMAIN s = 1..Len(s)
  OBVIOUS
<1>2. QED
  BY <1>1 DEF Elements

LEMMA Pushed ==
  ASSUME NEW T, NEW s \in Seq(T), NEW c \in T
  PROVE  LET p == <<c>> \o s
         IN  /\ p \in Seq(T) /\ p # << >> /\ Head(p) = c /\ Tail(p) = s
             /\ Len(p) = Len(s) + 1
             /\ p[1] = c /\ \A i \in 1..Len(s) : p[i + 1] = s[i]
             /\ Elements(p) = {c} \union Elements(s)
             /\ \A f, g : Over(p, f, g) <=> (f = c /\ g \in Elements(s)) \/ Over(s, f, g)
             /\ \A f, g : RightOver(p, f, g) <=>
                            (s # << >> /\ f = c /\ g = Head(s)) \/ RightOver(s, f, g)
<1> DEFINE p == <<c>> \o s
<1>1. Len(s) \in Nat /\ p \in Seq(T) /\ Len(p) = Len(s) + 1 /\ p # << >>
  OBVIOUS
<1>2. p[1] = c /\ \A i \in 1..Len(s) : p[i + 1] = s[i]
  OBVIOUS
<1>3. Head(p) = c
  BY <1>1, <1>2
<1>4. Tail(p) = s
  <2>1. Tail(p) \in Seq(T) /\ Len(Tail(p)) = Len(s)
    BY <1>1
  <2>2. \A i \in 1..Len(s) : Tail(p)[i] = s[i]
    BY <1>1, <1>2
  <2>3. QED
    BY <2>1, <2>2, SeqEqual
<1> HIDE DEF p
<1>5. \A k \in 1..Len(p) : k = 1 \/ (k - 1 \in 1..Len(s) /\ p[k] = s[k - 1])
  BY <1>1, <1>2
<1>6. Elements(p) = {c} \union Elements(s)
  <2>1. /\ \A x : x \in Elements(p) <=> \E i \in 1..Len(p) : p[i] = x
        /\ \A x : x \in Elements(s) <=> \E i \in 1..Len(s) : s[i] = x
    BY <1>1, Elementwise
  <2>2. ASSUME NEW x \in Elements(p) PROVE x \in {c} \union Elements(s)
    <3>1. PICK i \in 1..Len(p) : p[i] = x
      BY <2>1
    <3>2. QED
      BY <2>1, <3>1, <1>2, <1>5
  <2>3. ASSUME NEW x \in {c} \union Elements(s) PROVE x \in Elements(p)
    <3>1. CASE x = c
      BY <3>1, <2>1, <1>1, <1>2
    <3>2. CASE x \in Elements(s)
      <4>1. PICK i \in 1..Len(s) : s[i] = x
        BY <2>1, <3>2
      <4>2. i + 1 \in 1..Len(p) /\ p[i + 1] = x
        BY <4>1, <1>1, <1>2
      <4>3. QED
        BY <4>2, <2>1
    <3>3. QED
      BY <3>1, <3>2
  <2>4. QED
    BY <2>2, <2>3
<1>7. ASSUME NEW f, NEW g
      PROVE  Over(p, f, g) <=> (f = c /\ g \in Elements(s)) \/ Over(s, f, g)
  <2>1. ASSUME NEW i \in 1..Len(p), NEW j \in 1..Len(p), i < j, p[i] = f, p[j] = g
        PROVE  (f = c /\ g \in Elements(s)) \/ Over(s, f, g)
    <3>1. j - 1 \in 1..Len(s) /\ p[j] = s[j - 1]
      BY <2>1, <1>1, <1>5
    <3>2. CASE i = 1
      BY <3>1, <3>2, <2>1, <1>2, Elementwise
    <3>3. CASE i # 1
      <4>1. i - 1 \in 1..Len(s) /\ p[i] = s[i - 1] /\ i - 1 < j - 1
        BY <2>1, <3>3, <1>1, <1>5
      <4>2. QED
        BY <4>1, <3>1, <2>1 DEF Over
    <3>4. QED
      BY <3>2, <3>3
  <2>2. ASSUME f = c, NEW j \in 1..Len(s), s[j] = g
        PROVE  Over(p, f, g)
    <3>1. 1 \in 1..Len(p) /\ j + 1 \in 1..Len(p) /\ 1 < j + 1 /\ p[1] = f /\ p[j + 1] = g
      BY <2>2, <1>1, <1>2
    <3>2. QED
      BY <3>1 DEF Over
  <2>3. ASSUME NEW i \in 1..Len(s), NEW j \in 1..Len(s), i < j, s[i] = f, s[j] = g
        PROVE  Over(p, f, g)
    <3>1. i + 1 \in 1..Len(p) /\ j + 1 \in 1..Len(p) /\ i + 1 < j + 1 /\ p[i + 1] = f /\ p[j + 1] = g
      BY <2>3, <1>1, <1>2
    <3>2. QED
      BY <3>1 DEF Over
  <2>4. QED
    BY <2>1, <2>2, <2>3, Elementwise DEF Over
<1>8. ASSUME NEW f, NEW g
      PROVE  RightOver(p, f, g) <=> (s # << >> /\ f = c /\ g = Head(s)) \/ RightOver(s, f, g)
  <2>1. ASSUME NEW i \in 1..(Len(p) - 1), p[i] = f, p[i + 1] = g
        PROVE  (s # << >> /\ f = c /\ g = Head(s)) \/ RightOver(s, f, g)
    <3>1. i \in 1..Len(s) /\ p[i + 1] = s[i] /\ s # << >>
      BY <1>1, <1>2
    <3>2. CASE i = 1
      BY <3>1, <3>2, <2>1, <1>2
    <3>3. CASE i # 1
      <4>1. i - 1 \in 1..(Len(s) - 1) /\ p[i] = s[i - 1]
        BY <3>1, <3>3, <1>1, <1>5
      <4>2. (i - 1) + 1 = i
        OBVIOUS
      <4>3. s[i - 1] = f /\ s[(i - 1) + 1] = g
        BY <4>1, <4>2, <3>1, <2>1
      <4>4. QED
        BY <4>1, <4>3 DEF RightOver
    <3>4. QED
      BY <3>2, <3>3
  <2>2. ASSUME s # << >>, f = c, g = Head(s)
        PROVE  RightOver(p, f, g)
    <3>1. 1 \in 1..(Len(p) - 1) /\ p[1] = f /\ p[1 + 1] = g
      BY <2>2, <1>1, <1>2
    <3>2. QED
      BY <3>1 DEF RightOver
  <2>3. ASSUME NEW i \in 1..(Len(s) - 1), s[i] = f, s[i + 1] = g
        PROVE  RightOver(p, f, g)
    <3>1. i + 1 \in 1..(Len(p) - 1) /\ p[i + 1] = f /\ p[(i + 1) + 1] = g
      BY <2>3, <1>1, <1>2
    <3>2. QED
      BY <3>1 DEF RightOver
  <2>4. QED
    BY <2>1, <2>2, <2>3 DEF RightOver
<1>9. QED
  BY <1>1, <1>2, <1>3, <1>4, <1>6, <1>7, <1>8 DEF p

LEMMA Popped ==
  ASSUME NEW T, NEW s \in Seq(T), s # << >>
  PROVE  /\ Head(s) \in T /\ Tail(s) \in Seq(T)
         /\ s = <<Head(s)>> \o Tail(s)
         /\ Len(s) = Len(Tail(s)) + 1
         /\ s[1] = Head(s) /\ \A i \in 1..Len(Tail(s)) : s[i + 1] = Tail(s)[i]
         /\ Elements(s) = {Head(s)} \union Elements(Tail(s))
         /\ \A f, g : Over(s, f, g) <=>
                        (f = Head(s) /\ g \in Elements(Tail(s))) \/ Over(Tail(s), f, g)
         /\ \A f, g : RightOver(s, f, g) <=>
                        \/ Tail(s) # << >> /\ f = Head(s) /\ g = Head(Tail(s))
                        \/ RightOver(Tail(s), f, g)
<1>1. Head(s) \in T /\ Tail(s) \in Seq(T)
  OBVIOUS
<1>2. s = <<Head(s)>> \o Tail(s)
  <2>1. Len(Tail(s)) = Len(s) - 1 /\ Len(s) \in Nat \ {0} /\ Head(s) = s[1]
    OBVIOUS
  <2>2. \A i \in 1..(Len(s) - 1) : Tail(s)[i] = s[i + 1]
    OBVIOUS
  <2>3. /\ Len(<<Head(s)>> \o Tail(s)) = Len(s)
        /\ (<<Head(s)>> \o Tail(s))[1] = s[1]
        /\ \A i \in 1..(Len(s) - 1) : (<<Head(s)>> \o Tail(s))[i + 1] = s[i + 1]
    BY <1>1, <2>1, <2>2, Pushed
  <2>4. \A i \in 1..Len(s) : i = 1 \/ (i - 1 \in 1..(Len(s) - 1) /\ (i - 1) + 1 = i)
    BY <2>1
  <2>5. \A i \in 1..Len(s) : s[i] = (<<Head(s)>> \o Tail(s))[i]
    BY <2>3, <2>4
  <2>6. <<Head(s)>> \o Tail(s) \in Seq(T)
    BY <1>1, Pushed
  <2>7. QED
    BY <2>3, <2>5, <2>6, SeqEqual
<1> DEFINE h == Head(s)
           t == Tail(s)
<1> HIDE DEF h, t
<1>3. h \in T /\ t \in Seq(T) /\ s = <<h>> \o t
  BY <1>1, <1>2 DEF h, t
<1>4. /\ s = <<h>> \o t
      /\ Len(s) = Len(t) + 1
      /\ s[1] = h /\ \A i \in 1..Len(t) : s[i + 1] = t[i]
      /\ Elements(s) = {h} \union Elements(t)
      /\ \A f, g : Over(s, f, g) <=> (f = h /\ g \in Elements(t)) \/ Over(t, f, g)
      /\ \A f, g : RightOver(s, f, g) <=> (t # << >> /\ f = h /\ g = Head(t)) \/ RightOver(t, f, g)
  BY <1>3, Pushed
<1>5. QED
  BY <1>3, <1>4 DEF h, t

LEMMA Emptied ==
  /\ Elements(<< >>) = {}
  /\ \A f, g : ~Over(<< >>, f, g) /\ ~RightOver(<< >>, f, g)
<1>1. Len(<< >>) = 0 /\ DOMAIN << >> = {}
  OBVIOUS
<1>2. QED
  BY <1>1 DEF Elements, Over, RightOver

LEMMA Inside ==
  ASSUME NEW T, NEW s \in Seq(T), NEW f, NEW g, Over(s, f, g) \/ RightOver(s, f, g)
  PROVE  f \in Elements(s) /\ g \in Elements(s)
<1>1. \A x : x \in Elements(s) <=> \E i \in 1..Len(s) : s[i] = x
  BY Elementwise
<1>2. Len(s) \in Nat
  OBVIOUS
<1>3. ASSUME NEW i \in 1..(Len(s) - 1) PROVE i \in 1..Len(s) /\ i + 1 \in 1..Len(s)
  BY <1>2
<1>4. QED
  BY <1>1, <1>3 DEF Over, RightOver

-----------------------------------------------------------------------------
(* What calls stand on. *)

Stages == {"next", "queue1", "perform", "queue2", "inbox", "tickFailed"}

\* Calls that are not on behalf of a transfer.
Bare == Stages \union {"script", "read", "make", "curl"}

\* Calls on behalf of a transfer; a connection is detached when its set-up for
\* a redirect fails, and only then.
Acting == {p \in Places \ Bare : p = "detached" => "reconfigure" \in Features}

Framed(c) ==
  /\ c \in Call
  /\ c.t = None <=> c.at \in Bare
  /\ c.at = "detached" => "reconfigure" \in Features

\* Nothing but the loop and syncRequest ticks the client.
Shaped(s) ==
  /\ s \in Seq(Call)
  /\ \A f \in Elements(s) : Framed(f)
  /\ \A f, g \in Elements(s) : RightOver(s, f, g) /\ f.at \in Stages => g.at = "sync"

Stands(c, s) == c.at \in Stages => s = << >> \/ Head(s).at = "sync"

LEMMA ShapedPush ==
  ASSUME NEW s, Shaped(s), NEW c, Framed(c), Stands(c, s)
  PROVE  Shaped(<<c>> \o s)
<1>1. s \in Seq(Call) /\ c \in Call
  BY DEF Shaped, Framed
<1> DEFINE p == <<c>> \o s
<1>2. /\ p \in Seq(Call)
      /\ Elements(p) = {c} \union Elements(s)
      /\ \A f, g : RightOver(p, f, g) <=> (s # << >> /\ f = c /\ g = Head(s)) \/ RightOver(s, f, g)
  BY <1>1, Pushed
<1> HIDE DEF p
<1>3. ASSUME NEW f, NEW g, RightOver(p, f, g), f.at \in Stages PROVE g.at = "sync"
  <2>1. CASE RightOver(s, f, g)
    BY <2>1, <1>1, <1>3, Inside DEF Shaped
  <2>2. CASE s # << >> /\ f = c /\ g = Head(s)
    BY <2>2, <1>3 DEF Stands
  <2>3. QED
    BY <2>1, <2>2, <1>2, <1>3
<1>4. QED
  BY <1>2, <1>3 DEF p, Shaped

LEMMA ShapedPop ==
  ASSUME NEW s, Shaped(s), s # << >>
  PROVE  Shaped(Tail(s)) /\ Framed(Head(s)) /\ Stands(Head(s), Tail(s))
<1>1. s \in Seq(Call)
  BY DEF Shaped
<1> DEFINE h == Head(s)
           t == Tail(s)
<1>2. /\ h \in Call /\ t \in Seq(Call)
      /\ Elements(s) = {h} \union Elements(t)
      /\ \A f, g : RightOver(s, f, g) <=> (t # << >> /\ f = h /\ g = Head(t)) \/ RightOver(t, f, g)
  BY <1>1, Popped
<1> HIDE DEF h, t
<1>3. t # << >> => Head(t) \in Elements(t)
  BY <1>2, Popped
<1>4. Shaped(t) /\ Framed(h)
  BY <1>2 DEF Shaped
<1>5. Stands(h, t)
  <2> SUFFICES ASSUME h.at \in Stages, t # << >> PROVE Head(t).at = "sync"
    BY DEF Stands
  <2>1. RightOver(s, h, Head(t)) /\ h \in Elements(s) /\ Head(t) \in Elements(s)
    BY <1>2, <1>3
  <2>2. QED
    BY <2>1 DEF Shaped
<1>6. QED
  BY <1>4, <1>5 DEF h, t

LEMMA ShapedEmpty == Shaped(<< >>)
  BY Emptied DEF Shaped

\* A callback's script is on top of the call that made the callback.
LEMMA CalledBack ==
  ASSUME NEW r, NEW c \in Call, NEW s \in Seq(Call)
  PROVE  \/ Callback(r) \o <<c>> \o s = <<c>> \o s
         \/ /\ r.page /\ ~r.muted
            /\ Callback(r) \o <<c>> \o s = <<At("script", None)>> \o (<<c>> \o s)
<1>1. At("script", None) \in Call
  BY DEF At, Call, Places
<1>2. CASE Callback(r) = << >>
  BY <1>2
<1>3. CASE Callback(r) = <<At("script", None)>> /\ r.page /\ ~r.muted
  <2> DEFINE d == At("script", None)
  <2> HIDE DEF d
  <2>1. (<<d>> \o <<c>>) \o s = <<d>> \o (<<c>> \o s)
    <3>1. <<d>> \in Seq(Call) /\ <<c>> \in Seq(Call)
      BY <1>1 DEF d
    <3>2. QED
      BY <3>1, ConcatAssociative
  <2>2. QED
    BY <1>3, <2>1 DEF d
<1>4. QED
  BY <1>2, <1>3 DEF Callback

LEMMA ShapedCallback ==
  ASSUME NEW r, NEW c \in Call, NEW s, Shaped(<<c>> \o s), s \in Seq(Call)
  PROVE  Shaped(Callback(r) \o <<c>> \o s)
<1>1. Framed(At("script", None)) /\ Stands(At("script", None), <<c>> \o s)
  BY DEF Framed, At, Call, Places, Bare, Stages, Stands
<1>2. Shaped(<<At("script", None)>> \o (<<c>> \o s))
  BY <1>1, ShapedPush
<1>3. QED
  BY <1>2, CalledBack

-----------------------------------------------------------------------------
LEMMA FramedAt ==
  /\ \A p \in Bare : Framed(At(p, None))
  /\ \A p \in Acting, t \in Transfers : Framed(At(p, t)) /\ \A s : Stands(At(p, t), s)
  /\ Bare \subseteq Places
  BY SetsAssumption DEF Framed, At, Call, Acting, Bare, Stages, Places, Unshielded, Stands

LEMMA ShapedCall ==
  ASSUME NEW s, Shaped(s), NEW p \in Acting, NEW t \in Transfers
  PROVE  /\ Shaped(<<At(p, t)>> \o s)
         /\ \A r : Shaped(Callback(r) \o <<At(p, t)>> \o s)
<1>1. Framed(At(p, t)) /\ Stands(At(p, t), s)
  BY FramedAt
<1>2. Shaped(<<At(p, t)>> \o s)
  BY <1>1, ShapedPush
<1>3. At(p, t) \in Call /\ s \in Seq(Call)
  BY <1>1 DEF Framed, Shaped
<1>4. QED
  BY <1>2, <1>3, ShapedCallback

LEMMA ShapedBare ==
  ASSUME NEW s, Shaped(s), NEW p \in Bare, Stands(At(p, None), s)
  PROVE  Shaped(<<At(p, None)>> \o s)
  BY FramedAt, ShapedPush

LEMMA StandsAt ==
  /\ \A s, p : p \notin Stages => Stands(At(p, None), s)
  /\ \A s, p, q, t : Stands(At(p, None), s) /\ p \in Stages => Stands(At(q, t), s)
  BY DEF Stands, At

LEMMA ShapedGiveUp ==
  ASSUME NEW t \in Transfers, NEW r, NEW s, Shaped(s), GiveUp(t, r, s)
  PROVE  Shaped(stack')
<1>1. "abort" \in Acting
  BY DEF Acting, Places, Bare, Stages, Unshielded
<1>2. QED
  BY <1>1, ShapedCall DEF GiveUp

LEMMA ShapedMake ==
  ASSUME NEW t \in Transfers, NEW r, NEW c, NEW good, NEW bad, Shaped(good), Shaped(bad),
         MakeRequest(t, r, c, good, bad)
  PROVE  Shaped(stack')
<1>1. "make" \in Bare /\ "make" \notin Stages
  BY DEF Bare, Stages
<1>2. Shaped(<<At("make", None)>> \o good)
  BY <1>1, ShapedBare, StandsAt
<1>3. QED
  BY <1>2, ShapedGiveUp DEF MakeRequest

LEMMA ShapedProcess ==
  ASSUME NEW t \in Transfers, NEW r, NEW s, Shaped(s), Process(t, r, s)
  PROVE  Shaped(stack')
  BY ShapedMake DEF Process

LEMMA ShapedRequest ==
  ASSUME NEW t \in Transfers, NEW r, NEW s, Shaped(s), Request(t, r, s)
  PROVE  Shaped(stack')
  BY ShapedProcess DEF Request

LEMMA ShapedAbort ==
  ASSUME NEW t \in Transfers, NEW s, Shaped(s), Abort(t, s)
  PROVE  Shaped(stack')
<1>1. "abort" \in Acting
  BY DEF Acting, Places, Bare, Stages, Unshielded
<1>2. Shaped(Callback(tr[t]) \o <<At("abort", t)>> \o s)
  BY <1>1, ShapedCall
<1>3. stack' = s \/ stack' = Callback(tr[t]) \o <<At("abort", t)>> \o s
  BY Zenon DEF Abort
<1>4. QED
  BY <1>2, <1>3

LEMMA ShapedFail ==
  ASSUME NEW t \in Transfers, NEW r, NEW p \in Acting, NEW s, Shaped(s),
         Fail(t, r, <<At(p, t)>> \o s)
  PROVE  Shaped(stack')
<1>1. Shaped(<<At(p, t)>> \o s) /\ \A q : Shaped(Callback(q) \o (<<At(p, t)>> \o s))
  <2>1. Shaped(<<At(p, t)>> \o s)
    BY ShapedCall
  <2>2. ASSUME NEW q PROVE Shaped(Callback(q) \o (<<At(p, t)>> \o s))
    <3> DEFINE u == <<At(p, t)>> \o s
    <3> HIDE DEF u
    <3>1. Shaped(u) /\ u \in Seq(Call)
      BY <2>1 DEF u, Shaped
    <3>2. CASE Callback(q) = << >>
      BY <3>1, <3>2 DEF u
    <3>3. CASE Callback(q) = <<At("script", None)>>
      <4>1. "script" \in Bare /\ "script" \notin Stages
        BY DEF Bare, Stages
      <4>2. Shaped(<<At("script", None)>> \o u)
        BY <3>1, <4>1, ShapedBare, StandsAt
      <4>3. QED
        BY <3>3, <4>2 DEF u
    <3>4. QED
      BY <3>2, <3>3 DEF Callback
  <2>3. QED
    BY <2>1, <2>2
<1>2. QED
  BY <1>1 DEF Fail

LEMMA TopShape ==
  ASSUME Shaped(stack), stack # << >>
  PROVE  /\ Shaped(Tail(stack)) /\ Head(stack) \in Call /\ Framed(Head(stack))
         /\ Stands(Head(stack), Tail(stack))
         /\ Head(stack).at \notin Bare => Head(stack).t \in Transfers
<1>1. /\ Shaped(Tail(stack)) /\ Framed(Head(stack)) /\ Stands(Head(stack), Tail(stack))
  BY ShapedPop
<1>2. QED
  BY <1>1 DEF Framed, Call

LEMMA InPlaces ==
  /\ {"sync", "deliver", "done", "failed", "detached", "serving", "served", "abort"} = Places \ Bare
  /\ {"sync", "deliver", "done", "failed", "serving", "served", "abort"} \subseteq Acting
  /\ "reconfigure" \in Features => "detached" \in Acting
  /\ {"script", "read", "make", "curl"} = Bare \ Stages /\ Stages \subseteq Bare
  BY DEF Acting, Places, Bare, Stages, Unshielded

LEMMA TwoCalls ==
  ASSUME NEW T, NEW c \in T, NEW d \in T, NEW s \in Seq(T)
  PROVE  <<c, d>> \o s = <<c>> \o (<<d>> \o s)
<1>1. <<c>> \in Seq(T) /\ <<d>> \in Seq(T)
  OBVIOUS
<1>2. <<c>> \o <<d>> = <<c, d>>
  <2>1. /\ <<c>> \o <<d>> \in Seq(T) /\ <<c, d>> \in Seq(T)
        /\ Len(<<c>> \o <<d>>) = 2 /\ Len(<<c, d>>) = 2
    OBVIOUS
  <2>2. /\ (<<c>> \o <<d>>)[1] = c /\ <<c, d>>[1] = c
        /\ (<<c>> \o <<d>>)[2] = d /\ <<c, d>>[2] = d
    OBVIOUS
  <2>3. \A i \in 1..2 : i = 1 \/ i = 2
    OBVIOUS
  <2>4. \A i \in 1..Len(<<c>> \o <<d>>) : (<<c>> \o <<d>>)[i] = <<c, d>>[i]
    BY <2>1, <2>2, <2>3
  <2>5. QED
    BY <2>1, <2>4, SeqEqual
<1>3. (<<c>> \o <<d>>) \o s = <<c>> \o (<<d>> \o s)
  BY <1>1, ConcatAssociative
<1>4. QED
  BY <1>2, <1>3

LEMMA ShapedGoto ==
  ASSUME Shaped(stack), NEW q, Top(q), q \in Stages, NEW p \in Bare
  PROVE  Shaped(<<At(p, None)>> \o Tail(stack))
<1>1. Shaped(Tail(stack)) /\ (Tail(stack) = << >> \/ Head(Tail(stack)).at = "sync")
  BY ShapedPop DEF Top, Stands
<1>2. Stands(At(p, None), Tail(stack))
  BY <1>1 DEF Stands
<1>3. QED
  BY <1>1, <1>2, ShapedBare

LEMMA TickFramed ==
  ASSUME TypeOK
  PROVE  Framed(Tick) /\ Tick.at = "next"
<1>1. IsFiniteSet(1..Len(stack)) /\ Len(nextTick) \in Nat /\ DOMAIN stack = 1..Len(stack)
  <2>1. Len(stack) \in Nat /\ Len(nextTick) \in Nat /\ DOMAIN stack = 1..Len(stack)
    BY DEF TypeOK
  <2>2. QED
    BY <2>1, FS_Interval
<1>2. Cardinality({i \in DOMAIN stack : stack[i].at = "next"}) \in Nat
  <2> DEFINE N == {i \in DOMAIN stack : stack[i].at = "next"}
  <2>1. N \in SUBSET (1..Len(stack))
    BY <1>1
  <2>2. IsFiniteSet(N)
    BY <1>1, <2>1, FS_Subset
  <2>3. QED
    BY <2>2, FS_CardinalityType
<1>3. QED
  BY <1>1, <1>2 DEF Tick, Framed, Call, Bare, Stages, Places

LEMMA ShapeStep ==
  ASSUME TypeOK, Shaped(stack), Next
  PROVE  Shaped(stack')
<1>1. CASE \/ AbortReturn \/ ScriptReturn \/ MakeReturn \/ ReadDone \/ InboxDone
           \/ \E t \in Transfers : Done(t) \/ Failed(t) \/ Served(t) \/ SyncReturn(t)
  <2>1. stack # << >> /\ stack' = Tail(stack)
    BY <1>1 DEF AbortReturn, ScriptReturn, MakeReturn, ReadDone, InboxDone, Done, Failed, Served,
                SyncReturn, Resumed, Top
  <2>2. QED
    BY <2>1, ShapedPop
<1>2. CASE \/ \E c \in Conns : CurlFinish(c)
           \/ \E o \in Owners : ScriptNavigate(o) \/ TearDown(o)
           \/ \E t \in Transfers : ReadAuth(t) \/ CdpStray(t)
           \/ ClientDeinit
  BY <1>2 DEF CurlFinish, ScriptNavigate, TearDown, ReadAuth, CdpStray, ClientDeinit
<1>3. CASE LoopTickFailed
  BY <1>3, ShapedEmpty DEF LoopTickFailed
<1>4. CASE NextTickDone \/ DrainQueueDone \/ CdpDisconnect
  <2>1. PICK p \in Stages, q \in Stages : Top(q) /\ stack' = <<At(p, None)>> \o Tail(stack)
    BY <1>4 DEF NextTickDone, DrainQueueDone, CdpDisconnect, Goto, InDrainQueue, Stages
  <2>2. p \in Bare
    BY DEF Bare
  <2>3. QED
    BY <2>1, <2>2, ShapedGoto
<1>5. CASE PerformReturn
  <2>1. stack # << >> /\ stack' = <<At("read", None)>> \o Tail(stack)
    BY <1>5 DEF PerformReturn, Top, Goto
  <2>2. "read" \in Bare /\ "read" \notin Stages
    BY DEF Bare, Stages
  <2>3. QED
    BY <2>1, <2>2, ShapedPop, ShapedBare, StandsAt
<1>6. CASE TickPerform
  <2>0. Top("perform") /\ "perform" \in Stages /\ {"tickFailed", "queue2", "curl"} \subseteq Bare
    BY <1>6 DEF TickPerform, Stages, Bare
  <2>1. CASE stack' = <<At("tickFailed", None)>> \o Tail(stack)
    BY <2>1, <2>0, ShapedGoto
  <2>2. CASE stack' = <<At("curl", None), At("queue2", None)>> \o Tail(stack)
    <3>1. Shaped(<<At("queue2", None)>> \o Tail(stack))
      BY <2>0, ShapedGoto
    <3>2. Shaped(<<At("curl", None)>> \o (<<At("queue2", None)>> \o Tail(stack)))
      BY <3>1, ShapedBare, StandsAt DEF Stages, Bare
    <3>3. At("curl", None) \in Call /\ At("queue2", None) \in Call /\ Tail(stack) \in Seq(Call)
      BY FramedAt, ShapedPop, <1>6 DEF Framed, Bare, Stages, Shaped, TickPerform, Top
    <3> DEFINE c == At("curl", None)
               d == At("queue2", None)
    <3> HIDE DEF c, d
    <3>4. <<c, d>> \o Tail(stack) = <<c>> \o (<<d>> \o Tail(stack))
      BY <3>3, TwoCalls DEF c, d
    <3>5. QED
      BY <3>2, <3>4, <2>2 DEF c, d
  <2>3. QED
    BY <2>1, <2>2, <1>6 DEF TickPerform, Goto
<1>7. CASE NextTickRun
  <2> DEFINE t == Head(nextTick)
             rest == <<[Head(stack) EXCEPT !.n = @ - 1]>> \o Tail(stack)
  <2>1. t \in Transfers /\ stack # << >> /\ Head(stack).at = "next" /\ Head(stack).n > 0
    BY <1>7 DEF NextTickRun, Top, TypeOK
  <2>2. Framed([Head(stack) EXCEPT !.n = @ - 1]) /\ Stands([Head(stack) EXCEPT !.n = @ - 1], Tail(stack))
    BY <2>1, TopShape DEF Framed, Call, Stands
  <2>3. Shaped(rest)
    BY <2>1, <2>2, TopShape, ShapedPush
  <2>4. \/ stack' = Callback(tr[t]) \o <<At("serving", t)>> \o rest
        \/ stack' = Callback(tr[t]) \o <<At("abort", t)>> \o rest
    BY <1>7 DEF NextTickRun
  <2> HIDE DEF rest, t
  <2>5. "serving" \in Acting /\ "abort" \in Acting
    BY InPlaces
  <2>6. QED
    BY <2>1, <2>3, <2>4, <2>5, ShapedCall
<1>8. CASE DrainQueue
  <2> DEFINE t == Head(queue)
  <2>0. {"queue1", "queue2"} \subseteq Stages /\ "tickFailed" \in Bare
    BY DEF Stages, Bare
  <2>1. t \in Transfers /\ InDrainQueue
    BY <1>8 DEF DrainQueue, TypeOK
  <2>2. Shaped(<<At("tickFailed", None)>> \o Tail(stack))
    BY <2>1, <2>0, ShapedGoto DEF InDrainQueue
  <2>3. QED
    BY <1>8, <2>1, <2>2, ShapedMake DEF DrainQueue
<1>9. CASE SocketEvent
  <2>1. "script" \in Bare /\ "script" \notin Stages
    BY InPlaces
  <2>2. QED
    BY <1>9, <2>1, ShapedBare, StandsAt DEF SocketEvent
<1>10. ASSUME NEW t \in Transfers, ReadRedirect(t) \/ ReadBadRedirect(t) \/ ReadDetached(t) \/ ReadError(t)
       PROVE  Shaped(stack')
  <2>1. "curl" \in Bare /\ "curl" \notin Stages /\ "failed" \in Acting /\ ("reconfigure" \in Features => "detached" \in Acting)
    BY InPlaces
  <2>2. \/ stack' = <<At("curl", None)>> \o stack
        \/ \E r : Fail(t, r, <<At("failed", t)>> \o stack)
        \/ "reconfigure" \in Features /\ \E r : Fail(t, r, <<At("detached", t)>> \o stack)
    BY <1>10 DEF ReadRedirect, ReadBadRedirect, ReadDetached, ReadError
  <2>3. CASE stack' = <<At("curl", None)>> \o stack
    BY <2>1, <2>3, ShapedBare, StandsAt
  <2>4. CASE \E r : Fail(t, r, <<At("failed", t)>> \o stack)
    BY <2>1, <2>4, ShapedFail
  <2>5. CASE "reconfigure" \in Features /\ \E r : Fail(t, r, <<At("detached", t)>> \o stack)
    BY <2>1, <2>5, ShapedFail
  <2>6. QED
    BY <2>2, <2>3, <2>4, <2>5
<1>11. ASSUME NEW t \in Transfers, ReadResponse(t) \/ CdpFulfill(t)
       PROVE  Shaped(stack')
  <2>1. PICK p \in {"deliver", "serving"} : stack' = Callback(tr[t]) \o <<At(p, t)>> \o stack
    BY <1>11 DEF ReadResponse, CdpFulfill
  <2>2. p \in Acting
    BY InPlaces
  <2>3. QED
    BY <2>1, <2>2, ShapedCall
<1>12. ASSUME NEW t \in Transfers, DeliverData(t)
       PROVE  Shaped(stack')
  <2> DEFINE c == [Head(stack) EXCEPT !.n = 1]
  <2>1. stack # << >> /\ stack' = Callback(tr[t]) \o <<c>> \o Tail(stack) /\ Head(stack).at = "deliver"
    BY <1>12 DEF DeliverData, Resumed, Top
  <2>2. c \in Call /\ Framed(c) /\ Stands(c, Tail(stack))
    BY <2>1, TopShape DEF Framed, Call, Stands
  <2> HIDE DEF c
  <2>3. Shaped(<<c>> \o Tail(stack)) /\ Tail(stack) \in Seq(Call)
    BY <2>1, <2>2, TopShape, ShapedPush DEF Shaped
  <2>4. QED
    BY <2>1, <2>2, <2>3, ShapedCallback
<1>13. ASSUME NEW t \in Transfers, DeliverFail(t) \/ DoneFail(t)
       PROVE  Shaped(stack')
  <2>1. stack # << >> /\ Fail(t, tr[t], <<At("failed", t)>> \o Tail(stack))
    BY <1>13 DEF DeliverFail, DoneFail, Resumed, Top
  <2>2. QED
    BY <2>1, InPlaces, TopShape, ShapedFail
<1>14. ASSUME NEW t \in Transfers, DeliverDone(t) \/ FailedDetached(t) \/ ServeDone(t) \/ ServedFail(t)
       PROVE  Shaped(stack')
  <2>1. stack # << >>
    BY <1>14 DEF DeliverDone, FailedDetached, ServeDone, ServedFail, Resumed, Top
  <2>2. PICK p \in {"done", "failed", "served", "abort"} :
             \/ stack' = Callback(tr[t]) \o <<At(p, t)>> \o Tail(stack)
             \/ stack' = <<At(p, t)>> \o Tail(stack)
    BY <1>14 DEF DeliverDone, FailedDetached, ServeDone, ServedFail
  <2>3. p \in Acting
    BY InPlaces
  <2>4. Shaped(Tail(stack))
    BY <2>1, TopShape
  <2>5. QED
    BY <2>2, <2>3, <2>4, ShapedCall
<1>15. ASSUME NEW t \in Transfers, ServeFail(t)
       PROVE  Shaped(stack')
  BY <1>15, TopShape, ShapedAbort DEF ServeFail, Resumed, Top
<1>16. ASSUME NEW t \in Transfers, SyncTick(t)
       PROVE  Shaped(stack')
  <2>1. Top("sync")
    BY <1>16 DEF SyncTick
  <2>2. Stands(Tick, stack) /\ Stands(At("tickFailed", None), stack)
    BY <2>1 DEF Stands, Top
  <2>3. QED
    BY <1>16, <2>2, TickFramed, ShapedPush, ShapedBare DEF SyncTick, Bare, Stages
<1>17. CASE SyncFailed
  <2> DEFINE rest == Tail(stack)
  <2>1. Shaped(rest) /\ rest # << >> /\ Head(rest).at = "sync"
    BY <1>17, TopShape DEF SyncFailed, Top, Stands, Stages
  <2>2. Shaped(Tail(rest)) /\ Framed(Head(rest))
    BY <2>1, ShapedPop
  <2>3. Head(rest).t \in Transfers
    BY <2>1, <2>2 DEF Framed, Call, Bare, Stages
  <2>4. stack' = Tail(rest) \/ Abort(Head(rest).t, Tail(rest))
    BY <1>17 DEF SyncFailed
  <2> HIDE DEF rest
  <2>5. QED
    BY <2>2, <2>3, <2>4, ShapedAbort
<1>18. ASSUME NEW t \in Transfers, NEW o \in Owners, ScriptRequest(t, o)
       PROVE  Shaped(stack')
  BY <1>18, ShapedRequest DEF ScriptRequest
<1>19. ASSUME NEW t \in Transfers, ScriptSync(t)
       PROVE  Shaped(stack')
  <2>1. Shaped(<<At("sync", t)>> \o stack)
    BY InPlaces, ShapedCall
  <2>2. QED
    BY <1>19, <2>1, ShapedRequest DEF ScriptSync
<1>20. ASSUME NEW t \in Transfers, ScriptAbort(t) \/ CdpFail(t)
       PROVE  Shaped(stack')
  BY <1>20, ShapedAbort DEF ScriptAbort, CdpFail
<1>21. ASSUME NEW t \in Transfers, CdpContinue(t) \/ CdpContinueWithAuth(t)
       PROVE  Shaped(stack')
  BY <1>21, ShapedProcess DEF CdpContinue, CdpContinueWithAuth
<1>22. CASE LoopScript \/ LoopTick
  <2>1. Framed(Tick) /\ Framed(At("script", None))
    BY TickFramed, FramedAt, InPlaces
  <2>2. ASSUME NEW c, Framed(c), stack' = <<c>> PROVE Shaped(stack')
    <3>1. Shaped(<<c>> \o << >>)
      BY <2>2, ShapedEmpty, ShapedPush DEF Stands
    <3>2. QED
      BY <2>2, <3>1
  <2>3. QED
    BY <1>22, <2>1, <2>2 DEF LoopScript, LoopTick
<1>23. QED
  BY <1>1, <1>2, <1>3, <1>4, <1>5, <1>6, <1>7, <1>8, <1>9, <1>10, <1>11, <1>12, <1>13, <1>14,
     <1>15, <1>16, <1>17, <1>18, <1>19, <1>20, <1>21, <1>22
     DEF Next, Client, Script, Read, Resume, Cdp

-----------------------------------------------------------------------------
Net == [available: [Conns -> Nat], inUse: SUBSET Conns, ready: SUBSET Conns,
        dirty: SUBSET Conns, running: SUBSET Conns, finished: SUBSET Conns, active: Int]

\* The data of the client have their types.
Typed ==
  /\ tr \in [Transfers -> Transfer]
  /\ told \in [Transfers -> Seq(Ends)]
  /\ queue \in Seq(Transfers) /\ nextTick \in Seq(Transfers)
  /\ paused \subseteq Transfers
  /\ net \in Net

\* The queue holds what is queued, each transfer once.
Listed ==
  /\ Distinct(queue)
  /\ Elements(queue) = {t \in Transfers : tr[t].state = "queued"}

Loose == {"none", "created", "queued", "parked", "freed"}

\* What may be said of one transfer r, that a command may name when p.
Sound(r, p) ==
  /\ r.state \in Loose => r.conn = None
  /\ p => r.state \in {"parked", "freed"}
  /\ r.state \notin {"none", "freed"} /\ r.page /\ ~r.muted => r.owner \in alive

Base == Typed /\ Listed /\ \A t \in Transfers : Sound(tr[t], t \in paused)

LEMMA HeldConns ==
  ASSUME Typed, NEW S \in SUBSET Transfers
  PROVE  Held(S) \in SUBSET Conns /\ IsFiniteSet(Held(S)) /\ Cardinality(Held(S)) \in Nat
<1>1. Held(S) \in SUBSET Conns
  BY DEF Typed, Transfer, Held
<1>2. QED
  BY <1>1, SetsAssumption, FS_Subset, FS_CardinalityType

LEMMA RemovalTyped ==
  ASSUME Typed, NEW C \in SUBSET Conns
  PROVE  RemoveConns(C) \in Net
<1>1. Cardinality(C \ net.ready) \in Nat
  BY SetsAssumption, FS_Subset, FS_CardinalityType
<1>2. /\ net.available \in [Conns -> Nat] /\ net.active \in Int
      /\ net.inUse \subseteq Conns /\ net.ready \subseteq Conns /\ net.dirty \subseteq Conns
      /\ net.running \subseteq Conns /\ net.finished \subseteq Conns
  BY DEF Typed, Net
<1>3. QED
  BY <1>1, <1>2 DEF RemoveConns, Net

LEMMA TellTyped ==
  ASSUME Typed, NEW S, NEW e \in Ends, Tell(S, e)
  PROVE  told' \in [Transfers -> Seq(Ends)]
  BY DEF Typed, Tell

\* Without changes to it, a list stays as it is.
LEMMA Unlisted ==
  ASSUME Typed, NEW S
  PROVE  /\ Without(queue, S) \in Seq(Transfers) /\ Without(nextTick, S) \in Seq(Transfers)
         /\ Elements(Without(queue, S)) = Elements(queue) \ S
         /\ Elements(Without(nextTick, S)) = Elements(nextTick) \ S
         /\ Distinct(queue) => Distinct(Without(queue, S))
         /\ Distinct(nextTick) => Distinct(Without(nextTick, S))
  BY Unlinking DEF Typed

LEMMA FreedSound ==
  ASSUME NEW r \in Transfer
  PROVE  Freed(r) \in Transfer /\ Freed(r).state = "freed" /\ \A p : Sound(Freed(r), p)
  BY DEF Freed, Transfer, States, Sound

LEMMA DetachedSound ==
  ASSUME NEW r \in Transfer
  PROVE  /\ Detached(r) \in Transfer /\ Detached(r).state = "aborted" /\ Detached(r).muted
         /\ Sound(Detached(r), FALSE)
  BY DEF Detached, Transfer, States, Sound, Loose

\* Every transfer that goes, with those that only lose their owner.
LEMMA Ending ==
  ASSUME Base, NEW now \in SUBSET Transfers, NEW later \in SUBSET Transfers,
         \A t \in later : tr[t].state \in {"inflight", "completing"},
         now \intersect later = {},
         tr' = [t \in Transfers |-> IF t \in now THEN Freed(tr[t])
                                    ELSE IF t \in later THEN Detached(tr[t])
                                    ELSE tr[t]],
         net' = RemoveConns(Held(now)),
         queue' = Without(queue, now), nextTick' = Without(nextTick, now),
         told' \in [Transfers -> Seq(Ends)],
         paused' \subseteq paused, \A t \in Transfers \ (now \union later) : tr[t].owner \in alive => tr[t].owner \in alive'
  PROVE  Base'
<1>1. tr \in [Transfers -> Transfer] /\ \A t \in Transfers : Sound(tr[t], t \in paused)
  BY DEF Base, Typed
<1>2. \A t \in Transfers : tr'[t] \in Transfer /\ (tr'[t].state = "queued" <=> tr[t].state = "queued" /\ t \notin now)
  BY <1>1, FreedSound, DetachedSound
<1>3. tr' \in [Transfers -> Transfer]
  BY <1>2
<1>4. net' \in Net
  BY HeldConns, RemovalTyped DEF Base
<1>5. Typed'
  BY <1>3, <1>4, Unlisted DEF Base, Typed
<1>6. Listed'
  <2>1. Distinct(queue') /\ Elements(queue') = Elements(queue) \ now
    BY Unlisted DEF Base, Listed
  <2>2. QED
    BY <2>1, <1>2 DEF Base, Listed, Distinct
<1>7. ASSUME NEW t \in Transfers PROVE Sound(tr[t], t \in paused)'
  <2>1. CASE t \in now
    BY <2>1, <1>1, FreedSound DEF Freed, Sound
  <2>2. CASE t \in later /\ t \notin now
    <3>1. t \notin paused
      BY <2>2, <1>1 DEF Sound
    <3>2. tr'[t] = Detached(tr[t]) /\ tr[t] \in Transfer
      BY <2>2, <1>1
    <3>3. QED
      BY <3>1, <3>2 DEF Detached, Sound, Loose, Transfer
  <2>3. CASE t \notin now /\ t \notin later
    BY <2>3, <1>1 DEF Sound
  <2>4. QED
    BY <2>1, <2>2, <2>3
<1>8. QED
  BY <1>5, <1>6, <1>7 DEF Base

LEMMA Detaching ==
  ASSUME Base, NEW S \in SUBSET Transfers, DetachOrDeinit(S),
         told' \in [Transfers -> Seq(Ends)], paused' \subseteq paused,
         \A t \in Transfers \ S : tr[t].owner \in alive => tr[t].owner \in alive'
  PROVE  Base'
<1> DEFINE later == {t \in S : MustDefer(t)}
           now == S \ later
<1>1. /\ now \in SUBSET Transfers /\ later \in SUBSET Transfers /\ now \intersect later = {}
      /\ \A t \in later : tr[t].state \in {"inflight", "completing"}
      /\ now \union later = S
  BY DEF MustDefer
<1>2. /\ tr' = [t \in Transfers |-> IF t \in now THEN Freed(tr[t])
                                    ELSE IF t \in later THEN Detached(tr[t])
                                    ELSE tr[t]]
      /\ net' = RemoveConns(Held(now))
      /\ queue' = Without(queue, now) /\ nextTick' = Without(nextTick, now)
  BY DEF DetachOrDeinit
<1> HIDE DEF now, later
<1>3. QED
  BY <1>1, <1>2, Ending

LEMMA Deiniting ==
  ASSUME Base, NEW t \in Transfers, Deinit({t}), UNCHANGED <<told, paused, alive>>
  PROVE  Base'
<1> DEFINE now == {t}
           later == {}
<1>1. tr' = [u \in Transfers |-> IF u \in now THEN Freed(tr[u])
                                 ELSE IF u \in later THEN Detached(tr[u])
                                 ELSE tr[u]]
  BY DEF Deinit
<1>2. /\ net' = RemoveConns(Held(now)) /\ queue' = Without(queue, now) /\ nextTick' = Without(nextTick, now)
      /\ now \in SUBSET Transfers /\ later \in SUBSET Transfers /\ now \intersect later = {}
      /\ \A u \in later : tr[u].state \in {"inflight", "completing"}
  BY DEF Deinit
<1>3. told' \in [Transfers -> Seq(Ends)]
  BY DEF Base, Typed
<1>4. paused' \subseteq paused /\ \A u \in Transfers : tr[u].owner \in alive => tr[u].owner \in alive'
  OBVIOUS
<1> HIDE DEF now, later
<1>5. QED
  BY <1>1, <1>2, <1>3, <1>4, Ending

\* One transfer changes, and the queue with it.
LEMMA Moving ==
  ASSUME Base, NEW t \in Transfers, NEW r \in Transfer, tr' = [tr EXCEPT ![t] = r],
         queue' \in Seq(Transfers), Distinct(queue'),
         \A u \in Transfers \ {t} : u \in Elements(queue') <=> u \in Elements(queue),
         r.state = "queued" <=> t \in Elements(queue'), Sound(r, t \in paused'),
         told' \in [Transfers -> Seq(Ends)], net' \in Net, UNCHANGED alive,
         nextTick' \in Seq(Transfers),
         paused' \subseteq Transfers, \A u \in Transfers \ {t} : u \in paused' => u \in paused
  PROVE  Base'
<1>1. /\ tr \in [Transfers -> Transfer] /\ tr' \in [Transfers -> Transfer]
      /\ tr'[t] = r /\ \A u \in Transfers \ {t} : tr'[u] = tr[u]
  BY DEF Base, Typed
<1>2. Typed'
  BY <1>1 DEF Base, Typed
<1>3. Listed'
  <2>1. Elements(queue') \subseteq Transfers
    BY Elementwise
  <2>2. Elements(queue') = {u \in Transfers : tr'[u].state = "queued"}
    BY <1>1, <2>1 DEF Base, Listed
  <2>3. QED
    BY <2>2 DEF Listed, Distinct, Elements
<1>4. ASSUME NEW u \in Transfers PROVE Sound(tr[u], u \in paused)'
  <2>1. CASE u = t
    BY <2>1, <1>1 DEF Sound
  <2>2. CASE u # t
    BY <2>2, <1>1 DEF Sound, Base
  <2>3. QED
    BY <2>1, <2>2
<1>5. QED
  BY <1>2, <1>3, <1>4 DEF Base

\* One transfer changes, and its place in the queue does not.
LEMMA Updating ==
  ASSUME Base, NEW t \in Transfers, NEW r \in Transfer, tr' = [tr EXCEPT ![t] = r],
         r.state = "queued" <=> tr[t].state = "queued", Sound(r, t \in paused'),
         told' \in [Transfers -> Seq(Ends)], net' \in Net, UNCHANGED <<queue, alive>>,
         nextTick' \in Seq(Transfers),
         paused' \subseteq Transfers, \A u \in Transfers \ {t} : u \in paused' => u \in paused
  PROVE  Base'
<1>1. /\ queue' \in Seq(Transfers) /\ Distinct(queue') /\ Elements(queue') = Elements(queue)
      /\ tr[t].state = "queued" <=> t \in Elements(queue)
  BY DEF Base, Typed, Listed, Distinct, Elements
<1>2. QED
  BY <1>1, Moving

\* Nothing is said of a transfer that is not said anyway.
LEMMA Aside ==
  ASSUME Base, UNCHANGED <<tr, queue, alive>>, told' \in [Transfers -> Seq(Ends)],
         net' \in Net, nextTick' \in Seq(Transfers), paused' \subseteq paused
  PROVE  Base'
<1>1. Typed' /\ Listed'
  BY DEF Base, Typed, Listed, Distinct, Elements
<1>2. QED
  BY <1>1 DEF Base, Sound

\* The first of a list is taken from it.
LEMMA Unqueued ==
  ASSUME NEW T, NEW s \in Seq(T), s # << >>, Distinct(s)
  PROVE  Elements(Tail(s)) = Elements(s) \ {Head(s)} /\ Distinct(Tail(s)) /\ Head(s) \in Elements(s)
<1>1. /\ Head(s) \in T /\ Tail(s) \in Seq(T)
      /\ Len(s) = Len(Tail(s)) + 1
      /\ s[1] = Head(s) /\ \A i \in 1..Len(Tail(s)) : s[i + 1] = Tail(s)[i]
      /\ Elements(s) = {Head(s)} \union Elements(Tail(s))
  BY Popped
<1>2. DOMAIN s = 1..Len(s) /\ DOMAIN Tail(s) = 1..Len(Tail(s)) /\ Len(Tail(s)) \in Nat
  BY <1>1
<1>3. \A i \in 1..Len(Tail(s)) : i + 1 \in DOMAIN s /\ 1 \in DOMAIN s /\ i + 1 # 1
  BY <1>1, <1>2
<1>4. Head(s) \notin Elements(Tail(s))
  BY <1>1, <1>2, <1>3 DEF Distinct, Elements
<1>5. Distinct(Tail(s))
  <2> SUFFICES ASSUME NEW i \in DOMAIN Tail(s), NEW j \in DOMAIN Tail(s), Tail(s)[i] = Tail(s)[j]
               PROVE  i = j
    BY DEF Distinct
  <2>1. i + 1 = j + 1
    BY <1>1, <1>2, <1>3 DEF Distinct
  <2>2. QED
    BY <2>1, <1>2
<1>6. QED
  BY <1>1, <1>4, <1>5

\* A transfer goes to the end of a list it is not in.
LEMMA Queued ==
  ASSUME NEW T, NEW s \in Seq(T), NEW x \in T
  PROVE  /\ Append(s, x) \in Seq(T)
         /\ Elements(Append(s, x)) = Elements(s) \union {x}
         /\ Distinct(s) /\ x \notin Elements(s) => Distinct(Append(s, x))
<1> DEFINE a == Append(s, x)
<1>1. /\ Len(s) \in Nat /\ DOMAIN s = 1..Len(s) /\ a \in Seq(T) /\ DOMAIN a = 1..(Len(s) + 1)
      /\ a[Len(s) + 1] = x /\ \A i \in 1..Len(s) : a[i] = s[i]
  OBVIOUS
<1> HIDE DEF a
<1>2. \A i \in 1..(Len(s) + 1) : i \in 1..Len(s) \/ i = Len(s) + 1
  BY <1>1
<1>3. \A i \in 1..Len(s) : i \in 1..(Len(s) + 1)
  BY <1>1
<1>4. Len(s) + 1 \in 1..(Len(s) + 1)
  BY <1>1
<1>5. Elements(a) = Elements(s) \union {x}
  BY <1>1, <1>2, <1>3, <1>4 DEF Elements
<1>6. ASSUME Distinct(s), x \notin Elements(s), NEW i \in DOMAIN a, NEW j \in DOMAIN a, a[i] = a[j]
      PROVE  i = j
  BY <1>1, <1>2, <1>6 DEF Distinct, Elements
<1>7. QED
  BY <1>1, <1>5, <1>6 DEF a, Distinct

-----------------------------------------------------------------------------
(* The operations, each from a sound client to a sound client. *)

\* What makeRequest makes of a transfer that is .created.
Startable(r) ==
  r \in Transfer /\ r.state = "created" /\ r.conn = None /\ (r.page /\ ~r.muted => r.owner \in alive)

LEMMA ResetSound ==
  ASSUME NEW r, Startable(r), NEW c \in Conns
  PROVE  LET g == [Reset(r) EXCEPT !.notified = TRUE]
             d == Committed(r, c)
             w == [r EXCEPT !.state = "queued"]
         IN  /\ g \in Transfer /\ g.state = "created" /\ Sound(g, FALSE)
             /\ d \in Transfer /\ d.state = "inflight" /\ Sound(d, FALSE)
             /\ w \in Transfer /\ w.state = "queued" /\ Sound(w, FALSE)
<1>1. r.tries + 1 \in Nat /\ (r.page /\ ~r.muted) \in BOOLEAN
  BY DEF Startable, Transfer
<1>2. QED
  BY <1>1 DEF Startable, Transfer, Reset, Committed, Sound, Loose, States

LEMMA Making ==
  ASSUME Base, NEW t \in Transfers, NEW r, Startable(r), NEW c \in Available,
         NEW good, NEW bad, MakeRequest(t, r, c, good, bad)
  PROVE  /\ told' \in [Transfers -> Seq(Ends)] /\ net' \in Net
         /\ \E q \in Transfer : tr' = [tr EXCEPT ![t] = q] /\ q.state \in {"created", "inflight"} /\ Sound(q, FALSE)
<1>1. c \in Conns /\ net.available[c] \in Nat /\ net.available[c] - 1 \in Nat /\ net \in Net /\ net.active \in Int
  BY DEF Available, Base, Typed, Net
<1>2. net' \in Net
  <2>1. \/ net' = net
        \/ net' = [net EXCEPT !.available[c] = @ - 1,
                           !.inUse = @ \union {c}, !.running = @ \union {c},
                           !.active = @ + 1]
        \/ net' = [net EXCEPT !.available[c] = @ - 1, !.ready = @ \union {c}]
        \/ net' = [net EXCEPT !.available[c] = @ + 1]
    BY DEF MakeRequest
  <2>2. /\ net.available \in [Conns -> Nat] /\ net.inUse \subseteq Conns /\ net.running \subseteq Conns
        /\ net.ready \subseteq Conns /\ net.active + 1 \in Int /\ net.available[c] + 1 \in Nat
    BY <1>1 DEF Net
  <2>3. ASSUME net' = [net EXCEPT !.available[c] = @ - 1,
                           !.inUse = @ \union {c}, !.running = @ \union {c},
                           !.active = @ + 1]
        PROVE  net' \in Net
    BY <1>1, <2>2, <2>3 DEF Net
  <2>4. ASSUME net' = [net EXCEPT !.available[c] = @ - 1, !.ready = @ \union {c}]
        PROVE  net' \in Net
    BY <1>1, <2>2, <2>4 DEF Net
  <2>5. ASSUME net' = [net EXCEPT !.available[c] = @ + 1] PROVE net' \in Net
    BY <1>1, <2>2, <2>5 DEF Net
  <2>6. QED
    BY <1>1, <2>1, <2>3, <2>4, <2>5
<1>3. told' \in [Transfers -> Seq(Ends)]
  BY TellTyped DEF MakeRequest, GiveUp, Base, Typed, Ends
<1>4. \/ tr' = [tr EXCEPT ![t] = [Reset(r) EXCEPT !.notified = TRUE]]
      \/ tr' = [tr EXCEPT ![t] = Committed(r, c)]
  BY Zenon DEF MakeRequest, GiveUp
<1>5. \E q \in Transfer : tr' = [tr EXCEPT ![t] = q] /\ q.state \in {"created", "inflight"} /\ Sound(q, FALSE)
  <2> DEFINE g == [Reset(r) EXCEPT !.notified = TRUE]
             d == Committed(r, c)
  <2>1. /\ g \in Transfer /\ g.state = "created" /\ Sound(g, FALSE)
        /\ d \in Transfer /\ d.state = "inflight" /\ Sound(d, FALSE)
    BY <1>1, ResetSound
  <2>2. tr' = [tr EXCEPT ![t] = g] \/ tr' = [tr EXCEPT ![t] = d]
    BY <1>4
  <2> HIDE DEF g, d
  <2>3. QED
    BY <2>1, <2>2
<1>6. QED
  BY <1>2, <1>3, <1>5

LEMMA Processing ==
  ASSUME Base, NEW t \in Transfers, tr[t].state # "queued", NEW r, Startable(r),
         NEW rest, Process(t, r, rest),
         UNCHANGED <<alive, nextTick>>, t \notin paused', paused' \subseteq paused
  PROVE  Base'
<1>1. paused' \subseteq Transfers /\ nextTick' \in Seq(Transfers) /\ (t \in paused') = FALSE
  BY DEF Base, Typed
<1>2. CASE \E c \in Available : MakeRequest(t, r, c, rest, rest) /\ UNCHANGED queue
  <2>1. PICK q \in Transfer : tr' = [tr EXCEPT ![t] = q] /\ q.state \in {"created", "inflight"} /\ Sound(q, FALSE)
    BY <1>2, Making
  <2>2. told' \in [Transfers -> Seq(Ends)] /\ net' \in Net /\ UNCHANGED <<queue, alive>>
    BY <1>2, Making
  <2>3. Sound(q, t \in paused')
    BY <1>1, <2>1
  <2>4. q.state = "queued" <=> tr[t].state = "queued"
    BY <2>1
  <2>5. QED
    BY <1>1, <2>1, <2>2, <2>3, <2>4, Updating
<1>3. CASE /\ tr' = [tr EXCEPT ![t] = [r EXCEPT !.state = "queued"]]
           /\ queue' = Append(queue, t)
           /\ UNCHANGED <<told, net>>
  <2> DEFINE w == [r EXCEPT !.state = "queued"]
  <2>1. w \in Transfer /\ w.state = "queued" /\ Sound(w, FALSE)
    BY DEF Startable, Transfer, Sound, Loose, States
  <2>2. queue \in Seq(Transfers) /\ Distinct(queue) /\ t \notin Elements(queue)
    BY DEF Base, Typed, Listed
  <2>3. queue' \in Seq(Transfers) /\ Distinct(queue') /\ Elements(queue') = Elements(queue) \union {t}
    BY <1>3, <2>2, Queued
  <2>4. told' \in [Transfers -> Seq(Ends)] /\ net' \in Net
    BY <1>3 DEF Base, Typed
  <2>5. tr' = [tr EXCEPT ![t] = w]
    BY <1>3
  <2> HIDE DEF w
  <2>6. Sound(w, t \in paused')
    BY <1>1, <2>1
  <2>7. QED
    BY <1>1, <2>1, <2>3, <2>4, <2>5, <2>6, Moving
<1>4. QED
  BY <1>2, <1>3 DEF Process

LEMMA Requesting ==
  ASSUME Base, NEW t \in Transfers, NEW page \in BOOLEAN, NEW o \in Owners \union {None},
         page => o \in alive, NEW rest, Request(t, Created(page, o), rest), UNCHANGED alive
  PROVE  Base'
<1> DEFINE r == Created(page, o)
<1>1. Startable(r) /\ Sound(r, FALSE)
  BY DEF Created, New, Startable, Transfer, States, Sound, Loose
<1>2. tr[t].state = "none" /\ t \notin paused
  BY DEF Base, Sound, Request
<1>3. r \in Transfer /\ r.state = "created"
  BY <1>1 DEF Startable
<1> HIDE DEF r
<1>4. CASE /\ tr' = [tr EXCEPT ![t] = r]
           /\ nextTick' = Append(nextTick, t)
           /\ UNCHANGED <<told, queue, pauses, net>>
  <2>1. nextTick' \in Seq(Transfers) /\ told' \in [Transfers -> Seq(Ends)] /\ net' \in Net /\ paused' \subseteq Transfers
    BY <1>4, Queued DEF Base, Typed, pauses
  <2>2. paused' = paused /\ queue' = queue /\ (t \in paused') = FALSE
    BY <1>4, <1>2 DEF pauses
  <2>3. Sound(r, t \in paused')
    BY <2>2, <1>1
  <2>4. r.state = "queued" <=> tr[t].state = "queued"
    BY <1>2, <1>3
  <2>5. QED
    BY <1>3, <1>4, <2>1, <2>2, <2>3, <2>4, Updating
<1>5. CASE /\ tr' = [tr EXCEPT ![t] = [r EXCEPT !.state = "parked"]]
           /\ paused' = paused \union {t}
           /\ UNCHANGED <<told, queue, nextTick, net>>
  <2> DEFINE w == [r EXCEPT !.state = "parked"]
  <2>1. w \in Transfer /\ w.state = "parked" /\ \A p : Sound(w, p)
    BY <1>1 DEF Startable, Transfer, Sound, Loose, States
  <2>2. nextTick' \in Seq(Transfers) /\ told' \in [Transfers -> Seq(Ends)] /\ net' \in Net /\ paused' \subseteq Transfers
    BY <1>5 DEF Base, Typed
  <2>3. tr' = [tr EXCEPT ![t] = w]
    BY <1>5
  <2>4. w.state = "queued" <=> tr[t].state = "queued"
    BY <2>1, <1>2
  <2> HIDE DEF w
  <2>5. QED
    BY <1>5, <2>1, <2>2, <2>3, <2>4, Updating
<1>6. CASE Process(t, r, rest) /\ UNCHANGED <<nextTick, pauses>>
  BY <1>6, <1>1, <1>2, Processing DEF pauses
<1>7. QED
  BY <1>4, <1>5, <1>6 DEF Request, Pause, r

\* A failure is latched in transfer t, whose other fields are those of r.
LEMMA Failing ==
  ASSUME Base, NEW t \in Transfers, NEW r \in Transfer,
         r.state = "queued" <=> tr[t].state = "queued", Sound(r, t \in paused),
         net' \in Net, NEW rest, Fail(t, r, rest), UNCHANGED <<lists, alive>>
  PROVE  Base'
<1> DEFINE q == [r EXCEPT !.notified = TRUE]
<1>1. q \in Transfer /\ q.state = r.state /\ Sound(q, t \in paused)
  BY DEF Transfer, Sound
<1>2. told' \in [Transfers -> Seq(Ends)]
  BY TellTyped DEF Fail, Base, Typed, Ends
<1>3. tr' = [tr EXCEPT ![t] = q]
  BY Zenon DEF Fail
<1>4. UNCHANGED <<queue, nextTick, paused>> /\ nextTick' \in Seq(Transfers) /\ paused' \subseteq Transfers
  BY DEF lists, pauses, Base, Typed
<1> HIDE DEF q
<1>5. QED
  BY <1>1, <1>2, <1>3, <1>4, Updating

LEMMA Aborting ==
  ASSUME Base, NEW t \in Transfers, NEW rest, Abort(t, rest), UNCHANGED alive, paused' \subseteq paused
  PROVE  Base'
<1>1. CASE DetachOrDeinit({t}) /\ UNCHANGED told
  <2>1. told' \in [Transfers -> Seq(Ends)] /\ {t} \in SUBSET Transfers
    BY <1>1 DEF Base, Typed
  <2>2. QED
    BY <1>1, <2>1, Detaching
<1>2. CASE /\ tr' = [tr EXCEPT ![t].notified = TRUE]
           /\ Tell({t}, "error")
           /\ UNCHANGED <<queue, nextTick, net>>
  <2> DEFINE q == [tr[t] EXCEPT !.notified = TRUE]
  <2>1. tr[t] \in Transfer /\ Sound(tr[t], t \in paused)
    BY DEF Base, Typed
  <2>2. q \in Transfer /\ q.state = tr[t].state /\ Sound(q, t \in paused')
    BY <2>1 DEF Transfer, Sound
  <2>3. told' \in [Transfers -> Seq(Ends)] /\ net' \in Net /\ nextTick' \in Seq(Transfers) /\ paused' \subseteq Transfers
    BY <1>2, TellTyped DEF Base, Typed, Ends
  <2>4. tr' = [tr EXCEPT ![t] = q]
    BY <1>2
  <2> HIDE DEF q
  <2>5. QED
    BY <1>2, <2>2, <2>3, <2>4, Updating
<1>3. QED
  BY <1>1, <1>2, Zenon DEF Abort

-----------------------------------------------------------------------------
\* A transfer that holds a connection is under way.
LEMMA Holding ==
  ASSUME Base, NEW t \in Transfers, tr[t].conn # None
  PROVE  tr[t].state \in {"inflight", "completing", "aborted"} /\ t \notin paused
  BY DEF Base, Typed, Transfer, States, Sound, Loose

LEMMA ReadingHeld ==
  ASSUME Base, NEW t \in Transfers, Reading(t)
  PROVE  /\ tr[t].conn \in Conns /\ tr[t].conn # None
         /\ tr[t].state \in {"inflight", "completing", "aborted"} /\ t \notin paused
         /\ Consumed(tr[t].conn) \in Net
         /\ tr[t] \in Transfer /\ Sound(tr[t], FALSE)
<1>1. tr[t].conn \in Conns /\ tr[t].conn # None /\ net \in Net
  BY SetsAssumption DEF Reading, Base, Typed, Net
<1>2. Consumed(tr[t].conn) \in Net
  BY <1>1 DEF Consumed, Net
<1>3. t \notin paused /\ tr[t].state \in {"inflight", "completing", "aborted"}
  BY <1>1, Holding
<1>4. tr[t] \in Transfer /\ Sound(tr[t], FALSE)
  BY DEF Base, Typed, Sound
<1>5. QED
  BY <1>1, <1>2, <1>3, <1>4

LEMMA BaseRead ==
  ASSUME Base, NEW t \in Transfers, Read(t)
  PROVE  Base'
<1>1. Reading(t) /\ UNCHANGED alive
  BY DEF Read, ReadAuth, ReadRedirect, ReadBadRedirect, ReadDetached, ReadError, ReadResponse, Reading
<1>2. /\ tr[t].conn \in Conns /\ tr[t].conn # None
      /\ tr[t].state \in {"inflight", "completing", "aborted"} /\ t \notin paused
      /\ Consumed(tr[t].conn) \in Net
      /\ tr[t] \in Transfer /\ Sound(tr[t], FALSE)
  BY <1>1, ReadingHeld
<1>3. /\ net \in Net /\ told \in [Transfers -> Seq(Ends)] /\ nextTick \in Seq(Transfers) /\ paused \subseteq Transfers
      /\ Sound(tr[t], t \in paused) /\ tr \in [Transfers -> Transfer]
  BY DEF Base, Typed
<1>4. CASE ReadAuth(t)
  <2> DEFINE r == [tr[t] EXCEPT !.conn = None, !.state = "parked"]
  <2>1. r \in Transfer /\ r.state = "parked" /\ \A p : Sound(r, p)
    BY <1>2, <1>3 DEF Transfer, States, Sound, Loose
  <2>2. tr' = [tr EXCEPT ![t] = r]
    BY <1>3, <1>4 DEF ReadAuth
  <2>3. net' \in Net
    BY <1>4, HeldConns, RemovalTyped DEF ReadAuth, Base
  <2>4. paused' = paused \union {t} /\ UNCHANGED <<told, queue, nextTick>>
    BY <1>4 DEF ReadAuth, Pause
  <2> HIDE DEF r
  <2>6. Sound(r, t \in paused')
    BY <2>1
  <2>7. /\ told' \in [Transfers -> Seq(Ends)] /\ nextTick' \in Seq(Transfers) /\ paused' \subseteq Transfers
        /\ UNCHANGED <<queue, alive>> /\ \A u \in Transfers \ {t} : u \in paused' => u \in paused
        /\ r.state = "queued" <=> tr[t].state = "queued"
    BY <1>1, <1>2, <1>3, <2>1, <2>4
  <2>8. QED
    BY <2>1, <2>2, <2>3, <2>6, <2>7, Updating
<1>5. CASE ReadRedirect(t)
  <2> DEFINE r == [Reset(tr[t]) EXCEPT !.redirects = @ + 1]
  <2>1. r \in Transfer /\ r.state = tr[t].state /\ Sound(r, FALSE)
    <3>1. tr[t].tries + 1 \in Nat /\ tr[t].redirects + 1 \in Nat
      BY <1>2 DEF Transfer
    <3>2. Reset(tr[t]) \in Transfer /\ Reset(tr[t]).state = tr[t].state /\ Sound(Reset(tr[t]), FALSE)
          /\ Reset(tr[t]).redirects = tr[t].redirects
      BY <1>2, <3>1 DEF Transfer, Sound, Reset
    <3>3. QED
      BY <3>1, <3>2 DEF Transfer, Sound
  <2>2. tr' = [tr EXCEPT ![t] = r]
    BY <1>3, <1>5 DEF ReadRedirect
  <2>3. net' \in Net
    BY <1>5, <1>2 DEF ReadRedirect, Net
  <2>4. UNCHANGED <<told, queue, nextTick, paused>> /\ (t \in paused') = FALSE
    BY <1>2, <1>5 DEF ReadRedirect, lists, pauses
  <2> HIDE DEF r
  <2>5. Sound(r, t \in paused') /\ (r.state = "queued" <=> tr[t].state = "queued")
    BY <2>1, <2>4
  <2>6. /\ told' \in [Transfers -> Seq(Ends)] /\ nextTick' \in Seq(Transfers) /\ paused' \subseteq Transfers
        /\ UNCHANGED <<queue, alive>> /\ \A u \in Transfers \ {t} : u \in paused' => u \in paused
    BY <1>1, <1>3, <2>4
  <2>7. QED
    BY <2>1, <2>2, <2>3, <2>5, <2>6, Updating
<1>6. ASSUME NEW r \in {tr[t], Reset(tr[t]), Completing(t)}, NEW rest, Fail(t, r, rest),
             net' = Consumed(tr[t].conn), UNCHANGED lists
      PROVE  Base'
  <2>1. r \in Transfer /\ (r.state = "queued" <=> tr[t].state = "queued") /\ Sound(r, t \in paused)
    <3>1. tr[t].tries + 1 \in Nat /\ (t \in paused) = FALSE
      BY <1>2 DEF Transfer
    <3>2. Reset(tr[t]) \in Transfer /\ Reset(tr[t]).state = tr[t].state /\ Sound(Reset(tr[t]), FALSE)
      BY <1>2, <3>1 DEF Transfer, Sound, Reset
    <3>3. /\ Completing(t) \in Transfer /\ Completing(t).state = "completing"
          /\ Sound(Completing(t), FALSE)
      BY <1>2 DEF Transfer, Sound, Completing, States, Loose
    <3>4. QED
      BY <1>2, <1>3, <3>1, <3>2, <3>3
  <2>2. QED
    BY <1>1, <1>2, <1>6, <2>1, Failing
<1>7. CASE ReadResponse(t)
  <2>1. Completing(t) \in Transfer /\ Completing(t).state = "completing" /\ Sound(Completing(t), FALSE)
    BY <1>2 DEF Transfer, Sound, Completing, States, Loose
  <2>2. tr' = [tr EXCEPT ![t] = Completing(t)] /\ net' \in Net /\ UNCHANGED <<told, queue, nextTick, paused>>
    BY <1>2, <1>7 DEF ReadResponse, lists, pauses
  <2>3. (t \in paused') = FALSE /\ \A u \in Transfers \ {t} : u \in paused' => u \in paused
    BY <1>2, <2>2
  <2>4. Sound(Completing(t), t \in paused') /\ (Completing(t).state = "queued" <=> tr[t].state = "queued")
    BY <1>2, <2>1, <2>3
  <2>5. told' \in [Transfers -> Seq(Ends)] /\ nextTick' \in Seq(Transfers) /\ paused' \subseteq Transfers
    BY <1>3, <2>2
  <2>6. QED
    BY <1>1, <2>1, <2>2, <2>3, <2>4, <2>5, Updating
<1>8. QED
  BY <1>4, <1>5, <1>6, <1>7 DEF Read, ReadBadRedirect, ReadDetached, ReadError

LEMMA BaseResume ==
  ASSUME Base, TypeOK, NEW t \in Transfers, Resume(t)
  PROVE  Base'
<1>1. UNCHANGED alive
  BY DEF Resume, DeliverFail, DeliverDone, Done, DoneFail, Failed, FailedDetached, ServeFail,
         ServeDone, Served, ServedFail, Resumed
<1>2. /\ tr[t] \in Transfer /\ Sound(tr[t], t \in paused)
      /\ net \in Net /\ told \in [Transfers -> Seq(Ends)] /\ nextTick \in Seq(Transfers)
      /\ tr \in [Transfers -> Transfer] /\ paused \subseteq Transfers
  BY DEF Base, Typed
<1>3. CASE DeliverFail(t) \/ DoneFail(t)
  <2>1. UNCHANGED <<lists, net>> /\ \E rest : Fail(t, tr[t], rest)
    BY <1>3 DEF DeliverFail, DoneFail
  <2>2. QED
    BY <1>1, <1>2, <2>1, Failing
<1>4. CASE DeliverDone(t)
  <2> DEFINE r == [tr[t] EXCEPT !.conn = None, !.handle = FALSE]
  <2>1. r \in Transfer /\ r.state = tr[t].state /\ Sound(r, t \in paused)
    BY <1>2 DEF Transfer, Sound
  <2>2. /\ tr' = [tr EXCEPT ![t] = r] /\ Tell({t}, "done") /\ UNCHANGED <<queue, nextTick, paused>>
        /\ net' = RemoveConns(Held({t}))
    BY <1>2, <1>4 DEF DeliverDone, lists, pauses
  <2>3. net' \in Net
    BY <2>2, HeldConns, RemovalTyped DEF Base
  <2>4. told' \in [Transfers -> Seq(Ends)]
    BY <2>2, TellTyped DEF Base, Ends
  <2> HIDE DEF r
  <2>5. Sound(r, t \in paused') /\ nextTick' \in Seq(Transfers) /\ paused' \subseteq Transfers
    BY <1>2, <2>1, <2>2
  <2>6. QED
    BY <1>1, <2>1, <2>2, <2>3, <2>4, <2>5, Updating
<1>5. CASE Done(t) \/ Failed(t) \/ Served(t)
  <2>1. Deinit({t}) /\ UNCHANGED <<told, paused, alive>>
    BY <1>1, <1>5 DEF Done, Failed, Served, pauses
  <2>2. QED
    BY <2>1, Deiniting
<1>6. CASE FailedDetached(t)
  <2>1. UNCHANGED <<tr, told, queue, nextTick, paused, alive>>
    BY <1>6, <1>1 DEF FailedDetached, lists, pauses
  <2>2. /\ net.available \in [Conns -> Nat] /\ net.inUse \subseteq Conns
        /\ net.active - 1 \in Int /\ \A d \in Conns : net.available[d] + 1 \in Nat
    BY <1>2 DEF Net
  <2>3. PICK c : net' = [net EXCEPT !.inUse = @ \ {c}, !.active = @ - 1, !.available[c] = @ + 1]
    BY <1>6 DEF FailedDetached
  <2>4. net' \in Net
    BY <1>2, <2>2, <2>3 DEF Net
  <2>5. told' \in [Transfers -> Seq(Ends)] /\ nextTick' \in Seq(Transfers) /\ paused' \subseteq paused
    BY <1>2, <2>1
  <2>6. QED
    BY <2>1, <2>4, <2>5, Aside
<1>7. CASE ServeFail(t)
  <2>1. Abort(t, Tail(stack)) /\ paused' \subseteq paused
    BY <1>7 DEF ServeFail, pauses
  <2>2. QED
    BY <1>1, <2>1, Aborting
<1>8. CASE ServeDone(t) \/ ServedFail(t)
  <2>1. UNCHANGED <<tr, queue, nextTick, paused, alive, net>> /\ (Tell({t}, "done") \/ Tell({t}, "error"))
    BY <1>1, <1>8 DEF ServeDone, ServedFail, lists, pauses
  <2>2. told' \in [Transfers -> Seq(Ends)]
    BY <2>1, TellTyped DEF Base, Ends
  <2>3. QED
    BY <1>2, <2>1, <2>2, Aside
<1>9. QED
  BY <1>3, <1>4, <1>5, <1>6, <1>7, <1>8 DEF Resume

LEMMA BaseCdp ==
  ASSUME Base, NEW t \in Transfers,
         CdpContinue(t) \/ CdpContinueWithAuth(t) \/ CdpFail(t) \/ CdpFulfill(t) \/ CdpStray(t)
  PROVE  Base'
<1>1. t \in paused /\ paused' = paused \ {t} /\ UNCHANGED alive
  BY DEF CdpContinue, CdpContinueWithAuth, CdpFail, CdpFulfill, CdpStray, Answer, Command
<1>2. CASE CdpContinue(t) \/ CdpContinueWithAuth(t)
  <2>1. tr[t].state \notin {"none", "freed"} /\ Process(t, Unpark(t), stack) /\ UNCHANGED nextTick
    BY <1>2 DEF CdpContinue, CdpContinueWithAuth, Answer
  <2>2. tr[t] \in Transfer /\ Sound(tr[t], TRUE)
    BY <1>1 DEF Base, Typed, Sound
  <2>3. Startable(Unpark(t)) /\ tr[t].state # "queued"
    BY <2>1, <2>2 DEF Unpark, Startable, Transfer, Sound, Loose, States
  <2>4. QED
    BY <1>1, <2>1, <2>3, Processing
<1>3. CASE CdpFail(t)
  <2>1. Abort(t, stack)
    BY <1>3 DEF CdpFail
  <2>2. QED
    BY <1>1, <2>1, Aborting
<1>4. CASE CdpFulfill(t) \/ CdpStray(t)
  <2>1. UNCHANGED <<tr, told, queue, nextTick, net>>
    BY <1>4 DEF CdpFulfill, CdpStray
  <2>2. QED
    BY <1>1, <2>1, Aside DEF Base, Typed
<1>5. QED
  BY <1>2, <1>3, <1>4

LEMMA BaseScript ==
  ASSUME Base, Script
  PROVE  Base'
<1>1. ASSUME NEW t \in Transfers, NEW o \in Owners, ScriptRequest(t, o) PROVE Base'
  BY <1>1, Requesting DEF ScriptRequest
<1>2. ASSUME NEW t \in Transfers, ScriptSync(t) PROVE Base'
  BY <1>2, Requesting DEF ScriptSync
<1>3. ASSUME NEW t \in Transfers, ScriptAbort(t) PROVE Base'
  <2>1. Abort(t, stack) /\ UNCHANGED alive /\ paused' \subseteq paused
    BY <1>3 DEF ScriptAbort, pauses
  <2>2. QED
    BY <2>1, Aborting
<1>4. ASSUME NEW o \in Owners, ScriptNavigate(o) PROVE Base'
  <2> DEFINE S == {t \in Transfers : tr[t].owner = o}
  <2>1. Tell(S, "shutdown") /\ DetachOrDeinit(S) /\ UNCHANGED alive /\ paused' \subseteq paused
    BY <1>4 DEF ScriptNavigate, pauses, Kill
  <2>2. told' \in [Transfers -> Seq(Ends)] /\ S \in SUBSET Transfers
    BY <2>1, TellTyped DEF Base, Ends
  <2> HIDE DEF S
  <2>3. QED
    BY <2>1, <2>2, Detaching
<1>5. QED
  BY <1>1, <1>2, <1>3, <1>4 DEF Script

LEMMA BaseStep ==
  ASSUME TypeOK, Shaped(stack), Base, Next
  PROVE  Base'
<1>1. CASE UNCHANGED <<tr, told, lists, net, alive>>
  <2>1. UNCHANGED <<tr, told, queue, nextTick, paused, net, alive>>
    BY <1>1 DEF lists, pauses
  <2>2. QED
    BY <2>1, Aside DEF Base, Typed
<1>2. CASE AbortReturn
  <2>1. Top("abort") /\ DetachOrDeinit({Head(stack).t}) /\ UNCHANGED <<told, alive>> /\ paused' \subseteq paused
    BY <1>2 DEF AbortReturn, pauses
  <2>2. {Head(stack).t} \in SUBSET Transfers
    BY <2>1, TopShape, InPlaces DEF Top
  <2>3. told' \in [Transfers -> Seq(Ends)]
    BY <2>1 DEF Base, Typed
  <2>4. QED
    BY <2>1, <2>2, <2>3, Detaching
<1>3. CASE NextTickRun
  <2>1. /\ nextTick # << >> /\ nextTick' = Tail(nextTick) /\ UNCHANGED <<tr, queue, paused, net, alive>>
        /\ Tell({Head(nextTick)}, "error") \/ UNCHANGED told
    BY <1>3 DEF NextTickRun, pauses
  <2>2. told' \in [Transfers -> Seq(Ends)]
    BY <2>1, TellTyped DEF Base, Typed, Ends
  <2>3. QED
    BY <2>1, <2>2, Aside DEF Base, Typed
<1>4. CASE DrainQueue
  <2> DEFINE t == Head(queue)
             r == [tr[t] EXCEPT !.state = "created"]
  <2>1. /\ queue # << >> /\ queue' = Tail(queue) /\ UNCHANGED <<nextTick, paused, alive>>
        /\ \E c \in Available : \E good, bad : MakeRequest(t, r, c, good, bad)
    BY <1>4 DEF DrainQueue, pauses
  <2>2. /\ t \in Transfers /\ t \in Elements(queue) /\ Distinct(queue')
        /\ Elements(queue') = Elements(queue) \ {t} /\ queue' \in Seq(Transfers)
    BY <2>1, Unqueued DEF Base, Typed, Listed
  <2>3. tr[t].state = "queued" /\ tr[t] \in Transfer /\ Sound(tr[t], t \in paused)
    BY <2>2 DEF Base, Typed, Listed
  <2>4. Startable(r) /\ t \notin paused
    BY <2>3 DEF Startable, Sound, Loose, Transfer, States
  <2> HIDE DEF t, r
  <2>5. /\ told' \in [Transfers -> Seq(Ends)] /\ net' \in Net
        /\ \E q \in Transfer : tr' = [tr EXCEPT ![t] = q] /\ q.state \in {"created", "inflight"} /\ Sound(q, FALSE)
    BY <2>1, <2>2, <2>4, Making
  <2>6. PICK q \in Transfer : tr' = [tr EXCEPT ![t] = q] /\ q.state \in {"created", "inflight"} /\ Sound(q, FALSE)
    BY <2>5
  <2>7. (t \in paused') = FALSE /\ nextTick' \in Seq(Transfers) /\ paused' \subseteq Transfers
        /\ UNCHANGED alive /\ \A u \in Transfers \ {t} : u \in paused' => u \in paused
    BY <2>1, <2>4 DEF Base, Typed
  <2>8. Sound(q, t \in paused') /\ (q.state = "queued" <=> t \in Elements(queue'))
        /\ \A u \in Transfers \ {t} : u \in Elements(queue') <=> u \in Elements(queue)
    BY <2>2, <2>6, <2>7
  <2>9. QED
    BY <2>2, <2>5, <2>6, <2>7, <2>8, Moving
<1>5. ASSUME NEW c \in Conns, CurlFinish(c) PROVE Base'
  <2>1. UNCHANGED <<tr, told, queue, nextTick, paused, alive>>
    BY <1>5 DEF CurlFinish, lists, pauses
  <2>2. net' \in Net
    BY <1>5 DEF CurlFinish, Base, Typed, Net
  <2>3. QED
    BY <2>1, <2>2, Aside DEF Base, Typed
<1>6. CASE PerformReturn
  <2>1. UNCHANGED <<tr, told, queue, nextTick, paused, alive>>
    BY <1>6 DEF PerformReturn, lists, pauses
  <2>2. /\ net.available \in [Conns -> Nat] /\ net.inUse \subseteq Conns /\ net.ready \subseteq Conns
        /\ net.running \subseteq Conns /\ net.finished \subseteq Conns /\ net.active \in Int
    BY DEF Base, Typed, Net
  <2>3. Cardinality(net.ready) \in Nat
    BY <2>2, SetsAssumption, FS_Subset, FS_CardinalityType
  <2>4. net' \in Net
    BY <1>6, <2>2, <2>3 DEF PerformReturn, Net
  <2>5. QED
    BY <2>1, <2>4, Aside DEF Base, Typed
<1>7. CASE SyncFailed
  <2> DEFINE rest == Tail(stack)
  <2>1. Top("tickFailed") /\ rest # << >> /\ UNCHANGED alive /\ paused' \subseteq paused
    BY <1>7 DEF SyncFailed, pauses
  <2>2. Shaped(rest) /\ Head(rest).at = "sync"
    BY <2>1, TopShape DEF Top, Stands, Stages
  <2>3. Head(rest).t \in Transfers
    BY <2>1, <2>2, ShapedPop DEF Framed, Call, Bare, Stages
  <2>4. CASE Abort(Head(rest).t, Tail(rest))
    BY <2>1, <2>3, <2>4, Aborting
  <2>5. CASE UNCHANGED <<tr, told, queue, nextTick, net>>
    BY <2>1, <2>5, Aside DEF Base, Typed
  <2>6. QED
    BY <1>7, <2>4, <2>5 DEF SyncFailed
<1>8. ASSUME NEW o \in Owners, TearDown(o) PROVE Base'
  <2> DEFINE S == {t \in Transfers : tr[t].owner = o}
  <2>1. Tell(S, "shutdown") /\ DetachOrDeinit(S) /\ alive' = alive \ {o} /\ paused' \subseteq paused
    BY <1>8 DEF TearDown, pauses, Kill
  <2>2. told' \in [Transfers -> Seq(Ends)] /\ S \in SUBSET Transfers
    BY <2>1, TellTyped DEF Base, Ends
  <2>3. \A t \in Transfers \ S : tr[t].owner \in alive => tr[t].owner \in alive'
    BY <2>1
  <2> HIDE DEF S
  <2>4. QED
    BY <2>1, <2>2, <2>3, Detaching
<1>9. CASE ClientDeinit
  <2> DEFINE S == {t \in Transfers : tr[t].state \notin {"none", "freed"}}
  <2>1. Tell(S, "shutdown") /\ DetachOrDeinit(S) /\ UNCHANGED alive /\ paused' \subseteq paused
    BY <1>9 DEF ClientDeinit, pauses, Kill
  <2>2. told' \in [Transfers -> Seq(Ends)] /\ S \in SUBSET Transfers
    BY <2>1, TellTyped DEF Base, Ends
  <2> HIDE DEF S
  <2>3. QED
    BY <2>1, <2>2, Detaching
<1>10. ASSUME NEW t \in Transfers, DeliverData(t) PROVE Base'
  BY <1>10, <1>1 DEF DeliverData, Resumed
<1>11. ASSUME NEW t \in Transfers, SyncTick(t) \/ SyncReturn(t) PROVE Base'
  BY <1>11, <1>1 DEF SyncTick, SyncReturn
<1>12. CASE \/ NextTickDone \/ DrainQueueDone \/ TickPerform \/ ReadDone \/ LoopTickFailed \/ ScriptReturn
            \/ SocketEvent \/ MakeReturn \/ CdpDisconnect \/ InboxDone \/ LoopScript \/ LoopTick
  <2>1. UNCHANGED <<tr, told, lists, net, alive>>
    BY <1>12 DEF NextTickDone, DrainQueueDone, TickPerform, ReadDone, LoopTickFailed, ScriptReturn,
                 SocketEvent, MakeReturn, CdpDisconnect, InboxDone, LoopScript, LoopTick
  <2>2. QED
    BY <2>1, <1>1
<1>13. CASE Script
  BY <1>13, BaseScript
<1>14. ASSUME NEW t \in Transfers, Read(t) \/ Resume(t) PROVE Base'
  BY <1>14, BaseRead, BaseResume
<1>15. CASE Cdp
  BY <1>15, BaseCdp DEF Cdp
<1>16. QED
  BY <1>2, <1>3, <1>4, <1>5, <1>6, <1>7, <1>8, <1>9, <1>10, <1>11, <1>12, <1>13, <1>14, <1>15
     DEF Next, Client

-----------------------------------------------------------------------------
Flags ==
  /\ intercepted \in Int /\ performing \in BOOLEAN /\ alive \subseteq Owners
  /\ terminated \in BOOLEAN /\ ended \in BOOLEAN

LEMMA MakingFlag ==
  ASSUME Flags, NEW t, NEW r, NEW c, NEW good, NEW bad, MakeRequest(t, r, c, good, bad)
  PROVE  performing' \in BOOLEAN
  BY DEF Flags, MakeRequest, GiveUp

LEMMA ProcessingFlag ==
  ASSUME Flags, NEW t, NEW r, NEW rest, Process(t, r, rest)
  PROVE  performing' \in BOOLEAN
<1>1. CASE UNCHANGED performing
  BY <1>1 DEF Flags
<1>2. CASE \E c : MakeRequest(t, r, c, rest, rest)
  BY <1>2, MakingFlag
<1>3. QED
  BY <1>1, <1>2 DEF Process

LEMMA RequestingFlags ==
  ASSUME Flags, NEW t, NEW r, NEW rest, Request(t, r, rest)
  PROVE  performing' \in BOOLEAN /\ intercepted' \in Int
<1>1. CASE UNCHANGED <<pauses, performing>>
  BY <1>1 DEF Flags, pauses
<1>2. CASE Pause(t) /\ UNCHANGED performing
  BY <1>2 DEF Flags, Pause
<1>3. CASE Process(t, r, rest) /\ UNCHANGED pauses
  BY <1>3, ProcessingFlag DEF Flags, pauses
<1>4. QED
  BY <1>1, <1>2, <1>3 DEF Request

LEMMA FlagsStep ==
  ASSUME Flags, Next
  PROVE  Flags'
<1>1. CASE \/ AbortReturn \/ NextTickRun \/ NextTickDone \/ DrainQueueDone \/ ReadDone \/ SyncFailed
           \/ LoopTickFailed \/ ScriptReturn \/ SocketEvent \/ InboxDone \/ LoopScript \/ LoopTick
           \/ \E c \in Conns : CurlFinish(c)
           \/ \E t \in Transfers : DeliverData(t) \/ SyncTick(t) \/ SyncReturn(t) \/ ScriptAbort(t)
           \/ \E o \in Owners : ScriptNavigate(o)
  <2>1. UNCHANGED <<intercepted, performing, alive, terminated, ended>>
    BY <1>1 DEF AbortReturn, NextTickRun, NextTickDone, DrainQueueDone, ReadDone, SyncFailed,
                LoopTickFailed, ScriptReturn, SocketEvent, InboxDone, LoopScript, LoopTick, CurlFinish,
                DeliverData, Resumed, SyncTick, SyncReturn, ScriptAbort, ScriptNavigate, lists, pauses
  <2>2. QED
    BY <2>1 DEF Flags
<1>2. CASE MakeReturn \/ PerformReturn \/ TickPerform
  <2>1. UNCHANGED <<intercepted, alive, terminated, ended>> /\ performing' \in BOOLEAN
    BY <1>2 DEF MakeReturn, PerformReturn, TickPerform, lists, pauses, Flags
  <2>2. QED
    BY <2>1 DEF Flags
<1>3. CASE CdpDisconnect \/ ClientDeinit \/ \E o \in Owners : TearDown(o)
  BY <1>3 DEF CdpDisconnect, ClientDeinit, TearDown, lists, pauses, Flags
<1>4. ASSUME NEW t \in Transfers, Read(t) PROVE Flags'
  <2>1. /\ intercepted' \in {intercepted, intercepted + 1} /\ performing' \in {performing, TRUE}
        /\ UNCHANGED <<alive, terminated, ended>>
    BY <1>4 DEF Read, ReadAuth, ReadRedirect, ReadBadRedirect, ReadDetached, ReadError, ReadResponse,
                Reading, Pause, lists, pauses
  <2>2. intercepted' \in Int
    BY <2>1 DEF Flags
  <2>3. performing' \in BOOLEAN
    BY <2>1, Zenon DEF Flags
  <2>4. QED
    BY <2>1, <2>2, <2>3 DEF Flags
<1>5. ASSUME NEW t \in Transfers, Resume(t) PROVE Flags'
  <2>1. UNCHANGED <<intercepted, performing, alive, terminated, ended>>
    BY <1>5 DEF Resume, DeliverFail, DeliverDone, Done, DoneFail, Failed, FailedDetached, ServeFail,
                ServeDone, Served, ServedFail, Resumed, lists, pauses
  <2>2. QED
    BY <2>1 DEF Flags
<1>6. CASE DrainQueue
  <2>1. UNCHANGED <<intercepted, alive, terminated, ended>>
        /\ \E t, r, c, good, bad : MakeRequest(t, r, c, good, bad)
    BY <1>6 DEF DrainQueue, pauses
  <2>2. QED
    BY <2>1, MakingFlag DEF Flags
<1>7. ASSUME NEW t \in Transfers, (\E o \in Owners : ScriptRequest(t, o)) \/ ScriptSync(t) PROVE Flags'
  <2>1. UNCHANGED <<alive, terminated, ended>> /\ \E r, rest : Request(t, r, rest)
    BY <1>7 DEF ScriptRequest, ScriptSync
  <2>2. QED
    BY <2>1, RequestingFlags DEF Flags
<1>8. ASSUME NEW t \in Transfers, CdpContinue(t) \/ CdpContinueWithAuth(t) PROVE Flags'
  <2>1. /\ intercepted' \in {intercepted - 1, intercepted - 2} /\ UNCHANGED <<alive, terminated, ended>>
        /\ Process(t, Unpark(t), stack)
    BY <1>8 DEF CdpContinue, CdpContinueWithAuth, Answer, Command
  <2>2. QED
    BY <2>1, ProcessingFlag DEF Flags
<1>9. ASSUME NEW t \in Transfers, CdpFail(t) \/ CdpFulfill(t) \/ CdpStray(t) PROVE Flags'
  <2>1. /\ intercepted' \in {intercepted - 1, intercepted} /\ UNCHANGED <<performing, alive, terminated, ended>>
    BY <1>9 DEF CdpFail, CdpFulfill, CdpStray, Answer, Command
  <2>2. QED
    BY <2>1 DEF Flags
<1>10. QED
  BY <1>1, <1>2, <1>3, <1>4, <1>5, <1>6, <1>7, <1>8, <1>9 DEF Next, Client, Script, Cdp

\* The invariant of every client, whatever pages, servers and clients do.
Sane == TypeOK /\ Shaped(stack) /\ Base

LEMMA TypedSane ==
  TypeOK <=> Typed /\ Flags /\ stack \in Seq(Call)
  BY DEF TypeOK, Typed, Net, Flags

LEMMA SaneInit == Init => Sane
<1> SUFFICES ASSUME Init PROVE Sane
  OBVIOUS
<1>1. stack = << >> /\ Shaped(stack)
  BY ShapedEmpty DEF Init
<1>2. New \in Transfer /\ New.state = "none" /\ Sound(New, FALSE)
  BY DEF New, Transfer, States, Sound, Loose
<1>3. net \in Net
  BY DEF Init, Net
<1>4. queue \in Seq(Transfers) /\ nextTick \in Seq(Transfers) /\ \A t \in Transfers : told[t] \in Seq(Ends)
  BY DEF Init
<1>5. Typed
  <2>1. tr \in [Transfers -> Transfer] /\ told \in [Transfers -> Seq(Ends)]
    BY <1>2, <1>4 DEF Init
  <2>2. paused \subseteq Transfers
    BY DEF Init
  <2>3. QED
    BY <1>3, <1>4, <2>1, <2>2 DEF Typed
<1>9. Flags
  <2>1. intercepted \in Int
    BY DEF Init
  <2>2. performing \in BOOLEAN /\ alive \subseteq Owners /\ terminated \in BOOLEAN /\ ended \in BOOLEAN
    BY Zenon DEF Init
  <2>3. QED
    BY <2>1, <2>2 DEF Flags
<1>6. Elements(queue) = {} /\ Distinct(queue)
  BY Emptied DEF Init, Distinct
<1>7. Base
  <2>1. \A t \in Transfers : tr[t] = New /\ (t \in paused) = FALSE
    BY DEF Init
  <2>2. \A t \in Transfers : Sound(tr[t], t \in paused) /\ tr[t].state # "queued"
    BY <1>2, <2>1
  <2>3. QED
    BY <1>5, <1>6, <2>2 DEF Base, Listed
<1>8. QED
  BY <1>1, <1>5, <1>7, <1>9, TypedSane DEF Sane, Shaped

LEMMA SaneStep == Sane /\ [Next]_vars => Sane'
<1>1. ASSUME Sane, Next PROVE Sane'
  <2>1. Shaped(stack')
    BY <1>1, ShapeStep DEF Sane
  <2>2. Base'
    BY <1>1, BaseStep DEF Sane
  <2>3. Flags'
    BY <1>1, FlagsStep, TypedSane DEF Sane
  <2>4. stack' \in Seq(Call) /\ Typed'
    BY <2>1, <2>2 DEF Shaped, Base
  <2>5. TypeOK'
    BY <2>3, <2>4 DEF TypeOK, Typed, Net, Flags
  <2>6. QED
    BY <2>1, <2>2, <2>5 DEF Sane
<1>2. ASSUME Sane, UNCHANGED vars PROVE Sane'
  BY <1>2 DEF Sane, TypeOK, Base, Typed, Net, Listed, Sound, Distinct, Elements, vars, lists, pauses
<1>3. QED
  BY <1>1, <1>2

LEMMA SaneAlways == Spec => []Sane
  BY SaneInit, SaneStep, PTL DEF Spec

\* Every field of the client and of its transfers keeps its type, and the call
\* stack (browser/HttpClient.zig, re-entered by callbacks) its kinds of calls.
THEOREM Typing == Spec => []TypeOK
<1>1. Sane => TypeOK
  BY DEF Sane
<1>2. QED
  BY <1>1, SaneAlways, PTL

\* Client.queue holds each queued transfer once, and nothing else: process
\* and drainQueue link it, Transfer.deinit unlinks it wherever it dies.
THEOREM QueueHolds == Spec => []QueueMatches
<1>1. Sane => QueueMatches
  BY DEF Sane, Base, Listed, QueueMatches, Elements, Distinct
<1>2. QED
  BY <1>1, SaneAlways, PTL

\* What a Fetch command may name is parked or gone, so that Transfer.unpark's
\* assertion holds in every order of pauses, answers, aborts and navigations.
THEOREM PausedHolds == Spec => []PausedIsParked
<1>1. Sane => PausedIsParked
  BY DEF Sane, Base, Sound, PausedIsParked, Live
<1>2. QED
  BY <1>1, SaneAlways, PTL

\* abortOwner leaves no live transfer of a torn-down frame or worker that
\* would call back into it, also none that curl or a callback still uses.
THEOREM SilenceHolds == Spec => []DeadOwnerIsSilent
<1>1. Sane => DeadOwnerIsSilent
  BY DEF Sane, Base, Sound, DeadOwnerIsSilent, Live
<1>2. QED
  BY <1>1, SaneAlways, PTL

-----------------------------------------------------------------------------
\* Calls inside libcurl.
Curls == {"curl", "make"}

\* What runs inside libcurl when a web socket's message enters script there.
Nested == {"script", "abort"}
InCurlMayRun == IF "ws" \in Features THEN Nested ELSE {}

\* No call of s is inside libcurl, and what is above one that is: calls of V.
Clear(s) == \A f \in Elements(s) : f.at \notin Curls
Covered(V, s) ==
  \A f, g : Over(s, f, g) /\ g.at \in Curls => f.at \in V

\* libcurl is entered once at most, and performing says so.
Entered(V) == Covered(V, stack) /\ (performing <=> ~Clear(stack))

LEMMA InCurlClear == stack \in Seq(Call) => (InCurl <=> ~Clear(stack))
  BY DEF InCurl, Clear, Curls, Elements

LEMMA ClearPush ==
  ASSUME NEW V, NEW s \in Seq(Call), NEW c \in Call
  PROVE  /\ Clear(<<c>> \o s) <=> Clear(s) /\ c.at \notin Curls
         /\ Covered(V, <<c>> \o s) <=> Covered(V, s) /\ (Clear(s) \/ c.at \in V)
<1> DEFINE p == <<c>> \o s
<1>1. /\ Elements(p) = {c} \union Elements(s)
      /\ \A f, g : Over(p, f, g) <=> (f = c /\ g \in Elements(s)) \/ Over(s, f, g)
  BY Pushed
<1> HIDE DEF p
<1>2. Clear(p) <=> Clear(s) /\ c.at \notin Curls
  BY <1>1 DEF Clear
<1>3. Covered(V, p) <=> Covered(V, s) /\ (Clear(s) \/ c.at \in V)
  BY <1>1 DEF Clear, Covered
<1>4. QED
  BY <1>2, <1>3 DEF p

LEMMA ClearPop ==
  ASSUME NEW V, NEW s \in Seq(Call), s # << >>
  PROVE  /\ Head(s) \in Call /\ Tail(s) \in Seq(Call)
         /\ Clear(s) <=> Clear(Tail(s)) /\ Head(s).at \notin Curls
         /\ Covered(V, s) <=> Covered(V, Tail(s)) /\ (Clear(Tail(s)) \/ Head(s).at \in V)
<1> DEFINE h == Head(s)
           t == Tail(s)
<1>1. h \in Call /\ t \in Seq(Call) /\ s = <<h>> \o t
  BY Popped
<1> HIDE DEF h, t
<1>2. /\ Clear(s) <=> Clear(t) /\ h.at \notin Curls
      /\ Covered(V, s) <=> Covered(V, t) /\ (Clear(t) \/ h.at \in V)
  BY <1>1, ClearPush
<1>3. QED
  BY <1>1, <1>2 DEF h, t

LEMMA ClearEmpty == Clear(<< >>) /\ \A V : Covered(V, << >>)
  BY Emptied DEF Clear, Covered

LEMMA ClearCovered == \A s \in Seq(Call) : Clear(s) => \A V : Covered(V, s)
<1> SUFFICES ASSUME NEW s \in Seq(Call), Clear(s), NEW V PROVE Covered(V, s)
  OBVIOUS
<1>1. \A f, g : Over(s, f, g) => g \in Elements(s)
  BY Inside
<1>2. QED
  BY <1>1 DEF Clear, Covered

LEMMA CallPlaces ==
  /\ \A p \in Places : At(p, None) \in Call /\ At(p, None).at = p
  /\ \A p \in Places, t \in Transfers : At(p, t) \in Call /\ At(p, t).at = p
  BY DEF At, Call

LEMMA OuterTop ==
  ASSUME NEW V \in {{}, Nested}, Sane, Entered(V), NEW p, Top(p), p \notin Curls \union {"script", "abort"}
  PROVE  Clear(stack) /\ Clear(Tail(stack)) /\ ~InCurl /\ ~performing
<1>1. stack \in Seq(Call) /\ stack # << >> /\ Head(stack).at = p
  BY DEF Sane, TypeOK, Top
<1>2. Clear(stack) /\ Clear(Tail(stack))
  BY <1>1, ClearPop DEF Entered, Nested
<1>3. QED
  BY <1>1, <1>2, InCurlClear DEF Entered

\* The calls pushed by the operations, when none under them is inside libcurl.
LEMMA ClearCall ==
  ASSUME NEW s \in Seq(Call), Clear(s), NEW c \in Call, c.at \notin Curls
  PROVE  /\ Clear(<<c>> \o s) /\ <<c>> \o s \in Seq(Call)
         /\ \A r : Clear(Callback(r) \o <<c>> \o s)
         /\ \A r : Clear(Callback(r) \o (<<c>> \o s))
<1>1. Clear(<<c>> \o s) /\ <<c>> \o s \in Seq(Call)
  BY ClearPush
<1>2. At("script", None) \in Call /\ At("script", None).at \notin Curls
  BY CallPlaces DEF Places, Curls
<1>3. Clear(<<At("script", None)>> \o (<<c>> \o s))
  BY <1>1, <1>2, ClearPush
<1>4. \A r : Callback(r) = << >> \/ Callback(r) = <<At("script", None)>>
  BY DEF Callback
<1>5. << >> \o (<<c>> \o s) = <<c>> \o s
  BY <1>1
<1>6. QED
  BY <1>1, <1>3, <1>4, <1>5, CalledBack

LEMMA AbortClear ==
  ASSUME NEW t \in Transfers, NEW s \in Seq(Call), Clear(s), Abort(t, s)
  PROVE  Clear(stack')
<1>1. At("abort", t) \in Call /\ At("abort", t).at \notin Curls
  BY CallPlaces DEF Places, Unshielded, Curls
<1>2. stack' = s \/ stack' = Callback(tr[t]) \o <<At("abort", t)>> \o s
  BY Zenon DEF Abort
<1>3. QED
  BY <1>1, <1>2, ClearCall

LEMMA FailClear ==
  ASSUME NEW t \in Transfers, NEW s \in Seq(Call), Clear(s), NEW r, NEW p \in Places \ Curls,
         Fail(t, r, <<At(p, t)>> \o s)
  PROVE  Clear(stack')
<1>1. At(p, t) \in Call /\ At(p, t).at \notin Curls
  BY CallPlaces
<1>2. stack' = <<At(p, t)>> \o s \/ stack' = Callback(tr[t]) \o (<<At(p, t)>> \o s)
  BY Zenon DEF Fail
<1>3. QED
  BY <1>1, <1>2, ClearCall

LEMMA MakeEntered ==
  ASSUME NEW V, ~performing, NEW t \in Transfers, NEW r, NEW c,
         NEW good \in Seq(Call), Clear(good), NEW bad \in Seq(Call), Clear(bad),
         MakeRequest(t, r, c, good, bad)
  PROVE  Covered(V, stack') /\ (performing' <=> ~Clear(stack'))
<1>1. CASE stack' = <<At("make", None)>> \o good /\ performing' = TRUE
  <2>1. At("make", None) \in Call /\ At("make", None).at \in Curls
    BY CallPlaces DEF Places, Curls
  <2>2. QED
    BY <1>1, <2>1, ClearPush, ClearCovered
<1>2. CASE GiveUp(t, r, bad)
  <2>1. At("abort", t) \in Call /\ At("abort", t).at \notin Curls
    BY CallPlaces DEF Places, Unshielded, Curls
  <2>2. Clear(stack')
    BY <1>2, <2>1, ClearCall DEF GiveUp
  <2>3. Covered(V, stack')
    <3>1. \A q : Callback(q) = << >> \/ Callback(q) = <<At("script", None)>>
      BY DEF Callback
    <3>2. At("script", None) \in Call /\ <<At("abort", t)>> \o bad \in Seq(Call)
      BY <2>1, CallPlaces DEF Places
    <3>3. <<At("script", None)>> \o (<<At("abort", t)>> \o bad) \in Seq(Call)
      BY <3>2
    <3>4. stack' \in Seq(Call)
      BY <1>2, <3>2, <3>3, <2>1, CalledBack DEF GiveUp
    <3>5. QED
      BY <2>2, <3>4, ClearCovered
  <2>4. performing' = FALSE
    BY <1>2 DEF GiveUp
  <2>5. QED
    BY <2>2, <2>3, <2>4
<1>3. QED
  BY <1>1, <1>2 DEF MakeRequest

LEMMA ProcessEntered ==
  ASSUME NEW V, ~performing, NEW t \in Transfers, NEW r, NEW s \in Seq(Call), Clear(s), Process(t, r, s)
  PROVE  Covered(V, stack') /\ (performing' <=> ~Clear(stack'))
<1>1. CASE \E c : MakeRequest(t, r, c, s, s)
  BY <1>1, MakeEntered
<1>2. CASE stack' = s /\ UNCHANGED performing
  BY <1>2, ClearCovered
<1>3. QED
  BY <1>1, <1>2 DEF Process

LEMMA RequestEntered ==
  ASSUME NEW V, ~performing, NEW t \in Transfers, NEW r, NEW s \in Seq(Call), Clear(s), Request(t, r, s)
  PROVE  Covered(V, stack') /\ (performing' <=> ~Clear(stack'))
<1>1. CASE stack' = s /\ UNCHANGED performing
  BY <1>1, ClearCovered
<1>2. CASE Process(t, r, s)
  BY <1>2, ProcessEntered
<1>3. QED
  BY <1>1, <1>2 DEF Request

\* The steps when no call is inside libcurl.
LEMMA ClearStep ==
  ASSUME NEW V, Sane, Entered(V), Clear(stack), Next
  PROVE  Entered(V)'
<1>1. stack \in Seq(Call) /\ ~performing /\ stack' \in Seq(Call)
  BY SaneStep DEF Sane, TypeOK, Entered
<1>2. ASSUME stack # << >>
      PROVE  /\ Head(stack) \in Call /\ Tail(stack) \in Seq(Call) /\ Clear(Tail(stack))
             /\ Head(stack).at \notin Curls
             /\ Head(stack).at \notin Bare => Head(stack).t \in Transfers
  BY <1>1, <1>2, ClearPop, TopShape DEF Sane
<1>3. ASSUME Clear(stack'), UNCHANGED performing PROVE Entered(V)'
  BY <1>1, <1>3, ClearCovered DEF Entered
<1>4. Places \ Bare = {"sync", "deliver", "done", "failed", "detached", "serving", "served", "abort"}
      /\ Curls \subseteq Bare
  BY InPlaces DEF Curls, Bare
<1>5. CASE \/ AbortReturn \/ ScriptReturn \/ ReadDone \/ InboxDone
           \/ \E t \in Transfers : Done(t) \/ Failed(t) \/ Served(t) \/ SyncReturn(t)
  <2>1. stack # << >> /\ stack' = Tail(stack) /\ UNCHANGED performing
    BY <1>5 DEF AbortReturn, ScriptReturn, ReadDone, InboxDone, Done, Failed, Served,
                SyncReturn, Resumed, Top
  <2>2. QED
    BY <2>1, <1>2, <1>3
<1>6. CASE \/ \E c \in Conns : CurlFinish(c)
           \/ \E o \in Owners : ScriptNavigate(o) \/ TearDown(o)
           \/ \E t \in Transfers : ReadAuth(t) \/ CdpStray(t)
           \/ ClientDeinit
  <2>1. UNCHANGED <<stack, performing>>
    BY <1>6 DEF CurlFinish, ScriptNavigate, TearDown, ReadAuth, CdpStray, ClientDeinit
  <2>2. QED
    BY <2>1, <1>3
<1>7. CASE LoopTickFailed
  BY <1>7, <1>3, ClearEmpty DEF LoopTickFailed
<1>8. ASSUME NEW p \in Places \ Curls, NEW x \in Transfers \union {None}, UNCHANGED performing,
             \/ stack # << >> /\ stack' = <<At(p, x)>> \o Tail(stack)
             \/ stack' = <<At(p, x)>> \o stack
             \/ \E r : stack' = Callback(r) \o <<At(p, x)>> \o stack
             \/ \E r : stack # << >> /\ stack' = Callback(r) \o <<At(p, x)>> \o Tail(stack)
      PROVE  Entered(V)'
  <2>1. At(p, x) \in Call /\ At(p, x).at \notin Curls
    BY CallPlaces
  <2>2. QED
    BY <1>1, <1>2, <1>3, <1>8, <2>1, ClearCall
<1>9. CASE NextTickDone \/ DrainQueueDone \/ CdpDisconnect
  <2>1. PICK p \in {"queue1", "perform", "inbox", "tickFailed"} :
          stack # << >> /\ stack' = <<At(p, None)>> \o Tail(stack) /\ UNCHANGED performing
    BY <1>9 DEF NextTickDone, DrainQueueDone, CdpDisconnect, Goto, InDrainQueue, Top
  <2>2. p \in Places \ Curls
    BY DEF Places, Curls
  <2>3. QED
    BY <2>1, <2>2, <1>8
<1>10. CASE TickPerform
  <2>1. stack # << >> /\ ~InCurl
    BY <1>10, <1>1, InCurlClear DEF TickPerform, Top
  <2>2. stack' = <<At("curl", None), At("queue2", None)>> \o Tail(stack) /\ performing' = TRUE
    BY <1>10, <2>1 DEF TickPerform
  <2> DEFINE c == At("curl", None)
             d == At("queue2", None)
  <2>3. c \in Call /\ d \in Call /\ c.at \in Curls /\ d.at \notin Curls
    BY CallPlaces DEF Places, Curls
  <2>4. stack' = <<c, d>> \o Tail(stack)
    BY <2>2
  <2> HIDE DEF c, d
  <2>5. stack' = <<c>> \o (<<d>> \o Tail(stack))
    <3>1. Tail(stack) \in Seq(Call)
      BY <2>1, <1>2
    <3>2. <<c, d>> \o Tail(stack) = <<c>> \o (<<d>> \o Tail(stack))
      BY <2>3, <3>1, TwoCalls
    <3>3. QED
      BY <2>4, <3>2
  <2>6. Clear(<<d>> \o Tail(stack)) /\ <<d>> \o Tail(stack) \in Seq(Call)
    BY <2>1, <2>3, <1>2, ClearCall
  <2>7. ~Clear(stack') /\ Covered(V, stack')
    BY <2>3, <2>5, <2>6, ClearPush, ClearCovered
  <2>8. QED
    BY <2>2, <2>7 DEF Entered
<1>11. CASE NextTickRun
  <2> DEFINE t == Head(nextTick)
             h == [Head(stack) EXCEPT !.n = @ - 1]
  <2>1. t \in Transfers /\ stack # << >> /\ Head(stack).n > 0 /\ UNCHANGED performing
    BY <1>11 DEF NextTickRun, Top, Sane, TypeOK
  <2>2. h \in Call /\ h.at \notin Curls
    BY <2>1, <1>2 DEF Call
  <2>3. \/ stack' = Callback(tr[t]) \o <<At("serving", t)>> \o (<<h>> \o Tail(stack))
        \/ stack' = Callback(tr[t]) \o <<At("abort", t)>> \o (<<h>> \o Tail(stack))
    BY <1>11 DEF NextTickRun
  <2> HIDE DEF t, h
  <2>4. Clear(<<h>> \o Tail(stack)) /\ <<h>> \o Tail(stack) \in Seq(Call)
    BY <2>1, <2>2, <1>2, ClearCall
  <2>5. At("serving", t) \in Call /\ At("abort", t) \in Call
        /\ At("serving", t).at \notin Curls /\ At("abort", t).at \notin Curls
    BY <2>1, CallPlaces DEF Places, Unshielded, Curls
  <2>6. Clear(stack')
    BY <2>3, <2>4, <2>5, ClearCall
  <2>7. QED
    BY <2>1, <2>6, <1>3
<1>12. CASE DrainQueue
  <2> DEFINE bad == <<At("tickFailed", None)>> \o Tail(stack)
  <2>1. stack # << >> /\ Head(queue) \in Transfers
    BY <1>12 DEF DrainQueue, InDrainQueue, Top, Sane, TypeOK
  <2>2. At("tickFailed", None) \in Call /\ At("tickFailed", None).at \notin Curls
    BY CallPlaces DEF Places, Curls
  <2>3. bad \in Seq(Call) /\ Clear(bad)
    BY <2>1, <2>2, <1>2, ClearCall
  <2>4. \E r, c : MakeRequest(Head(queue), r, c, stack, bad)
    BY <1>12 DEF DrainQueue
  <2> HIDE DEF bad
  <2>5. QED
    BY <2>1, <2>3, <2>4, <1>1, MakeEntered DEF Entered
<1>13. CASE SocketEvent
  <2>1. "script" \in Places \ Curls /\ stack' = <<At("script", None)>> \o stack /\ UNCHANGED performing
    BY <1>13 DEF SocketEvent, Places, Curls
  <2>2. QED
    BY <2>1, <1>8
<1>14. CASE MakeReturn \/ PerformReturn
  BY <1>14, <1>2 DEF MakeReturn, PerformReturn, Top, Curls
<1>15. ASSUME NEW t \in Transfers, ReadRedirect(t) PROVE Entered(V)'
  <2>1. stack' = <<At("curl", None)>> \o stack /\ performing' = TRUE
    BY <1>15 DEF ReadRedirect
  <2>2. At("curl", None) \in Call /\ At("curl", None).at \in Curls
    BY CallPlaces DEF Places, Curls
  <2>3. ~Clear(stack') /\ Covered(V, stack')
    BY <1>1, <2>1, <2>2, ClearPush, ClearCovered
  <2>4. QED
    BY <2>1, <2>3 DEF Entered
<1>16. ASSUME NEW t \in Transfers,
              \/ ReadBadRedirect(t) \/ ReadDetached(t) \/ ReadError(t)
              \/ DeliverFail(t) \/ DoneFail(t)
       PROVE  Entered(V)'
  <2>1. UNCHANGED performing
    BY <1>16 DEF ReadBadRedirect, ReadDetached, ReadError, DeliverFail, DoneFail, Resumed
  <2>2. stack # << >>
    BY <1>16 DEF ReadBadRedirect, ReadDetached, ReadError, Reading, DeliverFail, DoneFail, Resumed, Top
  <2>3. {"failed", "detached"} \subseteq Places \ Curls /\ Tail(stack) \in Seq(Call) /\ Clear(Tail(stack))
    BY <1>1, <1>2, <2>2 DEF Places, Unshielded, Curls
  <2>4. Clear(stack')
    <3>1. \/ \E r : Fail(t, r, <<At("failed", t)>> \o stack)
          \/ \E r : Fail(t, r, <<At("detached", t)>> \o stack)
          \/ \E r : Fail(t, r, <<At("failed", t)>> \o Tail(stack))
      BY <1>16 DEF ReadBadRedirect, ReadDetached, ReadError, DeliverFail, DoneFail
    <3>2. QED
      BY <1>1, <2>3, <3>1, FailClear
  <2>5. QED
    BY <2>1, <2>4, <1>3
<1>17. ASSUME NEW t \in Transfers,
              \/ ReadResponse(t) \/ CdpFulfill(t)
              \/ DeliverDone(t) \/ FailedDetached(t) \/ ServeDone(t) \/ ServedFail(t)
       PROVE  Entered(V)'
  <2>1. UNCHANGED performing
    BY <1>17 DEF ReadResponse, CdpFulfill, DeliverDone, FailedDetached, ServeDone, ServedFail, Resumed, lists
  <2>2. CASE ReadResponse(t) \/ CdpFulfill(t)
    <3>1. PICK p \in {"deliver", "serving"} : stack' = Callback(tr[t]) \o <<At(p, t)>> \o stack
      BY <2>2 DEF ReadResponse, CdpFulfill
    <3>2. p \in Places \ Curls
      BY DEF Places, Unshielded, Curls
    <3>3. QED
      BY <2>1, <3>1, <3>2, <1>8
  <2>3. CASE DeliverDone(t) \/ FailedDetached(t) \/ ServeDone(t) \/ ServedFail(t)
    <3>1. stack # << >>
      BY <2>3 DEF DeliverDone, FailedDetached, ServeDone, ServedFail, Resumed, Top
    <3>2. PICK p \in {"done", "failed", "served", "abort"} :
             \/ stack' = Callback(tr[t]) \o <<At(p, t)>> \o Tail(stack)
             \/ stack' = <<At(p, t)>> \o Tail(stack)
      BY <2>3 DEF DeliverDone, FailedDetached, ServeDone, ServedFail
    <3>3. p \in Places \ Curls
      BY DEF Places, Unshielded, Curls
    <3>4. QED
      BY <2>1, <3>1, <3>2, <3>3, <1>8
  <2>4. QED
    BY <1>17, <2>2, <2>3
<1>18. ASSUME NEW t \in Transfers, DeliverData(t) PROVE Entered(V)'
  <2> DEFINE c == [Head(stack) EXCEPT !.n = 1]
  <2>1. stack # << >> /\ stack' = Callback(tr[t]) \o <<c>> \o Tail(stack) /\ UNCHANGED performing
    BY <1>18 DEF DeliverData, Resumed, Top
  <2>2. c \in Call /\ c.at \notin Curls
    BY <2>1, <1>2 DEF Call
  <2> HIDE DEF c
  <2>3. QED
    BY <2>1, <2>2, <1>2, <1>3, ClearCall
<1>19. ASSUME NEW t \in Transfers, ServeFail(t) PROVE Entered(V)'
  <2>1. stack # << >> /\ Abort(t, Tail(stack)) /\ UNCHANGED performing
    BY <1>19 DEF ServeFail, Resumed, Top
  <2>2. QED
    BY <2>1, <1>2, <1>3, AbortClear
<1>20. ASSUME NEW t \in Transfers, SyncTick(t) PROVE Entered(V)'
  <2>1. stack' = <<At("tickFailed", None)>> \o stack \/ stack' = <<Tick>> \o stack
    BY <1>20 DEF SyncTick
  <2>2. Tick \in Call /\ Tick.at \notin Curls /\ At("tickFailed", None) \in Call /\ At("tickFailed", None).at \notin Curls
    BY TickFramed, CallPlaces DEF Sane, Framed, Places, Curls
  <2>3. Clear(stack') /\ UNCHANGED performing
    BY <1>20, <2>1, <2>2, <1>1, ClearCall DEF SyncTick
  <2>4. QED
    BY <2>3, <1>3
<1>21. CASE SyncFailed
  <2> DEFINE rest == Tail(stack)
  <2>1. Top("tickFailed") /\ stack # << >> /\ rest # << >> /\ UNCHANGED performing
    BY <1>21 DEF SyncFailed, Top
  <2>2. Shaped(rest) /\ Head(rest).at = "sync"
    BY <2>1, TopShape DEF Top, Stands, Stages, Sane
  <2>3. Head(rest).t \in Transfers
    BY <2>1, <2>2, ShapedPop DEF Framed, Call, Bare, Stages
  <2>4. Tail(rest) \in Seq(Call) /\ Clear(Tail(rest))
    BY <2>1, <1>2, ClearPop
  <2>5. stack' = Tail(rest) \/ Abort(Head(rest).t, Tail(rest))
    BY <1>21 DEF SyncFailed
  <2> HIDE DEF rest
  <2>6. QED
    BY <2>1, <2>3, <2>4, <2>5, <1>3, AbortClear
<1>22. ASSUME NEW t \in Transfers, (\E o \in Owners : ScriptRequest(t, o)) \/ ScriptSync(t) PROVE Entered(V)'
  <2>1. At("sync", t) \in Call /\ At("sync", t).at \notin Curls
    BY CallPlaces DEF Places, Curls
  <2>2. <<At("sync", t)>> \o stack \in Seq(Call) /\ Clear(<<At("sync", t)>> \o stack)
    BY <1>1, <2>1, ClearCall
  <2>3. (\E r : Request(t, r, stack)) \/ (\E r : Request(t, r, <<At("sync", t)>> \o stack))
    BY <1>22 DEF ScriptRequest, ScriptSync
  <2>4. QED
    BY <1>1, <2>2, <2>3, RequestEntered DEF Entered
<1>23. ASSUME NEW t \in Transfers, ScriptAbort(t) \/ CdpFail(t) PROVE Entered(V)'
  <2>1. Abort(t, stack) /\ UNCHANGED performing
    BY <1>23 DEF ScriptAbort, CdpFail
  <2>2. QED
    BY <2>1, <1>1, <1>3, AbortClear
<1>24. ASSUME NEW t \in Transfers, CdpContinue(t) \/ CdpContinueWithAuth(t) PROVE Entered(V)'
  <2>1. Process(t, Unpark(t), stack)
    BY <1>24 DEF CdpContinue, CdpContinueWithAuth
  <2>2. QED
    BY <2>1, <1>1, ProcessEntered DEF Entered
<1>25. CASE LoopScript \/ LoopTick
  <2>1. Tick \in Call /\ Tick.at \notin Curls /\ At("script", None) \in Call /\ At("script", None).at \notin Curls
    BY TickFramed, CallPlaces DEF Sane, Framed, Places, Curls
  <2>2. ASSUME NEW c \in Call, c.at \notin Curls, stack' = <<c>> PROVE Clear(stack')
    <3>1. Clear(<<c>> \o << >>)
      <4>1. << >> \in Seq(Call)
        OBVIOUS
      <4>2. QED
        BY <2>2, <4>1, ClearEmpty, ClearCall
    <3>2. QED
      BY <2>2, <3>1
  <2>3. Clear(stack') /\ UNCHANGED performing
    BY <1>25, <2>1, <2>2 DEF LoopScript, LoopTick
  <2>4. QED
    BY <2>3, <1>3
<1>26. QED
  BY <1>5, <1>6, <1>7, <1>9, <1>10, <1>11, <1>12, <1>13, <1>14, <1>15, <1>16, <1>17, <1>18, <1>19,
     <1>20, <1>21, <1>22, <1>23, <1>24, <1>25
     DEF Next, Client, Script, Read, Resume, Cdp

\* The steps below a call that is inside libcurl.
LEMMA CurlStep ==
  ASSUME NEW V \in {{}, Nested}, Sane, Entered(V), ~Clear(stack), Next,
         SocketEvent => V = Nested, V = Nested => \A t \in Transfers : ~ScriptSync(t)
  PROVE  Entered(V)'
<1>1. stack \in Seq(Call) /\ performing /\ stack # << >>
  BY ClearEmpty DEF Sane, TypeOK, Entered
<1>2. \/ Head(stack).at \in Curls /\ Clear(Tail(stack))
      \/ /\ Head(stack).at \in Nested /\ V = Nested
         /\ ~Clear(Tail(stack)) /\ Covered(V, Tail(stack))
  BY <1>1, ClearPop DEF Entered, Curls
<1>3. \A p : Top(p) => p \in Curls \union {"script", "abort"}
  BY <1>2 DEF Top, Nested
<1>4. {"next", "queue1", "perform", "queue2", "inbox", "tickFailed", "read", "sync", "deliver", "done",
       "failed", "detached", "serving", "served"} \intersect (Curls \union {"script", "abort"}) = {}
  BY DEF Curls
<1>5. CASE AbortReturn \/ ScriptReturn
  <2>1. stack' = Tail(stack) /\ UNCHANGED performing /\ Head(stack).at \in {"script", "abort"}
    BY <1>5 DEF AbortReturn, ScriptReturn, Top
  <2>2. ~Clear(Tail(stack)) /\ Covered(V, Tail(stack))
    BY <1>2, <2>1 DEF Curls
  <2>3. QED
    BY <1>1, <2>1, <2>2 DEF Entered
<1>6. CASE MakeReturn
  <2>1. stack' = Tail(stack) /\ performing' = FALSE /\ Head(stack).at = "make"
    BY <1>6 DEF MakeReturn, Top
  <2>2. Clear(Tail(stack)) /\ Tail(stack) \in Seq(Call)
    BY <1>1, <1>2, <2>1, ClearPop DEF Curls, Nested
  <2>3. QED
    BY <2>1, <2>2, ClearCovered DEF Entered
<1>7. CASE PerformReturn
  <2>1. stack' = <<At("read", None)>> \o Tail(stack) /\ performing' = FALSE /\ Head(stack).at = "curl"
    BY <1>7 DEF PerformReturn, Top, Goto
  <2>2. Clear(Tail(stack)) /\ Tail(stack) \in Seq(Call)
    BY <1>1, <1>2, <2>1, ClearPop DEF Curls, Nested
  <2>3. At("read", None) \in Call /\ At("read", None).at \notin Curls
    BY CallPlaces DEF Places, Curls
  <2>4. Clear(stack') /\ stack' \in Seq(Call)
    BY <2>1, <2>2, <2>3, ClearCall
  <2>5. QED
    BY <2>1, <2>4, ClearCovered DEF Entered
<1>8. CASE SocketEvent
  <2>1. stack' = <<At("script", None)>> \o stack /\ UNCHANGED performing /\ "script" \in V
    BY <1>8 DEF SocketEvent, Nested
  <2>2. At("script", None) \in Call /\ At("script", None).at = "script"
    BY CallPlaces DEF Places
  <2>3. ~Clear(stack') /\ Covered(V, stack')
    BY <1>1, <2>1, <2>2, ClearPush DEF Entered
  <2>4. QED
    BY <1>1, <2>1, <2>3 DEF Entered
<1>9. ASSUME NEW t \in Transfers, ScriptAbort(t) PROVE Entered(V)'
  <2>1. Abort(t, stack) /\ UNCHANGED performing /\ Head(stack).at = "script"
    BY <1>9 DEF ScriptAbort, Top
  <2>2. {"script", "abort"} \subseteq V
    BY <1>2, <2>1 DEF Curls, Nested
  <2> DEFINE a == <<At("abort", t)>> \o stack
  <2>3. At("abort", t) \in Call /\ At("abort", t).at = "abort" /\ At("script", None) \in Call /\ At("script", None).at = "script"
    BY CallPlaces DEF Places, Unshielded
  <2>4. a \in Seq(Call) /\ ~Clear(a) /\ Covered(V, a)
    <3>1. At("abort", t).at \in V /\ Covered(V, stack)
      BY <2>2, <2>3 DEF Entered
    <3>2. QED
      BY <1>1, <2>3, <3>1, ClearPush
  <2>5. ~Clear(<<At("script", None)>> \o a) /\ Covered(V, <<At("script", None)>> \o a)
    <3>1. At("script", None).at \in V
      BY <2>2, <2>3
    <3> HIDE DEF a
    <3>2. QED
      BY <2>3, <2>4, <3>1, ClearPush
  <2>6. stack' = stack \/ stack' = a \/ stack' = <<At("script", None)>> \o a
    <3>1. stack' = stack \/ stack' = Callback(tr[t]) \o <<At("abort", t)>> \o stack
      BY <2>1, Zenon DEF Abort
    <3>2. QED
      BY <1>1, <2>3, <3>1, CalledBack
  <2> HIDE DEF a
  <2>7. ~Clear(stack') /\ Covered(V, stack')
    BY <1>1, <2>4, <2>5, <2>6 DEF Entered
  <2>8. QED
    BY <1>1, <2>1, <2>7 DEF Entered
<1>10. ASSUME NEW t \in Transfers, NEW o \in Owners, ScriptRequest(t, o) PROVE Entered(V)'
  <2>1. stack' = stack /\ UNCHANGED performing
    BY <1>1, <1>10 DEF ScriptRequest, Request, Process
  <2>2. QED
    BY <2>1 DEF Entered
<1>11. ASSUME NEW t \in Transfers, ScriptSync(t) PROVE Entered(V)'
  <2>1. Head(stack).at = "script"
    BY <1>11 DEF ScriptSync, Top
  <2>2. QED
    BY <1>2, <1>11, <2>1 DEF Curls
<1>12. CASE (\E o \in Owners : ScriptNavigate(o)) \/ (\E c \in Conns : CurlFinish(c))
  <2>1. UNCHANGED <<stack, performing>>
    BY <1>12 DEF ScriptNavigate, CurlFinish
  <2>2. QED
    BY <2>1 DEF Entered
<1>13. ~( \/ NextTickRun \/ NextTickDone \/ DrainQueue \/ DrainQueueDone \/ TickPerform \/ ReadDone \/ SyncFailed
          \/ LoopTickFailed \/ CdpDisconnect \/ InboxDone)
  BY <1>3, <1>4 DEF NextTickRun, NextTickDone, DrainQueue, DrainQueueDone, TickPerform, ReadDone, SyncFailed,
                    LoopTickFailed, CdpDisconnect, InboxDone, InDrainQueue
<1>14. \A t \in Transfers : ~Read(t) /\ ~Resume(t)
  <2>1. \A t : ~Reading(t)
    BY <1>3, <1>4 DEF Reading
  <2>2. \A t, p : Resumed(p, t) => p \in Curls \union {"script", "abort"}
    BY <1>3 DEF Resumed
  <2>3. QED
    BY <2>1, <2>2, <1>4
       DEF Read, ReadAuth, ReadRedirect, ReadBadRedirect, ReadDetached, ReadError, ReadResponse,
           Resume, DeliverFail, DeliverDone, Done, DoneFail, Failed, FailedDetached, ServeFail,
           ServeDone, Served, ServedFail
<1>15. \A t \in Transfers : ~SyncTick(t) /\ ~SyncReturn(t) /\ ~DeliverData(t)
  BY <1>3, <1>4 DEF SyncTick, SyncReturn, DeliverData, Resumed
<1>16. ~Cdp
  BY <1>3, <1>4 DEF Cdp, CdpContinue, CdpContinueWithAuth, CdpFail, CdpFulfill, CdpStray, Answer, Command
<1>17. ~LoopScript /\ ~LoopTick /\ ~ClientDeinit
  BY <1>1 DEF LoopScript, LoopTick, ClientDeinit, Idle
<1>18. \A o \in Owners : ~TearDown(o)
  BY <1>1, <1>3, <1>4 DEF TearDown, Idle
<1>19. QED
  BY <1>5, <1>6, <1>7, <1>8, <1>9, <1>10, <1>11, <1>12, <1>13, <1>14, <1>15, <1>16, <1>17, <1>18
     DEF Next, Client, Script

LEMMA EnteredStep ==
  ASSUME NEW V \in {{}, Nested},
         SocketEvent => V = Nested, V = Nested => \A t \in Transfers : ~ScriptSync(t)
  PROVE  Sane /\ Entered(V) /\ [Next]_vars => Entered(V)'
<1>1. ASSUME Sane, Entered(V), Next PROVE Entered(V)'
  BY <1>1, ClearStep, CurlStep
<1>2. ASSUME Sane, Entered(V), UNCHANGED vars PROVE Entered(V)'
  BY <1>2 DEF Entered, vars
<1>3. QED
  BY <1>1, <1>2

LEMMA EnteredInit == Init => \A V : Entered(V)
  BY ClearEmpty DEF Init, Entered

LEMMA EnteredAlways ==
  ASSUME "ws" \notin Features \/ "sync" \notin Features
  PROVE  Spec => [](Sane /\ Entered(InCurlMayRun))
<1>1. Init => Sane /\ Entered(InCurlMayRun)
  BY SaneInit, EnteredInit
<1>2. (Sane /\ Entered(InCurlMayRun)) /\ [Next]_vars => (Sane /\ Entered(InCurlMayRun))'
  <2>1. InCurlMayRun \in {{}, Nested}
    BY DEF InCurlMayRun
  <2>2. SocketEvent => InCurlMayRun = Nested
    BY DEF SocketEvent, InCurlMayRun
  <2>3. InCurlMayRun = Nested => \A t \in Transfers : ~ScriptSync(t)
    BY DEF ScriptSync, InCurlMayRun, Nested
  <2>4. Sane /\ Entered(InCurlMayRun) /\ [Next]_vars => Entered(InCurlMayRun)'
    BY <2>1, <2>2, <2>3, EnteredStep
  <2>5. QED
    BY <2>4, SaneStep
<1>3. QED
  BY <1>1, <1>2, PTL DEF Spec

\* performing is up exactly while curl is on the stack, at any depth of
\* callbacks: without web sockets, or without synchronous loads.  With both a
\* socket's message ticks the client inside curl, and perform clears the flag.
THEOREM PerformingHolds ==
  ASSUME "ws" \notin Features \/ "sync" \notin Features
  PROVE  Spec => []PerformingIsInCurl
<1>1. Sane /\ Entered(InCurlMayRun) => PerformingIsInCurl
  BY InCurlClear DEF Sane, TypeOK, Entered, PerformingIsInCurl
<1>2. QED
  BY <1>1, EnteredAlways, PTL

-----------------------------------------------------------------------------
\* Each id a command may name counts once.
Counted == intercepted = Cardinality(paused)

LEMMA PauseCounted ==
  ASSUME Sane, Counted, NEW t \in Transfers, t \notin paused, Pause(t)
  PROVE  Counted'
<1>1. IsFiniteSet(paused)
  BY SetsAssumption, FS_Subset DEF Sane, Base, Typed
<1>2. QED
  BY <1>1, FS_AddElement DEF Counted, Pause

LEMMA RequestCounted ==
  ASSUME Sane, Counted, NEW t \in Transfers, NEW r, NEW rest, Request(t, r, rest)
  PROVE  Counted'
<1>1. t \notin paused
  BY DEF Request, Sane, Base, Sound
<1>2. Pause(t) \/ UNCHANGED pauses
  BY DEF Request
<1>3. QED
  BY <1>1, <1>2, PauseCounted DEF Counted, pauses

LEMMA CountedStep ==
  ASSUME "ws" \notin Features \/ "sync" \notin Features,
         "stray" \notin Features, "fails" \notin Features,
         Sane, Entered(InCurlMayRun), Counted, Next
  PROVE  Counted'
<1>1. IsFiniteSet(paused)
  BY SetsAssumption, FS_Subset DEF Sane, Base, Typed
<1>2. CASE UNCHANGED pauses
  BY <1>2 DEF Counted, pauses
<1>3. CASE \/ AbortReturn \/ NextTickRun \/ NextTickDone \/ DrainQueue \/ DrainQueueDone \/ TickPerform
           \/ ReadDone \/ SyncFailed \/ LoopTickFailed \/ ScriptReturn \/ SocketEvent \/ MakeReturn
           \/ PerformReturn \/ CdpDisconnect \/ InboxDone \/ LoopScript \/ LoopTick \/ ClientDeinit
           \/ \E c \in Conns : CurlFinish(c)
           \/ \E t \in Transfers : DeliverData(t) \/ SyncTick(t) \/ SyncReturn(t) \/ ScriptAbort(t)
           \/ \E o \in Owners : ScriptNavigate(o) \/ TearDown(o)
  <2>1. UNCHANGED pauses
    BY <1>3 DEF AbortReturn, NextTickRun, NextTickDone, DrainQueue, DrainQueueDone, TickPerform,
                ReadDone, SyncFailed, LoopTickFailed, ScriptReturn, SocketEvent, MakeReturn,
                PerformReturn, CdpDisconnect, InboxDone, LoopScript, LoopTick, ClientDeinit, CurlFinish,
                DeliverData, Resumed, SyncTick, SyncReturn, ScriptAbort, ScriptNavigate, TearDown, lists
  <2>2. QED
    BY <2>1, <1>2
<1>4. ASSUME NEW t \in Transfers, Resume(t) PROVE Counted'
  <2>1. UNCHANGED pauses
    BY <1>4 DEF Resume, DeliverFail, DeliverDone, Done, DoneFail, Failed, FailedDetached, ServeFail,
                ServeDone, Served, ServedFail, lists
  <2>2. QED
    BY <2>1, <1>2
<1>5. ASSUME NEW t \in Transfers, Read(t) PROVE Counted'
  <2>1. CASE ReadAuth(t)
    <3>1. Reading(t) /\ Pause(t)
      BY <2>1 DEF ReadAuth
    <3>2. QED
      BY <3>1, ReadingHeld, PauseCounted DEF Sane
  <2>2. CASE ~ReadAuth(t)
    <3>1. UNCHANGED pauses
      BY <1>5, <2>2 DEF Read, ReadRedirect, ReadBadRedirect, ReadDetached, ReadError, ReadResponse, lists
    <3>2. QED
      BY <3>1, <1>2
  <2>3. QED
    BY <2>1, <2>2
<1>6. ASSUME NEW t \in Transfers, (\E o \in Owners : ScriptRequest(t, o)) \/ ScriptSync(t) PROVE Counted'
  <2>1. \E r, rest : Request(t, r, rest)
    BY <1>6 DEF ScriptRequest, ScriptSync
  <2>2. QED
    BY <2>1, RequestCounted
<1>7. ASSUME NEW t \in paused, paused' = paused \ {t}, intercepted' = intercepted - 1 PROVE Counted'
  BY <1>1, <1>7, FS_RemoveElement DEF Counted
<1>8. ASSUME NEW t \in Transfers, CdpContinueWithAuth(t) PROVE intercepted' = intercepted - 1
  <2>1. Top("inbox") /\ Process(t, Unpark(t), stack)
    BY <1>8 DEF CdpContinueWithAuth, Answer, Command
  <2>2. ~InCurl /\ ~performing
    BY <2>1, OuterTop DEF Curls, InCurlMayRun
  <2>3. tr \in [Transfers -> Transfer]
    BY DEF Sane, Base, Typed
  <2>4. CASE tr' = [tr EXCEPT ![t] = [Unpark(t) EXCEPT !.state = "queued"]]
    BY <2>3, <2>4, <1>8 DEF CdpContinueWithAuth, Unpark, Transfer
  <2>5. CASE \E c \in Available : MakeRequest(t, Unpark(t), c, stack, stack)
    <3>1. PICK c : tr' = [tr EXCEPT ![t] = Committed(Unpark(t), c)]
      BY <2>2, <2>5 DEF MakeRequest
    <3>2. Unpark(t) \in Transfer
      BY <2>3 DEF Unpark, Transfer, States
    <3>3. Committed(Unpark(t), c).state = "inflight"
      BY <3>2 DEF Committed, Reset, Transfer
    <3>4. QED
      BY <2>3, <3>1, <3>3, <1>8 DEF CdpContinueWithAuth
  <2>6. QED
    BY <2>1, <2>4, <2>5 DEF Process
<1>9. CASE Cdp
  <2>1. PICK t \in Transfers : CdpContinue(t) \/ CdpContinueWithAuth(t) \/ CdpFail(t) \/ CdpFulfill(t)
    BY <1>9 DEF Cdp, CdpStray
  <2>2. t \in paused /\ paused' = paused \ {t}
    BY <2>1 DEF CdpContinue, CdpContinueWithAuth, CdpFail, CdpFulfill, Answer, Command
  <2>3. intercepted' = intercepted - 1
    BY <2>1, <1>8 DEF CdpContinue, CdpFail, CdpFulfill
  <2>4. QED
    BY <2>2, <2>3, <1>7
<1>10. QED
  BY <1>3, <1>4, <1>5, <1>6, <1>9 DEF Next, Client, Script

\* The count that holds back network idle is the number of paused requests,
\* unless continueWithAuth fails or a command comes too late or malformed.
THEOREM InterceptedHolds ==
  ASSUME "ws" \notin Features \/ "sync" \notin Features,
         "stray" \notin Features, "fails" \notin Features
  PROVE  Spec => []InterceptedMatches
<1>1. Init => Counted
  BY FS_EmptySet DEF Init, Counted
<1>2. (Sane /\ Entered(InCurlMayRun)) /\ Counted /\ [Next]_vars => Counted'
  <2>1. ASSUME Counted, UNCHANGED vars PROVE Counted'
    BY <2>1 DEF Counted, vars, lists, pauses
  <2>2. QED
    BY <2>1, CountedStep
<1>3. Spec => [](Sane /\ Entered(InCurlMayRun))
  BY EnteredAlways
<1>4. Counted => InterceptedMatches
  BY DEF Counted, InterceptedMatches
<1>5. QED
  BY <1>1, <1>2, <1>3, <1>4, PTL DEF Spec

-----------------------------------------------------------------------------
(* Connections. *)

\* Every connection is in the pool or one transfer's, and in the multi handle
\* only then.
Wired ==
  /\ net.ready = {} /\ net.dirty = {}
  /\ \A t, u \in Transfers : tr[t].conn = tr[u].conn /\ tr[t].conn # None => t = u
  /\ net.inUse = Held(Transfers)
  /\ \A c \in Conns : net.available[c] = IF c \in net.inUse THEN 0 ELSE 1
  /\ net.running \union net.finished \subseteq net.inUse
  /\ net.active = Cardinality(net.inUse)

LEMMA WiredSame ==
  ASSUME Wired, \A t \in Transfers : tr'[t].conn = tr[t].conn,
         net'.ready = {}, net'.dirty = {}, net'.inUse = net.inUse, net'.available = net.available,
         net'.active = net.active, net'.running \union net'.finished \subseteq net.inUse
  PROVE  Wired'
  BY DEF Wired, Held

LEMMA WiredReleased ==
  ASSUME Sane, Wired, ~InCurl, NEW S \in SUBSET Transfers, net' = RemoveConns(Held(S)),
         \A t \in S : tr'[t].conn = None, \A t \in Transfers \ S : tr'[t].conn = tr[t].conn
  PROVE  Wired'
<1> DEFINE C == Held(S)
<1>1. /\ net.available \in [Conns -> Nat] /\ net.active \in Int /\ net.inUse \subseteq Conns
      /\ C \in SUBSET Conns /\ IsFiniteSet(C) /\ IsFiniteSet(net.inUse)
  <2>1. net.available \in [Conns -> Nat] /\ net.active \in Int /\ net.inUse \subseteq Conns
    BY DEF Sane, Base, Typed, Net
  <2>2. C \in SUBSET Conns /\ IsFiniteSet(C)
    BY HeldConns DEF Sane, Base
  <2>3. QED
    BY <2>1, <2>2, SetsAssumption, FS_Subset
<1>2. C \subseteq net.inUse
  BY DEF Wired, Held
<1>3. Held(Transfers)' = net.inUse \ C
  <2>1. ASSUME NEW t \in Transfers \ S, tr[t].conn # None PROVE tr[t].conn \notin C
    BY <2>1 DEF Wired, Held
  <2>2. Held(Transfers)' = {tr'[t].conn : t \in Transfers} \ {None}
    BY DEF Held
  <2>3. QED
    BY <2>1, <2>2 DEF Wired, Held
<1> HIDE DEF C
<1>4. /\ net' = [available |-> [c \in Conns |-> net.available[c] + (IF c \in C THEN 1 ELSE 0)],
                 inUse |-> net.inUse \ (C \ net.ready), ready |-> net.ready \ C, dirty |-> net.dirty,
                 running |-> net.running \ C, finished |-> net.finished \ C,
                 active |-> net.active - Cardinality(C \ net.ready)]
  BY DEF RemoveConns, C
<1>5. C \ net.ready = C /\ net.ready = {} /\ net.dirty = {} /\ net.inUse \intersect C = C
  BY <1>2 DEF Wired
<1>6. Cardinality(net.inUse \ C) = Cardinality(net.inUse) - Cardinality(C)
  <2> DEFINE U == net.inUse
  <2>1. IsFiniteSet(U) /\ U \intersect C = C
    BY <1>1, <1>5
  <2> HIDE DEF U
  <2>2. Cardinality(U \ C) = Cardinality(U) - Cardinality(U \intersect C)
    BY <2>1, FS_Difference
  <2>3. QED
    BY <2>1, <2>2 DEF U
<1>7. net'.inUse = net.inUse \ C /\ net'.ready = {} /\ net'.dirty = {}
  BY <1>4, <1>5
<1>8. \A c \in Conns : net'.available[c] = IF c \in net'.inUse THEN 0 ELSE 1
  BY <1>1, <1>2, <1>4, <1>7 DEF Wired
<1>9. net'.running \union net'.finished \subseteq net'.inUse /\ net'.active = Cardinality(net'.inUse)
  BY <1>4, <1>5, <1>6, <1>7 DEF Wired
<1>10. \A t, u \in Transfers : tr'[t].conn = tr'[u].conn /\ tr'[t].conn # None => t = u
  BY DEF Wired
<1>11. QED
  BY <1>3, <1>7, <1>8, <1>9, <1>10 DEF Wired

LEMMA WiredClaimed ==
  ASSUME Sane, Wired, NEW t \in Transfers, tr[t].conn = None, NEW c \in Available,
         net' = [net EXCEPT !.available[c] = @ - 1,
                           !.inUse = @ \union {c}, !.running = @ \union {c},
                           !.active = @ + 1],
         tr'[t].conn = c, \A u \in Transfers \ {t} : tr'[u].conn = tr[u].conn
  PROVE  Wired'
<1>1. /\ net \in Net /\ net.available \in [Conns -> Nat] /\ net.inUse \subseteq Conns /\ IsFiniteSet(net.inUse)
      /\ c \in Conns /\ net.available[c] > 0 /\ c # None
  <2>1. net \in Net /\ net.available \in [Conns -> Nat] /\ net.inUse \subseteq Conns
    BY DEF Sane, Base, Typed, Net
  <2>2. QED
    BY <2>1, SetsAssumption, FS_Subset DEF Available
<1>2. c \notin net.inUse /\ net.available[c] = 1
  BY <1>1 DEF Wired
<1>3. /\ net'.ready = net.ready /\ net'.dirty = net.dirty /\ net'.inUse = net.inUse \union {c}
      /\ net'.running = net.running \union {c} /\ net'.finished = net.finished
      /\ net'.active = net.active + 1 /\ net'.available = [net.available EXCEPT ![c] = @ - 1]
  BY <1>1 DEF Net
<1>4. Cardinality(net'.inUse) = Cardinality(net.inUse) + 1
  <2> DEFINE U == net.inUse
  <2>1. IsFiniteSet(U) /\ c \notin U /\ net'.inUse = U \union {c}
    BY <1>1, <1>2, <1>3
  <2> HIDE DEF U
  <2>2. Cardinality(U \union {c}) = Cardinality(U) + 1
    BY <2>1, FS_AddElement
  <2>3. QED
    BY <2>1, <2>2 DEF U
<1>5. \A d \in Conns : net'.available[d] = IF d \in net'.inUse THEN 0 ELSE 1
  BY <1>1, <1>2, <1>3 DEF Wired
<1>6. Held(Transfers)' = net'.inUse
  <2>1. Held(Transfers)' = {tr'[u].conn : u \in Transfers} \ {None}
    BY DEF Held
  <2>2. QED
    BY <1>1, <1>3, <2>1 DEF Wired, Held
<1>7. \A u, v \in Transfers : tr'[u].conn = tr'[v].conn /\ tr'[u].conn # None => u = v
  BY <1>2 DEF Wired, Held
<1>8. QED
  BY <1>3, <1>4, <1>5, <1>6, <1>7 DEF Wired

\* A transfer whose response is read gives its connection up, or keeps it.
LEMMA WiredRead ==
  ASSUME Sane, Wired, NEW t \in Transfers, Reading(t),
         \A u \in Transfers : tr'[u].conn = tr[u].conn,
         \/ net' = Consumed(tr[t].conn)
         \/ net' = [Consumed(tr[t].conn) EXCEPT !.running = @ \union {tr[t].conn}]
  PROVE  Wired'
<1>1. net \in Net /\ tr[t].conn \in net.inUse
  BY DEF Sane, Base, Typed, Wired, Reading
<1>2. /\ net'.ready = net.ready /\ net'.dirty = net.dirty /\ net'.inUse = net.inUse
      /\ net'.available = net.available /\ net'.active = net.active
      /\ net'.running \union net'.finished \subseteq net.inUse
  <2>1. Consumed(tr[t].conn) = [net EXCEPT !.finished = @ \ {tr[t].conn}]
    BY DEF Consumed
  <2>2. CASE net' = Consumed(tr[t].conn)
    BY <1>1, <2>1, <2>2 DEF Net, Wired
  <2>3. CASE net' = [Consumed(tr[t].conn) EXCEPT !.running = @ \union {tr[t].conn}]
    <3> DEFINE m == Consumed(tr[t].conn)
    <3>1. m \in Net
      BY <1>1, <2>1 DEF Net
    <3>2. /\ m.ready = net.ready /\ m.dirty = net.dirty /\ m.inUse = net.inUse
          /\ m.available = net.available /\ m.active = net.active
          /\ m.running = net.running /\ m.finished \subseteq net.finished
      BY <1>1, <2>1 DEF Net
    <3> HIDE DEF m
    <3>3. /\ net'.ready = m.ready /\ net'.dirty = m.dirty /\ net'.inUse = m.inUse
          /\ net'.available = m.available /\ net'.active = m.active
          /\ net'.running = m.running \union {tr[t].conn} /\ net'.finished = m.finished
      BY <2>3, <3>1 DEF Net, m
    <3>4. QED
      BY <1>1, <3>2, <3>3 DEF Wired
  <2>4. QED
    BY <2>2, <2>3
<1>3. net'.ready = {} /\ net'.dirty = {}
  BY <1>2 DEF Wired
<1>4. QED
  BY <1>2, <1>3, WiredSame

LEMMA WiredDetaching ==
  ASSUME Sane, Wired, ~InCurl, NEW S \in SUBSET Transfers, DetachOrDeinit(S)
  PROVE  Wired'
<1> DEFINE later == {t \in S : MustDefer(t)}
           now == S \ later
<1>1. tr \in [Transfers -> Transfer]
  BY DEF Sane, Base, Typed
<1>2. /\ now \in SUBSET Transfers /\ net' = RemoveConns(Held(now))
      /\ tr' = [t \in Transfers |-> IF t \in now THEN Freed(tr[t])
                                    ELSE IF t \in later THEN Detached(tr[t])
                                    ELSE tr[t]]
  BY DEF DetachOrDeinit
<1> HIDE DEF now, later
<1>3. \A t \in Transfers : Freed(tr[t]).conn = None /\ Detached(tr[t]).conn = tr[t].conn
  BY <1>1 DEF Freed, Detached, Transfer
<1>4. /\ \A t \in now : tr'[t].conn = None
      /\ \A t \in Transfers \ now : tr'[t].conn = tr[t].conn
  BY <1>2, <1>3
<1>5. QED
  BY <1>2, <1>4, WiredReleased

LEMMA WiredAborting ==
  ASSUME Sane, Wired, ~InCurl, NEW t \in Transfers, NEW rest, Abort(t, rest)
  PROVE  Wired'
<1>1. CASE DetachOrDeinit({t})
  BY <1>1, WiredDetaching
<1>2. CASE tr' = [tr EXCEPT ![t].notified = TRUE] /\ UNCHANGED net
  <2>1. \A u \in Transfers : tr'[u].conn = tr[u].conn
    BY <1>2 DEF Sane, Base, Typed, Transfer
  <2>2. QED
    BY <1>2, <2>1, WiredSame DEF Wired
<1>3. QED
  BY <1>1, <1>2, Zenon DEF Abort

LEMMA WiredDeiniting ==
  ASSUME Sane, Wired, ~InCurl, NEW t \in Transfers, Deinit({t})
  PROVE  Wired'
<1>1. tr \in [Transfers -> Transfer]
  BY DEF Sane, Base, Typed
<1>2. /\ net' = RemoveConns(Held({t})) /\ tr' = [u \in Transfers |-> IF u \in {t} THEN Freed(tr[u]) ELSE tr[u]]
  BY DEF Deinit
<1>3. Freed(tr[t]).conn = None
  BY <1>1 DEF Freed, Transfer
<1>4. /\ \A u \in {t} : tr'[u].conn = None
      /\ \A u \in Transfers \ {t} : tr'[u].conn = tr[u].conn
  BY <1>2, <1>3
<1>5. QED
  BY <1>2, <1>4, WiredReleased

\* One transfer changes, and no connection does.
LEMMA WiredUpdate ==
  ASSUME Sane, Wired, NEW t \in Transfers, NEW r, tr' = [tr EXCEPT ![t] = r], r.conn = tr[t].conn, UNCHANGED net
  PROVE  Wired'
<1>1. \A u \in Transfers : tr'[u].conn = tr[u].conn
  BY DEF Sane, Base, Typed
<1>2. QED
  BY <1>1, WiredSame DEF Wired

LEMMA WiredMaking ==
  ASSUME Sane, Wired, ~InCurl, ~performing, NEW t \in Transfers, tr[t].conn = None, NEW r, Startable(r),
         NEW c \in Available, NEW good, NEW bad, MakeRequest(t, r, c, good, bad)
  PROVE  Wired'
<1>1. tr \in [Transfers -> Transfer] /\ r \in Transfer /\ r.conn = None
  BY DEF Sane, Base, Typed, Startable
<1>2. CASE GiveUp(t, r, bad) /\ UNCHANGED net
  <2> DEFINE q == [Reset(r) EXCEPT !.notified = TRUE]
  <2>1. q.conn = None
    BY <1>1 DEF Reset, Transfer
  <2>2. tr' = [tr EXCEPT ![t] = q]
    BY <1>2 DEF GiveUp
  <2> HIDE DEF q
  <2>3. QED
    BY <1>2, <2>1, <2>2, WiredUpdate
<1>3. CASE /\ tr' = [tr EXCEPT ![t] = Committed(r, c)]
           /\ net' = [net EXCEPT !.available[c] = @ - 1,
                           !.inUse = @ \union {c}, !.running = @ \union {c},
                           !.active = @ + 1]
  <2>1. Committed(r, c).conn = c
    BY <1>1 DEF Committed, Reset, Transfer
  <2>2. tr'[t].conn = c /\ \A u \in Transfers \ {t} : tr'[u].conn = tr[u].conn
    BY <1>1, <1>3, <2>1
  <2>3. QED
    BY <1>3, <2>2, WiredClaimed
<1>4. QED
  BY <1>2, <1>3 DEF MakeRequest

LEMMA WiredProcessing ==
  ASSUME Sane, Wired, ~InCurl, ~performing, NEW t \in Transfers, tr[t].conn = None, NEW r, Startable(r),
         NEW rest, Process(t, r, rest)
  PROVE  Wired'
<1>1. CASE \E c \in Available : MakeRequest(t, r, c, rest, rest)
  BY <1>1, WiredMaking
<1>2. CASE tr' = [tr EXCEPT ![t] = [r EXCEPT !.state = "queued"]] /\ UNCHANGED net
  <2>1. [r EXCEPT !.state = "queued"].conn = None
    BY DEF Startable, Transfer
  <2>2. QED
    BY <1>2, <2>1, WiredUpdate
<1>3. QED
  BY <1>1, <1>2 DEF Process

LEMMA WiredRequesting ==
  ASSUME Sane, Wired, ~InCurl, ~performing, NEW t \in Transfers, NEW page \in BOOLEAN, NEW o \in Owners \union {None},
         page => o \in alive, NEW rest, Request(t, Created(page, o), rest)
  PROVE  Wired'
<1> DEFINE r == Created(page, o)
<1>1. Startable(r) /\ r.conn = None
  BY DEF Created, New, Startable, Transfer, States
<1>2. tr[t].conn = None
  BY DEF Request, Sane, Base, Sound, Loose
<1> HIDE DEF r
<1>3. CASE tr' = [tr EXCEPT ![t] = r] /\ UNCHANGED net
  BY <1>1, <1>2, <1>3, WiredUpdate
<1>4. CASE tr' = [tr EXCEPT ![t] = [r EXCEPT !.state = "parked"]] /\ UNCHANGED net
  <2>1. [r EXCEPT !.state = "parked"].conn = None
    BY <1>1 DEF Startable, Transfer
  <2>2. QED
    BY <1>2, <1>4, <2>1, WiredUpdate
<1>5. CASE Process(t, r, rest)
  BY <1>1, <1>2, <1>5, WiredProcessing
<1>6. QED
  BY <1>3, <1>4, <1>5 DEF Request, r

\* When nothing but libcurl itself runs inside libcurl.
LEMMA CurlAlone ==
  ASSUME Sane, Entered({})
  PROVE  /\ \A p : Top(p) /\ p \notin Curls => ~InCurl /\ ~performing /\ Clear(stack)
         /\ stack = << >> => ~InCurl /\ ~performing
<1>1. stack \in Seq(Call)
  BY DEF Sane, TypeOK
<1>2. ASSUME NEW p, Top(p), p \notin Curls PROVE Clear(stack)
  <2>1. Covered({}, stack) /\ stack # << >> /\ Head(stack).at \notin Curls /\ Head(stack).at \notin {}
    BY <1>2 DEF Entered, Top
  <2> DEFINE V == {}
  <2>2. Covered(V, stack) /\ Head(stack).at \notin V
    BY <2>1
  <2> HIDE DEF V
  <2>3. Clear(stack) <=> Clear(Tail(stack)) /\ Head(stack).at \notin Curls
    BY <1>1, <2>1, ClearPop
  <2>4. Covered(V, stack) <=> Covered(V, Tail(stack)) /\ (Clear(Tail(stack)) \/ Head(stack).at \in V)
    BY <1>1, <2>1, ClearPop
  <2>5. QED
    BY <2>1, <2>2, <2>3, <2>4
<1>3. QED
  BY <1>1, <1>2, ClearEmpty, InCurlClear DEF Entered

LEMMA WiredStep ==
  ASSUME Sane, Entered({}), Wired, Next,
         \A t \in Transfers : ~ReadDetached(t) /\ ~FailedDetached(t)
  PROVE  Wired'
<1>1. /\ tr \in [Transfers -> Transfer] /\ net \in Net
  BY DEF Sane, Base, Typed
<1>2. CASE UNCHANGED <<tr, net>>
  BY <1>2, WiredSame DEF Wired
<1>3. CASE \/ NextTickRun \/ NextTickDone \/ DrainQueueDone \/ TickPerform \/ ReadDone \/ LoopTickFailed
           \/ ScriptReturn \/ SocketEvent \/ MakeReturn \/ CdpDisconnect \/ InboxDone \/ LoopScript \/ LoopTick
           \/ \E t \in Transfers : DeliverData(t) \/ SyncTick(t) \/ SyncReturn(t) \/ CdpFulfill(t) \/ CdpStray(t)
                                   \/ ServeDone(t) \/ ServedFail(t)
  <2>1. UNCHANGED <<tr, net>>
    BY <1>3 DEF NextTickRun, NextTickDone, DrainQueueDone, TickPerform, ReadDone, LoopTickFailed,
                ScriptReturn, SocketEvent, MakeReturn, CdpDisconnect, InboxDone, LoopScript, LoopTick,
                DeliverData, SyncTick, SyncReturn, CdpFulfill, CdpStray, ServeDone, ServedFail
  <2>2. QED
    BY <2>1, <1>2
<1>4. CASE AbortReturn
  <2>1. Top("abort") /\ DetachOrDeinit({Head(stack).t})
    BY <1>4 DEF AbortReturn
  <2>2. {Head(stack).t} \in SUBSET Transfers
    BY <2>1, TopShape, InPlaces DEF Top, Sane
  <2>3. ~InCurl
    BY <2>1, CurlAlone DEF Curls
  <2>4. QED
    BY <2>1, <2>2, <2>3, WiredDetaching
<1>5. CASE DrainQueue
  <2> DEFINE t == Head(queue)
             r == [tr[t] EXCEPT !.state = "created"]
  <2>1. InDrainQueue /\ queue # << >> /\ \E c \in Available : \E good, bad : MakeRequest(t, r, c, good, bad)
    BY <1>5 DEF DrainQueue
  <2>2. ~InCurl /\ ~performing
    BY <2>1, CurlAlone DEF Curls, InDrainQueue
  <2>3. t \in Transfers /\ t \in Elements(queue)
    BY <2>1, Unqueued DEF Sane, Base, Typed, Listed
  <2>4. tr[t].state = "queued" /\ tr[t] \in Transfer /\ Sound(tr[t], t \in paused)
    BY <2>3 DEF Sane, Base, Typed, Listed
  <2>5. Startable(r) /\ tr[t].conn = None
    BY <2>4 DEF Startable, Sound, Loose, Transfer, States
  <2> HIDE DEF t, r
  <2>6. QED
    BY <2>1, <2>2, <2>3, <2>5, WiredMaking
<1>6. ASSUME NEW c \in Conns, CurlFinish(c) PROVE Wired'
  <2>1. /\ net'.ready = {} /\ net'.dirty = {} /\ net'.inUse = net.inUse /\ net'.available = net.available
        /\ net'.active = net.active /\ net'.running \union net'.finished \subseteq net.inUse /\ tr' = tr
    BY <1>1, <1>6 DEF CurlFinish, Net, Wired
  <2>2. QED
    BY <2>1, WiredSame
<1>7. CASE PerformReturn
  <2>1. net.ready = {} /\ net.dirty = {} /\ Cardinality(net.ready) = 0 /\ net.active + 0 = net.active
    BY <1>1, FS_EmptySet DEF Wired, Net
  <2>2. net'.available = [c \in Conns |-> net.available[c] + 0] /\ net.available = [c \in Conns |-> net.available[c] + 0]
    BY <1>1, <1>7, <2>1 DEF PerformReturn, Net
  <2>3. /\ net'.ready = {} /\ net'.dirty = {} /\ net'.inUse = net.inUse
        /\ net'.active = net.active /\ net'.running \union net'.finished \subseteq net.inUse /\ tr' = tr
    BY <1>7, <2>1 DEF PerformReturn, Wired
  <2>4. QED
    BY <2>2, <2>3, WiredSame
<1>8. CASE SyncFailed
  <2> DEFINE rest == Tail(stack)
  <2>1. Top("tickFailed") /\ rest # << >>
    BY <1>8 DEF SyncFailed
  <2>2. Shaped(rest) /\ Head(rest).at = "sync"
    BY <2>1, TopShape DEF Top, Stands, Stages, Sane
  <2>3. Head(rest).t \in Transfers
    BY <2>1, <2>2, ShapedPop DEF Framed, Call, Bare, Stages
  <2>4. ~InCurl
    BY <2>1, CurlAlone DEF Curls
  <2>5. UNCHANGED <<tr, net>> \/ Abort(Head(rest).t, Tail(rest))
    BY <1>8 DEF SyncFailed
  <2>6. QED
    BY <2>3, <2>4, <2>5, <1>2, WiredAborting
<1>9. ASSUME NEW o \in Owners, ScriptNavigate(o) \/ TearDown(o) PROVE Wired'
  <2>1. DetachOrDeinit({t \in Transfers : tr[t].owner = o})
    BY <1>9 DEF ScriptNavigate, TearDown, Kill
  <2>2. ~InCurl
    BY <1>9, CurlAlone DEF ScriptNavigate, TearDown, Curls, Idle
  <2>3. {t \in Transfers : tr[t].owner = o} \in SUBSET Transfers
    OBVIOUS
  <2>4. QED
    BY <2>1, <2>2, <2>3, WiredDetaching
<1>10. CASE ClientDeinit
  <2>1. DetachOrDeinit({t \in Transfers : tr[t].state \notin {"none", "freed"}})
    BY <1>10 DEF ClientDeinit, Kill
  <2>2. ~InCurl
    BY <1>10, CurlAlone DEF ClientDeinit, Idle
  <2>3. {t \in Transfers : tr[t].state \notin {"none", "freed"}} \in SUBSET Transfers
    OBVIOUS
  <2>4. QED
    BY <2>1, <2>2, <2>3, WiredDetaching
<1>11. ASSUME NEW t \in Transfers, Read(t) PROVE Wired'
  <2>1. Reading(t) /\ Top("read")
    BY <1>11 DEF Read, ReadAuth, ReadRedirect, ReadBadRedirect, ReadDetached, ReadError, ReadResponse, Reading
  <2>2. CASE ReadAuth(t)
    <3>1. ~InCurl
      BY <2>1, CurlAlone DEF Curls
    <3>2. /\ net' = RemoveConns(Held({t}))
          /\ \A u \in {t} : tr'[u].conn = None
          /\ \A u \in Transfers \ {t} : tr'[u].conn = tr[u].conn
      BY <1>1, <2>2 DEF ReadAuth, Transfer
    <3>3. QED
      BY <3>1, <3>2, WiredReleased
  <2>3. ASSUME NEW r, tr' = [tr EXCEPT ![t] = r], r.conn = tr[t].conn,
               \/ net' = Consumed(tr[t].conn)
               \/ net' = [Consumed(tr[t].conn) EXCEPT !.running = @ \union {tr[t].conn}]
        PROVE  Wired'
    <3>1. \A u \in Transfers : tr'[u].conn = tr[u].conn
      BY <1>1, <2>3
    <3>2. QED
      BY <2>1, <2>3, <3>1, WiredRead
  <2>4. /\ Completing(t).conn = tr[t].conn
        /\ [Completing(t) EXCEPT !.notified = TRUE].conn = tr[t].conn
        /\ [tr[t] EXCEPT !.notified = TRUE].conn = tr[t].conn
        /\ [Reset(tr[t]) EXCEPT !.redirects = @ + 1].conn = tr[t].conn
    BY <1>1 DEF Completing, Reset, Transfer
  <2>5. CASE ReadRedirect(t)
    <3> DEFINE r == [Reset(tr[t]) EXCEPT !.redirects = @ + 1]
    <3>1. tr' = [tr EXCEPT ![t] = r]
      BY <2>5 DEF ReadRedirect
    <3>2. r.conn = tr[t].conn
      BY <2>4
    <3> HIDE DEF r
    <3>3. QED
      BY <2>3, <2>5, <3>1, <3>2 DEF ReadRedirect
  <2>6. CASE ReadBadRedirect(t)
    BY <2>3, <2>4, <2>6 DEF ReadBadRedirect, Fail
  <2>7. CASE ReadError(t)
    BY <2>3, <2>4, <2>7 DEF ReadError, Fail
  <2>8. CASE ReadResponse(t)
    BY <2>3, <2>4, <2>8 DEF ReadResponse
  <2>9. QED
    BY <1>11, <2>2, <2>5, <2>6, <2>7, <2>8 DEF Read
<1>12. ASSUME NEW t \in Transfers, DeliverFail(t) \/ DoneFail(t) PROVE Wired'
  <2>1. tr' = [tr EXCEPT ![t] = [tr[t] EXCEPT !.notified = TRUE]] /\ UNCHANGED net
    BY <1>12 DEF DeliverFail, DoneFail, Fail
  <2>2. [tr[t] EXCEPT !.notified = TRUE].conn = tr[t].conn
    BY <1>1 DEF Transfer
  <2>3. QED
    BY <2>1, <2>2, WiredUpdate
<1>13. ASSUME NEW t \in Transfers, DeliverDone(t) PROVE Wired'
  <2>1. ~InCurl
    BY <1>13, CurlAlone DEF DeliverDone, Resumed, Curls
  <2>2. /\ net' = RemoveConns(Held({t}))
        /\ \A u \in {t} : tr'[u].conn = None
        /\ \A u \in Transfers \ {t} : tr'[u].conn = tr[u].conn
    BY <1>1, <1>13 DEF DeliverDone, Transfer
  <2>3. QED
    BY <2>1, <2>2, WiredReleased
<1>14. ASSUME NEW t \in Transfers, Done(t) \/ Failed(t) \/ Served(t) PROVE Wired'
  <2>1. ~InCurl /\ Deinit({t})
    BY <1>14, CurlAlone DEF Done, Failed, Served, Resumed, Curls
  <2>2. QED
    BY <2>1, WiredDeiniting
<1>15. ASSUME NEW t \in Transfers, FailedDetached(t) PROVE Wired'
  BY <1>15
<1>16. ASSUME NEW t \in Transfers, ServeFail(t) \/ ScriptAbort(t) \/ CdpFail(t) PROVE Wired'
  <2>1. ~InCurl
    BY <1>16, CurlAlone DEF ServeFail, Resumed, ScriptAbort, CdpFail, Answer, Command, Curls
  <2>2. Abort(t, Tail(stack)) \/ Abort(t, stack)
    BY <1>16 DEF ServeFail, ScriptAbort, CdpFail
  <2>3. QED
    BY <2>1, <2>2, WiredAborting
<1>17. ASSUME NEW t \in Transfers, CdpContinue(t) \/ CdpContinueWithAuth(t) PROVE Wired'
  <2>1. Top("inbox") /\ t \in paused /\ tr[t].state \notin {"none", "freed"} /\ Process(t, Unpark(t), stack)
    BY <1>17 DEF CdpContinue, CdpContinueWithAuth, Answer, Command
  <2>2. ~InCurl /\ ~performing
    BY <2>1, CurlAlone DEF Curls
  <2>3. tr[t] \in Transfer /\ Sound(tr[t], t \in paused)
    BY DEF Sane, Base, Typed
  <2>4. Startable(Unpark(t)) /\ tr[t].conn = None
    BY <2>1, <2>3 DEF Unpark, Startable, Transfer, Sound, Loose, States
  <2>5. QED
    BY <2>1, <2>2, <2>4, WiredProcessing
<1>18. ASSUME NEW t \in Transfers, (\E o \in Owners : ScriptRequest(t, o)) \/ ScriptSync(t) PROVE Wired'
  <2>1. ~InCurl /\ ~performing
    BY <1>18, CurlAlone DEF ScriptRequest, ScriptSync, Curls
  <2>2. \/ \E o \in Owners : \E rest : o \in alive /\ Request(t, Created(TRUE, o), rest)
        \/ \E rest : Request(t, Created(FALSE, None), rest)
    BY <1>18 DEF ScriptRequest, ScriptSync
  <2>3. QED
    BY <2>1, <2>2, WiredRequesting
<1>19. QED
  BY <1>3, <1>4, <1>5, <1>6, <1>7, <1>8, <1>9, <1>10, <1>11, <1>12, <1>13, <1>14, <1>15, <1>16, <1>17, <1>18
     DEF Next, Client, Script, Resume, Cdp

LEMMA WiredStutter == Wired /\ UNCHANGED vars => Wired'
  BY WiredSame DEF Wired, vars

LEMMA WiredInit == Init => Wired
<1> SUFFICES ASSUME Init PROVE Wired
  OBVIOUS
<1>1. \A t \in Transfers : tr[t].conn = None
  BY DEF Init, New
<1>2. Held(Transfers) = {} /\ net.inUse = {}
  BY <1>1 DEF Held, Init
<1>3. QED
  BY <1>1, <1>2, FS_EmptySet DEF Wired, Init

LEMMA WiredAlways ==
  ASSUME "ws" \notin Features, "reconfigure" \notin Features
  PROVE  Spec => [](Sane /\ Wired)
<1>1. Sane /\ Entered(InCurlMayRun) /\ Wired /\ [Next]_vars => Wired'
  <2>1. ASSUME Sane, NEW t \in Transfers PROVE ~ReadDetached(t) /\ ~FailedDetached(t)
    <3>1. ~ReadDetached(t)
      BY DEF ReadDetached
    <3>2. SUFFICES ASSUME Top("detached") PROVE FALSE
      BY <3>1 DEF FailedDetached, Resumed
    <3>3. QED
      BY <2>1, <3>2, TopShape DEF Top, Framed, Sane
  <2>2. InCurlMayRun = {}
    BY DEF InCurlMayRun
  <2>3. QED
    BY <2>1, <2>2, WiredStep, WiredStutter
<1>2. Spec => [](Sane /\ Entered(InCurlMayRun))
  BY EnteredAlways
<1>3. QED
  BY <1>1, <1>2, WiredInit, PTL DEF Spec

\* Every connection is in the pool or with one live transfer, removeConn never
\* returns one twice, and nothing waits for perform to drain it, unless web
\* sockets enter script from curl or the set-up of a redirect fails.
THEOREM ConnsHold ==
  ASSUME "ws" \notin Features, "reconfigure" \notin Features
  PROVE  Spec => []ConnsAccounted
<1>1. Sane /\ Wired => ConnsAccounted
  <2> SUFFICES ASSUME Sane, Wired, NEW c \in Conns
               PROVE  /\ net.available[c] + Cardinality(Holders(c)) = 1
                      /\ c \in net.inUse <=> Holders(c) # {}
    BY DEF ConnsAccounted, Wired
  <2>1. Holders(c) = {t \in Transfers : tr[t].conn = c}
    BY SetsAssumption DEF Holders, Live, Sane, Base, Sound, Loose
  <2>2. c \in net.inUse <=> Holders(c) # {}
    BY <2>1, SetsAssumption DEF Wired, Held
  <2>3. CASE Holders(c) = {}
    BY <2>2, <2>3, FS_EmptySet DEF Wired
  <2>4. ASSUME NEW t \in Holders(c) PROVE net.available[c] + Cardinality(Holders(c)) = 1
    <3>1. Holders(c) = {t}
      BY <2>1, SetsAssumption DEF Wired
    <3>2. Cardinality(Holders(c)) = 1
      BY <3>1, FS_Singleton
    <3>3. net.available[c] = 0
      BY <2>2 DEF Wired
    <3>4. QED
      BY <3>2, <3>3
  <2>5. QED
    BY <2>2, <2>3, <2>4
<1>2. QED
  BY <1>1, WiredAlways, PTL

\* http_active is the number of handles in use, and what waits holds none:
\* the same cases aside.
THEOREM CountsHold ==
  ASSUME "ws" \notin Features, "reconfigure" \notin Features
  PROVE  Spec => []CountsMatch
<1>1. Sane /\ Wired => CountsMatch
  BY DEF Sane, Base, Sound, Loose, Wired, CountsMatch, Live
<1>2. QED
  BY <1>1, WiredAlways, PTL

=============================================================================
