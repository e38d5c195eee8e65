-------------------------- MODULE HtmlParser_proofs --------------------------
(***************************************************************************)
(* The text buffer of browser/parser/Parser.zig does not show, for any     *)
(* number of nodes, chunks and script operations.  The invariant has two   *)
(* halves that a step disturbs apart: TextInv says that the buffer belongs *)
(* to a text node, which is why a flush writes back what readers of Whole  *)
(* already see; TreeInv says that children lists stay lists of placed,     *)
(* single nodes, which is why a node taken out of one list is out.         *)
(***************************************************************************)
EXTENDS HtmlParserProps, SequenceTheorems, TLAPS

P == INSTANCE ParsedText_proofs WITH text <- Whole

TextInv ==
  /\ data \in [Nodes -> Seq(Nat)]
  /\ pending \in Pendings \union {None}
  /\ pending # None => kind[pending.node] = "text"
  /\ buf \in Seq(Nat)
  /\ BufIsPending
  /\ \A n \in Nodes : kind[n] # "text" => data[n] = << >>

KindsType == kind \in [Nodes -> {"root", "free", "element", "text", "other"}]

-----------------------------------------------------------------------------
(* Text. *)

LEMMA PendingIsNode ==
  ASSUME TextInv, pending # None
  PROVE  pending.parent \in Nodes /\ pending.node \in Nodes
  BY NodesAssumption DEF TextInv, Pendings

LEMMA WholeType ==
  ASSUME TextInv
  PROVE  Whole \in [Nodes -> Seq(Nat)]
  BY DEF TextInv, Whole

\* What a flush writes is what Whole shows, and it leaves an empty buffer.
LEMMA FlushedIsWhole ==
  ASSUME TextInv
  PROVE  FlushedData = Whole /\ FlushedBuf = << >>
<1>1. FlushedBuf = << >>
  BY DEF TextInv, BufIsPending, FlushedBuf
<1>2. FlushedData = Whole
  BY PendingIsNode DEF TextInv, FlushedData, Whole, Buffered
<1>3. QED
  BY <1>1, <1>2

\* Steps that make and lose no text node.
SameTexts == \A n \in Nodes : kind'[n] = "text" <=> kind[n] = "text"

LEMMA TextStays ==
  ASSUME TextInv, UNCHANGED text, SameTexts
  PROVE  TextInv' /\ Whole' = Whole
<1>1. TextInv'
  BY PendingIsNode DEF TextInv, text, BufIsPending, SameTexts
<1>2. QED
  BY <1>1 DEF text, Whole, Buffered

LEMMA FlushKeeps ==
  ASSUME TextInv, FlushPendingText, SameTexts
  PROVE  TextInv' /\ Whole' = Whole /\ pending' = None
<1>1. data' = Whole /\ pending' = None /\ buf' = << >>
  BY FlushedIsWhole DEF FlushPendingText
<1>2. Whole' = [n \in Nodes |-> data'[n]]
  BY <1>1 DEF Whole, Buffered
<1>3. Whole' = Whole
  BY <1>1, <1>2, WholeType
<1>4. TextInv'
  <2>1. \A n \in Nodes : kind'[n] # "text" => Whole[n] = << >>
    BY PendingIsNode DEF TextInv, Whole, Buffered, SameTexts
  <2>2. QED
    BY <1>1, <2>1, WholeType DEF TextInv, BufIsPending
<1>5. QED
  BY <1>1, <1>3, <1>4

\* A chunk for a parent that ends in text is seen at the end of that text.
LEMMA ExtendShows ==
  ASSUME TextInv, KindsType, kids \in [Nodes -> Seq(Nodes)], NEW p \in Nodes,
         sent' \in Nat, ContinueRun(p) \/ ResumeText(p)
  PROVE  /\ TextInv' /\ UNCHANGED tree /\ EndsInText(p)
         /\ Whole' = [Whole EXCEPT ![LastKid(p)] = Append(@, sent')]
<1>1. CASE ContinueRun(p)
  <2>1. /\ pending # None /\ pending.node = LastKid(p) /\ kids[p] # << >>
        /\ UNCHANGED <<data, pending, tree>>
    BY <1>1 DEF ContinueRun, ContinuesRun
  <2>2. EndsInText(p)
    BY <2>1 DEF EndsInText, TextInv
  <2>3. buf' = Append(Whole[LastKid(p)], sent')
    BY <1>1, <2>1, PendingIsNode DEF ContinueRun, Whole, Buffered
  <2>4. Whole[LastKid(p)] \in Seq(Nat)
    BY <2>1, PendingIsNode, WholeType
  <2>5. buf' \in Seq(Nat) /\ buf' # << >>
    BY <2>3, <2>4
  <2>6. TextInv'
    BY <2>1, <2>5 DEF TextInv, BufIsPending, tree
  <2>7. Whole' = [Whole EXCEPT ![LastKid(p)] = Append(@, sent')]
    BY <2>1, <2>3, <2>5 DEF Whole, Buffered
  <2>8. QED
    BY <2>1, <2>2, <2>6, <2>7
<1>2. CASE ResumeText(p)
  <2> DEFINE t == LastKid(p)
  <2>1. /\ EndsInText(p) /\ UNCHANGED tree
        /\ data' = Whole /\ pending' = [parent |-> p, node |-> t]
        /\ buf' = << >> \o Append(Whole[t], sent')
    BY <1>2, FlushedIsWhole DEF ResumeText
  <2>2. t \in Nodes
    BY <2>1 DEF EndsInText, LastKid
  <2>3. Whole[t] \in Seq(Nat)
    BY <2>2, WholeType
  <2>4. buf' = Append(Whole[t], sent') /\ buf' \in Seq(Nat) /\ buf' # << >>
    BY <2>1, <2>3
  <2>5. pending' \in Pendings /\ pending' # None /\ pending'.node = t
    <3>1. pending' \in Pendings
      BY <2>1, <2>2 DEF Pendings
    <3>2. pending' # None
      BY <3>1, NodesAssumption DEF Pendings
    <3>3. QED
      BY <2>1, <3>1, <3>2
  <2>6. TextInv'
    <3>1. \A n \in Nodes : kind[n] # "text" => Whole[n] = << >>
      BY PendingIsNode DEF TextInv, Whole, Buffered
    <3>2. QED
      BY <2>1, <2>4, <2>5, <3>1, WholeType DEF TextInv, BufIsPending, tree, EndsInText
  <2>7. Whole' = [Whole EXCEPT ![t] = Append(@, sent')]
    BY <2>1, <2>4, <2>5, WholeType DEF Whole, Buffered
  <2>8. QED
    BY <2>1, <2>6, <2>7
<1>3. QED
  BY <1>1, <1>2
\* A chunk for a parent that does not becomes a text node of its own.
LEMMA BeginShows ==
  ASSUME TextInv, KindsType, NEW n \in Nodes, kind[n] = "free",
         sent' \in Nat, NEW pt \in Pendings \union {None},
         pt # None => pt.node = n,
         kind' = [kind EXCEPT ![n] = "text"],
         data' = [FlushedData EXCEPT ![n] = <<sent'>>],
         pending' = pt, buf' = FlushedBuf
  PROVE  TextInv' /\ Whole' = [Whole EXCEPT ![n] = <<sent'>>]
<1>1. data' = [Whole EXCEPT ![n] = <<sent'>>] /\ buf' = << >>
  BY FlushedIsWhole
<1>2. data' \in [Nodes -> Seq(Nat)]
  <2>1. <<sent'>> \in Seq(Nat)
    OBVIOUS
  <2>2. QED
    BY <1>1, <2>1, WholeType
<1>3. TextInv'
  <2>1. \A m \in Nodes : kind[m] # "text" => Whole[m] = << >>
    BY PendingIsNode DEF TextInv, Whole, Buffered
  <2>2. \A m \in Nodes : kind'[m] # "text" => m # n /\ kind[m] # "text"
    BY DEF KindsType
  <2>3. \A m \in Nodes : kind'[m] # "text" => data'[m] = << >>
    BY <1>1, <2>1, <2>2, WholeType
  <2>4. QED
    BY <1>1, <1>2, <2>3 DEF TextInv, BufIsPending, KindsType
<1>4. Whole' = [m \in Nodes |-> data'[m]]
  BY <1>1 DEF Whole, Buffered
<1>5. QED
  BY <1>1, <1>2, <1>3, <1>4

\* A script's write to a node shows, or is lost to the buffer.
LEMMA WriteShows ==
  ASSUME TextInv, NEW n \in Nodes, kind'[n] = "text",
         data' = [data EXCEPT ![n] = <<Script>>], UNCHANGED <<pending, buf>>,
         \A m \in Nodes \ {n} : kind'[m] = kind[m]
  PROVE  /\ TextInv'
         /\ Whole' = IF Buffered(n) THEN Whole ELSE [Whole EXCEPT ![n] = <<Script>>]
<1>1. <<Script>> \in Seq(Nat)
  BY DEF Script
<1>2. TextInv'
  BY <1>1, PendingIsNode DEF TextInv, BufIsPending
<1>3. \A m \in Nodes : data'[m] = IF m = n THEN <<Script>> ELSE data[m]
  BY DEF TextInv
<1>4. Whole' = [m \in Nodes |-> IF Buffered(m) THEN buf ELSE data'[m]]
  BY DEF Whole, Buffered
<1>5. CASE Buffered(n)
  <2>1. \A m \in Nodes : Whole'[m] = Whole[m]
    BY <1>3, <1>4, <1>5 DEF Whole
  <2>2. QED
    BY <1>2, <1>4, <1>5, <2>1 DEF Whole
<1>6. CASE ~Buffered(n)
  <2>1. \A m \in Nodes : Whole'[m] = IF m = n THEN <<Script>> ELSE Whole[m]
    BY <1>3, <1>4, <1>6 DEF Whole
  <2>2. QED
    BY <1>2, <1>4, <1>6, <2>1 DEF Whole
<1>7. QED
  BY <1>5, <1>6

-----------------------------------------------------------------------------
(* Children lists. *)

Members(s) == {s[i] : i \in DOMAIN s}
Once(s) == \A i, j \in DOMAIN s : s[i] = s[j] => i = j

\* Lists in which every node has one place at most.
Single(ks) ==
  /\ ks \in [Nodes -> Seq(Nodes)]
  /\ \A p \in Nodes : Once(ks[p])
  /\ \A p, q \in Nodes : p # q => Members(ks[p]) \intersect Members(ks[q]) = {}

LEMMA SeqFacts ==
  ASSUME NEW s \in Seq(Nodes)
  PROVE  Len(s) \in Nat /\ DOMAIN s = 1..Len(s) /\ \A j \in 1..Len(s) : s[j] \in Nodes
  OBVIOUS

LEMMA SeqOf ==
  ASSUME NEW k \in Nat, NEW f, f = [j \in 1..k |-> f[j]],
         \A j \in 1..k : f[j] \in Nodes
  PROVE  f \in Seq(Nodes) /\ DOMAIN f = 1..k
<1>1. f \in [1..k -> Nodes]
  OBVIOUS
<1>2. QED
  BY <1>1

LEMMA WithoutDrops ==
  ASSUME NEW s \in Seq(Nodes), Once(s), NEW n
  PROVE  /\ Without(s, n) \in Seq(Nodes) /\ Once(Without(s, n))
         /\ Members(Without(s, n)) = Members(s) \ {n}
<1>1. CASE ~\E i \in DOMAIN s : s[i] = n
  BY <1>1 DEF Without, Members
<1>2. CASE \E i \in DOMAIN s : s[i] = n
  <2> DEFINE i == CHOOSE j \in DOMAIN s : s[j] = n
             w == [j \in 1..(Len(s) - 1) |-> IF j < i THEN s[j] ELSE s[j + 1]]
  <2>1. i \in DOMAIN s /\ s[i] = n /\ Without(s, n) = w
    BY <1>2, Zenon DEF Without
  <2> HIDE DEF i
  <2>2. Len(s) \in Nat /\ i \in 1..Len(s) /\ \A j \in 1..Len(s) : s[j] \in Nodes
    BY <2>1, SeqFacts
  <2>3. \A j \in 1..(Len(s) - 1) :
          w[j] = (IF j < i THEN s[j] ELSE s[j + 1]) /\ w[j] \in Nodes
    BY <2>2
  <2>4. w \in Seq(Nodes) /\ DOMAIN w = 1..(Len(s) - 1)
    BY <2>2, <2>3, SeqOf
  <2> HIDE DEF w
  <2>5. Once(w)
    <3> DEFINE at(j) == IF j < i THEN j ELSE j + 1
    <3>1. ASSUME NEW j \in 1..(Len(s) - 1), NEW k \in 1..(Len(s) - 1), w[j] = w[k]
          PROVE  j = k
      <4>1. at(j) \in 1..Len(s) /\ at(k) \in 1..Len(s) /\ s[at(j)] = s[at(k)]
        BY <3>1, <2>2, <2>3
      <4>2. at(j) = at(k)
        BY <4>1, SeqFacts DEF Once
      <4>3. QED
        BY <4>2, <2>2
    <3>2. QED
      BY <3>1, <2>4 DEF Once
  <2>6. Members(w) \subseteq Members(s) \ {n}
    BY <2>1, <2>2, <2>3, <2>4, SeqFacts, SMTT(30) DEF Once, Members
  <2>7. ASSUME NEW j \in 1..Len(s), s[j] # n PROVE s[j] \in Members(w)
    <3>1. CASE j < i
      <4>1. j \in 1..(Len(s) - 1) /\ w[j] = s[j]
        BY <3>1, <2>2, <2>3
      <4>2. QED
        BY <4>1, <2>4 DEF Members
    <3>2. CASE j > i
      <4>1. j - 1 \in 1..(Len(s) - 1) /\ w[j - 1] = s[j]
        BY <3>2, <2>2, <2>3
      <4>2. QED
        BY <4>1, <2>4 DEF Members
    <3>3. QED
      BY <3>1, <3>2, <2>1, <2>2, <2>7
  <2>8. Members(s) \ {n} \subseteq Members(w)
    BY <2>7, SeqFacts DEF Members
  <2>9. QED
    BY <2>1, <2>4, <2>5, <2>6, <2>8
<1>3. QED
  BY <1>1, <1>2

LEMMA BeforeAdds ==
  ASSUME NEW s \in Seq(Nodes), Once(s), NEW e \in Members(s),
         NEW n \in Nodes, n \notin Members(s)
  PROVE  /\ Before(s, n, e) \in Seq(Nodes) /\ Once(Before(s, n, e))
         /\ Members(Before(s, n, e)) = Members(s) \union {n}
         /\ \E i \in DOMAIN s : s[i] = e /\ Before(s, n, e) = P!Inserted(s, n, i)
<1> DEFINE i == CHOOSE j \in DOMAIN s : s[j] = e
           b == [j \in 1..(Len(s) + 1) |->
                   IF j < i THEN s[j] ELSE IF j = i THEN n ELSE s[j - 1]]
<1>1. i \in DOMAIN s /\ s[i] = e /\ Before(s, n, e) = b
  BY Zenon DEF Before, Members
<1>2. b = P!Inserted(s, n, i)
  BY DEF P!Inserted
<1> HIDE DEF i
<1>3. Len(s) \in Nat /\ i \in 1..Len(s) /\ \A j \in 1..Len(s) : s[j] \in Nodes
  BY <1>1, SeqFacts
<1>4. \A j \in 1..(Len(s) + 1) :
        /\ b[j] = IF j < i THEN s[j] ELSE IF j = i THEN n ELSE s[j - 1]
        /\ b[j] \in Nodes
  BY <1>3
<1>5. b \in Seq(Nodes) /\ DOMAIN b = 1..(Len(s) + 1)
  BY <1>3, <1>4, SeqOf
<1> HIDE DEF b
<1>6. \A j \in 1..Len(s) : s[j] # n
  BY SeqFacts DEF Members
<1> DEFINE at(j) == IF j < i THEN j ELSE j - 1
<1>7. \A j \in 1..(Len(s) + 1) : j # i => at(j) \in 1..Len(s) /\ b[j] = s[at(j)]
  BY <1>3, <1>4
<1>8. Once(b)
  <2>1. ASSUME NEW j \in 1..(Len(s) + 1), NEW k \in 1..(Len(s) + 1), b[j] = b[k]
        PROVE  j = k
    <3>1. CASE j = i \/ k = i
      BY <3>1, <2>1, <1>7, <1>4, <1>6
    <3>2. CASE j # i /\ k # i
      <4>1. at(j) = at(k)
        BY <3>2, <1>7, <2>1, SeqFacts DEF Once
      <4>2. QED
        BY <4>1, <3>2, <1>3
    <3>3. QED
      BY <3>1, <3>2
  <2>2. QED
    BY <2>1, <1>5 DEF Once
<1>9. Members(b) \subseteq Members(s) \union {n}
  <2>1. ASSUME NEW j \in 1..(Len(s) + 1) PROVE b[j] \in Members(s) \union {n}
    <3>1. CASE j = i
      BY <3>1, <1>3, <1>4
    <3>2. CASE j # i
      BY <3>2, <1>7, SeqFacts DEF Members
    <3>3. QED
      BY <3>1, <3>2
  <2>2. QED
    BY <2>1, <1>5 DEF Members
<1>10. n \in Members(b)
  <2>1. i \in 1..(Len(s) + 1) /\ b[i] = n
    BY <1>3, <1>4
  <2>2. QED
    BY <2>1, <1>5 DEF Members
<1>11. ASSUME NEW j \in 1..Len(s) PROVE s[j] \in Members(b)
  <2>1. CASE j < i
    <3>1. j \in 1..(Len(s) + 1) /\ b[j] = s[j]
      BY <2>1, <1>3, <1>4
    <3>2. QED
      BY <3>1, <1>5 DEF Members
  <2>2. CASE j >= i
    <3>1. j + 1 \in 1..(Len(s) + 1) /\ b[j + 1] = s[j]
      BY <2>2, <1>3, <1>4
    <3>2. QED
      BY <3>1, <1>5 DEF Members
  <2>3. QED
    BY <2>1, <2>2, <1>3
<1>12. Members(s) \subseteq Members(b)
  BY <1>11, SeqFacts DEF Members
<1>13. QED
  BY <1>1, <1>2, <1>5, <1>8, <1>9, <1>10, <1>12

LEMMA AppendAdds ==
  ASSUME NEW s \in Seq(Nodes), Once(s), NEW n \in Nodes, n \notin Members(s)
  PROVE  /\ Append(s, n) \in Seq(Nodes) /\ Once(Append(s, n))
         /\ Members(Append(s, n)) = Members(s) \union {n}
<1>1. /\ Append(s, n) \in Seq(Nodes) /\ DOMAIN Append(s, n) = 1..(Len(s) + 1)
      /\ \A j \in 1..(Len(s) + 1) : Append(s, n)[j] = IF j = Len(s) + 1 THEN n ELSE s[j]
  OBVIOUS
<1>2. DOMAIN s = 1..Len(s)
  OBVIOUS
<1>3. QED
  BY <1>1, <1>2 DEF Once, Members

LEMMA JoinAdds ==
  ASSUME NEW s \in Seq(Nodes), NEW t \in Seq(Nodes), Once(s), Once(t),
         Members(s) \intersect Members(t) = {}
  PROVE  /\ s \o t \in Seq(Nodes) /\ Once(s \o t)
         /\ Members(s \o t) = Members(s) \union Members(t)
<1> DEFINE u == s \o t
<1>1. /\ u \in Seq(Nodes) /\ DOMAIN u = 1..(Len(s) + Len(t))
      /\ \A j \in 1..(Len(s) + Len(t)) : u[j] = IF j <= Len(s) THEN s[j] ELSE t[j - Len(s)]
  OBVIOUS
<1> HIDE DEF u
<1>2. /\ Len(s) \in Nat /\ DOMAIN s = 1..Len(s)
      /\ Len(t) \in Nat /\ DOMAIN t = 1..Len(t)
  BY SeqFacts
<1>3. \A i \in 1..Len(s), j \in 1..Len(t) : s[i] # t[j]
  BY <1>2 DEF Members
<1>4. ASSUME NEW i \in 1..(Len(s) + Len(t)), NEW j \in 1..(Len(s) + Len(t)), u[i] = u[j]
      PROVE  i = j
  <2>1. CASE i <= Len(s) /\ j <= Len(s)
    BY <2>1, <1>1, <1>2, <1>4, SMTT(30) DEF Once
  <2>2. CASE i > Len(s) /\ j > Len(s)
    <3>1. i - Len(s) \in 1..Len(t) /\ j - Len(s) \in 1..Len(t)
      BY <2>2, <1>2
    <3>2. t[i - Len(s)] = t[j - Len(s)]
      BY <2>2, <1>1, <1>2, <1>4
    <3>3. i - Len(s) = j - Len(s)
      BY <3>1, <3>2, <1>2 DEF Once
    <3>4. QED
      BY <3>3, <1>2
  <2>3. CASE i <= Len(s) /\ j > Len(s)
    <3>1. i \in 1..Len(s) /\ j - Len(s) \in 1..Len(t)
      BY <2>3, <1>2
    <3>2. QED
      BY <3>1, <2>3, <1>1, <1>2, <1>3, <1>4
  <2>4. CASE i > Len(s) /\ j <= Len(s)
    <3>1. j \in 1..Len(s) /\ i - Len(s) \in 1..Len(t)
      BY <2>4, <1>2
    <3>2. QED
      BY <3>1, <2>4, <1>1, <1>2, <1>3, <1>4
  <2>5. QED
    BY <2>1, <2>2, <2>3, <2>4, <1>2
<1>5. Members(u) \subseteq Members(s) \union Members(t)
  <2>1. ASSUME NEW j \in 1..(Len(s) + Len(t)) PROVE u[j] \in Members(s) \union Members(t)
    <3>1. CASE j <= Len(s)
      <4>1. j \in 1..Len(s) /\ u[j] = s[j]
        BY <3>1, <1>1, <1>2
      <4>2. QED
        BY <4>1, <1>2 DEF Members
    <3>2. CASE j > Len(s)
      <4>1. j - Len(s) \in 1..Len(t) /\ u[j] = t[j - Len(s)]
        BY <3>2, <1>1, <1>2
      <4>2. QED
        BY <4>1, <1>2 DEF Members
    <3>3. QED
      BY <3>1, <3>2, <1>2
  <2>2. QED
    BY <2>1, <1>1 DEF Members
<1>6. Members(s) \subseteq Members(u)
  BY <1>1, <1>2, SMTT(30) DEF Members
<1>7. ASSUME NEW j \in 1..Len(t) PROVE t[j] \in Members(u)
  <2>1. Len(s) + j \in 1..(Len(s) + Len(t)) /\ u[Len(s) + j] = t[j]
    BY <1>1, <1>2
  <2>2. QED
    BY <2>1, <1>1 DEF Members
<1>8. Members(t) \subseteq Members(u)
  BY <1>2, <1>7 DEF Members
<1>9. Once(u)
  BY <1>1, <1>4 DEF Once
<1>10. QED
  BY <1>1, <1>5, <1>6, <1>8, <1>9 DEF u

-----------------------------------------------------------------------------
(* The tree. *)

Absent(ks, n) == \A p \in Nodes : n \notin Members(ks[p])

\* Taking a node out of every list.
LEMMA DetachedDrops ==
  ASSUME Single(kids), NEW n
  PROVE  /\ Single(Detached(n)) /\ Absent(Detached(n), n)
         /\ \A p \in Nodes : Members(Detached(n)[p]) = Members(kids[p]) \ {n}
<1>1. \A p \in Nodes : Detached(n)[p] = Without(kids[p], n)
  BY DEF Detached
<1>2. ASSUME NEW p \in Nodes
      PROVE  /\ Detached(n)[p] \in Seq(Nodes) /\ Once(Detached(n)[p])
             /\ Members(Detached(n)[p]) = Members(kids[p]) \ {n}
  BY <1>1, WithoutDrops DEF Single
<1>3. Detached(n) \in [Nodes -> Seq(Nodes)]
  BY <1>1, <1>2 DEF Detached
<1>4. QED
  BY <1>2, <1>3 DEF Single, Absent

\* The lists new are the lists ks with n, which is in none of them, put into
\* that of p.
Placing(ks, new, n, p, s) ==
  /\ Single(ks) /\ Absent(ks, n)
  /\ s \in Seq(Nodes) /\ Once(s) /\ Members(s) = Members(ks[p]) \union {n}
  /\ new = [ks EXCEPT ![p] = s]

Placed(ks, new, n, p) ==
  /\ Single(new)
  /\ \A q \in Nodes : Members(new[q]) =
       IF q = p THEN Members(ks[p]) \union {n} ELSE Members(ks[q])

LEMMA PlacingKeeps ==
  ASSUME NEW ks, NEW new, NEW n, NEW p \in Nodes, NEW s, Placing(ks, new, n, p, s)
  PROVE  Placed(ks, new, n, p)
<1>1. new \in [Nodes -> Seq(Nodes)] /\ \A q \in Nodes : new[q] = IF q = p THEN s ELSE ks[q]
  BY DEF Single, Placing
<1>2. \A q \in Nodes : Members(new[q]) = IF q = p THEN Members(ks[p]) \union {n} ELSE Members(ks[q])
  BY <1>1 DEF Placing
<1>3. Single(new)
  BY <1>1, <1>2 DEF Single, Absent, Placing
<1>4. QED
  BY <1>2, <1>3 DEF Placed

\* What html5ever has in hand.
Hands == {held.node, held.outer} \ {None}

TreeInv ==
  /\ KindsType /\ Single(kids)
  /\ \A n \in Nodes : kind[n] = "root" <=> n = Root
  /\ \A p, n \in Nodes : n \in Members(kids[p]) =>
       kind[n] \notin {"free", "root"} /\ p \in Elements
  /\ held \in Helds \union {Free}
  /\ \A h \in Hands : kind[h] \notin {"free", "root"}

LEMMA HeldIsNode ==
  ASSUME TreeInv, held # Free
  PROVE  /\ held.node \in Nodes /\ held.into \in Nodes \union {None}
         /\ held.outer \in Nodes \union {None}
         /\ held.node \in Hands /\ Hands \subseteq Nodes
  BY NodesAssumption DEF TreeInv, Helds, Hands

\* With Hold one node is in hand.
LEMMA HoldInHand ==
  ASSUME NEW n \in Nodes \union {None}, held' = Hold(n)
  PROVE  held' \in Helds \union {Free} /\ Hands' \subseteq {n}
  BY DEF Hold, Free, Helds, Hands

\* The children lists a step leaves are in order when they are single and what
\* they list is placed, under an element, or was listed before.
LEMMA ListsKeep ==
  ASSUME TreeInv, KindsType', Single(kids'),
         \A n \in Nodes : kind'[n] = kind[n] \/ (kind[n] = "free" /\ kind'[n] # "root"),
         \A p, n \in Nodes : n \in Members(kids'[p]) =>
           /\ kind'[n] \notin {"free", "root"}
           /\ p \in Elements \/ Members(kids[p]) # {},
         held' \in Helds \union {Free},
         \A h \in Hands' : h \in Hands \/ kind'[h] \notin {"free", "root"}
  PROVE  TreeInv'
<1>1. \A n \in Nodes : n \in Elements => n \in Elements'
  BY DEF TreeInv, Elements
<1>2. \A p \in Nodes : Members(kids[p]) # {} => p \in Elements
  BY DEF TreeInv, Single, Members
<1>3. \A n \in Nodes : kind'[n] = "root" <=> n = Root
  BY NodesAssumption DEF TreeInv
<1>4. ASSUME NEW h \in Hands' PROVE kind'[h] \notin {"free", "root"}
  <2>1. CASE h \in Hands
    <3>1. h \in Nodes /\ kind[h] \notin {"free", "root"}
      BY <2>1, HeldIsNode DEF TreeInv, Hands, Hold, Free
    <3>2. QED
      BY <3>1
  <2>2. QED
    BY <1>4, <2>1
<1>5. QED
  BY <1>1, <1>2, <1>3, <1>4 DEF TreeInv

-----------------------------------------------------------------------------
(* Steps.  What a step does is split into what readers see of the text,    *)
(* the tree, and the rest.                                                 *)

RestInv ==
  /\ mode \in {"none", "between", "feeding", "ending", "done", "panicked"}
  /\ how \in {"none", "document", "fragment", "xml", "stream"}
  /\ script \in {"no", "early", "late"}
  /\ sent \in 0..MaxChunks /\ ops \in 0..MaxOps /\ wrote \in BOOLEAN
  /\ script = "late" \/ mode \in {"none", "done", "panicked"} => pending = None
  /\ mode \in {"none", "done", "panicked"} => script = "no"

IInv == TextInv /\ TreeInv /\ RestInv

Simulates == [P!Next]_(P!vars)

\* A chunk that is somewhere stays somewhere, and a new one gets somewhere.
Grows ==
  ~wrote' =>
    /\ ~wrote
    /\ \A n \in Nodes, c \in Nat \ {0} : P!Holds(n, c) => P!Holds(n, c)'
    /\ sent' = sent \/ (sent' = sent + 1 /\ \E n \in Nodes : P!Holds(n, sent)')

\* Nothing to see in the text.
Quiet ==
  /\ Whole' = Whole /\ UNCHANGED <<sent, wrote>>
  /\ \A n \in Nodes :
       \/ kind'[n] = kind[n]
       \/ kind[n] = "free" /\ kind'[n] \notin {"free", "root", "text"}

LEMMA QuietMaps ==
  ASSUME IInv, Quiet
  PROVE  Simulates /\ Grows
<1>1. P!Build
  BY WholeType DEF Quiet, P!Build, IInv
<1>2. Grows
  BY DEF Quiet, Grows, P!Holds
<1>3. QED
  BY <1>1, <1>2 DEF Simulates, P!Next

\* Steps that keep the tree.
LEMMA TreeStays ==
  ASSUME TreeInv, UNCHANGED tree, held' \in {held, Free}
  PROVE  TreeInv'
  BY DEF TreeInv, tree, KindsType, Elements, Hands, Hold, Free

\* The calls into html5ever and their returns.
LEMMA CallingKeeps ==
  ASSUME IInv, Calling
  PROVE  IInv' /\ Simulates /\ Grows
<1>1. UNCHANGED tree /\ held' \in {held, Free}
  BY DEF Calling, ParseDocument, ParseDocumentWithEncoding, ParseFragment, ParseXml, Start,
         StreamingCreate, StreamingFeed, FeedReturns, FeedPanics, StreamingFinish, EndOfParse
<1>2. TreeInv'
  BY <1>1, TreeStays DEF IInv
<1>3. SameTexts
  BY <1>1 DEF SameTexts, tree
<1>4. CASE EndOfParse \/ FeedPanics
  <2>1. TextInv' /\ Whole' = Whole /\ pending' = None
    BY <1>3, <1>4, FlushKeeps DEF IInv, EndOfParse, FeedPanics
  <2>2. RestInv'
    BY <1>4, <2>1 DEF EndOfParse, FeedPanics, IInv, RestInv, hist
  <2>3. Quiet
    BY <1>1, <1>4, <2>1 DEF Quiet, EndOfParse, FeedPanics, hist, tree
  <2>4. QED
    BY <1>2, <2>1, <2>2, <2>3, QuietMaps DEF IInv
<1>5. CASE ~EndOfParse /\ ~FeedPanics
  <2>1. UNCHANGED <<text, script, hist>>
    BY <1>5 DEF Calling, ParseDocument, ParseDocumentWithEncoding, ParseFragment, ParseXml,
         Start, StreamingCreate, StreamingFeed, FeedReturns, StreamingFinish
  <2>2. TextInv' /\ Whole' = Whole
    BY <1>3, <2>1, TextStays DEF IInv
  <2>3. RestInv'
    BY <1>5, <2>1 DEF Calling, ParseDocument, ParseDocumentWithEncoding, ParseFragment,
         ParseXml, Start, StreamingCreate, StreamingFeed, FeedReturns,
         StreamingFinish, IInv, RestInv, hist, text
  <2>4. Quiet
    BY <1>1, <2>1, <2>2 DEF Quiet, hist, tree
  <2>5. QED
    BY <1>2, <2>2, <2>3, <2>4, QuietMaps DEF IInv
<1>6. QED
  BY <1>4, <1>5

LEMMA ReturnKeeps ==
  ASSUME IInv, ScriptReturns
  PROVE  IInv' /\ Simulates /\ Grows
<1>1. TreeInv'
  BY TreeStays DEF IInv, ScriptReturns
<1>2. SameTexts
  BY DEF SameTexts, tree, ScriptReturns
<1>3. TextInv' /\ Whole' = Whole
  BY <1>2, TextStays DEF IInv, ScriptReturns
<1>4. RestInv'
  BY DEF ScriptReturns, IInv, RestInv, hist, text, call
<1>5. Quiet
  BY <1>3 DEF Quiet, ScriptReturns, hist, tree
<1>6. QED
  BY <1>1, <1>3, <1>4, <1>5, QuietMaps DEF IInv

\* A node is made and not placed.
LEMMA CreateKeeps ==
  ASSUME IInv, NEW n \in Nodes, CreateElement(n) \/ CreateOther(n)
  PROVE  IInv' /\ Simulates /\ Grows
<1>1. PICK k \in {"element", "other"} : kind' = [kind EXCEPT ![n] = k]
  BY DEF CreateElement, CreateOther
<1>2. /\ kind[n] = "free" /\ UNCHANGED <<call, kids, text, hist>>
      /\ held' = Hold(n) \/ (held # Free /\ held' = [held EXCEPT !.outer = n])
      /\ script' \in {"no", "early"} /\ mode \notin {"none", "done", "panicked"}
  BY DEF CreateElement, CreateOther, Calls, IInv, RestInv
<1>3. \A m \in Nodes : kind'[m] = IF m = n THEN k ELSE kind[m]
  BY <1>1 DEF IInv, TreeInv, KindsType
<1>4. TreeInv'
  <2>1. held' \in Helds \union {Free} /\ Hands' \subseteq Hands \union {n}
    <3>1. CASE held' = Hold(n)
      BY <3>1, HoldInHand
    <3>2. CASE held # Free /\ held' = [held EXCEPT !.outer = n]
      BY <3>2 DEF Helds, Hands, IInv, TreeInv
    <3>3. QED
      BY <1>2, <3>1, <3>2
  <2>2. KindsType'
    BY <1>1 DEF IInv, TreeInv, KindsType
  <2>3. Single(kids') /\ \A p, m \in Nodes : m \in Members(kids'[p]) =>
          kind'[m] \notin {"free", "root"} /\ p \in Elements
    BY <1>2, <1>3 DEF IInv, TreeInv
  <2>4. \A h \in Hands' : h \in Hands \/ kind'[h] \notin {"free", "root"}
    BY <1>3, <2>1
  <2>5. QED
    BY <1>2, <1>3, <2>1, <2>2, <2>3, <2>4, ListsKeep DEF IInv
<1>5. SameTexts
  BY <1>2, <1>3 DEF SameTexts
<1>6. TextInv' /\ Whole' = Whole
  BY <1>2, <1>5, TextStays DEF IInv
<1>7. RestInv'
  BY <1>2 DEF IInv, RestInv, hist, text, call
<1>8. Quiet
  BY <1>2, <1>3, <1>6 DEF Quiet, hist
<1>9. QED
  BY <1>4, <1>6, <1>7, <1>8, QuietMaps DEF IInv

-----------------------------------------------------------------------------
(* Steps that move nodes. *)

LEMMA FreeIsAbsent ==
  ASSUME TreeInv, NEW n \in Nodes, kind[n] = "free"
  PROVE  Absent(kids, n)
  BY DEF TreeInv, Absent

\* A free node becomes the last child of p.
LEMMA NewChildKeeps ==
  ASSUME TreeInv, NEW n \in Nodes, kind[n] = "free", NEW p \in Elements,
         NEW k \in {"text", "other"},
         kind' = [kind EXCEPT ![n] = k],
         kids' = [kids EXCEPT ![p] = Append(@, n)],
         UNCHANGED held
  PROVE  TreeInv'
<1>1. p \in Nodes /\ Single(kids) /\ Absent(kids, n)
  BY FreeIsAbsent DEF TreeInv, Elements
<1>2. kids[p] \in Seq(Nodes) /\ Once(kids[p]) /\ n \notin Members(kids[p])
  BY <1>1 DEF Single, Absent
<1>3. Placed(kids, kids', n, p)
  <2>1. Append(kids[p], n) \in Seq(Nodes) /\ Once(Append(kids[p], n))
        /\ Members(Append(kids[p], n)) = Members(kids[p]) \union {n}
    BY <1>2, AppendAdds
  <2>2. Placing(kids, kids', n, p, Append(kids[p], n))
    BY <1>1, <2>1 DEF Placing
  <2>3. QED
    BY <1>1, <2>2, PlacingKeeps
<1>4. KindsType' /\ \A m \in Nodes : kind'[m] = IF m = n THEN k ELSE kind[m]
  BY DEF TreeInv, KindsType
<1>5. \A q, m \in Nodes : m \in Members(kids'[q]) =>
        kind'[m] \notin {"free", "root"} /\ q \in Elements
  BY <1>1, <1>3, <1>4 DEF TreeInv, Placed
<1>6. held' \in Helds \union {Free} /\ Hands' = Hands
  BY DEF TreeInv, Hands
<1>7. QED
  BY <1>3, <1>4, <1>5, <1>6, ListsKeep DEF Placed

\* A node is taken out, or taken out and placed in a list anew.
LEMMA MoveKeeps ==
  ASSUME TreeInv, NEW n \in Nodes, kind[n] \notin {"free", "root"},
         NEW p \in Elements, NEW s, UNCHANGED kind,
         \/ kids' = Detached(n)
         \/ /\ kids' = [Detached(n) EXCEPT ![p] = s]
            /\ s \in Seq(Nodes) /\ Once(s)
            /\ Members(s) = Members(Detached(n)[p]) \union {n},
         held' \in Helds \union {Free}, Hands' \subseteq Hands \union {n}
  PROVE  TreeInv'
<1>1. p \in Nodes /\ Single(kids)
  BY DEF TreeInv, Elements
<1>2. /\ Single(Detached(n)) /\ Absent(Detached(n), n)
      /\ \A q \in Nodes : Members(Detached(n)[q]) = Members(kids[q]) \ {n}
  BY <1>1, DetachedDrops
<1>3. Single(kids') /\ \A q \in Nodes : Members(kids'[q]) \subseteq
        IF q = p THEN Members(kids[p]) \union {n} ELSE Members(kids[q])
  <2>1. CASE kids' = Detached(n)
    BY <2>1, <1>2
  <2>2. CASE /\ kids' = [Detached(n) EXCEPT ![p] = s]
             /\ s \in Seq(Nodes) /\ Once(s)
             /\ Members(s) = Members(Detached(n)[p]) \union {n}
    <3>1. Placing(Detached(n), kids', n, p, s)
      BY <1>2, <2>2 DEF Placing
    <3>2. Placed(Detached(n), kids', n, p)
      BY <1>1, <3>1, PlacingKeeps
    <3>3. QED
      BY <1>2, <3>2 DEF Placed
  <2>3. QED
    BY <2>1, <2>2
<1>4. \A q, m \in Nodes : m \in Members(kids'[q]) =>
        kind'[m] \notin {"free", "root"} /\ q \in Elements
  BY <1>1, <1>3 DEF TreeInv
<1>5. KindsType'
  BY DEF TreeInv, KindsType
<1>6. \A h \in Hands' : h \in Hands \/ kind'[h] \notin {"free", "root"}
  OBVIOUS
<1>7. QED
  BY <1>3, <1>4, <1>5, <1>6, ListsKeep

\* A node becomes the last child of p.
LEMMA MoveLastKeeps ==
  ASSUME TreeInv, NEW n \in Nodes, kind[n] \notin {"free", "root"},
         NEW p \in Elements, UNCHANGED kind,
         kids' = [Detached(n) EXCEPT ![p] = Append(@, n)],
         held' \in Helds \union {Free}, Hands' \subseteq Hands
  PROVE  TreeInv'
<1> DEFINE ks == Detached(n)
<1>1. Single(ks) /\ Absent(ks, n) /\ p \in Nodes
  BY DetachedDrops DEF TreeInv, Elements
<1> HIDE DEF ks
<1>2. ks[p] \in Seq(Nodes) /\ Once(ks[p]) /\ n \notin Members(ks[p])
  BY <1>1 DEF Single, Absent
<1>3. Append(ks[p], n) \in Seq(Nodes) /\ Once(Append(ks[p], n))
      /\ Members(Append(ks[p], n)) = Members(ks[p]) \union {n}
  BY <1>2, AppendAdds
<1>4. kids' = [ks EXCEPT ![p] = Append(ks[p], n)]
  BY DEF ks
<1>5. QED
  BY <1>3, <1>4, MoveKeeps DEF ks

\* A node is placed before e.
LEMMA MoveBeforeKeeps ==
  ASSUME TreeInv, NEW n \in Nodes, kind[n] \notin {"free", "root"},
         NEW p \in Nodes, NEW e, e # n, IsParent(p, e), UNCHANGED kind,
         kids' = [Detached(n) EXCEPT ![p] = Before(@, n, e)],
         held' \in Helds \union {Free}, Hands' \subseteq Hands
  PROVE  TreeInv'
<1> DEFINE ks == Detached(n)
<1>1. Single(ks) /\ Absent(ks, n) /\ Members(ks[p]) = Members(kids[p]) \ {n}
  BY DetachedDrops DEF TreeInv
<1>2. e \in Members(kids[p]) /\ e \in Nodes
  BY SeqFacts DEF IsParent, Members, TreeInv, Single
<1>3. p \in Elements
  BY <1>2 DEF TreeInv
<1> HIDE DEF ks
<1>4. ks[p] \in Seq(Nodes) /\ Once(ks[p]) /\ n \notin Members(ks[p]) /\ e \in Members(ks[p])
  BY <1>1, <1>2 DEF Single, Absent
<1>5. Before(ks[p], n, e) \in Seq(Nodes) /\ Once(Before(ks[p], n, e))
      /\ Members(Before(ks[p], n, e)) = Members(ks[p]) \union {n}
  BY <1>4, BeforeAdds
<1>6. kids' = [ks EXCEPT ![p] = Before(ks[p], n, e)]
  BY DEF ks
<1>7. QED
  BY <1>3, <1>5, <1>6, MoveKeeps DEF ks

-----------------------------------------------------------------------------
(* Callbacks that flush. *)

\* What they share: the buffer is empty when script runs.
LEMMA FlushedCallKeeps ==
  ASSUME IInv, FlushPendingText, Calls, script' = "late",
         UNCHANGED <<call, kind, hist>>, TreeInv'
  PROVE  IInv' /\ Simulates /\ Grows
<1>1. SameTexts
  BY DEF SameTexts
<1>2. TextInv' /\ Whole' = Whole /\ pending' = None
  BY <1>1, FlushKeeps DEF IInv
<1>3. RestInv'
  BY <1>2 DEF IInv, RestInv, Calls, call, hist
<1>4. Quiet
  BY <1>2 DEF Quiet, hist
<1>5. QED
  BY <1>2, <1>3, <1>4, QuietMaps DEF IInv

LEMMA AppendNodeKeeps ==
  ASSUME IInv, NEW p \in Nodes, AppendNode(p)
  PROVE  IInv' /\ Simulates /\ Grows
<1>1. held.node \in Nodes /\ kind[held.node] \notin {"free", "root"}
  BY HeldIsNode DEF AppendNode, IInv, TreeInv
<1>2. held' \in Helds \union {Free} /\ Hands' \subseteq Hands
  <2>1. held.outer \in Nodes \union {None} /\ held' = Hold(held.outer)
    BY HeldIsNode DEF AppendNode, IInv
  <2>2. None \notin Hands' /\ held.outer \in Hands \union {None}
    BY DEF Hands
  <2>3. QED
    BY <2>1, <2>2, HoldInHand
<1>3. TreeInv'
  BY <1>1, <1>2, MoveLastKeeps DEF AppendNode, IInv
<1>4. QED
  BY <1>3, FlushedCallKeeps DEF AppendNode

LEMMA FosterNodeKeeps ==
  ASSUME IInv, NEW p \in Nodes, NEW e \in Nodes, FosterNode(p, e)
  PROVE  IInv' /\ Simulates /\ Grows
<1>1. held.node \in Nodes /\ kind[held.node] \notin {"free", "root"}
  BY HeldIsNode DEF FosterNode, IInv, TreeInv
<1>2. e \in UpFrom(e)
  BY DEF UpFrom
<1>3. held.node # e
  BY <1>2 DEF FosterNode
<1>4. TreeInv'
  <2>1. held' \in Helds \union {Free} /\ Hands' \subseteq Hands
    BY DEF FosterNode, Hands, Hold, Free
  <2>2. QED
    BY <1>1, <1>3, <2>1, MoveBeforeKeeps DEF FosterNode, IInv
<1>5. QED
  BY <1>4, FlushedCallKeeps DEF FosterNode

LEMMA PopKeeps ==
  ASSUME IInv, NEW n \in Nodes, Pop(n)
  PROVE  IInv' /\ Simulates /\ Grows
<1>1. TreeInv'
  BY TreeStays DEF Pop, IInv
<1>2. QED
  BY <1>1, FlushedCallKeeps DEF Pop, tree

LEMMA RemoveKeeps ==
  ASSUME IInv, NEW n \in Nodes, RemoveFromParent(n)
  PROVE  IInv' /\ Simulates /\ Grows
<1>1. Root \in Elements
  BY NodesAssumption DEF IInv, TreeInv, Elements
<1>2. held' \in Helds \union {Free} /\ Hands' \subseteq Hands \union {n}
  <2>1. CASE held' = Hold(None) \/ held' = Hold(n)
    BY <2>1, HoldInHand DEF Hands
  <2>2. CASE UNCHANGED held
    BY <2>2 DEF IInv, TreeInv, Hands
  <2>3. CASE held # Free /\ held' = [Hold(n) EXCEPT !.outer = held.node]
    BY <2>3, HeldIsNode DEF IInv, Hold, Helds, Hands
  <2>4. QED
    BY <2>1, <2>2, <2>3 DEF RemoveFromParent, Free
<1>3. TreeInv'
  BY <1>1, <1>2, MoveKeeps DEF RemoveFromParent, IInv
<1>4. QED
  BY <1>3, FlushedCallKeeps DEF RemoveFromParent

LEMMA ReparentKeeps ==
  ASSUME IInv, NEW n \in Nodes, ReparentChildren(n)
  PROVE  IInv' /\ Simulates /\ Grows
<1> DEFINE h == held.node
           s == kids[h] \o kids[n]
<1>1. h \in Nodes /\ kind[h] = "element" /\ h \in Elements
  BY HeldIsNode DEF ReparentChildren, Adopting, IInv, Elements
<1>2. n \in UpFrom(n)
  BY DEF UpFrom
<1>3. h # n
  BY <1>2 DEF ReparentChildren
<1>4. /\ kids[h] \in Seq(Nodes) /\ Once(kids[h]) /\ kids[n] \in Seq(Nodes) /\ Once(kids[n])
      /\ Members(kids[h]) \intersect Members(kids[n]) = {}
  BY <1>1, <1>3 DEF IInv, TreeInv, Single
<1>5. s \in Seq(Nodes) /\ Once(s) /\ Members(s) = Members(kids[h]) \union Members(kids[n])
  BY <1>4, JoinAdds
<1>6. kids' = [kids EXCEPT ![h] = s, ![n] = << >>]
  BY DEF ReparentChildren
<1> HIDE DEF s, h
<1>7. << >> \in Seq(Nodes) /\ Once(<< >>) /\ Members(<< >>) = {}
  BY DEF Once, Members
<1>8. /\ kids' \in [Nodes -> Seq(Nodes)]
      /\ \A q \in Nodes : kids'[q] = IF q = n THEN << >> ELSE IF q = h THEN s ELSE kids[q]
  BY <1>3, <1>5, <1>6, <1>7 DEF IInv, TreeInv, Single
<1>9. \A q \in Nodes : /\ Once(kids'[q])
                       /\ Members(kids'[q]) = IF q = n THEN {}
                            ELSE IF q = h THEN Members(kids[h]) \union Members(kids[n])
                            ELSE Members(kids[q])
  BY <1>5, <1>7, <1>8 DEF IInv, TreeInv, Single
<1>10. Single(kids')
  BY <1>1, <1>8, <1>9 DEF IInv, TreeInv, Single
<1>11. \A q, m \in Nodes : m \in Members(kids'[q]) =>
         kind'[m] \notin {"free", "root"} /\ q \in Elements
  BY <1>1, <1>9 DEF ReparentChildren, IInv, TreeInv
<1>12. held' \in Helds \union {Free} /\ \A a \in Hands' : a \in Hands
  BY DEF ReparentChildren, IInv, TreeInv, Helds, Hands
<1>13. KindsType' /\ \A m \in Nodes : kind'[m] = kind[m]
  BY DEF ReparentChildren, IInv, TreeInv, KindsType
<1>14. TreeInv'
  BY <1>10, <1>11, <1>12, <1>13, ListsKeep DEF ReparentChildren, IInv
<1>15. QED
  BY <1>14, FlushedCallKeeps DEF ReparentChildren

-----------------------------------------------------------------------------
(* Callbacks that bring text. *)

LEMMA DoctypeKeeps ==
  ASSUME IInv, NEW n \in Nodes, AppendDoctype(n)
  PROVE  IInv' /\ Simulates /\ Grows
<1>1. Root \in Elements
  BY NodesAssumption DEF IInv, TreeInv, Elements
<1>2. TreeInv'
  BY <1>1, NewChildKeeps DEF AppendDoctype, IInv
<1>3. \A m \in Nodes : kind'[m] = IF m = n THEN "other" ELSE kind[m]
  BY DEF AppendDoctype, IInv, TreeInv, KindsType
<1>4. SameTexts
  BY <1>3 DEF SameTexts, AppendDoctype
<1>5. TextInv' /\ Whole' = Whole
  BY <1>4, TextStays DEF AppendDoctype, IInv
<1>6. RestInv'
  BY DEF AppendDoctype, IInv, RestInv, call, hist, text
<1>7. Quiet
  BY <1>3, <1>5 DEF Quiet, AppendDoctype, hist
<1>8. QED
  BY <1>2, <1>5, <1>6, <1>7, QuietMaps DEF IInv

\* Chunk sent' is in t now and every other one where it was.
Kept(t) ==
  /\ \A m \in Nodes, c \in Nat \ {0} : P!Holds(m, c) => P!Holds(m, c)'
  /\ P!Holds(t, sent)'

\* A chunk at the end of a text stays beside the others.
LEMMA ExtendGrows ==
  ASSUME TextInv, NEW t \in Nodes, sent' \in Nat,
         Whole' = [Whole EXCEPT ![t] = Append(@, sent')]
  PROVE  Kept(t)
<1> DEFINE s == Whole[t]
<1>1. s \in Seq(Nat) /\ \A n \in Nodes : Whole'[n] = IF n = t THEN Append(s, sent') ELSE Whole[n]
  BY WholeType
<1> HIDE DEF s
<1>2. /\ DOMAIN Append(s, sent') = 1..(Len(s) + 1) /\ DOMAIN s = 1..Len(s) /\ Len(s) \in Nat
      /\ \A i \in 1..Len(s) : Append(s, sent')[i] = s[i]
      /\ Append(s, sent')[Len(s) + 1] = sent'
  BY <1>1
<1> DEFINE u == Append(s, sent')
<1>3. Whole'[t] = u
  BY <1>1
<1>4. DOMAIN u = 1..(Len(s) + 1) /\ u[Len(s) + 1] = sent' /\ \A i \in 1..Len(s) : u[i] = s[i]
  BY <1>2
<1> HIDE DEF u
<1>5. P!Holds(t, sent)'
  <2>1. Len(s) + 1 \in DOMAIN u /\ u[Len(s) + 1] = sent'
    BY <1>2, <1>4
  <2>2. QED
    BY <2>1, <1>3 DEF P!Holds
<1>6. ASSUME NEW n \in Nodes, NEW c \in Nat \ {0}, P!Holds(n, c)
      PROVE  P!Holds(n, c)'
  <2>1. PICK i \in DOMAIN Whole[n] : Whole[n][i] = c
    BY <1>6 DEF P!Holds
  <2>2. CASE n # t
    BY <2>1, <2>2, <1>1 DEF P!Holds
  <2>3. CASE n = t
    <3>1. i \in 1..Len(s) /\ s[i] = c
      BY <2>1, <2>3, <1>2 DEF s
    <3>2. i \in DOMAIN u /\ u[i] = c
      BY <3>1, <1>2, <1>4
    <3>3. QED
      BY <3>2, <2>3, <1>3 DEF P!Holds
  <2>4. QED
    BY <2>2, <2>3
<1>7. QED
  BY <1>5, <1>6 DEF Kept

\* So does one that becomes the text of a node that had none.
LEMMA BeginGrows ==
  ASSUME TextInv, NEW n \in Nodes, kind[n] # "text",
         Whole' = [Whole EXCEPT ![n] = <<sent'>>]
  PROVE  Kept(n)
<1>1. Whole[n] = << >>
  BY PendingIsNode DEF TextInv, Whole, Buffered
<1>2. \A m \in Nodes : Whole'[m] = IF m = n THEN <<sent'>> ELSE Whole[m]
  BY WholeType
<1>3. P!Holds(n, sent)'
  BY <1>2 DEF P!Holds
<1>4. \A m \in Nodes, c \in Nat \ {0} : P!Holds(m, c) => P!Holds(m, c)'
  BY <1>1, <1>2 DEF P!Holds
<1>5. QED
  BY <1>3, <1>4 DEF Kept

LEMMA KeptGrows ==
  ASSUME NEW t \in Nodes, Kept(t), sent' = sent + 1, UNCHANGED wrote
  PROVE  Grows
  BY DEF Kept, Grows

LEMMA AppendTextKeeps ==
  ASSUME IInv, NEW p \in Nodes, AppendText(p)
  PROVE  IInv' /\ Simulates /\ Grows
<1>1. /\ sent' = sent + 1 /\ sent' \in 0..MaxChunks /\ sent' \in Nat
      /\ p \in Elements /\ UNCHANGED <<call, held, script, ops, wrote>>
      /\ mode \notin {"none", "done", "panicked"} /\ script = "no"
  BY BoundsAssumption DEF AppendText, IInv, RestInv, Calls
<1>2. RestInv'
  BY <1>1 DEF IInv, RestInv, call
<1>3. KindsType /\ kids \in [Nodes -> Seq(Nodes)]
  BY DEF IInv, TreeInv, Single
<1>4. CASE ContinueRun(p) \/ ResumeText(p)
  <2>1. /\ TextInv' /\ UNCHANGED tree /\ EndsInText(p)
        /\ Whole' = [Whole EXCEPT ![LastKid(p)] = Append(@, sent')]
    BY <1>1, <1>3, <1>4, ExtendShows DEF IInv
  <2>2. LastKid(p) \in Nodes
    BY <2>1, <1>3 DEF EndsInText, LastKid
  <2>3. TreeInv'
    BY <1>1, <2>1, TreeStays DEF IInv
  <2>4. P!Extend(p)
    BY <2>1 DEF P!Extend, P!EndsInText, EndsInText, LastKid, tree
  <2>5. Simulates
    BY <1>1, <2>4 DEF Simulates, P!Next, P!Send
  <2>6. Grows
    BY <1>1, <2>1, <2>2, ExtendGrows, KeptGrows DEF IInv
  <2>7. QED
    BY <1>2, <2>1, <2>3, <2>5, <2>6 DEF IInv
<1>5. CASE \E n \in Nodes : NewText(p, n)
  <2>1. PICK n \in Nodes : NewText(p, n)
    BY <1>5
  <2>2. pending' \in Pendings /\ pending'.node = n
    BY <2>1 DEF NewText, Pendings
  <2>3. TextInv' /\ Whole' = [Whole EXCEPT ![n] = <<sent'>>]
    BY <1>1, <1>3, <2>1, <2>2, BeginShows DEF NewText, IInv
  <2>4. TreeInv'
    BY <1>1, <2>1, NewChildKeeps DEF NewText, IInv
  <2>5. P!Begin(p)
    BY <2>1, <2>3 DEF NewText, P!Begin, P!EndsInText, EndsInText, LastKid
  <2>6. Simulates
    BY <1>1, <2>5 DEF Simulates, P!Next, P!Send
  <2>7. Grows
    <3>1. kind[n] # "text"
      BY <2>1 DEF NewText
    <3>2. QED
      BY <1>1, <2>3, <3>1, BeginGrows, KeptGrows DEF IInv
  <2>8. QED
    BY <1>2, <2>3, <2>4, <2>6, <2>7 DEF IInv
<1>6. QED
  BY <1>4, <1>5 DEF AppendText, AppendTextChunk

LEMMA FosterTextKeeps ==
  ASSUME IInv, NEW p \in Nodes, NEW e \in Nodes, NEW n \in Nodes, FosterText(p, e, n)
  PROVE  IInv' /\ Simulates /\ Grows
<1>1. /\ sent' = sent + 1 /\ sent' \in 0..MaxChunks /\ sent' \in Nat
      /\ UNCHANGED <<call, held, script, ops, wrote>>
      /\ mode \notin {"none", "done", "panicked"} /\ script = "no"
      /\ kind[n] = "free" /\ kind' = [kind EXCEPT ![n] = "text"]
      /\ pending' = None
  BY BoundsAssumption DEF FosterText, IInv, RestInv, Calls
<1>2. RestInv'
  BY <1>1 DEF IInv, RestInv, call
<1>3. KindsType /\ Single(kids) /\ kids[p] \in Seq(Nodes) /\ Once(kids[p])
  BY DEF IInv, TreeInv, Single
<1>4. TextInv' /\ Whole' = [Whole EXCEPT ![n] = <<sent'>>]
  BY <1>1, <1>3, BeginShows DEF FosterText, IInv
<1>5. Absent(kids, n) /\ n \notin Members(kids[p])
  BY <1>1, FreeIsAbsent DEF IInv, Absent
<1>6. e \in Members(kids[p]) /\ p \in Elements
  <2>1. e \in Members(kids[p])
    BY DEF FosterText, IsParent, Members
  <2>2. QED
    BY <2>1 DEF IInv, TreeInv
<1>7. /\ Before(kids[p], n, e) \in Seq(Nodes) /\ Once(Before(kids[p], n, e))
      /\ Members(Before(kids[p], n, e)) = Members(kids[p]) \union {n}
      /\ \E i \in DOMAIN kids[p] :
           kids[p][i] = e /\ Before(kids[p], n, e) = P!Inserted(kids[p], n, i)
  BY <1>3, <1>5, <1>6, BeforeAdds
<1>8. kids' = [kids EXCEPT ![p] = Before(kids[p], n, e)]
  BY DEF FosterText
<1>9. Placed(kids, kids', n, p)
  <2>1. Placing(kids, kids', n, p, Before(kids[p], n, e))
    BY <1>3, <1>5, <1>7, <1>8 DEF Placing
  <2>2. QED
    BY <2>1, PlacingKeeps
<1>10. KindsType' /\ \A m \in Nodes : kind'[m] = IF m = n THEN "text" ELSE kind[m]
  BY <1>1 DEF IInv, TreeInv, KindsType
<1>11. TreeInv'
  <2>1. \A q, m \in Nodes : m \in Members(kids'[q]) =>
          kind'[m] \notin {"free", "root"} /\ q \in Elements
    BY <1>6, <1>9, <1>10 DEF IInv, TreeInv, Placed
  <2>2. held' \in Helds \union {Free} /\ Hands' = Hands
    BY <1>1 DEF IInv, TreeInv, Hands
  <2>3. QED
    BY <1>1, <1>9, <1>10, <2>1, <2>2, ListsKeep DEF IInv, Placed
<1>12. P!Foster(e)
  <2>1. PICK i \in DOMAIN kids[p] :
          kids[p][i] = e /\ Before(kids[p], n, e) = P!Inserted(kids[p], n, i)
    BY <1>7
  <2>2. kids' = [kids EXCEPT ![p] = P!Inserted(kids[p], n, i)]
    BY <1>8, <2>1
  <2>3. QED
    BY <1>1, <1>4, <2>1, <2>2 DEF P!Foster
<1>13. Simulates
  BY <1>1, <1>12 DEF Simulates, P!Next, P!Send
<1>14. Grows
  <2>1. kind[n] # "text"
    BY <1>1
  <2>2. QED
    BY <1>1, <1>4, <2>1, BeginGrows, KeptGrows DEF IInv
<1>15. QED
  BY <1>2, <1>4, <1>11, <1>13, <1>14 DEF IInv

-----------------------------------------------------------------------------
(* Scripts. *)

\* What they share.
LEMMA ScriptRest ==
  ASSUME IInv, Scripting, ops' = ops + 1, UNCHANGED <<call, pending, script, sent>>,
         wrote' \in BOOLEAN
  PROVE  RestInv'
  BY BoundsAssumption DEF Scripting, IInv, RestInv, call

LEMMA WritesKeeps ==
  ASSUME IInv, NEW n \in Nodes, ScriptWrites(n)
  PROVE  IInv' /\ Simulates /\ Grows
<1>1. RestInv'
  BY ScriptRest DEF ScriptWrites
<1>2. TreeInv'
  BY TreeStays DEF ScriptWrites, IInv
<1>3. kind[n] = "text" /\ UNCHANGED <<kind, kids, sent, pending, buf>>
      /\ data' = [data EXCEPT ![n] = <<Script>>] /\ wrote' = TRUE
  BY DEF ScriptWrites, tree
<1>4. /\ TextInv'
      /\ Whole' = IF Buffered(n) THEN Whole ELSE [Whole EXCEPT ![n] = <<Script>>]
  BY <1>3, WriteShows DEF IInv
<1>5. Simulates
  <2>1. CASE Buffered(n)
    BY <2>1, <1>3, <1>4 DEF Simulates, P!vars
  <2>2. CASE ~Buffered(n)
    <3>1. P!Rewrite(n)
      BY <2>2, <1>3, <1>4 DEF P!Rewrite, P!Script, Script
    <3>2. QED
      BY <3>1 DEF Simulates, P!Next
  <2>3. QED
    BY <2>1, <2>2
<1>6. Grows
  BY <1>3 DEF Grows
<1>7. QED
  BY <1>1, <1>2, <1>4, <1>5, <1>6 DEF IInv

LEMMA AddsTextKeeps ==
  ASSUME IInv, NEW p \in Nodes, NEW n \in Nodes, ScriptAddsText(p, n)
  PROVE  IInv' /\ Simulates /\ Grows
<1>1. RestInv'
  BY ScriptRest DEF ScriptAddsText, IInv, RestInv
<1>2. TreeInv'
  BY NewChildKeeps DEF ScriptAddsText, Open, IInv
<1>3. /\ kind[n] = "free" /\ UNCHANGED <<pending, buf, sent, wrote>>
      /\ data' = [data EXCEPT ![n] = <<Script>>]
  BY DEF ScriptAddsText
<1>4. \A m \in Nodes : kind'[m] = IF m = n THEN "text" ELSE kind[m]
  BY DEF ScriptAddsText, IInv, TreeInv, KindsType
<1>5. ~Buffered(n) /\ Whole[n] = << >>
  BY <1>3, PendingIsNode DEF IInv, TextInv, Buffered, Whole
<1>6. TextInv' /\ Whole' = [Whole EXCEPT ![n] = <<Script>>]
  BY <1>3, <1>4, <1>5, WriteShows DEF IInv
<1>7. \A m \in Nodes : Whole'[m] = IF m = n THEN <<Script>> ELSE Whole[m]
  BY <1>6, WholeType DEF IInv
<1>8. P!Build
  <2>1. Whole' = [m \in Nodes |-> IF kind[m] = "free" /\ kind'[m] = "text"
                                  THEN <<P!Script>> ELSE Whole[m]]
    BY <1>3, <1>4, <1>6, <1>7, WholeType DEF P!Script, Script, IInv
  <2>2. QED
    BY <2>1, <1>3, <1>4 DEF P!Build
<1>9. Simulates
  BY <1>8 DEF Simulates, P!Next
<1>10. Grows
  <2>1. \A m \in Nodes, c \in Nat \ {0} : P!Holds(m, c) => P!Holds(m, c)'
    BY <1>5, <1>7 DEF P!Holds
  <2>2. QED
    BY <2>1, <1>3 DEF Grows
<1>11. QED
  BY <1>1, <1>2, <1>6, <1>9, <1>10 DEF IInv

\* Moves and removals leave the text as it is.
LEMMA ScriptPlaces ==
  ASSUME IInv, Scripting, ops' = ops + 1, TreeInv',
         UNCHANGED <<call, kind, text, held, script, sent, wrote>>
  PROVE  IInv' /\ Simulates /\ Grows
<1>1. RestInv'
  BY ScriptRest DEF IInv, RestInv, text
<1>2. SameTexts
  BY DEF SameTexts
<1>3. TextInv' /\ Whole' = Whole
  BY <1>2, TextStays DEF IInv
<1>4. Quiet
  BY <1>3 DEF Quiet
<1>5. QED
  BY <1>1, <1>3, <1>4, QuietMaps DEF IInv

LEMMA ScriptRemovesKeeps ==
  ASSUME IInv, NEW n \in Nodes, ScriptRemoves(n)
  PROVE  IInv' /\ Simulates /\ Grows
<1>1. kind[n] \notin {"free", "root"}
  BY DEF ScriptRemoves, HasParent, IsParent, Members, IInv, TreeInv
<1>2. Root \in Elements
  BY NodesAssumption DEF IInv, TreeInv, Elements
<1>3. TreeInv'
  <2>1. held' \in Helds \union {Free} /\ Hands' = Hands
    BY DEF ScriptRemoves, IInv, TreeInv, Hands
  <2>2. QED
    BY <1>1, <1>2, <2>1, MoveKeeps DEF ScriptRemoves, IInv
<1>4. QED
  BY <1>3, ScriptPlaces DEF ScriptRemoves

LEMMA ScriptMovesKeeps ==
  ASSUME IInv, NEW n \in Nodes, NEW p \in Nodes, ScriptMoves(n, p)
  PROVE  IInv' /\ Simulates /\ Grows
<1>1. kind[n] \notin {"free", "root"} /\ p \in Elements
  BY DEF ScriptMoves, Open, IInv, TreeInv
<1>2. TreeInv'
  <2>1. held' \in Helds \union {Free} /\ Hands' = Hands
    BY DEF ScriptMoves, IInv, TreeInv, Hands
  <2>2. QED
    BY <1>1, <2>1, MoveLastKeeps DEF ScriptMoves, IInv
<1>3. QED
  BY <1>2, ScriptPlaces DEF ScriptMoves

-----------------------------------------------------------------------------
(* Every step, and the theorems. *)

LEMMA CallbackKeeps ==
  ASSUME IInv, NEW n \in Nodes, Callback(n)
  PROVE  IInv' /\ Simulates /\ Grows
<1>1. CASE CreateElement(n) \/ CreateOther(n)
  BY <1>1, CreateKeeps
<1>2. CASE AppendDoctype(n)
  BY <1>2, DoctypeKeeps
<1>3. CASE AppendText(n)
  BY <1>3, AppendTextKeeps
<1>4. CASE AppendNode(n)
  BY <1>4, AppendNodeKeeps
<1>5. CASE AppendBasedOnParentNode(n)
  <2>1. CASE \E p \in Nodes : FosterNode(p, n)
    BY <2>1, FosterNodeKeeps
  <2>2. CASE \E p, m \in Nodes : FosterText(p, n, m)
    BY <2>2, FosterTextKeeps
  <2>3. CASE \E prev \in Elements : AppendNode(prev) \/ AppendText(prev)
    BY <2>3, AppendNodeKeeps, AppendTextKeeps DEF Elements
  <2>4. QED
    BY <1>5, <2>1, <2>2, <2>3 DEF AppendBasedOnParentNode
<1>6. CASE Pop(n)
  BY <1>6, PopKeeps
<1>7. CASE RemoveFromParent(n)
  BY <1>7, RemoveKeeps
<1>8. CASE ReparentChildren(n)
  BY <1>8, ReparentKeeps
<1>9. QED
  BY <1>1, <1>2, <1>3, <1>4, <1>5, <1>6, <1>7, <1>8 DEF Callback

LEMMA ScriptKeeps ==
  ASSUME IInv, NEW n \in Nodes, Scripts(n)
  PROVE  IInv' /\ Simulates /\ Grows
  BY WritesKeeps, AddsTextKeeps, ScriptRemovesKeeps, ScriptMovesKeeps DEF Scripts

LEMMA StutterKeeps ==
  ASSUME IInv, UNCHANGED vars
  PROVE  IInv' /\ Simulates /\ Grows
<1>1. SameTexts
  BY DEF SameTexts, vars, tree
<1>2. TextInv' /\ Whole' = Whole
  BY <1>1, TextStays DEF IInv, vars
<1>3. TreeInv'
  BY TreeStays DEF IInv, vars
<1>4. RestInv'
  BY DEF IInv, RestInv, vars, hist, text, call
<1>5. Quiet
  BY <1>2 DEF Quiet, vars, tree, hist
<1>6. QED
  BY <1>2, <1>3, <1>4, <1>5, QuietMaps DEF IInv

LEMMA StepKeeps ==
  ASSUME IInv, [Next]_vars
  PROVE  IInv' /\ Simulates /\ Grows
<1>1. CASE Next
  BY <1>1, CallingKeeps, ReturnKeeps, CallbackKeeps, ScriptKeeps DEF Next
<1>2. CASE UNCHANGED vars
  BY <1>2, StutterKeeps
<1>3. QED
  BY <1>1, <1>2

LEMMA InitHolds ==
  ASSUME Init
  PROVE  IInv /\ P!Init /\ sent = 0
<1>1. << >> \in Seq(Nat) /\ << >> \in Seq(Nodes) /\ Once(<< >>) /\ Members(<< >>) = {}
  BY DEF Once, Members
<1>2. TextInv
  BY <1>1 DEF Init, TextInv, BufIsPending
<1>3. Single(kids) /\ \A n \in Nodes : Members(kids[n]) = {}
  BY <1>1 DEF Init, Single
<1>4. KindsType /\ \A n \in Nodes : kind[n] = "root" <=> n = Root
  BY DEF Init, KindsType
<1>5. TreeInv
  BY <1>3, <1>4 DEF Init, TreeInv, Hands, Hold, Free
<1>6. RestInv
  <2>1. 0 \in 0..MaxChunks /\ 0 \in 0..MaxOps
    BY BoundsAssumption
  <2>2. QED
    BY <2>1 DEF Init, RestInv
<1>7. P!Init
  BY DEF Init, P!Init, Whole, Buffered
<1>8. QED
  BY <1>2, <1>5, <1>6, <1>7 DEF IInv, Init

\* What IInv says of the named invariants.
LEMMA IInvImplies ==
  ASSUME IInv
  PROVE  TypeOK /\ BufIsPending /\ OnePlace /\ ScriptSeesWhole
<1>1. TypeOK
  BY DEF IInv, TextInv, TreeInv, RestInv, KindsType, Single, TypeOK
<1>2. BufIsPending
  BY DEF IInv, TextInv
<1>3. OnePlace
  <2>1. ASSUME NEW p \in Nodes, NEW q \in Nodes,
               NEW i \in DOMAIN kids[p], NEW j \in DOMAIN kids[q], kids[p][i] = kids[q][j]
        PROVE  p = q /\ i = j
    <3>1. kids[p][i] \in Members(kids[p]) /\ kids[p][i] \in Members(kids[q])
      BY <2>1 DEF Members
    <3>2. p = q
      BY <3>1 DEF IInv, TreeInv, Single
    <3>3. QED
      BY <2>1, <3>2 DEF IInv, TreeInv, Single, Once
  <2>2. ASSUME NEW n \in Nodes, kids[n] # << >> PROVE n \in Elements
    <3>1. kids[n] \in Seq(Nodes) /\ Len(kids[n]) > 0
      BY <2>2 DEF IInv, TreeInv, Single
    <3>2. kids[n][1] \in Members(kids[n]) /\ kids[n][1] \in Nodes
      BY <3>1 DEF Members
    <3>3. QED
      BY <3>2 DEF IInv, TreeInv
  <2>3. ASSUME NEW p \in Nodes, IsParent(p, Root) PROVE FALSE
    <3>1. Root \in Members(kids[p]) /\ Root \in Nodes
      BY <2>3, NodesAssumption DEF IsParent, Members
    <3>2. QED
      BY <3>1 DEF IInv, TreeInv
  <2>4. QED
    BY <2>1, <2>2, <2>3 DEF OnePlace
<1>4. ScriptSeesWhole
  <2>1. pending = None => data = Whole
    BY DEF IInv, TextInv, Whole, Buffered
  <2>2. QED
    BY <2>1 DEF IInv, RestInv, ScriptSeesWhole
<1>5. QED
  BY <1>1, <1>2, <1>3, <1>4

\* The inductive invariant.
LEMMA SpecIInv == Spec => []IInv
<1>1. Init => IInv
  BY InitHolds
<1>2. IInv /\ [Next]_vars => IInv'
  BY StepKeeps
<1>3. QED
  BY <1>1, <1>2, PTL DEF Spec

\* The variables keep their types, and PendingText.text_node is a text node.
THEOREM Types == Spec => []TypeOK
  BY SpecIInv, IInvImplies, PTL

\* No step leaves characters in the buffer that no run owns.
THEOREM BufferIsOwned == Spec => []BufIsPending
  BY SpecIInv, IInvImplies, PTL

\* The callbacks and the scripts between them leave every node one place.
THEOREM NodesHaveOnePlace == Spec => []OnePlace
  BY SpecIInv, IInvImplies, PTL

\* Scripts that run after a callback's work, and readers of the document when
\* the parse is over, find all text in the nodes.
THEOREM ScriptsSeeWhole == Spec => []ScriptSeesWhole
  BY SpecIInv, IInvImplies, PTL

LEMMA SpecSimulates == Spec => P!Spec
<1>1. Init => P!Init
  BY InitHolds
<1>2. IInv /\ [Next]_vars => [P!Next]_(P!vars)
  BY StepKeeps DEF Simulates
<1>3. QED
  BY <1>1, <1>2, SpecIInv, PTL DEF Spec, P!Spec

\* P is ParsedText with what is proved of it, Abstract the module alone.
LEMMA SameModule ==
  /\ P!Init => Abstract!Init
  /\ [P!Next]_(P!vars) => [Abstract!Next]_(Abstract!vars)
  /\ P!ChunksOnce => ChunksOnce
  /\ \A n, c : P!Holds(n, c) <=> Abstract!Holds(n, c)
<1>1. P!Init => Abstract!Init
  BY DEF P!Init, Abstract!Init
<1>2. P!Send => Abstract!Send
  BY DEF P!Send, Abstract!Send, P!Extend, Abstract!Extend, P!Begin, Abstract!Begin,
         P!Foster, Abstract!Foster, P!EndsInText, Abstract!EndsInText,
         P!Inserted, Abstract!Inserted
<1>3. P!Build => Abstract!Build
  BY DEF P!Build, Abstract!Build, P!Script, Abstract!Script
<1>4. \A t : P!Rewrite(t) => Abstract!Rewrite(t)
  BY DEF P!Rewrite, Abstract!Rewrite, P!Script, Abstract!Script
<1>5. [P!Next]_(P!vars) => [Abstract!Next]_(Abstract!vars)
  BY <1>2, <1>3, <1>4 DEF P!Next, Abstract!Next, P!vars, Abstract!vars
<1>6. \A n, c : P!Holds(n, c) <=> Abstract!Holds(n, c)
  BY DEF P!Holds, Abstract!Holds
<1>7. P!ChunksOnce => ChunksOnce
  BY <1>6 DEF ChunksOnce, P!ChunksOnce, Abstract!ChunksOnce, P!Script, Abstract!Script
<1>8. QED
  BY <1>1, <1>5, <1>6, <1>7

\* The parser with its buffer implements the parser without.
THEOREM ParsedTextImplemented == Spec => ImplementsParsedText
  BY SpecSimulates, SameModule, PTL DEF ImplementsParsedText, P!Spec, Abstract!Spec

\* Hence no chunk is doubled, and none passes another in its node.
THEOREM ParsedChunksOnce == Spec => []ChunksOnce
  BY SpecSimulates, P!AbstractChunksOnce, SameModule, PTL

\* And none is lost unless a script wrote over it.
THEOREM ParsedChunksKept == Spec => []ChunksKept
<1> DEFINE Present == ~wrote => \A c \in 1..sent : \E n \in Nodes : P!Holds(n, c)
<1>1. Init => Present
  BY InitHolds
<1>2. ASSUME IInv, Present, [Next]_vars PROVE Present'
  <2>1. Grows /\ sent \in Nat
    BY <1>2, StepKeeps, BoundsAssumption DEF IInv, RestInv
  <2>2. SUFFICES ASSUME ~wrote', NEW c \in 1..(sent') PROVE \E n \in Nodes : P!Holds(n, c)'
    OBVIOUS
  <2>3. ~wrote /\ (sent' = sent \/ sent' = sent + 1)
    BY <2>1, <2>2 DEF Grows
  <2>4. CASE c \in 1..sent
    <3>1. PICK n \in Nodes : P!Holds(n, c)
      BY <2>3, <2>4, <1>2
    <3>2. P!Holds(n, c)'
      BY <3>1, <2>1, <2>2, <2>4 DEF Grows
    <3>3. QED
      BY <3>2
  <2>5. CASE sent' = sent + 1 /\ c = sent'
    <3>1. PICK n \in Nodes : P!Holds(n, sent)'
      BY <2>1, <2>2, <2>5 DEF Grows
    <3>2. QED
      BY <3>1, <2>5 DEF P!Holds
  <2>6. QED
    BY <2>1, <2>3, <2>4, <2>5
<1>3. Present => ChunksKept
  BY SameModule DEF ChunksKept
<1>4. QED
  BY <1>1, <1>2, <1>3, SpecIInv, PTL DEF Spec
=============================================================================
