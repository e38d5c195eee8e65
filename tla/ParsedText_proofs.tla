-------------------------- MODULE ParsedText_proofs --------------------------
(***************************************************************************)
(* Chunks stay single and in order in every behaviour of ParsedText.  The  *)
(* inductive invariant adds that no text holds a chunk not sent yet, which *)
(* is why a new chunk may go behind any others.                            *)
(***************************************************************************)
EXTENDS ParsedText, TLAPS

Typed == text \in [Nodes -> Seq(Nat)] /\ sent \in Nat

Bounded == \A n \in Nodes : \A i \in DOMAIN text[n] : text[n][i] <= sent

TextInv == Typed /\ Bounded /\ ChunksOnce

\* A step that puts the next chunk at the end of one text, or makes it a
\* text's only one, keeps the invariant.
LEMMA SendKeeps ==
  ASSUME TextInv, NEW t, NEW s \in Seq(Nat),
         s = << >> \/ (t \in Nodes /\ s = text[t]),
         sent' = sent + 1,
         text' = [text EXCEPT ![t] = Append(s, sent + 1)]
  PROVE  TextInv'
<1>1. /\ Append(s, sent + 1) \in Seq(Nat)
      /\ DOMAIN Append(s, sent + 1) = 1..(Len(s) + 1)
      /\ \A i \in 1..Len(s) : Append(s, sent + 1)[i] = s[i]
      /\ Append(s, sent + 1)[Len(s) + 1] = sent + 1
  BY DEF TextInv, Typed
<1>2. \A n \in Nodes : text'[n] = IF n = t THEN Append(s, sent + 1) ELSE text[n]
  BY DEF TextInv, Typed
<1>3. \A i \in 1..Len(s) : s[i] \in Nat /\ s[i] <= sent
  BY DEF TextInv, Typed, Bounded
<1>4. Typed'
  <2>1. ASSUME NEW new \in Seq(Nat), text' = [text EXCEPT ![t] = new]
        PROVE  text' \in [Nodes -> Seq(Nat)]
    BY <2>1 DEF TextInv, Typed
  <2>2. text' \in [Nodes -> Seq(Nat)]
    BY <1>1, <2>1
  <2>3. QED
    BY <2>2 DEF TextInv, Typed
<1>5. Bounded'
  BY <1>1, <1>2, <1>3 DEF TextInv, Typed, Bounded
<1>6. ASSUME NEW n \in Nodes, NEW i \in DOMAIN text'[n], NEW j \in DOMAIN text'[n],
             i < j, text'[n][i] # Script
      PROVE  text'[n][i] < text'[n][j]
  <2>1. CASE n = t
    BY <2>1, <1>1, <1>2, <1>3, <1>6 DEF TextInv, Typed, ChunksOnce
  <2>2. CASE n # t
    BY <2>2, <1>2, <1>6 DEF TextInv, ChunksOnce
  <2>3. QED
    BY <2>1, <2>2
<1>7. ASSUME NEW n \in Nodes, NEW c \in 1..sent', Holds(n, c)'
      PROVE  IF c = sent + 1 THEN n = t ELSE c \in 1..sent /\ Holds(n, c)
  BY <1>1, <1>2, <1>3, <1>7 DEF TextInv, Typed, Bounded, Holds
<1>8. ASSUME NEW m \in Nodes, NEW n \in Nodes, NEW c \in 1..sent',
             Holds(m, c)', Holds(n, c)'
      PROVE  m = n
  BY <1>7, <1>8 DEF TextInv, ChunksOnce
<1>9. QED
  BY <1>4, <1>5, <1>6, <1>8 DEF TextInv, ChunksOnce

\* So does one that leaves each text as it is or makes it a script's.
LEMMA ScriptKeeps ==
  ASSUME TextInv, UNCHANGED sent,
         text' \in [Nodes -> Seq(Nat)],
         \A n \in Nodes : text'[n] = text[n] \/ text'[n] = <<Script>>
  PROVE  TextInv'
<1>1. Typed'
  BY DEF TextInv, Typed
<1> DEFINE own == <<Script>>
<1>0. DOMAIN own = {1} /\ own[1] = 0
  BY DEF Script
<1>2. Bounded'
  <2>1. ASSUME NEW n \in Nodes, NEW i \in DOMAIN text'[n] PROVE text'[n][i] <= sent
    <3>1. CASE text'[n] = text[n]
      BY <3>1 DEF TextInv, Bounded
    <3>2. CASE text'[n] = own
      BY <3>2, <1>0, <2>1 DEF TextInv, Typed
    <3>3. QED
      BY <3>1, <3>2
  <2>2. QED
    BY <2>1 DEF Bounded
<1>3. \A n \in Nodes : \A i, j \in DOMAIN text'[n] :
        i < j /\ text'[n][i] # Script => text'[n][i] < text'[n][j]
  BY <1>0 DEF TextInv, ChunksOnce
<1>4. ASSUME NEW n \in Nodes, NEW c \in 1..sent', Holds(n, c)'
      PROVE  Holds(n, c)
  <2>1. text'[n] # own
    BY <1>0, <1>4 DEF TextInv, Typed, Holds
  <2>2. QED
    BY <2>1, <1>4 DEF Holds
<1>5. QED
  BY <1>1, <1>2, <1>3, <1>4 DEF TextInv, ChunksOnce

LEMMA StepKeeps == TextInv /\ [Next]_vars => TextInv'
<1> SUFFICES ASSUME TextInv, [Next]_vars PROVE TextInv'
  OBVIOUS
<1>1. CASE Send
  <2>1. PICK p \in Nodes : Extend(p) \/ Begin(p) \/ Foster(p)
    BY <1>1 DEF Send
  <2>2. sent' = sent + 1
    BY <1>1 DEF Send
  <2>3. CASE Extend(p)
    <3> DEFINE t == kids[p][Len(kids[p])]
    <3>1. text' = [text EXCEPT ![t] = Append(@, sent + 1)]
      BY <2>2, <2>3 DEF Extend
    <3>2. CASE t \in Nodes
      BY <3>1, <3>2, <2>2, SendKeeps DEF TextInv, Typed
    <3>3. CASE t \notin Nodes
      <4>1. text' = [text EXCEPT ![t] = Append(<< >>, sent + 1)]
        BY <3>1, <3>3 DEF TextInv, Typed
      <4>2. QED
        BY <4>1, <2>2, SendKeeps, << >> \in Seq(Nat)
    <3>4. QED
      BY <3>2, <3>3
  <2>4. CASE Begin(p) \/ Foster(p)
    <3>1. PICK n \in Nodes : text' = [text EXCEPT ![n] = <<sent + 1>>]
      BY <2>2, <2>4 DEF Begin, Foster
    <3>2. <<sent + 1>> = Append(<< >>, sent + 1)
      OBVIOUS
    <3>3. QED
      BY <3>1, <3>2, <2>2, SendKeeps, << >> \in Seq(Nat)
  <2>5. QED
    BY <2>1, <2>3, <2>4
<1>2. CASE Build
  BY <1>2, ScriptKeeps DEF Build, TextInv, Typed, Script
<1>3. CASE \E t \in Nodes : Rewrite(t)
  BY <1>3, ScriptKeeps DEF Rewrite, TextInv, Typed, Script
<1>4. CASE UNCHANGED vars
  BY <1>4 DEF vars, TextInv, Typed, Bounded, ChunksOnce, Holds
<1>5. QED
  BY <1>1, <1>2, <1>3, <1>4 DEF Next

\* In every behaviour of ParsedText a chunk is in one text at most, and the
\* chunks of a text are in the order they were sent.
THEOREM AbstractChunksOnce == Spec => []ChunksOnce
<1>1. Init => TextInv
  <2> SUFFICES ASSUME Init PROVE TextInv
    OBVIOUS
  <2>1. text \in [Nodes -> Seq(Nat)] /\ \A n \in Nodes : DOMAIN text[n] = {}
    BY DEF Init
  <2>2. QED
    BY <2>1 DEF Init, TextInv, Typed, Bounded, ChunksOnce, Holds
<1>2. TextInv => ChunksOnce
  BY DEF TextInv
<1>3. QED
  BY <1>1, <1>2, StepKeeps, PTL DEF Spec
=============================================================================
