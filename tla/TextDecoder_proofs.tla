------------------------- MODULE TextDecoder_proofs -------------------------
(* TextDecoder: it owns its Rust decoder, for streams of any length.         *)
EXTENDS TextDecoder, TLAPS

IInv == TypeOK /\ OwnsDecoder

\* Making and freeing decoders keep the invariant; zero, which is null, is no
\* handle.
LEMMA NullIsNoHandle == 0 \notin Handles
  BY DEF Handles

LEMMA UnbornChosen ==
  ASSUME Unborn # {}
  PROVE  (CHOOSE h \in Unborn : TRUE) \in Handles /\ heap[CHOOSE h \in Unborn : TRUE] = "unborn"
  BY DEF Unborn

LEMMA NewDecoderKeeps ==
  ASSUME IInv, object = "live", NewDecoder, UNCHANGED object
  PROVE  IInv'
  BY NullIsNoHandle, UnbornChosen DEF IInv, TypeOK, OwnsDecoder, NewDecoder

LEMMA FreeDecoderKeeps ==
  ASSUME IInv, object = "live", UNCHANGED object, NEW h \in Handles, FreeDecoder(h),
         decoder \in {0, h}
  PROVE  IInv'
  BY NullIsNoHandle DEF IInv, TypeOK, OwnsDecoder, FreeDecoder

LEMMA SameKeeps ==
  ASSUME IInv, UNCHANGED <<object, decoder, heap>>
  PROVE  IInv'
  BY DEF IInv, TypeOK, OwnsDecoder

LEMMA StepKeeps == IInv /\ [Next]_vars => IInv'
<1> SUFFICES ASSUME IInv, [Next]_vars PROVE IInv'
  OBVIOUS
<1>1. CASE DecodeNothing
  BY <1>1, NewDecoderKeeps DEF DecodeNothing
<1>2. CASE Deinit
  BY <1>2, NullIsNoHandle DEF Deinit, IInv, TypeOK, OwnsDecoder
<1>3. ASSUME NEW input \in Inputs, DecodeFirst(input) PROVE IInv'
  <2> DEFINE r == Decoded(New, input, FALSE)
  <2>1. CASE Fails(r)
    BY <1>3, <2>1, UnbornChosen, FreeDecoderKeeps DEF DecodeFirst
  <2>2. CASE ~Fails(r)
    BY <1>3, <2>2, NewDecoderKeeps DEF DecodeFirst
  <2> QED BY <2>1, <2>2
<1>4. ASSUME NEW input \in Inputs, DecodeMore(input) PROVE IInv'
  <2> DEFINE r == Decoded(held, input, FALSE)
  <2>0. decoder \in Handles /\ object = "live" /\ UNCHANGED object
    BY <1>4 DEF DecodeMore, IInv, TypeOK
  <2>1. CASE Fails(r)
    BY <1>4, <2>0, <2>1, FreeDecoderKeeps DEF DecodeMore
  <2>2. CASE ~Fails(r)
    BY <1>4, <2>2, SameKeeps DEF DecodeMore
  <2> QED BY <2>1, <2>2
<1>5. ASSUME NEW input \in Inputs, DecodeLast(input) PROVE IInv'
  <2>0. decoder \in Handles /\ object = "live" /\ UNCHANGED object
    BY <1>5 DEF DecodeLast, IInv, TypeOK
  <2> QED BY <1>5, <2>0, FreeDecoderKeeps DEF DecodeLast
<1>6. ASSUME NEW input \in Inputs, DecodeAll(input) PROVE IInv'
  BY <1>6, SameKeeps DEF DecodeAll
<1>7. CASE UNCHANGED vars
  BY <1>7, SameKeeps DEF vars
<1> QED BY <1>1, <1>2, <1>3, <1>4, <1>5, <1>6, <1>7 DEF Next

LEMMA InitHolds == Init => IInv
  BY NullIsNoHandle DEF Init, IInv, TypeOK, OwnsDecoder

\* The object, its decoder and what Rust allocated keep their types.
THEOREM TypesKept == Spec => []TypeOK
<1>1. IInv => TypeOK
  BY DEF IInv
<1> QED BY InitHolds, StepKeeps, <1>1, PTL DEF Spec

\* Whatever it decodes, in streams of any length, ended by a last call, an error
\* or the end of the object, the TextDecoder owns the one Decoder that is
\* allocated (TextDecoder.zig:78, 115, 180).
THEOREM DecoderIsOwned == Spec => []OwnsDecoder
<1>1. IInv => OwnsDecoder
  BY DEF IInv
<1> QED BY InitHolds, StepKeeps, <1>1, PTL DEF Spec
=============================================================================
