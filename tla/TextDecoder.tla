---------------------------- MODULE TextDecoder ----------------------------
(***************************************************************************)
(* One TextDecoder object of a page, decoding UTF-8, and the functions of  *)
(* html5ever/lib.rs it calls for encoding_rs. Bytes are of four sorts: "a" *)
(* is ASCII, "E" starts a character of three bytes, "B" and "F" continue   *)
(* it; "E", "B", "F" is the byte order mark. What is decoded is a sequence *)
(* of "a", "x" for a character of three bytes, "bom" and "rep", the        *)
(* replacement of what is malformed.                                       *)
(***************************************************************************)
EXTENDS Naturals, Sequences, SequencesExt, FiniteSets

CONSTANTS
  MaxInput,     \* bytes of one call (bound)
  MaxFed,       \* bytes of one stream (bound)
  MaxDecoders   \* streaming decoders made (bound)

ASSUME BoundsAssumption == {MaxInput, MaxFed, MaxDecoders} \subseteq Nat

VARIABLES
  object,     \* "live", or "gone" once nothing refers to it
  fatal,      \* _fatal
  ignoreBOM,  \* _ignore_bom
  bomSeen,    \* _bom_seen
  decoder,    \* _decoder: a handle, or 0 for null
  heap,       \* what became of each Decoder Rust allocated
  held,       \* the state of the one at decoder
  \* history
  fed,        \* bytes of the stream, or of the last one
  out,        \* what decode returned for them
  ended       \* they are the last one's

options == <<fatal, ignoreBOM>>
stream == <<fed, out, ended>>
vars == <<object, options, bomSeen, decoder, heap, held, stream>>

Bytes == {"a", "E", "B", "F"}
Inputs == SeqOf(Bytes, MaxInput)
Handles == 1..MaxDecoders
-----------------------------------------------------------------------------
(* encoding_rs: a decoder is what it holds back of a character, and whether *)
(* it may still meet the mark it drops itself.                              *)

New == [part |-> << >>, start |-> TRUE]
Width(c) == IF c = "a" THEN 1 ELSE 3
Widths(s) == FoldLeft(LAMBDA n, c : n + Width(c), 0, s)

\* The characters a byte completes, behind the bytes held back, and what is held
\* back then.
Completes(part, b) ==
  LET cont == b \in {"B", "F"}
      rep == IF part = << >> THEN << >> ELSE <<"rep">>
  IN  IF part # << >> /\ cont
      THEN IF Len(part) = 1 THEN [chars |-> << >>, part |-> Append(part, b)]
           ELSE [chars |-> <<IF Append(part, b) = <<"E", "B", "F">> THEN "bom" ELSE "x">>,
                 part |-> << >>]
      ELSE IF b = "E" THEN [chars |-> rep, part |-> <<"E">>]
      ELSE [chars |-> Append(rep, IF cont THEN "rep" ELSE "a"), part |-> << >>]

\* Nothing is decoded once the output is full.
Emit(r, d, chars) ==
  LET mark == d.start /\ chars = <<"bom">>
      new  == IF mark THEN << >> ELSE chars
  IN  IF r.full \/ Widths(r.chars \o new) > r.room
      THEN [r EXCEPT !.full = TRUE]
      ELSE [r EXCEPT !.chars = @ \o new,
                     !.decoder = [d EXCEPT !.start = @ /\ chars = << >>]]

DecodeByte(r, b) ==
  LET c == Completes(r.decoder.part, b)
  IN  Emit(r, [r.decoder EXCEPT !.part = c.part], c.chars)

\* Decoder.decode_to_utf8 with room for so many bytes.
DecodeToUtf8(d, input, room, last) ==
  LET r == FoldLeft(DecodeByte,
                    [decoder |-> d, chars |-> << >>, full |-> FALSE, room |-> room], input)
      end == Emit(r, [r.decoder EXCEPT !.part = << >>],
                  IF r.decoder.part = << >> THEN << >> ELSE <<"rep">>)
  IN  IF last THEN end ELSE r

HadErrors(r) == "rep" \in Range(r.chars)
-----------------------------------------------------------------------------
(* lib.rs and TextDecoder.zig. *)

\* encoding_max_utf8_buffer_length, of a decoder made for the question.
\* Mutant: room for the input only.
FaultMaxUtf8BufferLength(n) == 3 * n
MaxUtf8BufferLength(n) == 3 * n + 3

StripBom(s) == IF s # << >> /\ Head(s) = "bom" THEN Tail(s) ELSE s

\* _decode: decodes, and in fatal mode fails if anything is malformed.
Decoded(d, input, last) ==
  DecodeToUtf8(d, input, MaxUtf8BufferLength(IF input = << >> THEN 4 ELSE Len(input)), last)

Fails(r) == fatal /\ HadErrors(r)

\* The mark is looked for in the first result only.
Returned(r) == IF bomSeen \/ ignoreBOM THEN r.chars ELSE StripBom(r.chars)
SeesBom(r) == bomSeen' = (~Fails(r) /\ (bomSeen \/ ~ignoreBOM))

Init ==
  /\ object = "live" /\ fatal \in BOOLEAN /\ ignoreBOM \in BOOLEAN
  /\ bomSeen = FALSE /\ decoder = 0
  /\ heap = [h \in Handles |-> "unborn"] /\ held = New
  /\ fed = << >> /\ out = << >> /\ ended = TRUE

Unborn == {h \in Handles : heap[h] = "unborn"}
Before == IF ended THEN << >> ELSE fed
Room(input) == Len(Before) + Len(input) <= MaxFed

\* A stream goes on with what it returned, or fails and is forgotten.
Continues(r, input, last) ==
  IF Fails(r) THEN fed' = << >> /\ out' = << >> /\ ended' = TRUE
  ELSE /\ fed' = Before \o input
       /\ out' = (IF ended THEN << >> ELSE out) \o Returned(r)
       /\ ended' = last

\* decode with {stream: true}: the decoder is made if there is none.
NewDecoder ==
  /\ decoder = 0 /\ Unborn # {}
  /\ decoder' = CHOOSE h \in Unborn : TRUE
  /\ heap' = [heap EXCEPT ![decoder'] = "open"]

DecodeNothing ==
  /\ object = "live"
  /\ NewDecoder /\ held' = New
  /\ fed' = << >> /\ out' = << >> /\ ended' = FALSE
  /\ UNCHANGED <<object, options, bomSeen>>

\* Mutant: an error frees the decoder, but the object keeps it.
FaultFreeDecoder(h) == heap' = [heap EXCEPT ![h] = "freed"] /\ UNCHANGED decoder
FreeDecoder(h) == heap' = [heap EXCEPT ![h] = "freed"] /\ decoder' = 0

\* The first call of a stream that has an input.
DecodeFirst(input) ==
  LET r == Decoded(New, input, FALSE)
  IN  /\ object = "live" /\ decoder = 0 /\ Unborn # {} /\ input # << >> /\ Room(input)
      /\ IF Fails(r) THEN FreeDecoder(CHOOSE h \in Unborn : TRUE) ELSE NewDecoder
      /\ held' = r.decoder
      /\ SeesBom(r) /\ Continues(r, input, FALSE)
      /\ UNCHANGED <<object, options>>

DecodeMore(input) ==
  LET r == Decoded(held, input, FALSE)
  IN  /\ object = "live" /\ decoder # 0 /\ input # << >> /\ Room(input)
      /\ IF Fails(r) THEN FreeDecoder(decoder) ELSE UNCHANGED <<heap, decoder>>
      /\ held' = r.decoder
      /\ SeesBom(r) /\ Continues(r, input, FALSE)
      /\ UNCHANGED <<object, options>>

\* decode without {stream: true} ends the stream, or decodes at once if there is
\* none. Either way an error and a result leave no decoder.
DecodeLast(input) ==
  LET r == Decoded(held, input, TRUE)
  IN  /\ object = "live" /\ decoder # 0 /\ Room(input)
      /\ FreeDecoder(decoder) /\ held' = New
      /\ SeesBom(r) /\ Continues(r, input, TRUE)
      /\ UNCHANGED <<object, options>>

DecodeAll(input) ==
  LET r == Decoded(New, input, TRUE)
  IN  /\ object = "live" /\ decoder = 0 /\ Room(input)
      /\ SeesBom(r) /\ Continues(r, input, TRUE)
      /\ UNCHANGED <<object, options, decoder, heap, held>>

\* The last reference goes, also in the middle of a stream.
Deinit ==
  /\ object = "live"
  /\ object' = "gone"
  /\ heap' = IF decoder = 0 THEN heap ELSE [heap EXCEPT ![decoder] = "freed"]
  /\ UNCHANGED <<options, bomSeen, decoder, held, stream>>

Next ==
  \/ DecodeNothing \/ Deinit
  \/ \E input \in Inputs :
       DecodeFirst(input) \/ DecodeMore(input) \/ DecodeLast(input) \/ DecodeAll(input)

Spec == Init /\ [][Next]_vars
-----------------------------------------------------------------------------
\* The object and its decoder have their types.
TypeOK ==
  /\ object \in {"live", "gone"}
  /\ decoder \in Handles \union {0}
  /\ heap \in [Handles -> {"unborn", "open", "freed"}]

\* The one Decoder that is allocated is the object's, as long as it lives: none
\* is used after it was freed, freed twice or left behind, whichever call fails.
OwnsDecoder ==
  \A h \in Handles : heap[h] = "open" <=> object = "live" /\ decoder = h

\* However its bytes are cut into calls, and whatever the object decoded or
\* failed at before, a stream decodes to what its bytes are as a whole: the
\* buffer was never too small, and no bytes held back were lost. A byte order
\* mark at its start may be missing.
StreamedLikeWhole ==
  LET whole == DecodeToUtf8(New, fed, 3 * Len(fed) + 3, ended).chars
  IN  out = whole \/ <<"bom">> \o out = whole
=============================================================================
