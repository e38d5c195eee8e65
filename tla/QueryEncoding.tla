--------------------------- MODULE QueryEncoding ---------------------------
(***************************************************************************)
(* Encoding a query or a form value for a page in a single-byte encoding:  *)
(* encoding_encode_with_ncr of html5ever/lib.rs and the buffers its two    *)
(* callers give it. A text is a sequence of characters, each known by the  *)
(* bytes it takes: "ascii", "mapped" and, without a byte in the encoding,  *)
(* "two", "three" and "four", which become &#1234; and the like.           *)
(***************************************************************************)
EXTENDS Naturals, Sequences, SequencesExt

CONSTANT MaxText   \* characters of a text (bound)

ASSUME TextAssumption == MaxText \in Nat

VARIABLE sent   \* the text encoded last: its use, the buffer, the result

Bytes8 == [ascii |-> 1, mapped |-> 2, two |-> 2, three |-> 3, four |-> 4]
Encoded == [ascii |-> 1, mapped |-> 1, two |-> 7, three |-> 8, four |-> 10]
Unmappable == {"two", "three", "four"}
Texts == SeqOf(DOMAIN Bytes8, MaxText)

Total(f, text) == FoldLeft(LAMBDA n, c : n + f[c], 0, text)

\* encoding_rs keeps this much of the output for one reference.
NcrExtra == 10

\* Encoder.encode_from_utf8: a character that is mapped needs space in front of
\* that rest; after a reference that reaches into it, only the end is in order.
EncodeChar(r, c) ==
  IF r.full THEN r
  ELSE IF c \notin Unmappable
  THEN IF r.written + 1 > r.room THEN [r EXCEPT !.full = TRUE]
       ELSE [r EXCEPT !.read = @ + Bytes8[c], !.written = @ + 1]
  ELSE LET w == r.written + Encoded[c]
       IN  [r EXCEPT !.read = @ + Bytes8[c], !.written = w,
                     !.full = w >= r.room /\ r.read + Bytes8[c] < r.length]

EncodeFromUtf8(text, capacity) ==
  IF capacity < NcrExtra
  THEN [read |-> 0, written |-> 0, full |-> text # << >>]
  ELSE FoldLeft(EncodeChar,
                [read |-> 0, written |-> 0, full |-> FALSE,
                 room |-> capacity - NcrExtra, length |-> Total(Bytes8, text)], text)

\* encoding_encode_with_ncr: status 0 for success.
EncodeWithNcr(text, capacity) ==
  LET r == EncodeFromUtf8(text, capacity)
  IN  [status |-> IF r.full THEN 1 ELSE 0, read |-> r.read, written |-> r.written]

\* encoding_max_encode_buffer_length.
MaxEncodeBufferLength(n) == (n + NcrExtra) * 2

\* The buffers of encodeQueryString in URL.zig and urlEncodeValue in
\* KeyValueList.zig.
QueryBuffer(text) == MaxEncodeBufferLength(Total(Bytes8, text))
\* Mutant: no more than for a query.
FaultFormBuffer(text) == QueryBuffer(text)
FormBuffer(text) == QueryBuffer(text) * 4

\* The result, and what goes out: a text that does not fit goes out in UTF-8.
Sends(use, text, capacity) ==
  LET r == EncodeWithNcr(text, capacity)
  IN  sent' = [use |-> use, text |-> text, capacity |-> capacity, written |-> r.written,
               charset |-> IF r.status = 0 THEN "page" ELSE "UTF-8"]

QueryInit == sent = [use |-> "none"]
EncodeQuery(text) == Sends("query", text, QueryBuffer(text))
EncodeForm(text) == Sends("form", text, FormBuffer(text))
QueryNext == \E text \in Texts : EncodeQuery(text) \/ EncodeForm(text)
-----------------------------------------------------------------------------
\* What goes out in the encoding of the page is the whole text, and no reference
\* is written behind the end of the buffer, also when it is found too small. The
\* four-fold buffer of a form value is always enough: it is never found so.
SentIsWhole ==
  sent.use # "none" =>
    /\ sent.charset = "page" => sent.written = Total(Encoded, sent.text)
    /\ sent.written <= sent.capacity
    /\ sent.use = "form" => sent.charset = "page"
=============================================================================
