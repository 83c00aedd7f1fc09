-------------------------- MODULE MCCromoUtilities --------------------------
(***************************************************************************)
(* The received-message decoder and the UCS-2 pair of CromoUtilities over *)
(* every bounded input of a kind: the variable input holds one input and  *)
(* never changes, so TLC evaluates the properties once per input.          *)
(***************************************************************************)
EXTENDS CromoUtilities

VARIABLE input

\* Septets a received message may carry: escapes, known and unknown
\* escaped codes, ordinary codes.
ReceivedSeptets == BoundedSeq({kEscape, 0, 65, 101}, 3)

\* Characters of the Basic Multilingual Plane: one, two and three UTF-8 bytes.
BmpChars == { <<65>>, <<195, 169>>, <<226, 130, 172>>, <<224, 168, 133>> }
BmpTexts == {FlattenSeq(s) : s \in BoundedSeq(BmpChars, 2)}

ReceivedInit == input \in ReceivedSeptets
Ucs2Init == input \in BmpTexts
Same == UNCHANGED input
ReceivedSpec == ReceivedInit /\ [][Same]_input
Ucs2Spec == Ucs2Init /\ [][Same]_input

\* Gsm7ToUtf8String() never reads outside the septets it unpacked, for any
\* septets a message carries (the unpacking takes care not to read beyond
\* the octets, :163-166).
DecodeInBounds ==
  ~MapLoop(input, 0, 0, <<>>).oob

\* Utf8StringToUcs2() then Ucs2ToUtf8String() gives back any text of the
\* Basic Multilingual Plane (":338: only characters not representable in
\* UCS-2 become a space).
Ucs2RoundTrip ==
  LET enc == Utf8StringToUcs2(input)
  IN  Ucs2ToUtf8String(Tail(enc.octets), enc.octets[1]) = input
=============================================================================
