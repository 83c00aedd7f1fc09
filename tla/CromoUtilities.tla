--------------------------- MODULE CromoUtilities ---------------------------
(***************************************************************************)
(* The SMS text codecs of cromo/utilities.cc, as operators on sequences of *)
(* byte values (0..255): GSM 7-bit packing and unpacking, the mapping      *)
(* between GSM 7-bit septets and UTF-8, and the UTF-8 <-> UCS-2 pair.      *)
(* uint8_t results are truncated with Byte(); the bit operations are those *)
(* of the Bitwise module.                                                  *)
(*                                                                         *)
(* The 128-entry default-alphabet table is abstracted to the entries whose *)
(* codes are in ModelCodes: '@' (0x00), the pound sign (0x01), capital    *)
(* Delta (0x10), the two codes that both map to ' ' (0x1b and 0x20), 'A'   *)
(* and 'e'.  The extension table is complete.                              *)
(***************************************************************************)
EXTENDS Integers, Sequences, SequencesExt, Bitwise

Byte(x) == x % 256
ShiftL8(x, k) == Byte(x * 2 ^ k)       \* (uint8_t)(x << k)

(***************************************************************************)
(* Tables.                                                                 *)
(***************************************************************************)
kEscape == 27    \* 0x1b

\* Gsm7ToUtf8Map, on ModelCodes: code |-> UTF-8 bytes.
Gsm7ToUtf8Map ==
  (0 :> <<64>>) @@ (1 :> <<194, 163>>) @@ (16 :> <<206, 148>>)
    @@ (27 :> <<32>>) @@ (32 :> <<32>>) @@ (65 :> <<65>>) @@ (101 :> <<101>>)
ModelCodes == DOMAIN Gsm7ToUtf8Map

\* ExtGsm7ToUtf8Map: <<code, UTF-8 bytes...>>, in the table's order.
ExtGsm7ToUtf8Map ==
  << <<10, 12>>, <<20, 94>>, <<40, 123>>, <<41, 125>>, <<47, 92>>,
     <<60, 91>>, <<61, 126>>, <<62, 93>>, <<64, 124>>, <<101, 226, 130, 172>> >>

\* The map key of a table entry: its first two bytes, 0 for a missing one.
Utf8Key(bytes) == <<bytes[1], IF Len(bytes) > 1 THEN bytes[2] ELSE 0>>

\* Variant: the first code with a key wins instead of the last one.
Utf8ToGsm7MapFirstWins ==
  [key \in {Utf8Key(Gsm7ToUtf8Map[c]) : c \in ModelCodes} |->
     Min({c \in ModelCodes : Utf8Key(Gsm7ToUtf8Map[c]) = key})]

\* InitializeUtf8ToGsm7Map(): codes 0..127 in order, so a key shared by
\* two codes ends up with the later one.
Utf8ToGsm7Map ==
  [key \in {Utf8Key(Gsm7ToUtf8Map[c]) : c \in ModelCodes} |->
     Max({c \in ModelCodes : Utf8Key(Gsm7ToUtf8Map[c]) = key})]

(***************************************************************************)
(* Gsm7ToUtf8String(): unpacking, then mapping.                            *)
(***************************************************************************)
\* The octet a septet is read from at byte i (0-based), bit_offset bits in.
OctetAt(gsm7, i, off) ==
  IF off = 0 THEN gsm7[i + 1]
  ELSE shiftR(gsm7[i + 1], off)
         | (IF i + 1 < Len(gsm7) THEN ShiftL8(gsm7[i + 2], 8 - off) ELSE 0)

\* The unpack loops: i the octet index, j the inner loop counter, saved the
\* bits carried to the next septet, out the septets written.
RECURSIVE UnpackLoop(_, _, _, _, _, _, _)
UnpackLoop(gsm7, n, off, i, j, saved, out) ==
  IF Len(out) >= n THEN out
  ELSE IF j = 7
    THEN UnpackLoop(gsm7, n, off, i, 0, 0, Append(out, saved))
  ELSE LET octet == OctetAt(gsm7, i, off)
           mask == shiftR(255, j + 1)
           c == Byte(ShiftL8(octet & mask, j) | saved)
       IN  UnpackLoop(gsm7, n, off, i + 1, j + 1,
                      shiftR(octet & (255 - mask), 7 - j), Append(out, c))

Unpack(gsm7, num_septets, bit_offset) ==
  UnpackLoop(gsm7, num_septets, bit_offset, 0, 0, 0, <<>>)

\* The mapping loop: i the loop counter, p the position of cp.  An escape
\* looks up the next septet in the extension table; without a match mp is
\* left on the table's last entry, which is written out whole, and i is not
\* advanced past the escaped septet.  A read of the septet at or beyond the
\* end of the vector is reported as oob.
RECURSIVE MapLoop(_, _, _, _)
MapLoop(sept, i, p, str) ==
  IF i >= Len(sept) THEN [str |-> str, oob |-> FALSE]
  ELSE IF p >= Len(sept) THEN [str |-> str, oob |-> TRUE]
  ELSE IF sept[p + 1] # kEscape
    THEN MapLoop(sept, i + 1, p + 1, str \o Gsm7ToUtf8Map[sept[p + 1]])
  ELSE IF p + 1 >= Len(sept) THEN [str |-> str, oob |-> TRUE]
  ELSE LET k == SelectInSeq(ExtGsm7ToUtf8Map, LAMBDA e : e[1] = sept[p + 2])
       IN  IF k # 0
           THEN MapLoop(sept, i + 2, p + 2, str \o Tail(ExtGsm7ToUtf8Map[k]))
           ELSE MapLoop(sept, i + 1, p + 2,
                        str \o ExtGsm7ToUtf8Map[Len(ExtGsm7ToUtf8Map)])

Gsm7ToUtf8String(gsm7, num_septets, bit_offset) ==
  MapLoop(Unpack(gsm7, num_septets, bit_offset), 0, 0, <<>>)

(***************************************************************************)
(* Utf8StringToGsm7(): mapping, then packing.                              *)
(***************************************************************************)
\* The length of the UTF-8 sequence a byte starts, as the code tells it:
\* anything that is not a one-, two- or three-byte lead counts as one byte.
LeadWidth(b) ==
  CASE b < 128 -> 1
    [] (b & 224) = 192 -> 2
    [] (b & 240) = 224 -> 3
    [] OTHER -> 1

\* The septets for one character: the map, the Euro special case, the
\* extension table (first nine entries) for one-byte characters, or a space.
CharToSeptets(pair, third) ==
  LET ext == SelectSeq(SubSeq(ExtGsm7ToUtf8Map, 1, 9), LAMBDA e : e[2] = pair[1])
      found ==
        IF pair \in DOMAIN Utf8ToGsm7Map THEN <<Utf8ToGsm7Map[pair]>>
        ELSE IF pair = <<226, 130>> /\ third = 172 THEN <<kEscape, 101>>
        ELSE IF pair[2] = 0
             THEN FlattenSeq([x \in 1..Len(ext) |-> <<kEscape, ext[x][1]>>])
        ELSE <<>>
  IN  IF found = <<>> THEN <<32>> ELSE found

\* The mapping loop; input.at(++i) beyond the end throws out_of_range.
RECURSIVE EncodeLoop(_, _, _)
EncodeLoop(in, i, septets) ==
  IF i >= Len(in) THEN [septets |-> septets, thrown |-> FALSE]
  ELSE LET b == in[i + 1]
           w == LeadWidth(b)
       IN  IF i + w > Len(in) THEN [septets |-> septets, thrown |-> TRUE]
           ELSE LET pair == CASE b < 128 -> <<b, 0>>
                              [] w = 1 -> <<0, 0>>
                              [] OTHER -> <<b, in[i + 2]>>
                    third == IF w = 3 THEN in[i + 3] ELSE 255
                IN  EncodeLoop(in, i + w, septets \o CharToSeptets(pair, third))

\* Variant: an octet is written for every septet, shift 7 included.
RECURSIVE PackLoopNoSkip(_, _, _, _)
PackLoopNoSkip(septets, k, shift, octets) ==
  IF k >= Len(septets) THEN octets
  ELSE LET octet == Byte(shiftR(septets[k + 1], shift)
                         | (IF k < Len(septets) - 1
                            THEN ShiftL8(septets[k + 2], 7 - shift) ELSE 0))
       IN  PackLoopNoSkip(septets, k + 1, IF shift + 1 = 8 THEN 0 ELSE shift + 1,
                          Append(octets, octet))

\* The packing loop: septet k fills the octet with its bits shifted right by
\* shift and the low bits of septet k+1; every eighth septet has already
\* been written out completely.
RECURSIVE PackLoop(_, _, _, _)
PackLoop(septets, k, shift, octets) ==
  IF k >= Len(septets) THEN octets
  ELSE LET octet == Byte(shiftR(septets[k + 1], shift)
                         | (IF k < Len(septets) - 1
                            THEN ShiftL8(septets[k + 2], 7 - shift) ELSE 0))
       IN  PackLoop(septets, k + 1, IF shift + 1 = 8 THEN 0 ELSE shift + 1,
                    IF shift # 7 THEN Append(octets, octet) ELSE octets)

\* The octets: the septet count, then the packed septets.
Pack(septets) == PackLoop(septets, 0, 0, <<Byte(Len(septets))>>)

Utf8StringToGsm7(input) ==
  LET enc == EncodeLoop(input, 0, <<>>)
  IN  [octets |-> Pack(enc.septets), thrown |-> enc.thrown]

(***************************************************************************)
(* UCS-2.                                                                  *)
(***************************************************************************)
\* Ucs2ToUtf8String(ucs2, length): num_chars is a uint8_t.
RECURSIVE Ucs2Loop(_, _, _)
Ucs2Loop(ucs2, n, str) ==
  IF n = 0 THEN str
  ELSE LET u == ucs2[1] * 256 + ucs2[2]
           bytes ==
             CASE u <= 127 -> <<ucs2[2]>>
               [] u <= 2047 -> <<192 | shiftR(u & 1984, 6), 128 | (u & 63)>>
               [] OTHER -> <<224 | shiftR(u & 61440, 12),
                             128 | shiftR(u & 4032, 6), 128 | (u & 63)>>
       IN  Ucs2Loop(Tail(Tail(ucs2)), n - 1, str \o bytes)

Ucs2ToUtf8String(ucs2, length) == Ucs2Loop(ucs2, Byte(length \div 2), <<>>)

\* Utf8StringToUcs2(input): two octets per character, after a length octet.
RECURSIVE ToUcs2Loop(_, _, _)
ToUcs2Loop(in, i, octets) ==
  IF i >= Len(in) THEN [octets |-> octets, thrown |-> FALSE]
  ELSE LET c1 == in[i + 1]
           w == LeadWidth(c1)
       IN  IF i + w > Len(in) THEN [octets |-> octets, thrown |-> TRUE]
           ELSE LET c2 == in[i + 2]
                    c3 == in[i + 3]
                    pair ==
                      CASE c1 < 128 -> <<0, c1>>
                        [] w = 2 -> <<shiftR(c1, 2) & 7,
                                      Byte(ShiftL8(c1 & 3, 6) | (c2 & 63))>>
                        [] w = 3 -> <<Byte(ShiftL8(c1 & 15, 4) | shiftR(c2 & 48, 2)),
                                      Byte(ShiftL8(c2 & 3, 6) | (c3 & 63))>>
                        [] OTHER -> <<0, 32>>
                IN  ToUcs2Loop(in, i + w, octets \o pair)

Utf8StringToUcs2(input) ==
  LET r == ToUcs2Loop(input, 0, <<>>)
  IN  [octets |-> <<Byte(Len(r.octets))>> \o r.octets, thrown |-> r.thrown]

(***************************************************************************)
(* ExtractString() and ExtractUint32(): a D-Bus property map is a function *)
(* from keys to [type, value]; reading a value of another type throws the  *)
(* reader's InvalidArgs error for the type asked for.  NoError is an unset *)
(* DBus::Error.                                                            *)
(***************************************************************************)
NoError == <<>>
TypeError(want) == <<"InvalidArgs", want>>

\* Variant: the error is set without checking is_set().
ExtractOverwritesError(properties, key, want, not_found_response, error) ==
  IF key \notin DOMAIN properties
    THEN [value |-> not_found_response, error |-> error]
  ELSE IF properties[key].type = want
    THEN [value |-> properties[key].value, error |-> error]
  ELSE [value |-> not_found_response, error |-> TypeError(want)]

\* Both functions, want being "string" or "uint32": the value for key, or
\* not_found_response; a type error is stored only in an unset error.
Extract(properties, key, want, not_found_response, error) ==
  IF key \notin DOMAIN properties
    THEN [value |-> not_found_response, error |-> error]
  ELSE IF properties[key].type = want
    THEN [value |-> properties[key].value, error |-> error]
  ELSE [value |-> not_found_response,
        error |-> IF error = NoError THEN TypeError(want) ELSE error]

(***************************************************************************)
(* HexEsnToDecimal().                                                      *)
(***************************************************************************)
LowerHex == <<"0", "1", "2", "3", "4", "5", "6", "7", "8", "9",
              "a", "b", "c", "d", "e", "f">>
UpperHex == <<"A", "B", "C", "D", "E", "F">>
IsHex(c) == c \in ToSet(LowerHex) \cup ToSet(UpperHex)
HexValue(c) ==
  IF c \in ToSet(LowerHex) THEN SelectInSeq(LowerHex, LAMBDA x : x = c) - 1
  ELSE SelectInSeq(UpperHex, LAMBDA x : x = c) + 9

\* The number of characters from position i + 1 on that are in the set cs.
Run(str, i, cs) ==
  CHOOSE k \in 0..Len(str) - i :
    /\ \A j \in i + 1..i + k : str[j] \in cs
    /\ i + k = Len(str) \/ str[i + k + 1] \notin cs

RECURSIVE HexNumber(_, _, _)
HexNumber(str, i, n) ==
  IF n = 0 THEN 0 ELSE 16 * HexNumber(str, i, n - 1) + HexValue(str[i + n])

\* A value modulo 2^32, split at bit 24 (TLC's integers have 32 bits):
\* hi holds bits 24-31, lo bits 0-23.
kLoBits == 16777216
\* 2^32 - x, modulo 2^32, on split values.
Negated(x) ==
  IF x.hi = 0 /\ x.lo = 0 THEN x
  ELSE LET m == IF x.lo > 0 THEN x.hi ELSE x.hi - 1       \* x - 1
           l == IF x.lo > 0 THEN x.lo - 1 ELSE kLoBits - 1
       IN  [hi |-> 255 - m, lo |-> kLoBits - 1 - l]

\* strtoul(start, &end, 16) of glibc on a 64-bit build, the result cast to
\* uint32_t: leading white space, a sign, a 0x prefix only if a hex digit
\* follows it, then the hex digits; without digits end is start.  A minus
\* sign negates (modulo 2^64, so modulo 2^32 after the cast).  end is the
\* number of characters consumed.
Strtoul16(str) ==
  LET ws == Run(str, 0, {" ", "\t", "\n", "\f", "\r"})  \* isspace(), less \v
      sign == IF ws < Len(str) /\ str[ws + 1] \in {"+", "-"} THEN 1 ELSE 0
      p == ws + sign
      prefix == IF /\ p + 2 < Len(str) /\ str[p + 1] = "0"
                   /\ str[p + 2] \in {"x", "X"} /\ IsHex(str[p + 3])
                THEN 2 ELSE 0
      q == p + prefix
      n == Run(str, q, ToSet(LowerHex) \cup ToSet(UpperHex))
      lo == IF n <= 6 THEN [hi |-> 0, lo |-> HexNumber(str, q, n)]
            ELSE [hi |-> HexNumber(str, q, n - 6) % 256,
                  lo |-> HexNumber(SubSeq(str, q + n - 5, q + n), 0, 6)]
      v == IF sign = 1 /\ str[ws + 1] = "-" THEN Negated(lo) ELSE lo
  IN  IF n = 0 THEN [hi |-> 0, lo |-> 0, end |-> 0]
      ELSE [hi |-> v.hi, lo |-> v.lo, end |-> q + n]

\* Variant: the serial is masked with 0x000fffff.
EsnFieldsShortMask(esn) == [mfr |-> esn.hi, serial |-> esn.lo % 1048576]

\* uint32_t mfr = (esn >> 24) & 0xff; serial = esn & 0x00ffffff.
EsnFields(esn) == [mfr |-> esn.hi, serial |-> esn.lo]

\* The decimal digits of x, zero-padded to width w ("%0wd").
NumDigits(x) == CHOOSE d \in 1..9 : x < 10 ^ d /\ (d = 1 \/ x >= 10 ^ (d - 1))
Padded(x, w) ==
  LET width == IF NumDigits(x) > w THEN NumDigits(x) ELSE w
  IN  [i \in 1..width |-> (x \div 10 ^ (width - i)) % 10]

\* snprintf(out, "%03d%08d", mfr, serial).
EsnDecimal(f) == Padded(f.mfr, 3) \o Padded(f.serial, 8)

\* The checks after strtoul() and snprintf(): at most eight characters, all
\* consumed, and an 11-character result.
EsnResult(esn_hex, end, decimal) ==
  IF Len(esn_hex) > 8 \/ end # Len(esn_hex) \/ Len(decimal) # 11
    THEN [ok |-> FALSE, out |-> <<>>]
    ELSE [ok |-> TRUE, out |-> decimal]

\* HexEsnToDecimal(esn_hex, out).  errno stays 0: eight hex digits cannot
\* overflow.
HexEsnToDecimal(esn_hex) ==
  LET r == Strtoul16(esn_hex)
  IN  EsnResult(esn_hex, r.end, EsnDecimal(EsnFields(r)))
=============================================================================
