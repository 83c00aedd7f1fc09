---------------------------- MODULE MCOperators ----------------------------
(***************************************************************************)
(* The pure algorithms against their references, over every bounded input *)
(* of each kind: GSM 7-bit packing and text conversion (CromoUtilities),   *)
(* ParseMachineInfo() (ServerBackedStateKeyGenerator), ReadElfBuildId()  *)
(* (QuipperDso), ReadPipeToString(), and authpolicy_parser's        *)
(* ParseGpoList() and ParseTgtLifetime() (AuthpolicyParser), and        *)
(* delta_generator's Main() (DeltaGeneratorMain).  The variable input    *)
(* holds <<kind, data>> and never                                         *)
(* changes, so TLC evaluates the properties once per input; the generator's *)
(* own variables stay at Init.                                            *)
(***************************************************************************)
EXTENDS ServerBackedStateKeyGenerator, CromoUtilities, ReadPipeToString,
        QuipperDso, AuthpolicyParser

VARIABLE input

DG == INSTANCE DeltaGeneratorMain
MET == INSTANCE MetricsClient

(***************************************************************************)
(* Inputs                                                                  *)
(***************************************************************************)
\* Septet strings up to two octet boundaries long, over values whose bits
\* are all clear, alternate, and all set.
SeptetStrings == BoundedSeq({0, 85, 127}, 9)

\* Characters, as UTF-8: ones in the (modelled) default alphabet, among
\* them ' ' and 'e'; ones of the extension table, the Euro sign among them;
\* and ones GSM 7-bit lacks (a two-byte and a three-byte one).
Chars ==
  { <<64>>, <<32>>, <<65>>, <<101>>, <<194, 163>>, <<206, 148>>,
    <<94>>, <<12>>, <<226, 130, 172>>, <<196, 129>>, <<224, 168, 133>> }
\* A text is given as its characters; the converters see FlattenSeq of it.
Texts == BoundedSeq(Chars, 3)

\* Key-value pair lists of up to MaxPairs pairs (as
\* base::SplitStringIntoKeyValuePairs() returns them), over a small alphabet
\* that includes both trimmed characters.
MaxPairs == 3
Alphabet == {"a", " ", "\""}
Names == BoundedSeq(Alphabet, 2)
PairValues == {<<"b">>, <<"c">>, <<"\"", "b">>}
PairLists == BoundedSeq(Names \X PairValues, MaxPairs)

\* ESN strings: up to three characters over digits, a space, a sign, the
\* 0x prefix and a non-hex letter; and seven to nine hex digits, so that the
\* length limit, a non-zero manufacturer code and a full serial are met.
EsnChars == {"0", "1", "f", "F", " ", "-", "x", "g"}
EsnStrings == BoundedSeq(EsnChars, 3)
                \cup UNION {[1..n -> {"1", "f"}] : n \in 7..9}

\* D-Bus property maps over two keys, each absent, a string or a uint32, and
\* up to three extractions with one DBus::Error.
PropKeys == {"k1", "k2"}
PropValues == {[type |-> "string", value |-> "s"], [type |-> "uint32", value |-> 7]}
PropMaps == UNION {[ks -> PropValues] : ks \in SUBSET PropKeys}
Calls == BoundedSeq(PropKeys \X {"string", "uint32"}, 3)

\* ELF files of up to three sections, named by each preference, by another
\* name or unreadably, holding no note, the build-id note, another note
\* before it, or a build-id note with the wrong name; each build id names
\* its section.  elf_getdata() may fail on the chosen section of a file
\* whose section names are readable.  Files open()/elf_begin() reject or
\* that are not ELF objects have no sections.
SectionNames == ToSet(kNoteSectionNames) \cup {".text", Unreadable}
NoteLists ==
  { <<>>, <<[type |-> NT_GNU_BUILD_ID, name |-> ELF_NOTE_GNU]>>,
    <<[type |-> 1, name |-> ELF_NOTE_GNU],
      [type |-> NT_GNU_BUILD_ID, name |-> ELF_NOTE_GNU]>>,
    <<[type |-> NT_GNU_BUILD_ID, name |-> "GNUX"]>> }
WithDescs(notes, i) == [k \in 1..Len(notes) |-> notes[k] @@ [desc |-> i]]
SectionLists ==
  { [i \in 1..Len(s) |-> [name |-> s[i][1], notes |-> WithDescs(s[i][2], i)]] :
      s \in BoundedSeq(SectionNames \X NoteLists, 3) }
ElfFiles ==
  [kind : {"elf"}, strtab : BOOLEAN, getdata : {TRUE}, sections : SectionLists]
    \cup [kind : {"elf"}, strtab : {TRUE}, getdata : {FALSE}, sections : SectionLists]
    \cup [kind : {"unreadable", "not_elf"}, strtab : {TRUE}, getdata : {TRUE},
          sections : {<<>>}]

\* Lines of net ads gpo list.  Two entries, each with any subset of its
\* key lines in net's order (a name, a filesyspath that splits or one that
\* does not, version_user and version_machine 1, options 0 or 1, the user
\* disabled bit), with or without a separator after each; up to four lines
\* in any order over the same lines and the separator; up to three lines
\* over every kind: skipped lines, versions 0 and bad, every flags value
\* and bad flags.
GoodPath == <<"\\", "\\", "a", "\\", "a", "/", "a">>
BadPath == <<"a">>
Line(k, v) == [kind |-> k, value |-> v]
TextLine(k, s) == [kind |-> k, text |-> s]
Separator == [kind |-> "separator"]
LongLines ==
  {Separator, TextLine("name", <<"n">>), TextLine("filesyspath", GoodPath),
   TextLine("filesyspath", BadPath), Line("version_user", 1),
   Line("version_machine", 1), Line("options", 0), Line("options", 1)}
ShortLines ==
  LongLines \cup {[kind |-> "skipped"]}
    \cup {Line(k, v) : k \in {"version_user", "version_machine"}, v \in {0, BadValue}}
    \cup {Line("options", v) : v \in {2, 3, BadValue}}
Optional(S) == {<<>>} \cup {<<l>> : l \in S}
EntryLines ==
  { a \o b \o c \o d \o e :
      a \in Optional({TextLine("name", <<"n">>)}),
      b \in Optional({TextLine("filesyspath", GoodPath), TextLine("filesyspath", BadPath)}),
      c \in Optional({Line("version_user", 1)}),
      d \in Optional({Line("version_machine", 1)}),
      e \in Optional({Line("options", 0), Line("options", 1)}) }
TwoEntries ==
  { e1 \o s1 \o e2 \o s2 : e1, e2 \in EntryLines, s1, s2 \in Optional({Separator}) }
\* Filesyspaths of up to seven characters (enough for two directory
\* pieces) over both separators, a letter and a space, trimmed as the
\* parser trims every value; each in one complete entry.
Paths == {p \in BoundedSeq({"\\", "/", "a", " "}, 7) : p = TrimSpaces(p)}
PathEntries ==
  { <<Separator, TextLine("name", <<"n">>), TextLine("filesyspath", p),
      Line("version_user", 1), Line("version_machine", 1), Line("options", 0)>> :
      p \in Paths }
GpoOutputs ==
  TwoEntries \cup BoundedSeq(LongLines, 4) \cup BoundedSeq(ShortLines, 3)
    \cup PathEntries

\* klist lines: ticket lines for krbtgt/ with each date before, at or after
\* now or unparsable, renew-until lines likewise, and other lines; up to
\* three lines, now 1 or 4.
KlistLines ==
  [kind : {"krbtgt"}, valid_from : {1, BadValue}, expires : {0, 3, BadValue}]
    \cup [kind : {"renew"}, until : {2, 5, BadValue}] \cup {[kind |-> "other"]}
KlistOutputs == BoundedSeq(KlistLines, 3) \X {1, 4}

\* delta_generator invocations: every combination of the flags Main()
\* tests, with good, missing and bad signature sizes and the steps
\* succeeding or not; and every combination of the payload flags with
\* each image-info state, the minor version given, configured or not
\* (supported or not), and GenerateDeltaUpdateFile() succeeding or not.
DeltaFlags ==
  {"out_hash_file", "out_metadata_hash_file", "signature_file", "public_key",
   "in_file", "out_file", "old_image", "new_image", "new_kernel", "old_dir",
   "new_dir"}
GenerateFlags == {"out_file", "old_image", "new_image", "new_kernel", "old_dir", "new_dir"}
Invocation(fs, sz, ni, oi, mv, cf, ok, gen) ==
  [flags |-> fs, sizes |-> sz, new_info |-> ni, old_info |-> oi, minor |-> mv,
   conf |-> cf, ok |-> ok, generated |-> gen]
DeltaRuns ==
  { Invocation(fs, sz, "none", "none", DG!BadValue, DG!BadValue, ok, TRUE) :
      fs \in SUBSET DeltaFlags, sz \in {<<>>, <<256>>, <<256, DG!BadValue>>},
      ok \in BOOLEAN }
  \cup
  { Invocation(fs, <<>>, ni, oi, mv, cf, ok, gen) :
      fs \in SUBSET GenerateFlags, ni, oi \in {"none", "all", "partial"},
      mv \in {DG!BadValue, 1, 2}, cf \in {DG!BadValue, 0, 2}, ok, gen \in BOOLEAN }

\* metrics_client arguments: every option of the getopt() string, an
\* unknown one and "--"; a name, an integer, a real and a negative
\* integer (which looks like an option).  Any three arguments; a name
\* with up to four numbers after no option, one option, or two of -t and
\* the sample and action options; and an option or "--" after the name.
Arg(text, letter, int, msec) == [text |-> text, letter |-> letter, int |-> int, msec |-> msec]
OptionArgs ==
  {Arg("-" \o c, c, MET!NoNumber, MET!NoNumber) :
     c \in {"C", "D", "c", "e", "g", "i", "s", "t", "u", "v", "x"}}
EndOfOptions == Arg("--", "", MET!NoNumber, MET!NoNumber)
NameArg == Arg("n", "", MET!NoNumber, MET!NoNumber)
NumberArgs ==
  {Arg("3", "", 3, 3000), Arg("1.5", "", MET!NoNumber, 1500), Arg("-2", "2", -2, -2000)}
MetricsOptions ==
  {<<>>} \cup {<<o>> : o \in OptionArgs}
    \cup {<<Arg("-" \o a, a, MET!NoNumber, MET!NoNumber),
           Arg("-" \o b, b, MET!NoNumber, MET!NoNumber)>> :
             a, b \in {"t", "e", "s", "c", "u", "v"}}
MetricsArgs ==
  BoundedSeq(OptionArgs \cup {EndOfOptions, NameArg} \cup NumberArgs, 3)
    \cup {o \o <<NameArg>> \o q : o \in MetricsOptions, q \in BoundedSeq(NumberArgs, 4)}
    \cup {<<NameArg, o>> \o q :
             o \in {EndOfOptions} \cup {x \in OptionArgs : x.letter \in {"t", "e"}},
             q \in BoundedSeq(NumberArgs, 4)}

\* File sizes from empty to two bytes over kMaxReadSize.
FileSizes == 0..kMaxReadSize + 2

Inputs ==
  ({"pack"} \X SeptetStrings) \cup ({"text"} \X Texts)
    \cup ({"parse"} \X PairLists) \cup ({"read"} \X FileSizes)
    \cup ({"esn"} \X EsnStrings) \cup ({"extract"} \X (PropMaps \X Calls))
    \cup ({"elf"} \X ElfFiles)
    \cup ({"gpo"} \X (GpoOutputs \X {"USER", "MACHINE"}))
    \cup ({"klist"} \X KlistOutputs)
    \cup ({"delta"} \X DeltaRuns)
    \cup ({"metrics"} \X (MetricsArgs \X BOOLEAN))

OpInit == Init /\ input \in Inputs
OpSpec == OpInit /\ [][UNCHANGED <<vars, input>>]_<<vars, input>>

Is(kind) == input[1] = kind
data == input[2]

(***************************************************************************)
(* References                                                              *)
(***************************************************************************)
\* A character GSM 7-bit has, in the default alphabet or the extension
\* table.
Representable(ch) ==
  \/ \E c \in ModelCodes : Gsm7ToUtf8Map[c] = ch
  \/ \E k \in 1..Len(ExtGsm7ToUtf8Map) : Tail(ExtGsm7ToUtf8Map[k]) = ch

\* The trimmed characters stripped from both ends.
TrimmedRef(s) ==
  LET keep == {i \in 1..Len(s) : s[i] \notin kTrimChars}
  IN  IF keep = {} THEN <<>> ELSE SubSeq(s, Min(keep), Max(keep))

\* Every non-empty trimmed name maps to the trimmed value of the first pair
\* that carries it.
FirstPairWins(pairs) ==
  LET name(i) == TrimmedRef(pairs[i][1])
      names == {name(i) : i \in 1..Len(pairs)} \ {<<>>}
  IN  [n \in names |->
         TrimmedRef(pairs[Min({i \in 1..Len(pairs) : name(i) = n})][2])]

\* The number a string of decimal digit values stands for.
RECURSIVE FromDecimal(_)
FromDecimal(d) == IF d = <<>> THEN 0 ELSE 10 * FromDecimal(Front(d)) + Last(d)

\* A caller reading several properties with one DBus::Error, each with
\* ExtractString() or ExtractUint32() and a default of its type.
NotFound(want) == IF want = "string" THEN "default" ELSE 0
RECURSIVE ExtractAll(_, _, _)
ExtractAll(props, calls, error) ==
  IF calls = <<>> THEN [values |-> <<>>, error |-> error]
  ELSE LET c == Head(calls)
           r == Extract(props, c[1], c[2], NotFound(c[2]), error)
           rest == ExtractAll(props, Tail(calls), r.error)
       IN  [values |-> <<r.value>> \o rest.values, error |-> rest.error]

\* The output r of HexEsnToDecimal(s) against strtoul()'s reading of s.
EsnRoundTrips(s, r, read) ==
  /\ r.ok = (Len(s) <= 8 /\ read.end = Len(s))
  /\ r.ok => /\ Len(r.out) = 11
             /\ FromDecimal(SubSeq(r.out, 1, 3)) = read.hi
             /\ FromDecimal(SubSeq(r.out, 4, 11)) = read.lo

\* The build id of an ELF file, stated from the preference list: the
\* section with the most preferred note-section name, the first of them if
\* several, unless an unreadable section name comes before every
\* .note.gnu.build-id section; then its first GNU build-id note.
BuildIdRef(file) ==
  LET secs == file.sections
      pref(i) == CHOOSE k \in 1..3 : kNoteSectionNames[k] = secs[i].name
      noted == {i \in 1..Len(secs) : secs[i].name \in ToSet(kNoteSectionNames)}
      top == {i \in noted : pref(i) = 1}
      bad == {i \in 1..Len(secs) : secs[i].name = Unreadable}
      best == Min({pref(i) : i \in noted})
      chosen == Min({i \in noted : pref(i) = best})
      notes == secs[chosen].notes
      bids == {k \in 1..Len(notes) :
                 notes[k].type = NT_GNU_BUILD_ID /\ notes[k].name = ELF_NOTE_GNU}
  IN  IF \/ file.kind # "elf" \/ ~file.strtab \/ noted = {} \/ bids = {}
         \/ ~file.getdata
         \/ bad # {} /\ (top = {} \/ Min(bad) < Min(top))
        THEN NoBuildId
        ELSE [ok |-> TRUE, id |-> notes[Min(bids)].desc]

\* A string with the spaces at both ends removed.
StripRef(s) ==
  LET keep == {i \in 1..Len(s) : s[i] # " "}
  IN  IF keep = {} THEN <<>> ELSE SubSeq(s, Min(keep), Max(keep))

\* A filesyspath from its separator positions q: accepted when it has at
\* least three separators and nothing but spaces before the first two;
\* then the base path is the second and third piece joined by "/", and the
\* directory the remaining pieces joined by "\".
PathRef(path) ==
  LET q == SetToSortSeq({i \in 1..Len(path) : path[i] \in PathSeparators}, <)
      piece(j) == StripRef(SubSeq(path, q[j] + 1,
                                  IF j = Len(q) THEN Len(path) ELSE q[j + 1] - 1))
  IN  IF Len(q) < 3 \/ StripRef(SubSeq(path, 1, q[1] - 1)) # <<>>
         \/ StripRef(SubSeq(path, q[1] + 1, q[2] - 1)) # <<>>
        THEN [ok |-> FALSE, basepath |-> <<>>, directory |-> <<>>]
        ELSE [ok |-> TRUE, basepath |-> piece(2) \o <<"/">> \o piece(3),
              directory |-> FlattenSeq([j \in 1..Len(q) - 3 |->
                              (IF j = 1 THEN <<>> ELSE <<"\\">>) \o piece(j + 3)])]

\* The GPO list stated over the blocks the separators cut the lines into:
\* each block describes one GPO by the last line of each key; the list
\* holds, in order, the GPOs with a name, a path, some policy, valid flags,
\* and policy of the scope whose disabled bit is clear.  The parse fails
\* without a separator, on a bad value, when a block sets a key that an
\* earlier line of the block had given a name, a path, a non-zero version
\* or valid flags, or when a listed path does not split.
GpoListRef(lines, scope) ==
  LET cuts == <<0>> \o SetToSortSeq({i \in 1..Len(lines) : lines[i].kind = "separator"}, <)
                  \o <<Len(lines) + 1>>
      block(j) == {i \in cuts[j] + 1 .. cuts[j + 1] - 1 : lines[i].kind \in GpoKeys}
      field(b, k, none) ==
        LET at == {i \in b : lines[i].kind = k}
        IN  IF at = {} THEN none
            ELSE IF k \in NumberKeys THEN lines[Max(at)].value ELSE lines[Max(at)].text
      gpo(b) == [name |-> field(b, "name", <<>>), path |-> field(b, "filesyspath", <<>>),
                 user |-> field(b, "version_user", 0),
                 machine |-> field(b, "version_machine", 0),
                 flags |-> field(b, "options", 4)]
      bit(f, n) == (f \div n) % 2 = 1
      listed(g) ==
        /\ g.name # <<>> /\ g.path # <<>> /\ g.flags \in 0..3
        /\ IF scope = "USER" THEN g.user # 0 /\ ~bit(g.flags, 1)
                            ELSE g.machine # 0 /\ ~bit(g.flags, 2)
      sets(l) == \/ l.kind \in {"name", "filesyspath"}
                 \/ l.kind \in {"version_user", "version_machine"} /\ l.value # 0
                 \/ l.kind = "options" /\ l.value # BadValue
      reset(b) == \E i, j \in b : i < j /\ lines[i].kind = lines[j].kind /\ sets(lines[i])
      blocks == [j \in 1..Len(cuts) - 1 |-> gpo(block(j))]
      kept == SelectSeq(blocks, listed)
      out == [i \in 1..Len(kept) |-> [name |-> kept[i].name,
                                      basepath |-> PathRef(kept[i].path).basepath,
                                      directory |-> PathRef(kept[i].path).directory]]
  IN  IF \/ Len(cuts) = 2
         \/ \E i \in 1..Len(lines) : lines[i].kind \in NumberKeys /\ lines[i].value = BadValue
         \/ \E j \in 1..Len(cuts) - 1 : reset(block(j))
         \/ \E i \in 1..Len(kept) : ~PathRef(kept[i].path).ok
        THEN ParseFailed ELSE GpoListResult(EXIT_CODE_OK, out)

(***************************************************************************)
(* Properties                                                              *)
(***************************************************************************)
\* Packing then unpacking septets gives them back (Utf8StringToGsm7()'s
\* packing against Gsm7ToUtf8String()'s unpacking), and the packed form is
\* the count octet plus ceil(7n/8) octets.
PackUnpackRoundTrip ==
  Is("pack") =>
    LET packed == Pack(data)
    IN  /\ Len(packed) = 1 + (7 * Len(data) + 7) \div 8
        /\ Unpack(Tail(packed), packed[1], 0) = data

\* A text sent with Utf8StringToGsm7() and read back with
\* Gsm7ToUtf8String() is the text, each character GSM 7-bit lacks replaced
\* by a space ("If character wasn't mapped successfully, insert a space").
\* The decoder is given the septet count from the first octet, as a reader
\* of the encoded text learns it.
TextRoundTrip ==
  Is("text") =>
    LET sent == Utf8StringToGsm7(FlattenSeq(data))
        back == Gsm7ToUtf8String(Tail(sent.octets), sent.octets[1], 0)
    IN  /\ ~sent.thrown
        /\ ~back.oob
        /\ back.str = FlattenSeq([i \in 1..Len(data) |->
                        IF Representable(data[i]) THEN data[i] ELSE <<32>>])

\* ParseMachineInfo() keeps, for each name, the value read-only VPD gives it
\* (dump_vpd_log prints it first), drops names that trim to nothing, and
\* trims names and values.
ParseMatchesReference ==
  Is("parse") => ParseMachineInfo(data) = FirstPairWins(data)

\* ReadPipeToString() succeeds exactly for the files of at most
\* kMaxReadSize bytes that no read() fails on, the file of exactly
\* kMaxReadSize bytes included, and then out holds the whole file; whatever
\* the partial reads, out never holds more than kMaxReadSize bytes.
ReadsWholeFileWithinLimit ==
  Is("read") =>
    \A o \in ReadOutcomes(data) :
      /\ o.out_len <= kMaxReadSize
      /\ (o.result = "ok") = (data <= kMaxReadSize /\ ~o.read_failed)
      /\ o.result = "ok" => o.out_len = data

\* HexEsnToDecimal() accepts exactly the strings of at most eight
\* characters that strtoul() consumes whole, and then writes 11 decimal
\* digits: a three-digit manufacturer code and an eight-digit serial that
\* together give back the ESN strtoul() read (its "Format failure" branch
\* is never taken).
EsnDecimalRoundTrip ==
  Is("esn") => EsnRoundTrips(data, HexEsnToDecimal(data), Strtoul16(data))

\* Reading several properties with ExtractString() and ExtractUint32() and
\* one DBus::Error: each value is the map's when present with the right
\* type and the default otherwise, and the error left is that of the first
\* property of the wrong type (setting it twice would assert in dbus-c++).
FirstTypeErrorKept ==
  Is("extract") =>
    LET props == data[1]
        calls == data[2]
        r == ExtractAll(props, calls, NoError)
        fits(c) == c[1] \in DOMAIN props /\ props[c[1]].type = c[2]
        bad == {i \in 1..Len(calls) : calls[i][1] \in DOMAIN props /\ ~fits(calls[i])}
    IN  /\ \A i \in 1..Len(calls) :
             r.values[i] = IF fits(calls[i]) THEN props[calls[i][1]].value
                           ELSE NotFound(calls[i][2])
        /\ r.error = IF bad = {} THEN NoError ELSE TypeError(calls[Min(bad)][2])


\* ReadElfBuildId() returns the build id of the most preferred note
\* section (FindElfSection()'s best match, the first one on a tie) and
\* fails exactly when the file, its section names, that section's data or
\* its notes let it down.
BuildIdFromPreferredSection ==
  Is("elf") => ReadElfBuildId(data) = BuildIdRef(data)

\* ParseGpoList() lists exactly the GPOs of the blocks between separators
\* that carry policy of the scope and are not disabled for it, in order,
\* each with the base path and directory of its filesyspath
\* (\\service\share\dir... gives service/share and dir...); a missing
\* separator between two entries, a bad value, a missing separator
\* altogether or a listed path without two leading separators and a share
\* fails the parse instead of merging, dropping or mangling entries.
GpoListFromBlocks ==
  Is("gpo") => ParseGpoList(data[1], data[2]) = GpoListRef(data[1], data[2])

\* ParseTgtLifetime() reports the ticket-granting ticket of the first
\* krbtgt/ line whose dates parse: its time to expiry, and the time to the
\* renew-until date on the line right after it (0 without one), neither
\* ever negative, however far now is past them.
TgtLifetimeFromFirstTicket ==
  Is("klist") =>
    LET lines == data[1]
        at == data[2]
        good == {i \in 1..Len(lines) : lines[i].kind = "krbtgt"
                   /\ lines[i].valid_from # BadValue /\ lines[i].expires # BadValue}
        n == Min(good)
        r == ParseTgtLifetime(lines, at)
    IN  IF good = {} THEN r.exit = EXIT_CODE_PARSE_INPUT_FAILED
        ELSE /\ r.exit = EXIT_CODE_OK
             /\ r.validity_seconds = IF lines[n].expires > at
                                        THEN lines[n].expires - at ELSE 0
             /\ r.renewal_seconds =
                  IF n < Len(lines) /\ lines[n + 1].kind = "renew"
                     /\ lines[n + 1].until # BadValue /\ lines[n + 1].until > at
                    THEN lines[n + 1].until - at ELSE 0

\* delta_generator's operations in the order of Main()'s tests: the flags
\* that select each and the ones it must be passed ("Must pass --x to ...").
DeltaOps ==
  << [op |-> "hash", by |-> {"out_hash_file", "out_metadata_hash_file"},
      needs |-> {"in_file"}],
     [op |-> "sign", by |-> {"signature_file"},
      needs |-> {"in_file", "out_file", "signature_file"}],
     [op |-> "verify", by |-> {"public_key"}, needs |-> {"in_file", "public_key"}],
     [op |-> "apply", by |-> {"in_file"}, needs |-> {"in_file", "old_image"}] >>

\* What an invocation should do: die on a bad signature size; else run
\* the first selected operation, or generate a payload (a delta when
\* --old_image is given) with the requested, configured or default minor
\* version, which must be one the generator supports.
DeltaMainRef(a) ==
  LET picked == {i \in 1..Len(DeltaOps) : DeltaOps[i].by \cap a.flags # {}}
      delta == "old_image" \in a.flags
      v == CASE a.minor # DG!BadValue -> a.minor
             [] a.conf # DG!BadValue -> a.conf
             [] OTHER -> IF delta THEN 1 ELSE 0
      gen_ok == /\ {"new_image", "out_file", "new_kernel"} \subseteq a.flags
                /\ delta => {"old_dir", "new_dir"} \subseteq a.flags /\ a.ok
                /\ "partial" \notin {a.new_info, a.old_info}
                /\ v \in {0, 1}
      died(op) == [exit |-> DG!ABORTED, mode |-> op, minor |-> DG!BadValue,
                   old_info |-> "none"]
  IN  CASE \E i \in 1..Len(a.sizes) : a.sizes[i] # 256 -> died("none")
        [] picked # {} ->
             LET o == DeltaOps[Min(picked)]
             IN  IF o.needs \subseteq a.flags /\ a.ok
                   THEN [died(o.op) EXCEPT !.exit = DG!EXIT_OK]
                   ELSE died(o.op)
        [] ~gen_ok -> died("generate")
        [] OTHER -> [exit |-> IF a.generated THEN DG!EXIT_OK ELSE DG!EXIT_FAILED,
                     mode |-> "generate", minor |-> v,
                     old_info |-> IF delta THEN a.old_info ELSE "none"]

\* delta_generator's Main() runs the operation its first selecting flag
\* names (payload generation when none is given), exits 0 only when every
\* flag that operation must be passed is there and its steps succeed, and
\* dies on a malformed --signature_size whatever the operation; a payload
\* gets the requested, configured or default minor version, and the old
\* image info only for a delta.
DeltaOperationFromFlags ==
  Is("delta") => DG!Main(data) = DeltaMainRef(data)

\* metrics_client's forms, from its usage text: the option that selects
\* each ("" for the default), the MetricsLibrary call, the number of
\* arguments, whether they are a histogram sample, and whether the exit
\* status is the call's answer.
MetricsForms ==
  [o \in {"", "e", "s", "u", "v", "c", "C", "D", "g", "i"} |->
     CASE o = "" -> [fn |-> "SendToUMA", arity |-> 5, stats |-> TRUE, answers |-> FALSE]
       [] o = "e" -> [fn |-> "SendEnumToUMA", arity |-> 3, stats |-> TRUE, answers |-> FALSE]
       [] o = "s" -> [fn |-> "SendSparseToUMA", arity |-> 2, stats |-> TRUE, answers |-> FALSE]
       [] o = "u" -> [fn |-> "SendUserActionToUMA", arity |-> 1, stats |-> FALSE, answers |-> FALSE]
       [] o = "v" -> [fn |-> "SendCrosEventToUMA", arity |-> 1, stats |-> FALSE, answers |-> TRUE]
       [] o = "c" -> [fn |-> "AreMetricsEnabled", arity |-> 0, stats |-> FALSE, answers |-> TRUE]
       [] o = "C" -> [fn |-> "EnableMetrics", arity |-> 0, stats |-> FALSE, answers |-> TRUE]
       [] o = "D" -> [fn |-> "DisableMetrics", arity |-> 0, stats |-> FALSE, answers |-> TRUE]
       [] o = "g" -> [fn |-> "IsGuestMode", arity |-> 0, stats |-> FALSE, answers |-> TRUE]
       [] OTHER -> [fn |-> "ConsentId", arity |-> 0, stats |-> FALSE, answers |-> TRUE]]

\* What an invocation should do.  The options are the arguments before
\* "--" that look like options, wherever they stand among the others; the
\* last form option chooses the form; -t turns the sample into
\* milliseconds and is refused with -e and -s.
MetricsRef(args, lib_ok) ==
  LET ends == {i \in 1..Len(args) : args[i].text = "--"}
      cut == IF ends = {} THEN Len(args) + 1 ELSE Min(ends)
      before == SubSeq(args, 1, cut - 1)
      opts == SelectSeq(before, LAMBDA a : a.letter # "")
      pos == SelectSeq(before, LAMBDA a : a.letter = "") \o SubSeq(args, cut + 1, Len(args))
      forms == SelectSeq(opts, LAMBDA a : a.letter # "t")
      form == IF forms = <<>> THEN "" ELSE Last(forms).letter
      t == \E i \in 1..Len(opts) : opts[i].letter = "t"
      f == MetricsForms[form]
      nums == IF f.stats
                THEN <<IF t THEN pos[2].msec ELSE pos[2].int>>
                       \o [k \in 1..f.arity - 2 |-> pos[k + 2].int]
                ELSE <<>>
      usage == [exit |-> 1, fn |-> "usage", name |-> "", nums |-> <<>>]
  IN  IF \/ \E i \in 1..Len(opts) : opts[i].letter \notin DOMAIN MetricsForms \cup {"t"}
         \/ Len(pos) # f.arity
         \/ t /\ form \in {"e", "s"}
         \/ \E k \in 1..Len(nums) : nums[k] = MET!NoNumber
        THEN usage
        ELSE [exit |-> IF f.answers /\ ~lib_ok THEN 1 ELSE 0, fn |-> f.fn,
              name |-> IF f.arity > 0 THEN pos[1].text ELSE "", nums |-> nums]

\* metrics_client makes the call of the last form option given anywhere
\* before "--" (the default histogram without one), with exactly the
\* arguments its usage line names and the sample in milliseconds under
\* -t; it shows the usage and exits 1 for an unknown option, a wrong
\* argument count, -t with -e or -s, or a number that does not parse;
\* otherwise its exit status is the library's answer where it has one.
MetricsCallFromArguments ==
  Is("metrics") => MET!Main(data[1], data[2]) = MetricsRef(data[1], data[2])
=============================================================================
