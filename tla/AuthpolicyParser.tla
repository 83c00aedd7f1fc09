-------------------------- MODULE AuthpolicyParser --------------------------
(***************************************************************************)
(* authpolicy_parser (authpolicy/authpolicy_parser_main.cc): the sandboxed *)
(* tool that turns the text output of Samba's net and of klist into        *)
(* protobufs.  Modelled are its two line-by-line parsers, ParseGpoList()   *)
(* with PushGpo() and the filesyspath split, and ParseTgtLifetime().       *)
(*                                                                         *)
(* Data abstraction.  The output has already been split into trimmed,      *)
(* non-empty lines.  A line of net ads gpo list is a record: a separator,  *)
(* a line that is skipped (no colon, nothing after it, or an unknown key), *)
(* or a known key with its trimmed value (text for the name and path).    *)
(* A version or flags value is                                             *)
(* given as what ParseGpoVersion() or ParseGpFlags() makes of it (their    *)
(* code is not among the sources; samba_helper.h states the contract): a  *)
(* number, or BadValue when they return false.  A filesyspath is its       *)
(* characters.  A klist line is a ticket line for krbtgt/, a renew-until   *)
(* line or another line; each date on it is the time ParseTgtDateTime()    *)
(* reads, or BadValue when the line is too short or strptime() fails.      *)
(* Every error exit of ParseGpoList() is EXIT_CODE_PARSE_INPUT_FAILED, so  *)
(* an error is one exit code; results are records with the exit code.      *)
(***************************************************************************)
EXTENDS Integers, Sequences, SequencesExt, Bitwise

BadValue == -1      \* no version, flags value or time the parsers produce
EXIT_CODE_OK == "EXIT_CODE_OK"
EXIT_CODE_PARSE_INPUT_FAILED == "EXIT_CODE_PARSE_INPUT_FAILED"

kGpFlagUserDisabled == 1
kGpFlagMachineDisabled == 2
kGpFlagInvalid == 4

NumberKeys == {"version_user", "version_machine", "options"}
GpoKeys == {"name", "filesyspath"} \cup NumberKeys
\* The GpoEntry member a key's value is stored in.
Member(k) == IF k = "options" THEN "gp_flags" ELSE k

(***************************************************************************)
(* GpoEntry                                                                *)
(***************************************************************************)
\* GpoEntry::Clear(): empty strings, versions 0, flags invalid.
ClearedGpo ==
  [name |-> <<>>, filesyspath |-> <<>>, version_user |-> 0,
   version_machine |-> 0, gp_flags |-> kGpFlagInvalid]

IsValid(gpo) ==
  /\ gpo.name # <<>> /\ gpo.filesyspath # <<>>
  /\ ~(gpo.version_user = 0 /\ gpo.version_machine = 0)
  /\ gpo.gp_flags # kGpFlagInvalid

IsEmpty(gpo) == gpo = ClearedGpo

\* PushGpo(): an empty or invalid entry is dropped; so is one without
\* policy of the scope, or with the scope's disabled flag set.
Filtered(gpo, scope) ==
  IF scope = "USER"
    THEN gpo.version_user = 0 \/ (gpo.gp_flags & kGpFlagUserDisabled) # 0
    ELSE gpo.version_machine = 0 \/ (gpo.gp_flags & kGpFlagMachineDisabled) # 0

PushGpo(gpo, scope, gpo_list) ==
  IF IsEmpty(gpo) \/ ~IsValid(gpo) \/ Filtered(gpo, scope)
    THEN gpo_list ELSE Append(gpo_list, gpo)

(***************************************************************************)
(* The filesyspath split                                                   *)
(***************************************************************************)
PathSeparators == {"\\", "/"}

\* base::TrimWhitespaceASCII(TRIM_ALL) over the modelled characters.
RECURSIVE TrimSpaces(_)
TrimSpaces(s) ==
  CASE s # <<>> /\ Head(s) = " " -> TrimSpaces(Tail(s))
    [] s # <<>> /\ Last(s) = " " -> TrimSpaces(Front(s))
    [] OTHER -> s

\* base::SplitString(s, "\\/", TRIM_WHITESPACE, SPLIT_WANT_ALL): every
\* piece between separators, trimmed, empty ones kept; no piece at all
\* for an empty string.
RECURSIVE SplitPieces(_)
SplitPieces(s) ==
  LET at == SelectInSeq(s, LAMBDA c : c \in PathSeparators)
  IN  IF at = 0 THEN <<TrimSpaces(s)>>
      ELSE <<TrimSpaces(SubSeq(s, 1, at - 1))>> \o SplitPieces(SubSeq(s, at + 1, Len(s)))

SplitString(s) == IF s = <<>> THEN <<>> ELSE SplitPieces(s)

\* base::JoinString(parts, "\\").
RECURSIVE JoinString(_)
JoinString(parts) ==
  CASE parts = <<>> -> <<>>
    [] Len(parts) = 1 -> Head(parts)
    [] OTHER -> Head(parts) \o <<"\\">> \o JoinString(Tail(parts))

\* Mutant: the second piece is not required to be empty.
SplitFilesyspathOneLeadingSeparator(path) ==
  LET file_parts == SplitString(path)
  IN  IF Len(file_parts) < 4 \/ file_parts[1] # <<>>
        THEN [ok |-> FALSE, basepath |-> <<>>, directory |-> <<>>]
        ELSE [ok |-> TRUE, basepath |-> file_parts[3] \o <<"/">> \o file_parts[4],
              directory |-> JoinString(SubSeq(file_parts, 5, Len(file_parts)))]

\* "\\service\share\dir..." into the base path service/share and the
\* directory dir... ; Failed unless the path starts with two separators
\* and has a fourth piece.
SplitFilesyspath(path) ==
  LET file_parts == SplitString(path)
  IN  IF Len(file_parts) < 4 \/ file_parts[1] # <<>> \/ file_parts[2] # <<>>
        THEN [ok |-> FALSE, basepath |-> <<>>, directory |-> <<>>]
        ELSE [ok |-> TRUE, basepath |-> file_parts[3] \o <<"/">> \o file_parts[4],
              directory |-> JoinString(SubSeq(file_parts, 5, Len(file_parts)))]

(***************************************************************************)
(* ParseGpoList()                                                          *)
(***************************************************************************)
\* Mutant: current_gpo.Clear() left out after a separator.
ParseLineKeepsEntry(st, line, scope) ==
  CASE line.kind = "separator" ->
         [st EXCEPT !.gpo_list = PushGpo(st.current_gpo, scope, @),
                    !.found_separator = TRUE]
    [] line.kind = "skipped" -> st
    [] OTHER ->
         LET g == st.current_gpo
             k == line.kind
             already_set ==
               CASE k \in {"name", "filesyspath"} -> g[k] # <<>>
                 [] k \in {"version_user", "version_machine"} -> g[k] # 0
                 [] OTHER -> g.gp_flags # kGpFlagInvalid
         IN  IF already_set \/ (k \in NumberKeys /\ line.value = BadValue)
               THEN [st EXCEPT !.failed = TRUE]
               ELSE [st EXCEPT !.current_gpo[Member(k)] =
                                 IF k \in NumberKeys THEN line.value ELSE line.text]

\* One line of the loop: a separator pushes the current entry and clears
\* it; a known key that is set already, a bad version or bad flags end the
\* parse.  A version counts as set when non-zero, flags when valid.
ParseLine(st, line, scope) ==
  CASE line.kind = "separator" ->
         [st EXCEPT !.gpo_list = PushGpo(st.current_gpo, scope, @),
                    !.current_gpo = ClearedGpo, !.found_separator = TRUE]
    [] line.kind = "skipped" -> st
    [] OTHER ->
         LET g == st.current_gpo
             k == line.kind
             already_set ==
               CASE k \in {"name", "filesyspath"} -> g[k] # <<>>
                 [] k \in {"version_user", "version_machine"} -> g[k] # 0
                 [] OTHER -> g.gp_flags # kGpFlagInvalid
         IN  IF already_set \/ (k \in NumberKeys /\ line.value = BadValue)
               THEN [st EXCEPT !.failed = TRUE]
               ELSE [st EXCEPT !.current_gpo[Member(k)] =
                                 IF k \in NumberKeys THEN line.value ELSE line.text]

RECURSIVE ParseLines(_, _, _)
ParseLines(st, lines, scope) ==
  IF lines = <<>> \/ st.failed THEN st
  ELSE ParseLines(ParseLine(st, Head(lines), scope), Tail(lines), scope)

GpoListResult(code, entries) == [exit |-> code, entries |-> entries]
ParseFailed == GpoListResult(EXIT_CODE_PARSE_INPUT_FAILED, <<>>)

\* The entries of the GpoList proto, or a failure at the first path that
\* does not split.
ToProto(gpos) ==
  LET sp(i) == SplitFilesyspath(gpos[i].filesyspath)
  IN  IF \E i \in 1..Len(gpos) : ~sp(i).ok THEN ParseFailed
      ELSE GpoListResult(EXIT_CODE_OK,
             [i \in 1..Len(gpos) |-> [name |-> gpos[i].name,
                                     basepath |-> sp(i).basepath,
                                     directory |-> sp(i).directory]])

ParseGpoList(lines, scope) ==
  LET st == ParseLines([current_gpo |-> ClearedGpo, gpo_list |-> <<>>,
                        found_separator |-> FALSE, failed |-> FALSE],
                       lines, scope)
      gpo_list == PushGpo(st.current_gpo, scope, st.gpo_list)
  IN  IF st.failed \/ ~st.found_separator THEN ParseFailed
      ELSE ToProto(gpo_list)

(***************************************************************************)
(* ParseTgtLifetime()                                                      *)
(***************************************************************************)
\* Mutant: the validity is expires - now, without std::max(..., 0).
RECURSIVE TgtLoopUnclamped(_, _, _)
TgtLoopUnclamped(lines, n, now) ==
  IF n > Len(lines) THEN [exit |-> EXIT_CODE_PARSE_INPUT_FAILED]
  ELSE LET l == lines[n] IN
    IF l.kind = "krbtgt" /\ l.valid_from # BadValue /\ l.expires # BadValue
      THEN LET renew_until ==
                 IF n + 1 <= Len(lines) /\ lines[n + 1].kind = "renew"
                      /\ lines[n + 1].until # BadValue
                   THEN lines[n + 1].until ELSE 0
           IN  [exit |-> EXIT_CODE_OK, validity_seconds |-> l.expires - now,
                renewal_seconds |-> Max({renew_until - now, 0})]
      ELSE TgtLoopUnclamped(lines, n + 1, now)

\* The first krbtgt/ line whose valid-from and expiry dates both parse; the
\* renewal time from the next line if it starts with "renew until " (0 if
\* its date does not parse, and if there is no such line); both lifetimes
\* counted from now and clamped at 0.
RECURSIVE TgtLoop(_, _, _)
TgtLoop(lines, n, now) ==
  IF n > Len(lines) THEN [exit |-> EXIT_CODE_PARSE_INPUT_FAILED]
  ELSE LET l == lines[n] IN
    IF l.kind = "krbtgt" /\ l.valid_from # BadValue /\ l.expires # BadValue
      THEN LET renew_until ==
                 IF n + 1 <= Len(lines) /\ lines[n + 1].kind = "renew"
                      /\ lines[n + 1].until # BadValue
                   THEN lines[n + 1].until ELSE 0
           IN  [exit |-> EXIT_CODE_OK, validity_seconds |-> Max({l.expires - now, 0}),
                renewal_seconds |-> Max({renew_until - now, 0})]
      ELSE TgtLoop(lines, n + 1, now)

ParseTgtLifetime(lines, now) == TgtLoop(lines, 1, now)
=============================================================================
