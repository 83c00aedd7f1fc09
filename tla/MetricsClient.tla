--------------------------- MODULE MetricsClient ---------------------------
(***************************************************************************)
(* metrics_client (metrics/metrics_client.cc): main() reads its options   *)
(* with getopt(argc, argv, "CDcegistuv"), checks the number of remaining  *)
(* arguments for the mode, parses the numbers and makes one               *)
(* MetricsLibrary call.  ShowUsage() exits 1.                              *)
(*                                                                         *)
(* Data abstraction.  An argument is a record: its text, the option       *)
(* character when it is "-" and one more character (else ""), and what    *)
(* ParseInt() and ParseDouble() * 1000 make of it, NoNumber when the      *)
(* text is not a whole number.  getopt() is glibc's: it permutes, so      *)
(* options after a non-option argument are still read, and "--" ends the  *)
(* options.  What the library calls return is one input, lib_ok.  The     *)
(* result records the exit status and the call made with its arguments.  *)
(***************************************************************************)
EXTENDS Integers, Sequences

NoNumber == -99        \* no argument of the model parses to it

kModeSendSample == "kModeSendSample"
kModeSendEnumSample == "kModeSendEnumSample"
kModeSendSparseSample == "kModeSendSparseSample"
kModeSendUserAction == "kModeSendUserAction"
kModeSendCrosEvent == "kModeSendCrosEvent"
kModeHasConsent == "kModeHasConsent"
kModeIsGuestMode == "kModeIsGuestMode"
kModeShowConsentId == "kModeShowConsentId"
kModeCreateConsent == "kModeCreateConsent"
kModeDeleteConsent == "kModeDeleteConsent"

\* The switch of main()'s getopt() loop: the mode each option selects; -t
\* sets secs_to_msecs instead.
ModeOf ==
  [C |-> kModeCreateConsent, D |-> kModeDeleteConsent, c |-> kModeHasConsent,
   e |-> kModeSendEnumSample, g |-> kModeIsGuestMode, i |-> kModeShowConsentId,
   s |-> kModeSendSparseSample, u |-> kModeSendUserAction, v |-> kModeSendCrosEvent]
OptLetters == DOMAIN ModeOf \cup {"t"}

Call(fn, name, nums, code) == [exit |-> code, fn |-> fn, name |-> name, nums |-> nums]
\* ShowUsage(): the usage text on stderr and exit(1).
ShowUsage == Call("usage", "", <<>>, 1)

\* The getopt() loop: each option sets the mode (the last one wins) or
\* secs_to_msecs; an option not in the string ends in ShowUsage(); the
\* other arguments are kept, in order, for after optind.
RECURSIVE ParseArgs(_, _, _)
ParseArgs(args, i, st) ==
  IF i > Len(args) THEN st
  ELSE LET a == args[i] IN
    CASE a.text = "--" -> [st EXCEPT !.pos = @ \o SubSeq(args, i + 1, Len(args))]
      [] a.letter = "" -> ParseArgs(args, i + 1, [st EXCEPT !.pos = Append(@, a)])
      [] a.letter \notin OptLetters -> [st EXCEPT !.usage = TRUE]
      [] a.letter = "t" -> ParseArgs(args, i + 1, [st EXCEPT !.secs_to_msecs = TRUE])
      [] OTHER -> ParseArgs(args, i + 1, [st EXCEPT !.mode = ModeOf[a.letter]])

ExpectedArgs(mode) ==
  CASE mode = kModeSendSample -> 5
    [] mode = kModeSendEnumSample -> 3
    [] mode = kModeSendSparseSample -> 2
    [] mode \in {kModeSendUserAction, kModeSendCrosEvent} -> 1
    [] OTHER -> 0

\* SendStats(): the sample (seconds to milliseconds with -t), then max for
\* an enum sample, or min, max and nbuckets; a number that does not parse
\* ends in ShowUsage().
SendStats(pos, mode, secs_to_msecs) ==
  LET sample == IF secs_to_msecs THEN pos[2].msec ELSE pos[2].int
      rest == [k \in 1..Len(pos) - 2 |-> pos[k + 2].int]
      fn == CASE mode = kModeSendSparseSample -> "SendSparseToUMA"
              [] mode = kModeSendEnumSample -> "SendEnumToUMA"
              [] OTHER -> "SendToUMA"
  IN  IF sample = NoNumber \/ \E k \in DOMAIN rest : rest[k] = NoNumber
        THEN ShowUsage
        ELSE Call(fn, pos[1].text, <<sample>> \o rest, 0)

Status(lib_ok) == IF lib_ok THEN 0 ELSE 1
SendUserAction(pos) == Call("SendUserActionToUMA", pos[1].text, <<>>, 0)
SendCrosEvent(pos, lib_ok) == Call("SendCrosEventToUMA", pos[1].text, <<>>, Status(lib_ok))
CreateConsent(lib_ok) == Call("EnableMetrics", "", <<>>, Status(lib_ok))
DeleteConsent(lib_ok) == Call("DisableMetrics", "", <<>>, Status(lib_ok))
HasConsent(lib_ok) == Call("AreMetricsEnabled", "", <<>>, Status(lib_ok))
IsGuestMode(lib_ok) == Call("IsGuestMode", "", <<>>, Status(lib_ok))
ShowConsentId(lib_ok) == Call("ConsentId", "", <<>>, Status(lib_ok))

\* Mutant: -t is not refused with -e and -s.
MainAllowsSecsWithSparse(args, lib_ok) ==
  LET st == ParseArgs(args, 1, [mode |-> kModeSendSample, secs_to_msecs |-> FALSE,
                                usage |-> FALSE, pos |-> <<>>])
  IN  CASE st.usage \/ Len(st.pos) # ExpectedArgs(st.mode) -> ShowUsage
        [] st.mode \in {kModeSendSample, kModeSendEnumSample, kModeSendSparseSample} ->
             SendStats(st.pos, st.mode, st.secs_to_msecs)
        [] st.mode = kModeSendUserAction -> SendUserAction(st.pos)
        [] st.mode = kModeSendCrosEvent -> SendCrosEvent(st.pos, lib_ok)
        [] st.mode = kModeCreateConsent -> CreateConsent(lib_ok)
        [] st.mode = kModeDeleteConsent -> DeleteConsent(lib_ok)
        [] st.mode = kModeHasConsent -> HasConsent(lib_ok)
        [] st.mode = kModeIsGuestMode -> IsGuestMode(lib_ok)
        [] OTHER -> ShowConsentId(lib_ok)

\* main(): the options, the argument count, then the mode's call; -t with
\* a mode other than the default sample ends in ShowUsage() only for an
\* enum or sparse sample.
Main(args, lib_ok) ==
  LET st == ParseArgs(args, 1, [mode |-> kModeSendSample, secs_to_msecs |-> FALSE,
                                usage |-> FALSE, pos |-> <<>>])
  IN  CASE st.usage \/ Len(st.pos) # ExpectedArgs(st.mode) -> ShowUsage
        [] st.mode \in {kModeSendSample, kModeSendEnumSample, kModeSendSparseSample} ->
             IF st.mode # kModeSendSample /\ st.secs_to_msecs THEN ShowUsage
             ELSE SendStats(st.pos, st.mode, st.secs_to_msecs)
        [] st.mode = kModeSendUserAction -> SendUserAction(st.pos)
        [] st.mode = kModeSendCrosEvent -> SendCrosEvent(st.pos, lib_ok)
        [] st.mode = kModeCreateConsent -> CreateConsent(lib_ok)
        [] st.mode = kModeDeleteConsent -> DeleteConsent(lib_ok)
        [] st.mode = kModeHasConsent -> HasConsent(lib_ok)
        [] st.mode = kModeIsGuestMode -> IsGuestMode(lib_ok)
        [] OTHER -> ShowConsentId(lib_ok)
=============================================================================
