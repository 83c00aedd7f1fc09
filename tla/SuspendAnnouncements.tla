------------------------- MODULE SuspendAnnouncements -------------------------
(***************************************************************************)
(* What powerd's Suspender promises the rest of the system, as seen from  *)
(* outside: the SuspendImminent and SuspendDone signals, the dark suspend  *)
(* rounds, dark resume and the shutdown, with no word about events,        *)
(* delays, timers or retries.  Suspender.tla is shown to implement it.     *)
(*                                                                         *)
(*   outstanding  SuspendImminent signals not yet followed by SuspendDone  *)
(*   request      the id of the last SuspendImminent                       *)
(*   dark_round   the id of the last dark suspend round                    *)
(*   dark_resume  the system is in dark resume                             *)
(*   down         the daemon is shutting the system down                   *)
(***************************************************************************)
EXTENDS Naturals

VARIABLES outstanding, request, dark_round, dark_resume, down

avars == <<outstanding, request, dark_round, dark_resume, down>>

Init ==
  /\ outstanding = 0
  /\ request = 0
  /\ dark_round = 0
  /\ dark_resume = FALSE
  /\ down = FALSE

\* A new request is announced with a fresh id, never on top of another
\* one and never while shutting down.
Announce ==
  /\ ~down /\ outstanding = 0
  /\ request' = request + 1
  /\ outstanding' = 1
  /\ UNCHANGED <<dark_round, dark_resume, down>>

\* Within an announced request, a resuspend starts a new dark round; the
\* system may have woken in dark resume, and once in it stays there.
DarkRound ==
  /\ ~down /\ outstanding = 1
  /\ dark_round' = dark_round + 1
  /\ dark_resume' \in {dark_resume, TRUE}
  /\ UNCHANGED <<outstanding, request, down>>

\* SuspendDone answers the request and the system is fully resumed.
Answer ==
  /\ ~down /\ outstanding = 1
  /\ outstanding' = 0
  /\ dark_resume' = FALSE
  /\ UNCHANGED <<request, dark_round, down>>

\* The shutdown, after answering the request or leaving it outstanding.
ShutDown ==
  /\ ~down
  /\ down' = TRUE
  /\ \/ UNCHANGED <<outstanding, dark_resume>>
     \/ outstanding = 1 /\ outstanding' = 0 /\ dark_resume' = FALSE
  /\ UNCHANGED <<request, dark_round>>

\* A restart answers whatever was left outstanding and forgets the rest;
\* ids are never reused.
Restart ==
  /\ outstanding' = 0
  /\ dark_resume' = FALSE
  /\ down' = FALSE
  /\ UNCHANGED <<request, dark_round>>

Next == Announce \/ DarkRound \/ Answer \/ ShutDown \/ Restart

\* An announced request is answered unless the system goes down.
Spec == Init /\ [][Next]_avars /\ WF_avars(Answer)
=============================================================================
