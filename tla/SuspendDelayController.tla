------------------------ MODULE SuspendDelayController ------------------------
(***************************************************************************)
(* The suspend-delay voting mechanism of powerd (spec section 4.1).        *)
(*                                                                         *)
(* Suspender owns two instances of it, one for the pre-suspend delays and  *)
(* one for the dark-resume delays.  Its implementation                     *)
(* (suspend_delay_controller.cc) is not among this repository's sources,   *)
(* so every definition here is modelled from the spec.                     *)
(*                                                                         *)
(* A controller is a record value so that its owner can apply one of its   *)
(* operations inside a larger step; the actions at the end apply the same  *)
(* operators to the variable ctl, giving the component's own spec.         *)
(*                                                                         *)
(*   registered  clients with a registered delay (client_name is the key)  *)
(*   pending     clients of the current round that have not voted ready    *)
(*   current     the attempt id of the current round, NoRound before any   *)
(*   timer       the single aggregate deadline timer is running            *)
(*   notified    history: ids of the "ready" notifications, in order       *)
(*   dropped     history: rounds discarded while clients were pending      *)
(***************************************************************************)
EXTENDS Naturals, Sequences, FiniteSets, Functions

CONSTANTS
  Clients,     \* names of the processes that may register a delay
  RoundIds     \* the attempt ids the owner may start rounds for

ASSUME RoundIds \subseteq Nat \ {0}

\* Id of the round before the first PrepareForSuspend.
NoRound == 0

VARIABLE ctl

Controller ==
  [registered : SUBSET Clients, pending : SUBSET Clients,
   current : RoundIds \cup {NoRound}, timer : BOOLEAN,
   notified : Seq(RoundIds), dropped : SUBSET RoundIds]

Fresh ==
  [registered |-> {}, pending |-> {}, current |-> NoRound, timer |-> FALSE,
   notified |-> <<>>, dropped |-> {}]

\* Variant: the ready notification without clearing the wait list.
NotifyKeepsPending(c) ==
  [c EXCEPT !.timer = FALSE, !.notified = Append(@, c.current)]

\* The round becomes ready: one notification carrying its id, the deadline
\* timer is stopped and nobody is waited on any more.
Notify(c) ==
  [c EXCEPT !.pending = {}, !.timer = FALSE,
            !.notified = Append(@, c.current)]

\* Variant: readiness checked without asking whether the client was waited on.
RemoveFromWaitListUnchecked(c, client) ==
  LET c2 == [c EXCEPT !.pending = @ \ {client}]
  IN  IF c2.pending = {} THEN Notify(c2) ELSE c2

\* Removing a client from the wait list; the round is ready when it was the
\* last pending client.
RemoveFromWaitList(c, client) ==
  LET c2 == [c EXCEPT !.pending = @ \ {client}]
  IN  IF client \in c.pending /\ c2.pending = {} THEN Notify(c2) ELSE c2

\* A round that is superseded while clients are pending is recorded as
\* dropped: it must never become ready afterwards.
Discard(c) ==
  [c EXCEPT !.pending = {}, !.timer = FALSE,
            !.dropped = IF c.pending # {} THEN @ \cup {c.current} ELSE @]

(***************************************************************************)
(* Operations, as functions of a controller value.                         *)
(***************************************************************************)

\* Register(client_name, timeout): adds or replaces a registration.  A
\* client registering mid-round is not waited on by that round.
AfterRegister(c, client) == [c EXCEPT !.registered = @ \cup {client}]

\* Unregister(client_name), and HandleClientDisconnected(client_name).
AfterUnregister(c, client) ==
  RemoveFromWaitList([c EXCEPT !.registered = @ \ {client}], client)

\* Variant: a round that never starts its deadline timer.
AfterPrepareForSuspendNoTimer(c, id) ==
  LET c2 == [Discard(c) EXCEPT !.current = id, !.pending = c.registered]
  IN  IF c.registered = {} THEN Notify(c2) ELSE c2

\* PrepareForSuspend(attempt_id): a new round in which every registered
\* client is pending, with one deadline timer; ready at once when nobody
\* is registered.  A prior round is discarded.
AfterPrepareForSuspend(c, id) ==
  LET c2 == [Discard(c) EXCEPT !.current = id, !.pending = c.registered,
                               !.timer = (c.registered # {})]
  IN  IF c.registered = {} THEN Notify(c2) ELSE c2

\* HandleReadiness(client_name, attempt_id): a vote for a stale attempt id
\* is ignored.
AfterReadiness(c, client, id) ==
  IF id = c.current THEN RemoveFromWaitList(c, client) ELSE c

\* The deadline elapses: the round proceeds as ready.
AfterMaxDelayExpiration(c) == Notify(c)

\* FinishSuspend(attempt_id): clears the round, whatever its outcome.
AfterFinishSuspend(c, id) == Discard(c)

\* The owning process restarts: registrations and the round are lost (the
\* history fields are kept; an open round counts as dropped).
AfterRestart(c) ==
  [Discard(c) EXCEPT !.registered = {}, !.current = NoRound]

(***************************************************************************)
(* What the owner observes of a step: a "ready" notification and its id.   *)
(***************************************************************************)
NotifiedNow == Len(ctl'.notified) > Len(ctl.notified)
NotifiedId  == ctl'.notified[Len(ctl'.notified)]

(***************************************************************************)
(* Properties                                                              *)
(***************************************************************************)

TypeOK == ctl \in Controller

\* Exactly one "ready" per round: no attempt id is notified twice, whatever
\* interleaving of votes, unregistrations, disconnects and the deadline the
\* clients produce, and a round discarded by FinishSuspend or by a newer
\* round while clients were pending is never notified afterwards.
ReadyAtMostOnce ==
  /\ IsInjective(ctl.notified)
  /\ Range(ctl.notified) \cap ctl.dropped = {}

=============================================================================
