---------------------------- MODULE MCSuspender ----------------------------
(* Model-checking instance of Suspender.  Two clients (one may hold a     *)
(* normal and a dark delay, or vanish from the bus mid-round while the    *)
(* other is still pending), two requests so that a request can follow an  *)
(* aborted one, a restart or a nested resuspend from                      *)
(* UndoPrepareToSuspend(), two dark suspend ids for a dark wake followed  *)
(* by a canceled resuspend, and one retry so that both the retry and the  *)
(* shutdown after the last failed retry are reached.                      *)
EXTENDS Suspender, TLC

CONSTANTS c1, c2

MCClients == {c1, c2}

\* Clients are interchangeable names (a set of registrations keyed by name).
ClientSymmetry == Permutations(MCClients)
=============================================================================
