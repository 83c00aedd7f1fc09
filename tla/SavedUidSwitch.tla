---------------------------- MODULE SavedUidSwitch ----------------------------
(***************************************************************************)
(* authpolicy's uid handling (platform_helper.cc): SetSavedUserAndDropCaps *)
(* parks a second uid in the saved set-user-ID and drops CAP_SETUID and    *)
(* CAP_SETPCAP, and ScopedSwitchToSavedUid swaps the real/effective and    *)
(* the saved uid for the lifetime of a C++ scope.  The kernel's rules are  *)
(* part of the model: setresuid() without CAP_SETUID in the effective set  *)
(* may only pick ids among the current real, effective and saved uid, and  *)
(* capset() may only shrink the permitted set and keep the effective set  *)
(* within it.  Besides the two functions, any other code of the process    *)
(* (a parser fed with hostile input, say) may call setresuid() and         *)
(* capset() at any time: the point of dropping the capabilities is that    *)
(* such code cannot leave the two uids.                                    *)
(*                                                                         *)
(* The process starts as a non-root user holding both capabilities, as     *)
(* minijail starts authpolicyd; no uid is 0, so the kernel's root-specific *)
(* capability fix-ups on a uid change never apply.                         *)
(***************************************************************************)
EXTENDS Naturals, Sequences

CONSTANTS
  Uids,         \* the user ids in play (model values)
  InitialUid,   \* the process's real, effective and saved uid at start
  MaxDepth      \* how deeply ScopedSwitchToSavedUid objects may nest

ASSUME InitialUid \in Uids

Keep == "keep"                     \* the -1 argument of setresuid()
Caps == {"CAP_SETUID", "CAP_SETPCAP"}

VARIABLES
  cred,       \* [r, e, s]: the real, effective and saved uid
  eff,        \* the effective capability set
  perm,       \* the permitted capability set
  bnd,        \* the capability bounding set
  scopes,     \* the live ScopedSwitchToSavedUid objects, innermost last:
              \* real_and_effective_uid_ and saved_uid_
  dropped,    \* history: the uids held when SetSavedUserAndDropCaps last
              \* returned true, or {} if it never did
  alive       \* FALSE once a CHECK has failed and the process has aborted

vars == <<cred, eff, perm, bnd, scopes, dropped, alive>>

Cred == [r : Uids, e : Uids, s : Uids]
Held(c) == {c.r, c.e, c.s}

\* setresuid(r, e, s) as the kernel performs it: Keep leaves an id alone;
\* without CAP_SETUID each new id must already be held.
SetresuidAllowed(r, e, s) ==
  \/ "CAP_SETUID" \in eff
  \/ {x \in {r, e, s} : x # Keep} \subseteq Held(cred)

SetresuidResult(r, e, s) ==
  [r |-> IF r = Keep THEN cred.r ELSE r,
   e |-> IF e = Keep THEN cred.e ELSE e,
   s |-> IF s = Keep THEN cred.s ELSE s]

Init ==
  /\ cred = [r |-> InitialUid, e |-> InitialUid, s |-> InitialUid]
  /\ eff = Caps /\ perm = Caps /\ bnd = Caps
  /\ scopes = <<>>
  /\ dropped = {}
  /\ alive = TRUE

\* Mutant: cap_clear_flag(caps, CAP_PERMITTED) left out, so the permitted
\* set keeps both capabilities.
SetSavedUserAndDropCapsKeepsPermitted(saved_uid) ==
  /\ alive
  /\ IF ~SetresuidAllowed(Keep, Keep, saved_uid)
       THEN UNCHANGED <<cred, eff, perm, bnd, dropped>>
       ELSE LET c == SetresuidResult(Keep, Keep, saved_uid) IN
            /\ cred' = c
            /\ IF "CAP_SETPCAP" \notin eff
                 THEN UNCHANGED <<eff, perm, bnd, dropped>>
                 ELSE /\ bnd' = bnd \ Caps
                      /\ \/ UNCHANGED <<eff, perm, dropped>>
                         \/ eff' = {} /\ UNCHANGED perm /\ dropped' = Held(c)
  /\ UNCHANGED <<scopes, alive>>

\* SetSavedUserAndDropCaps(saved_uid).  The steps run in order and the
\* first that fails returns false, leaving what the earlier ones did:
\* setresuid(-1, -1, saved_uid); both PR_CAPBSET_DROPs (which need
\* CAP_SETPCAP); cap_get_proc() (which may fail to allocate), then clearing
\* the effective, permitted and inheritable sets with cap_set_proc().
SetSavedUserAndDropCaps(saved_uid) ==
  /\ alive
  /\ IF ~SetresuidAllowed(Keep, Keep, saved_uid)
       THEN UNCHANGED <<cred, eff, perm, bnd, dropped>>
       ELSE LET c == SetresuidResult(Keep, Keep, saved_uid) IN
            /\ cred' = c
            /\ IF "CAP_SETPCAP" \notin eff
                 THEN UNCHANGED <<eff, perm, bnd, dropped>>
                 ELSE /\ bnd' = bnd \ Caps
                      /\ \/ UNCHANGED <<eff, perm, dropped>>
                         \/ /\ eff' = {} /\ perm' = {}
                            /\ dropped' = Held(c)
  /\ UNCHANGED <<scopes, alive>>

\* ScopedSwitchToSavedUid(): getresuid(), CHECK(real_uid == effective_uid),
\* then CHECK_EQ(0, setresuid(saved, saved, real)).
ScopedSwitchToSavedUid ==
  /\ alive /\ Len(scopes) < MaxDepth
  /\ IF cred.r # cred.e \/ ~SetresuidAllowed(cred.s, cred.s, cred.r)
       THEN alive' = FALSE /\ UNCHANGED <<cred, scopes>>
       ELSE /\ cred' = [r |-> cred.s, e |-> cred.s, s |-> cred.r]
            /\ scopes' = Append(scopes, [real_and_effective_uid |-> cred.r,
                                         saved_uid |-> cred.s])
            /\ UNCHANGED alive
  /\ UNCHANGED <<eff, perm, bnd, dropped>>

\* ~ScopedSwitchToSavedUid() of the innermost object:
\* CHECK_EQ(0, setresuid(real_and_effective_uid_, real_and_effective_uid_,
\* saved_uid_)).
EndScopedSwitchToSavedUid ==
  /\ alive /\ scopes # <<>>
  /\ LET t == scopes[Len(scopes)] IN
       IF SetresuidAllowed(t.real_and_effective_uid, t.real_and_effective_uid,
                           t.saved_uid)
         THEN /\ cred' = [r |-> t.real_and_effective_uid,
                          e |-> t.real_and_effective_uid, s |-> t.saved_uid]
              /\ scopes' = SubSeq(scopes, 1, Len(scopes) - 1)
              /\ UNCHANGED alive
         ELSE alive' = FALSE /\ UNCHANGED <<cred, scopes>>
  /\ UNCHANGED <<eff, perm, bnd, dropped>>

\* Any other code of the process calls setresuid(); on EPERM nothing
\* changes.
OtherSetresuid(r, e, s) ==
  /\ alive
  /\ SetresuidAllowed(r, e, s)
  /\ cred' = SetresuidResult(r, e, s)
  /\ UNCHANGED <<eff, perm, bnd, scopes, dropped, alive>>

\* Any other code of the process calls capset(): the permitted set may
\* only shrink, the effective set lies within the new permitted set.
OtherCapset(e, p) ==
  /\ alive
  /\ p \subseteq perm /\ e \subseteq p
  /\ eff' = e /\ perm' = p
  /\ UNCHANGED <<cred, bnd, scopes, dropped, alive>>

Next ==
  \/ \E u \in Uids : SetSavedUserAndDropCaps(u)
  \/ ScopedSwitchToSavedUid
  \/ EndScopedSwitchToSavedUid
  \/ \E r, e, s \in Uids \cup {Keep} : OtherSetresuid(r, e, s)
  \/ \E p \in SUBSET perm : \E e \in SUBSET p : OtherCapset(e, p)

Spec == Init /\ [][Next]_vars

(***************************************************************************)
(* Properties                                                              *)
(***************************************************************************)

TypeOK ==
  /\ cred \in Cred
  /\ eff \subseteq perm /\ perm \subseteq Caps /\ bnd \subseteq Caps
  /\ dropped \subseteq Uids
  /\ alive \in BOOLEAN

\* Once SetSavedUserAndDropCaps() has returned true, no code of the
\* process, by any sequence of setresuid() and capset() calls and scoped
\* switches, ever holds a uid other than the ones it held at that moment.
ConfinedToDroppedUids == dropped # {} => Held(cred) \subseteq dropped

=============================================================================
