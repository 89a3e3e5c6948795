--------------------------- MODULE GuardedWrites ---------------------------
(***************************************************************************)
(* What a reconcile promises whoever lives on the providers, with the      *)
(* engine left out: Nuno changes a quota only by spending one true look at *)
(* that account's usage, taken after the operator decided about consent,   *)
(* and a look that shows the new quota would block the person is spent     *)
(* only if she consented.                                                  *)
(***************************************************************************)
EXTENDS Quota

CONSTANTS Pairs, Sizes

VARIABLES
  quota,    \* configured quotas on the providers
  used,     \* what people store, in bytes
  look,     \* the usage Nuno has just seen for an account, or Nothing
  consent,  \* whether the run in progress may shrink below usage
  written   \* the accounts whose quota Nuno set in its latest run

gvars == <<quota, used, look, consent, written>>

Nothing  == -1
Ceilings == CeilingsOver(Sizes)
NoLook   == [a \in Pairs |-> Nothing]

Init ==
  /\ quota \in [Pairs -> Ceilings]
  /\ used \in [Pairs -> Sizes]
  /\ look = NoLook
  /\ consent = FALSE
  /\ written = {}

\* People and other tools change an account whenever they like.
Others ==
  /\ \E a \in Pairs :
       \/ \E q \in Ceilings : quota' = [quota EXCEPT ![a] = q] /\ UNCHANGED used
       \/ \E n \in Sizes : used' = [used EXCEPT ![a] = n] /\ UNCHANGED quota
  /\ UNCHANGED <<look, consent, written>>

\* Consent is settled before anything is looked at.
Decide ==
  /\ look = NoLook
  /\ consent' \in BOOLEAN
  /\ UNCHANGED <<quota, used, look, written>>

StartOver ==
  /\ look = NoLook
  /\ written' = {}
  /\ UNCHANGED <<quota, used, look, consent>>

Look(a) ==
  /\ look' = [look EXCEPT ![a] = used[a]]
  /\ UNCHANGED <<quota, used, consent, written>>

Forget(a) ==
  /\ look' = [look EXCEPT ![a] = Nothing]
  /\ UNCHANGED <<quota, used, consent, written>>

\* An account is written at most once in a run.
Write(a, q) ==
  /\ look[a] # Nothing /\ a \notin written
  /\ IsBytes(q) /\ q.bytes <= look[a] => consent
  /\ quota' = [quota EXCEPT ![a] = q]
  /\ look' = [look EXCEPT ![a] = Nothing]
  /\ written' = written \cup {a}
  /\ UNCHANGED <<used, consent>>

Next ==
  \/ Others
  \/ Decide
  \/ StartOver
  \/ \E a \in Pairs :
       \/ Look(a)
       \/ Forget(a)
       \/ \E q \in Ceilings : Write(a, q)

Spec == Init /\ [][Next]_gvars
=============================================================================
