----------------------------- MODULE PlanRules -----------------------------
(***************************************************************************)
(* internal/core/plan.go: how one linked account becomes a change, and     *)
(* which changes may be written.  Pure operators, used by the engine both  *)
(* when it plans and when it re-checks a change just before writing it.    *)
(***************************************************************************)
EXTENDS Quota

Safe    == "safe"
Shrink  == "shrink-below-usage"
Blind   == "unknown-state"
Classes == {Safe, Shrink, Blind}

\* Mutant: a quota equal to usage counts as room left.
Below(target, used) ==
  IsBytes(target) /\ IsBytes(used) /\ target.bytes < used.bytes

\* target <= used, not <: a quota equal to usage already blocks uploads.
AtOrBelow(target, used) ==
  IsBytes(target) /\ IsBytes(used) /\ target.bytes <= used.bytes

\* An account record holds: present (some tier allocates this provider),
\* desired (already normalised for the provider), observed, used, neverUsed
\* and observeOK.

\* Mutant: nobody asks whether the usage is known.
ReadableUsedOrNot(account) ==
  account.observeOK /\ IsKnown(account.observed) /\ IsKnown(account.desired)

Readable(account) ==
  /\ account.observeOK
  /\ IsKnown(account.observed)
  /\ IsKnown(account.used)
  /\ IsKnown(account.desired)

Classify(account) ==
  IF ~Readable(account) THEN Blind
  ELSE IF /\ AtOrBelow(account.desired, account.used)
          /\ ~(account.neverUsed /\ account.desired.bytes > 0)
       THEN Shrink
       ELSE Safe

\* A comparison with a value nobody read cannot say "no change", so unknown
\* state is emitted even when the two values look equal.
NeedsChange(account) ==
  /\ account.present
  /\ Classify(account) = Blind \/ ~Equal(account.desired, account.observed)

NoChange == [from |-> Unknown, to |-> Unknown, class |-> "none"]

ChangeFor(account) ==
  IF NeedsChange(account)
  THEN [from |-> account.observed, to |-> account.desired, class |-> Classify(account)]
  ELSE NoChange

\* The plan maps every key to its change, NoChange standing for a key that is
\* not in the list of changes the code builds.
BuildPlan(accounts) == [k \in DOMAIN accounts |-> ChangeFor(accounts[k])]

Changed(plan) == {k \in DOMAIN plan : plan[k].class # "none"}

\* Mutant: one consent for both risky classes.
ApplicableOneConsent(plan, consent) ==
  {k \in Changed(plan) : plan[k].class = Safe \/ consent}

\* The two guardrails, together: unknown state has no flag, a shrink needs one.
Applicable(plan, consent) ==
  {k \in Changed(plan) :
     \/ plan[k].class = Safe
     \/ plan[k].class = Shrink /\ consent}
=============================================================================
