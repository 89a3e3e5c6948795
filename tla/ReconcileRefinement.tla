------------------------ MODULE ReconcileRefinement ------------------------
(***************************************************************************)
(* Reconcile implements GuardedWrites.  Between the re-read of the change  *)
(* in hand and the outcome of its write, the engine holds one look; at no  *)
(* other moment does it hold any.                                          *)
(***************************************************************************)
EXTENDS Reconcile

LookedAt ==
  [a \in Pairs |-> IF pc = "write" /\ InHand(a) THEN fresh.used.bytes ELSE -1]

Promise == INSTANCE GuardedWrites WITH
  quota   <- [a \in Pairs |-> account[a].quota],
  used    <- [a \in Pairs |-> account[a].used],
  look    <- LookedAt,
  consent <- run.consent,
  written <- landed

\* Every quota Nuno changes was licensed by one true look at that account's
\* usage, taken in the same run and used once, a look that showed the person
\* would be blocked was used only with consent, and no account is written
\* twice in a run.
KeepsPromise == Promise!Spec

(***************************************************************************)
(* Why it holds: an invariant of the engine that every step preserves.     *)
(***************************************************************************)
Applying == pc \in {"apply", "write", "record", "refresh"}

\* A change worth writing was planned from a row that can be trusted, and aims
\* at a value the provider keeps as it is.
Trusted(a) ==
  /\ row[a].observeOK /\ IsKnown(row[a].quota) /\ IsKnown(row[a].used)
  /\ IsKnown(plan[a].to)
  /\ NormalizeQuota(a[2], plan[a].to) = plan[a].to

ConsentIsGiven == run.consent => run.actor = "operator"

PlanIsTrusted ==
  pc = "start" => \A a \in Pairs : plan[a].class \in {Safe, Shrink} => Trusted(a)

TodoIsTrusted ==
  Applying => \A a \in todo :
    /\ plan[a].class = Safe \/ (plan[a].class = Shrink /\ run.consent)
    /\ Trusted(a)

\* Nothing still to do was written, but for the change whose write is being
\* recorded.
TodoIsUnwritten ==
  Applying => \A a \in todo \cap landed : pc \in {"record", "refresh"} /\ InHand(a)

\* What licenses the write in progress.
LookIsGood ==
  pc = "write" => \A a \in Pairs : InHand(a) =>
    /\ IsKnown(fresh.quota) /\ IsKnown(fresh.used)
    /\ AtOrBelow(plan[a].to, fresh.used) => run.consent

\* Type correctness depends on the rest: that a write leaves the account with
\* a quota at all is because nothing unknown reaches todo.
Inductive == /\ TypeOK
             /\ ConsentIsGiven
             /\ PlanIsTrusted
             /\ TodoIsTrusted
             /\ TodoIsUnwritten
             /\ LookIsGood
=============================================================================
