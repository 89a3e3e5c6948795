---------------------------- MODULE MCReconcile ----------------------------
(***************************************************************************)
(* Small instances of Reconcile for TLC.                                   *)
(***************************************************************************)
EXTENDS ReconcileRefinement

TwoUsers     == {1, 2}
OneProvider  == {1}
TwoProviders == {1, 2}
Byte2        == {1, 2}
Bytes0to3    == 0..3

\* Stores what it is given; or rounds 1 up and 3 down to an even count.
Exact   == [p \in Providers |-> [n \in Sizes |-> BytesQuota(n)]]
Rounded == [p \in Providers |-> [n \in Sizes |-> BytesQuota(IF n \in {1, 3} THEN 2 ELSE n)]]

NoProvider == {}
Second     == {2}

OneWrite   == [p \in Providers |-> 1]
TwoWrites  == [p \in Providers |-> 2]

Gone    == {"enabled", "gone"}
AnyFate == {"enabled", "disabled", "gone"}

\* What a run may fail to store: anything, or anything but audit entries, which
\* nothing reads.
Anything    == {"entry", "row", "end"}
RowsAndEnds == Anything \ {"entry"}

\* A person who stores something, on the service's unlimited default.
InUse == {[quota |-> Unlimited, used |-> 1, status |-> "enabled"]}
\* Her tier wants more than she stores.
Wanted == {[present |-> TRUE, ceiling |-> BytesQuota(2)]}

\* Or no more: people store one byte or two, and their tiers give one or two.
AnyUse  == {[quota |-> Unlimited, used |-> n, status |-> "enabled"] : n \in Byte2}
AnyTier == {[present |-> TRUE, ceiling |-> BytesQuota(n)] : n \in Byte2}

\* Her tier wants more than its provider can keep.
RoundedDown == {[present |-> TRUE, ceiling |-> BytesQuota(3)]}
=============================================================================
