------------------------------ MODULE MCPolicy ------------------------------
(***************************************************************************)
(* A small household for PolicyStore: one person in two groups, one in     *)
(* none, and two providers, of which the second rounds to even counts.     *)
(***************************************************************************)
EXTENDS PolicyStore

Two     == {1, 2}
AllNames == {"gold", "Gold", "basic"}
Fold    == [n \in {"gold", "Gold", "basic"} |-> IF n = "Gold" THEN "gold" ELSE n]
Members == [u \in {1, 2} |-> IF u = 1 THEN {1, 2} ELSE {}]

Alloc(p, m, v) == [provider |-> p, mode |-> m, value |-> v]

Absolute == {Alloc(1, "absolute", 1)}
Mixed    == {Alloc(1, "absolute", 1), Alloc(2, "percent", 50)}
Halves   == {Alloc(1, "percent", 50), Alloc(2, "percent", 50)}
Lifted   == {Alloc(1, "unlimited", 0), Alloc(2, "absolute", 3)}

SomeDrafts == {{}, Mixed, Lifted}
SomeTyped  == {Unknown, Unlimited, BytesQuota(4)}

Row(q, u)  == [quota |-> q, used |-> u, observeOK |-> TRUE]
Hand       == Row(BytesQuota(3), BytesQuota(1))
Unused     == Row(BytesQuota(4), BytesQuota(0))
Unread     == Row(Unlimited, Unknown)
SomeRows   == [k \in {1, 2} \X {1, 2} |->
                 IF k = <<1, 1>> THEN {Hand, Unread} ELSE IF k[2] = 2 THEN {Unused} ELSE {Hand}]

Even(q) == IF IsBytes(q) THEN BytesQuota(Rounded(q.bytes, 2)) ELSE q

Stored == [p \in {1, 2} |-> [q \in CeilingsOver(0..8) |-> IF p = 1 THEN q ELSE Even(q)]]

Tier(n, b, d, a) == [name |-> n, budget |-> b, default |-> d, alloc |-> a]

Furnished == [tiers     |-> <<Tier("basic", BytesQuota(1), FALSE, Absolute),
                              Tier("gold", BytesQuota(4), FALSE, Halves)>>,
              groupTier |-> <<2, NoTier>>]

EmptyOrFurnished == {Empty, Furnished}
=============================================================================
