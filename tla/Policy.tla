------------------------------- MODULE Policy -------------------------------
(***************************************************************************)
(* internal/core/policy.go and resolve.go: what a tier offers on one       *)
(* provider, and which offer becomes a person's ceiling.  Pure operators,  *)
(* over integers as wide as the program's.                                 *)
(***************************************************************************)
EXTENDS Quota, FiniteSetsExt

CONSTANTS
  Half   \* the integers are -Half .. Half - 1, and wrap around

ASSUME HalfAssumption == Half \in Nat \ {0}

NoTier  == 0
NoGroup == 0
Modes   == {"absolute", "percent", "unlimited"}
Rules   == {"provider-override", "user-tier", "group-tier", "default-tier", "none"}

Wrap(n) == ((n + Half) % (2 * Half)) - Half

\* Division truncates towards zero, so a wrapped product stays negative.
Hundredth(n) == IF n >= 0 THEN n \div 100 ELSE -((-n) \div 100)
-----------------------------------------------------------------------------
(* Tiers: a name, a budget, the default flag, and a set of allocations.    *)

Allocations(mode, tier) == {a \in tier.alloc : a.mode = mode}

Sum(allocations) == MapThenSumSet(LAMBDA a : a.value, allocations)

Overcommitted(tier) == Wrap(Sum(Allocations("percent", tier))) > 100

Validate(tier) ==
  /\ tier.name # ""
  /\ Valid(tier.budget)
  /\ \A a, b \in tier.alloc : a.provider = b.provider => a = b
  /\ \A a \in Allocations("absolute", tier) : a.value >= 0
  /\ \A a \in Allocations("percent", tier) : a.value \in 0..100 /\ IsBytes(tier.budget)
  /\ IsBytes(tier.budget) => Wrap(Sum(Allocations("absolute", tier))) <= tier.budget.bytes

\* Mutant: a share of the whole budget.
RemainderWhole(tier) == tier.budget.bytes

\* Absolute allocations come out of the budget before a share is taken.
Remainder(tier) ==
  LET r == Wrap(tier.budget.bytes - Sum(Allocations("absolute", tier)))
  IN IF r < 0 THEN 0 ELSE r

\* Mutant: a share of a budget nobody set is taken for no limit.
PercentOfNothing(tier, share) ==
  IF IsBytes(tier.budget)
  THEN BytesQuota(Hundredth(Wrap(Remainder(tier) * share)))
  ELSE Unlimited

\* Unknown stands for "this tier says nothing".
PercentOf(tier, share) ==
  IF IsBytes(tier.budget)
  THEN BytesQuota(Hundredth(Wrap(Remainder(tier) * share)))
  ELSE Unknown

Offer(tier, a) ==
  CASE a.mode = "unlimited" -> Unlimited
    [] a.mode = "absolute"  -> BytesQuota(a.value)
    [] a.mode = "percent"   -> PercentOf(tier, a.value)

AllocationFor(tier, p) ==
  IF \E a \in tier.alloc : a.provider = p
  THEN Offer(tier, CHOOSE a \in tier.alloc : a.provider = p)
  ELSE Unknown
-----------------------------------------------------------------------------
(* Resolution.  A policy is the tiers by id, Vacant where there is none,   *)
(* and the tier of each mapped group.                                      *)

Vacant == [name |-> "", budget |-> Unknown, default |-> FALSE, alloc |-> {}]

Exists(tiers, id) == id \in DOMAIN tiers /\ tiers[id] # Vacant

DefaultTiers(tiers) == {id \in DOMAIN tiers : Exists(tiers, id) /\ tiers[id].default}

\* Mutant: the strictest of the offers.
LessGenerous(candidate, current) ==
  /\ IsKnown(candidate)
  /\ candidate # Unlimited
  /\ current = Unlimited \/ ~IsKnown(current) \/ candidate.bytes < current.bytes

MoreGenerous(candidate, current) ==
  /\ IsKnown(candidate)
  /\ current # Unlimited
  /\ \/ candidate = Unlimited
     \/ ~IsKnown(current)
     \/ candidate.bytes > current.bytes

\* Mutant: the default tier is one more candidate.
CandidateTiersAll(member, policy, userTier) ==
  LET mapped == {g \in member : policy.groupTier[g] # NoTier}
  IN [rule  |-> "group-tier",
      tiers |-> {[tier |-> policy.groupTier[g], group |-> g] : g \in mapped}
           \cup {[tier |-> i, group |-> NoGroup] : i \in DefaultTiers(policy.tiers)}]

\* Groups are numbered in the order of their uuids.
CandidateTiers(member, policy, userTier) ==
  LET mapped   == {g \in member : policy.groupTier[g] # NoTier}
      single(i) == {[tier |-> i, group |-> NoGroup]}
  IN CASE userTier # NoTier -> [rule |-> "user-tier", tiers |-> single(userTier)]
       [] userTier = NoTier /\ mapped # {} ->
            [rule  |-> "group-tier",
             tiers |-> {[tier |-> policy.groupTier[g], group |-> g] : g \in mapped}]
       [] userTier = NoTier /\ mapped = {} /\ DefaultTiers(policy.tiers) # {} ->
            [rule  |-> "default-tier",
             tiers |-> single(CHOOSE i \in DefaultTiers(policy.tiers) : TRUE)]
       [] OTHER -> [rule |-> "none", tiers |-> {}]

\* The loop keeps the first of the most generous offers.
Prevails(o, others) ==
  \A q \in others \ {o} :
    \/ MoreGenerous(o.offered, q.offered)
    \/ ~MoreGenerous(q.offered, o.offered) /\ o.group < q.group

Nothing == [present |-> FALSE, ceiling |-> Unknown, rule |-> "none"]

\* Mutant: an override counts only where it is the more generous.
ResolveGenerously(member, p, policy, override, userTier) ==
  LET candidates == CandidateTiers(member, policy, userTier).tiers
      made == {q \in {AllocationFor(policy.tiers[c.tier], p) :
                        c \in {d \in candidates : Exists(policy.tiers, d.tier)}}
                     \cup {override} : IsKnown(q)}
  IN IF made = {} THEN Nothing
     ELSE [present |-> TRUE, rule |-> "provider-override",
           ceiling |-> CHOOSE q \in made : \A r \in made : ~MoreGenerous(r, q)]

Resolve(member, p, policy, override, userTier) ==
  LET candidates == CandidateTiers(member, policy, userTier)
      offers == {[group |-> c.group, offered |-> AllocationFor(policy.tiers[c.tier], p)] :
                   c \in {d \in candidates.tiers : Exists(policy.tiers, d.tier)}}
      made   == {o \in offers : IsKnown(o.offered)}
  IN IF IsKnown(override)
     THEN [present |-> TRUE, ceiling |-> override, rule |-> "provider-override"]
     ELSE IF made = {} THEN Nothing
     ELSE [present |-> TRUE,
           ceiling |-> (CHOOSE o \in made : Prevails(o, made)).offered,
           rule    |-> candidates.rule]

\* What a person's resolutions add up to; their order does not matter.
EffectiveBudget(resolutions) ==
  LET present == {k \in DOMAIN resolutions : resolutions[k].present}
  IN IF \E k \in present : resolutions[k].ceiling = Unlimited THEN Unlimited
     ELSE IF present = {} THEN Unknown
     ELSE BytesQuota(Wrap(MapThenSumSet(LAMBDA k : resolutions[k].ceiling.bytes, present)))
=============================================================================
