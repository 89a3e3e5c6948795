---------------------------- MODULE PolicyProofs ----------------------------
(***************************************************************************)
(* Theorems about PolicyStore, for any people, groups, providers and       *)
(* tiers, and integers of any width: its type invariant; the plan that     *)
(* follows an adoption is empty; a plan follows the policy as documented;  *)
(* a torn reading of the tables lifts no ceiling nobody lifted; a tier     *)
(* stays within its budget; and one more group restricts nobody.           *)
(***************************************************************************)
EXTENDS PolicyStore, SumProofs

(***************************************************************************)
(* What a tier offers.                                                     *)
(***************************************************************************)

\* The sum of a set of allocations is the total of their values.
LEMMA SumIsTotal ==
  ASSUME NEW S, IsFiniteSet(S), \A a \in S : a.value \in Int
  PROVE  Sum(S) = Total([a \in S |-> a.value], S)
<1> DEFINE f == [a \in S |-> a.value]
           P(h) == h = [T \in SUBSET S |-> IF T = {} THEN 0
                          ELSE LET x == CHOOSE y \in T : TRUE IN x.value + h[T \ {x}]]
           iter == CHOOSE h : P(h)
<1>1. PICK g : Measures(g, f, S)
  BY MeasureExists
<1>2. \A h : P(h) <=> AddsUp(h, f, S)
  BY DEF AddsUp
<1>3. AddsUp(g, f, S)
  BY <1>1, MeasureAddsUp
<1>4. P(iter)
  <2> HIDE DEF P
  <2> QED BY <1>2, <1>3
<1>5. iter = g
  <2> HIDE DEF iter, P, f
  <2> QED BY <1>1, <1>2, <1>4, RecursionMeasures
<1>6. Sum(S) = iter[S]
  BY DEF Sum, MapThenSumSet, MapThenFoldSet
<1>7. Total(f, S) = g[S]
  <2> HIDE DEF f
  <2> QED BY <1>1, TotalIsMeasured
<1> QED BY <1>5, <1>6, <1>7

\* A quota is one of three things.
LEMMA QuotaCases ==
  /\ Unknown \in Quotas /\ Unlimited \in Quotas
  /\ \A n \in Int : BytesQuota(n) \in Quotas
  /\ \A q \in Quotas : q = Unknown \/ q = Unlimited \/ (q.kind = "bytes" /\ q.bytes \in Nat)
  /\ \A q \in Quotas : /\ IsKnown(q) <=> q # Unknown
                       /\ IsBytes(q) <=> q # Unknown /\ q # Unlimited
<1>1. /\ Unknown \in Quotas /\ Unlimited \in Quotas
      /\ \A n \in Int : BytesQuota(n) \in Quotas
  BY DEF Quotas, Unknown, Unlimited, BytesQuota, Valid, Kinds, IsBytes
<1>2. ASSUME NEW q \in Quotas
      PROVE  /\ q.kind \in Kinds /\ q.bytes \in Nat /\ q = [kind |-> q.kind, bytes |-> q.bytes]
             /\ q.kind # "bytes" => q.bytes = 0
  BY DEF Quotas, Valid, IsBytes
<1>3. ASSUME NEW q \in Quotas
      PROVE  /\ q = Unknown \/ q = Unlimited \/ (q.kind = "bytes" /\ q.bytes \in Nat)
             /\ IsKnown(q) <=> q # Unknown
             /\ IsBytes(q) <=> q # Unknown /\ q # Unlimited
  BY <1>2 DEF Kinds, Unknown, Unlimited, IsKnown, IsBytes
<1> QED BY <1>1, <1>3

\* Whatever wraps around stays an integer.
LEMMA Wrapped ==
  ASSUME NEW n \in Int
  PROVE  Wrap(n) \in Int /\ Hundredth(n) \in Int
<1>1. 2 * Half \in Int /\ 2 * Half > 0 /\ n + Half \in Int
  BY HalfAssumption
<1>2. (n + Half) % (2 * Half) \in Int
  BY <1>1
<1>3. Wrap(n) \in Int
  BY <1>2, HalfAssumption DEF Wrap
<1>4. Hundredth(n) \in Int
  BY DEF Hundredth
<1> QED BY <1>3, <1>4

\* Integers add up to an integer.
LEMMA SumIsInt ==
  ASSUME NEW tier \in Tiers, NEW S, S \subseteq tier.alloc
  PROVE  Sum(S) \in Int /\ IsFiniteSet(S) /\ \A a \in S : a.value \in Int
<1>1. IsFiniteSet(tier.alloc) /\ tier.alloc \subseteq Shares
  BY DEF Tiers
<1>2. IsFiniteSet(S)
  BY <1>1, FS_Subset
<1>3. \A a \in S : a.value \in Int
  BY <1>1 DEF Shares
<1> DEFINE f == [a \in S |-> a.value]
<1>4. \A a \in S : f[a] \in Int
  BY <1>3
<1>5. Total(f, S) \in Int
  <2> HIDE DEF f
  <2> QED BY <1>2, <1>4, TotalSteps
<1> QED BY <1>2, <1>3, <1>5, SumIsTotal

\* What a tier offers is a quota, and it is unlimited only where the tier says
\* so in as many words.
LEMMA OfferTyped ==
  ASSUME NEW tier \in Tiers, NEW a \in tier.alloc
  PROVE  Offer(tier, a) \in Quotas /\ (Offer(tier, a) = Unlimited <=> a.mode = "unlimited")
<1>1. a.mode \in Modes /\ a.value \in Int
  BY DEF Tiers, Shares
<1>2. CASE a.mode = "unlimited"
  BY <1>2, QuotaCases DEF Offer
<1>3. \A n \in Int : BytesQuota(n) # Unlimited
  BY DEF BytesQuota, Unlimited, Unknown
<1>4. CASE a.mode = "absolute"
  BY <1>1, <1>3, <1>4, QuotaCases DEF Offer
<1>5. CASE a.mode = "percent"
  <2>1. Offer(tier, a) = PercentOf(tier, a.value)
    BY <1>5 DEF Offer
  <2>2. CASE ~IsBytes(tier.budget)
    BY <1>5, <2>1, <2>2, QuotaCases DEF PercentOf, Unknown, Unlimited
  <2>3. CASE IsBytes(tier.budget)
    <3>1. tier.budget.bytes \in Int
      BY DEF Tiers, Quotas
    <3>2. Sum(Allocations("absolute", tier)) \in Int
      BY SumIsInt DEF Allocations
    <3>3. tier.budget.bytes - Sum(Allocations("absolute", tier)) \in Int
      BY <3>1, <3>2
    <3>4. Remainder(tier) \in Int
      BY <3>3, Wrapped DEF Remainder
    <3>5. Remainder(tier) * a.value \in Int
      BY <1>1, <3>4
    <3>6. Hundredth(Wrap(Remainder(tier) * a.value)) \in Int
      BY <3>5, Wrapped
    <3> QED BY <1>3, <1>5, <2>1, <2>3, <3>6, QuotaCases DEF PercentOf
  <2> QED BY <2>2, <2>3
<1> QED BY <1>1, <1>2, <1>4, <1>5 DEF Modes

SaysUnlimited(alloc, p) ==
  /\ \E a \in alloc : a.provider = p
  /\ (CHOOSE a \in alloc : a.provider = p).mode = "unlimited"

\* The same of its offer for one provider.
LEMMA AllocationTyped ==
  ASSUME NEW tier \in Tiers, NEW p
  PROVE  /\ AllocationFor(tier, p) \in Quotas
         /\ AllocationFor(tier, p) = Unlimited <=> SaysUnlimited(tier.alloc, p)
<1>1. CASE \E a \in tier.alloc : a.provider = p
  <2> DEFINE c == CHOOSE a \in tier.alloc : a.provider = p
  <2>1. c \in tier.alloc
    BY <1>1
  <2>2. AllocationFor(tier, p) = Offer(tier, c) /\ (SaysUnlimited(tier.alloc, p) <=> c.mode = "unlimited")
    BY <1>1 DEF AllocationFor, SaysUnlimited
  <2> HIDE DEF c
  <2> QED BY <2>1, <2>2, OfferTyped
<1>2. CASE ~ \E a \in tier.alloc : a.provider = p
  BY <1>2, QuotaCases DEF AllocationFor, SaysUnlimited, Unknown, Unlimited
<1> QED BY <1>1, <1>2

(***************************************************************************)
(* Which offer prevails.                                                   *)
(***************************************************************************)

\* Being more generous is an order in which only equal ceilings tie.
LEMMA Generosity ==
  ASSUME NEW a \in Quotas, NEW b \in Quotas, NEW c \in Quotas, IsKnown(a), IsKnown(b), IsKnown(c)
  PROVE  /\ ~(MoreGenerous(a, b) /\ MoreGenerous(b, a))
         /\ MoreGenerous(a, b) /\ MoreGenerous(b, c) => MoreGenerous(a, c)
         /\ ~MoreGenerous(a, b) /\ ~MoreGenerous(b, a) => a = b
<1>1. \A q \in Quotas : q = [kind |-> q.kind, bytes |-> q.bytes]
  BY DEF Quotas
<1>2. /\ a = Unlimited \/ (a # Unlimited /\ a.kind = "bytes" /\ a.bytes \in Nat)
      /\ b = Unlimited \/ (b # Unlimited /\ b.kind = "bytes" /\ b.bytes \in Nat)
      /\ c = Unlimited \/ (c # Unlimited /\ c.kind = "bytes" /\ c.bytes \in Nat)
  BY QuotaCases
<1>3. ~(MoreGenerous(a, b) /\ MoreGenerous(b, a))
  BY <1>2 DEF MoreGenerous
<1>4. MoreGenerous(a, b) /\ MoreGenerous(b, c) => MoreGenerous(a, c)
  BY <1>2 DEF MoreGenerous
<1>5. ~MoreGenerous(a, b) /\ ~MoreGenerous(b, a) => a = b
  BY <1>1, <1>2 DEF MoreGenerous
<1> QED BY <1>3, <1>4, <1>5

\* The offers Resolve compares, as it makes them, and those that say something.
Offers(member, p, policy) ==
  {[group |-> c.group, offered |-> AllocationFor(policy.tiers[c.tier], p)] :
     c \in {d \in CandidateTiers(member, policy, NoTier).tiers : Exists(policy.tiers, d.tier)}}

Made(member, p, policy) == {o \in Offers(member, p, policy) : IsKnown(o.offered)}

\* The tiers a person may get an offer from: those of her groups, one for each,
\* or the default one.
LEMMA CandidateCases ==
  ASSUME NEW member \in SUBSET Groups, NEW policy \in Tables
  PROVE  LET mapped == {g \in member : policy.groupTier[g] # NoTier}
             tiersOf == CandidateTiers(member, policy, NoTier).tiers
         IN /\ mapped # {} => tiersOf = {[tier |-> policy.groupTier[g], group |-> g] : g \in mapped}
            /\ mapped = {} /\ DefaultTiers(policy.tiers) # {} =>
                 \E i \in DefaultTiers(policy.tiers) : tiersOf = {[tier |-> i, group |-> NoGroup]}
            /\ mapped = {} /\ DefaultTiers(policy.tiers) = {} => tiersOf = {}
<1> DEFINE mapped == {g \in member : policy.groupTier[g] # NoTier}
           tiersOf == CandidateTiers(member, policy, NoTier).tiers
<1>1. CASE mapped # {}
  BY <1>1 DEF CandidateTiers
<1>2. CASE mapped = {} /\ DefaultTiers(policy.tiers) # {}
  <2> DEFINE i == CHOOSE j \in DefaultTiers(policy.tiers) : TRUE
  <2>1. i \in DefaultTiers(policy.tiers)
    BY <1>2
  <2>2. tiersOf = {[tier |-> i, group |-> NoGroup]}
    BY <1>2 DEF CandidateTiers
  <2> QED BY <1>2, <2>1, <2>2
<1>3. CASE mapped = {} /\ DefaultTiers(policy.tiers) = {}
  BY <1>3 DEF CandidateTiers
<1> QED BY <1>1, <1>2, <1>3

\* A tier of the tables, or the absence of one, offers quotas.
LEMMA AnyTierOffers ==
  ASSUME NEW tier \in Tiers \cup {Vacant}, NEW p
  PROVE  /\ AllocationFor(tier, p) \in Quotas
         /\ AllocationFor(tier, p) = Unlimited <=> SaysUnlimited(tier.alloc, p)
<1>1. CASE tier \in Tiers
  BY <1>1, AllocationTyped
<1>2. CASE tier = Vacant
  <2>1. tier.alloc = {}
    BY <1>2 DEF Vacant
  <2> QED BY <2>1, QuotaCases DEF AllocationFor, SaysUnlimited, Unknown, Unlimited
<1> QED BY <1>1, <1>2

\* The offers are finitely many, at most one for each group, and each is that
\* of a tier there is.
LEMMA MadeTyped ==
  ASSUME NEW member \in SUBSET Groups, NEW policy \in Tables, NEW p
  PROVE  /\ IsFiniteSet(Made(member, p, policy))
         /\ \A o \in Made(member, p, policy) :
              /\ o.group \in Nat /\ o.offered \in Quotas /\ IsKnown(o.offered)
              /\ \E i \in Ids : Exists(policy.tiers, i) /\ o.offered = AllocationFor(policy.tiers[i], p)
         /\ \A o, q \in Made(member, p, policy) : o.group = q.group => o = q
<1> DEFINE mapped == {g \in member : policy.groupTier[g] # NoTier}
           tiersOf == CandidateTiers(member, policy, NoTier).tiers
           made == Made(member, p, policy)
<1>1. /\ policy.tiers \in [Ids -> Tiers \cup {Vacant}]
      /\ policy.groupTier \in [Groups -> Ids \cup {NoTier}]
  BY DEF Tables
<1>2. \A i \in Ids : AllocationFor(policy.tiers[i], p) \in Quotas
  BY <1>1, AnyTierOffers
<1>3. \A i \in DefaultTiers(policy.tiers) : i \in Ids
  BY <1>1 DEF DefaultTiers
<1>4. mapped \subseteq Groups /\ IsFiniteSet(mapped) /\ \A g \in mapped : policy.groupTier[g] \in Ids /\ g \in Nat
  <2>1. mapped \subseteq Groups /\ \A g \in mapped : policy.groupTier[g] \in Ids /\ g \in Nat
    BY <1>1, GroupsAssumption
  <2> QED BY <2>1, GroupsAssumption, FS_Subset
<1>5. CASE mapped # {}
  <2> DEFINE f == [g \in mapped |-> [group |-> g, offered |-> AllocationFor(policy.tiers[policy.groupTier[g]], p)]]
             image == {f[g] : g \in mapped}
  <2>1. tiersOf = {[tier |-> policy.groupTier[g], group |-> g] : g \in mapped}
    BY <1>5, CandidateCases
  <2>2. ASSUME NEW o \in made
        PROVE  \E g \in mapped : /\ o = [group |-> g, offered |-> AllocationFor(policy.tiers[policy.groupTier[g]], p)]
                                 /\ Exists(policy.tiers, policy.groupTier[g]) /\ IsKnown(o.offered)
    <3>1. PICK c \in tiersOf : /\ Exists(policy.tiers, c.tier)
                               /\ o = [group |-> c.group, offered |-> AllocationFor(policy.tiers[c.tier], p)]
      BY DEF Made, Offers
    <3>2. PICK g \in mapped : c = [tier |-> policy.groupTier[g], group |-> g]
      BY <2>1, <3>1
    <3>3. IsKnown(o.offered)
      BY DEF Made
    <3> QED BY <3>1, <3>2, <3>3
  <2>3. made \subseteq image
    BY <2>2
  <2>4. IsFiniteSet(image)
    <3>1. IsFiniteSet(mapped)
      BY <1>4
    <3> HIDE DEF f, mapped
    <3> QED BY <3>1, FiniteImage
  <2>5. IsFiniteSet(made)
    BY <2>3, <2>4, FS_Subset
  <2>6. ASSUME NEW o \in made
        PROVE  /\ o.group \in Nat /\ o.offered \in Quotas /\ IsKnown(o.offered)
               /\ \E i \in Ids : Exists(policy.tiers, i) /\ o.offered = AllocationFor(policy.tiers[i], p)
    BY <1>2, <1>4, <2>2
  <2>7. \A o, q \in made : o.group = q.group => o = q
    BY <2>2
  <2> QED BY <2>5, <2>6, <2>7
<1>6. CASE mapped = {} /\ DefaultTiers(policy.tiers) # {}
  <2>1. PICK i \in DefaultTiers(policy.tiers) : tiersOf = {[tier |-> i, group |-> NoGroup]}
    BY <1>6, CandidateCases
  <2> DEFINE only == [group |-> NoGroup, offered |-> AllocationFor(policy.tiers[i], p)]
  <2>2. \A o \in made : o = only /\ IsKnown(o.offered) /\ Exists(policy.tiers, i)
    BY <2>1 DEF Made, Offers
  <2>3. IsFiniteSet(made)
    <3>1. made \subseteq {only}
      BY <2>2
    <3> HIDE DEF only, made
    <3>2. IsFiniteSet({only})
      BY FS_Singleton
    <3> QED BY <3>1, <3>2, FS_Subset
  <2>4. NoGroup \in Nat
    BY DEF NoGroup
  <2> QED BY <1>2, <1>3, <2>2, <2>3, <2>4
<1>7. CASE mapped = {} /\ DefaultTiers(policy.tiers) = {}
  <2>1. tiersOf = {}
    BY <1>7, CandidateCases
  <2>2. made = {}
    BY <2>1 DEF Made, Offers
  <2> QED BY <2>2, FS_EmptySet
<1> QED BY <1>5, <1>6, <1>7

\* Of the offers made there is one that prevails, and nobody's is better.
LEMMA OnePrevails ==
  ASSUME NEW member \in SUBSET Groups, NEW policy \in Tables, NEW p,
         Made(member, p, policy) # {}
  PROVE  LET made == Made(member, p, policy)
             best == CHOOSE o \in made : Prevails(o, made)
         IN best \in made /\ \A o \in made : ~MoreGenerous(o.offered, best.offered)
<1> DEFINE made == Made(member, p, policy)
           Before(o, q) == \/ MoreGenerous(o.offered, q.offered)
                           \/ ~MoreGenerous(q.offered, o.offered) /\ o.group < q.group
           R == {d \in made \X made : Before(d[1], d[2])}
           best == CHOOSE o \in made : Prevails(o, made)
<1>1. /\ IsFiniteSet(made)
      /\ \A o \in made : o.group \in Nat /\ o.offered \in Quotas /\ IsKnown(o.offered)
      /\ \A o, q \in made : o.group = q.group => o = q
  BY MadeTyped
<1>2. \A o, q \in made : <<o, q>> \in R <=> Before(o, q)
  OBVIOUS
<1>3. ASSUME NEW o \in made, NEW q \in made, o # q PROVE Before(o, q) \/ Before(q, o)
  <2>1. o.group < q.group \/ q.group < o.group
    BY <1>1, <1>3
  <2> QED BY <2>1
<1>4. ASSUME NEW x \in made, NEW y \in made, NEW z \in made, Before(x, y), Before(y, z)
      PROVE  Before(x, z)
  <2>1. /\ x.group \in Nat /\ y.group \in Nat /\ z.group \in Nat
        /\ x.offered \in Quotas /\ y.offered \in Quotas /\ z.offered \in Quotas
        /\ IsKnown(x.offered) /\ IsKnown(y.offered) /\ IsKnown(z.offered)
    BY <1>1
  <2>2. CASE MoreGenerous(x.offered, y.offered) /\ MoreGenerous(y.offered, z.offered)
    BY <2>1, <2>2, Generosity
  <2>3. CASE MoreGenerous(x.offered, y.offered) /\ ~MoreGenerous(y.offered, z.offered)
    <3>1. y.offered = z.offered
      BY <1>4, <2>1, <2>3, Generosity
    <3> QED BY <2>3, <3>1
  <2>4. CASE ~MoreGenerous(x.offered, y.offered)
    <3>1. x.offered = y.offered /\ x.group < y.group
      BY <1>4, <2>1, <2>4, Generosity
    <3>2. CASE MoreGenerous(y.offered, z.offered)
      BY <3>1, <3>2
    <3>3. CASE ~MoreGenerous(y.offered, z.offered)
      <4>1. y.offered = z.offered /\ y.group < z.group
        BY <1>4, <2>1, <3>3, Generosity
      <4> QED BY <2>1, <2>4, <3>1, <4>1
    <3> QED BY <3>2, <3>3
  <2> QED BY <2>2, <2>3, <2>4
<1>5. \E m \in made : \A x \in made \ {m} : <<m, x>> \in R
  <2>1. \A x, y \in made : x # y => <<x, y>> \in R \/ <<y, x>> \in R
    BY <1>2, <1>3
  <2>2. \A x, y, z \in made : <<x, y>> \in R /\ <<y, z>> \in R => <<x, z>> \in R
    BY <1>2, <1>4
  <2> HIDE DEF made, R
  <2> QED BY <1>1, <2>1, <2>2, FirstExists DEF made
<1>6. \E m \in made : Prevails(m, made)
  BY <1>2, <1>5 DEF Prevails
<1>7. best \in made /\ Prevails(best, made)
  BY <1>6
<1> HIDE DEF best
<1>8. ASSUME NEW o \in made PROVE ~MoreGenerous(o.offered, best.offered)
  <2>1. CASE o = best
    BY <1>1, <2>1, Generosity
  <2>2. CASE o # best
    <3>1. MoreGenerous(best.offered, o.offered) \/ ~MoreGenerous(o.offered, best.offered)
      BY <1>7, <2>2 DEF Prevails
    <3> QED BY <1>1, <1>7, <3>1, Generosity
  <2> QED BY <2>1, <2>2
<1> QED BY <1>7, <1>8 DEF best

\* An override is the ceiling, whatever the tiers say.
LEMMA OverrideDecides ==
  ASSUME NEW member, NEW policy, NEW p, NEW q, IsKnown(q)
  PROVE  LET r == Resolve(member, p, policy, q, NoTier) IN r.present /\ r.ceiling = q
BY DEF Resolve

\* Resolve gives the override, else the best offer made, else nothing.
LEMMA ResolveIs ==
  ASSUME NEW member \in SUBSET Groups, NEW policy \in Tables, NEW p, NEW q \in Quotas
  PROVE  LET made == Made(member, p, policy)
             r == Resolve(member, p, policy, q, NoTier)
         IN /\ IsKnown(q) => r.present /\ r.ceiling = q
            /\ ~IsKnown(q) /\ made = {} => r = Nothing
            /\ ~IsKnown(q) /\ made # {} =>
                 /\ r.present
                 /\ \E o \in made : /\ r.ceiling = o.offered
                                    /\ \A z \in made : ~MoreGenerous(z.offered, o.offered)
            /\ r.present \in BOOLEAN /\ r.ceiling \in Quotas /\ (r.present <=> IsKnown(r.ceiling))
<1> DEFINE made == Made(member, p, policy)
           r == Resolve(member, p, policy, q, NoTier)
           best == CHOOSE o \in made : Prevails(o, made)
           rule == CandidateTiers(member, policy, NoTier).rule
<1> SUFFICES /\ IsKnown(q) => r.present /\ r.ceiling = q
             /\ ~IsKnown(q) /\ made = {} => r = Nothing
             /\ ~IsKnown(q) /\ made # {} =>
                  /\ r.present
                  /\ \E o \in made : /\ r.ceiling = o.offered
                                     /\ \A z \in made : ~MoreGenerous(z.offered, o.offered)
             /\ r.present \in BOOLEAN /\ r.ceiling \in Quotas /\ (r.present <=> IsKnown(r.ceiling))
  OBVIOUS
<1>1. r = IF IsKnown(q) THEN [present |-> TRUE, ceiling |-> q, rule |-> "provider-override"]
          ELSE IF made = {} THEN Nothing
          ELSE [present |-> TRUE, ceiling |-> best.offered, rule |-> rule]
  BY DEF Resolve, Made, Offers
<1> HIDE DEF made, r, best, rule
<1>2. CASE IsKnown(q)
  BY <1>1, <1>2
<1>3. CASE ~IsKnown(q) /\ made = {}
  BY <1>1, <1>3, QuotaCases DEF Nothing, IsKnown, Unknown
<1>4. CASE ~IsKnown(q) /\ made # {}
  <2>1. best \in made /\ \A z \in made : ~MoreGenerous(z.offered, best.offered)
    BY <1>4, OnePrevails DEF made, best
  <2>2. best.offered \in Quotas /\ IsKnown(best.offered)
    BY <2>1, MadeTyped DEF made
  <2> QED BY <1>1, <1>4, <2>1, <2>2
<1> QED BY <1>2, <1>3, <1>4

(***************************************************************************)
(* The tables stay sound.                                                  *)
(***************************************************************************)

\* No tier of the tables is named like the absence of one.
LEMMA TiersExist ==
  ASSUME Sound(Current)
  PROVE  /\ tiers \in [Ids -> Tiers \cup {Vacant}] /\ groupTier \in [Groups -> Ids \cup {NoTier}]
         /\ \A i \in Ids : Exists(tiers, i) => tiers[i] \in Tiers /\ Validate(tiers[i])
         /\ \A i \in Ids : ~Exists(tiers, i) => tiers[i] = Vacant
         /\ \A i, j \in Ids : Exists(tiers, i) /\ tiers[i].name = tiers[j].name => i = j
         /\ \A g \in Groups : groupTier[g] # NoTier => groupTier[g] \in Ids /\ Exists(tiers, groupTier[g])
         /\ \A t : Validate(t) => t # Vacant
<1>1. Current.tiers = tiers /\ Current.groupTier = groupTier
  BY DEF Current
<1>2. tiers \in [Ids -> Tiers \cup {Vacant}] /\ groupTier \in [Groups -> Ids \cup {NoTier}]
  BY <1>1 DEF Sound, Tables
<1>3. ASSUME NEW t, Validate(t) PROVE t # Vacant
  <2>1. t.name # ""
    BY <1>3 DEF Validate
  <2>2. Vacant.name = ""
    BY DEF Vacant
  <2> QED BY <2>1, <2>2
<1>4. \A i \in Ids : Exists(tiers, i) => tiers[i] \in Tiers /\ Validate(tiers[i])
  BY <1>1, <1>2 DEF Sound, Exists
<1>5. \A i \in Ids : ~Exists(tiers, i) => tiers[i] = Vacant
  BY <1>2 DEF Exists
<1>6. \A i, j \in Ids : Exists(tiers, i) /\ tiers[i].name = tiers[j].name => i = j
  BY <1>1 DEF Sound
<1>7. \A g \in Groups : groupTier[g] # NoTier => groupTier[g] \in Ids /\ Exists(tiers, groupTier[g])
  BY <1>1, <1>2 DEF Sound
<1> QED BY <1>2, <1>3, <1>4, <1>5, <1>6, <1>7

\* SaveTier writes over the tier of that name, or a row no tier has.
LEMMA SaveIsSound ==
  ASSUME Sound(Current), NEW t \in Tiers, SaveTier(t)
  PROVE  Sound(Current') /\ UNCHANGED <<groupTier, override>>
<1>1. PICK i \in RowFor(t) \cap Ids : tiers' = [tiers EXCEPT ![i] = t] /\ SingleDefault(tiers')
  BY DEF SaveTier
<1>2. Validate(t) /\ UNCHANGED <<groupTier, override>>
  BY DEF SaveTier
<1>3. /\ tiers \in [Ids -> Tiers \cup {Vacant}] /\ groupTier \in [Groups -> Ids \cup {NoTier}]
      /\ \A j \in Ids : Exists(tiers, j) => tiers[j] \in Tiers /\ Validate(tiers[j])
      /\ \A j, k \in Ids : Exists(tiers, j) /\ tiers[j].name = tiers[k].name => j = k
      /\ \A g \in Groups : groupTier[g] # NoTier => groupTier[g] \in Ids /\ Exists(tiers, groupTier[g])
      /\ t # Vacant
  BY <1>2, TiersExist
<1>4. tiers' \in [Ids -> Tiers \cup {Vacant}] /\ tiers'[i] = t /\ \A j \in Ids \ {i} : tiers'[j] = tiers[j]
  BY <1>1, <1>3
<1>5. \A j \in Ids : Exists(tiers', j) <=> j = i \/ Exists(tiers, j)
  BY <1>3, <1>4 DEF Exists
<1>6. \A j \in Ids : Exists(tiers', j) => Validate(tiers'[j])
  BY <1>2, <1>3, <1>4, <1>5
<1>7. ASSUME NEW j \in Ids, Exists(tiers, j), tiers[j].name = t.name PROVE j = i
  <2>1. j \in {k \in Ids : Exists(tiers, k) /\ tiers[k].name = t.name}
    BY <1>7
  <2>2. Exists(tiers, i) /\ tiers[i].name = t.name
    BY <1>1, <2>1 DEF RowFor
  <2> QED BY <1>3, <1>7, <2>2
<1>8. \A j, k \in Ids : Exists(tiers', j) /\ tiers'[j].name = tiers'[k].name => j = k
  <2>1. SUFFICES ASSUME NEW j \in Ids, NEW k \in Ids, Exists(tiers', j), tiers'[j].name = tiers'[k].name
                 PROVE  j = k
    OBVIOUS
  <2>2. t.name # "" /\ Vacant.name = ""
    BY <1>2 DEF Validate, Vacant
  <2>3. \A m \in Ids : ~Exists(tiers, m) => tiers[m] = Vacant
    BY TiersExist
  <2>4. CASE j = i /\ k # i
    BY <1>4, <1>7, <2>1, <2>2, <2>3, <2>4
  <2>5. CASE j # i /\ k = i
    BY <1>4, <1>5, <1>7, <2>1, <2>5
  <2>6. CASE j # i /\ k # i
    BY <1>3, <1>4, <1>5, <2>1, <2>6
  <2> QED BY <2>4, <2>5, <2>6
<1>9. \A g \in Groups : groupTier'[g] # NoTier => Exists(tiers', groupTier'[g])
  BY <1>2, <1>3, <1>5
<1>10. Current' \in Tables
  BY <1>2, <1>3, <1>4 DEF Current, Tables
<1> QED BY <1>1, <1>2, <1>6, <1>8, <1>9, <1>10 DEF Sound, Current

\* SetDefaultTier touches nothing but the flags, and leaves at most one.
LEMMA DefaultIsSound ==
  ASSUME Sound(Current), NEW i, SetDefaultTier(i)
  PROVE  Sound(Current') /\ UNCHANGED <<groupTier, override>>
<1>1. /\ tiers' = [j \in Ids |-> IF Exists(tiers, j)
                                 THEN [tiers[j] EXCEPT !.default = (i = j)] ELSE Vacant]
      /\ UNCHANGED <<groupTier, override>>
  BY DEF SetDefaultTier
<1>2. /\ tiers \in [Ids -> Tiers \cup {Vacant}] /\ groupTier \in [Groups -> Ids \cup {NoTier}]
      /\ \A j \in Ids : Exists(tiers, j) => tiers[j] \in Tiers /\ Validate(tiers[j])
      /\ \A j \in Ids : ~Exists(tiers, j) => tiers[j] = Vacant
      /\ \A j, k \in Ids : Exists(tiers, j) /\ tiers[j].name = tiers[k].name => j = k
      /\ \A g \in Groups : groupTier[g] # NoTier => groupTier[g] \in Ids /\ Exists(tiers, groupTier[g])
      /\ \A t : Validate(t) => t # Vacant
  BY TiersExist
<1>3. ASSUME NEW j \in Ids, Exists(tiers, j)
      PROVE  /\ tiers'[j] \in Tiers /\ Validate(tiers'[j]) /\ tiers'[j].name = tiers[j].name
             /\ tiers'[j].default = (i = j)
  <2>1. tiers[j] \in Tiers /\ Validate(tiers[j])
    BY <1>2, <1>3
  <2>2. tiers'[j] = [tiers[j] EXCEPT !.default = (i = j)]
    BY <1>1, <1>3
  <2>3. /\ tiers'[j] \in Tiers /\ tiers'[j].default = (i = j)
        /\ tiers'[j].name = tiers[j].name /\ tiers'[j].budget = tiers[j].budget
        /\ tiers'[j].alloc = tiers[j].alloc
    BY <2>1, <2>2 DEF Tiers
  <2>4. Validate(tiers'[j])
    BY <2>1, <2>3 DEF Validate, Allocations
  <2> QED BY <2>3, <2>4
<1>4. ASSUME NEW j \in Ids, ~Exists(tiers, j)
      PROVE  tiers'[j] = Vacant /\ tiers'[j].name = tiers[j].name /\ ~Exists(tiers', j)
  BY <1>1, <1>2, <1>4 DEF Exists
<1>5. DOMAIN tiers' = Ids
  BY <1>1
<1>6. \A j \in Ids : Exists(tiers', j) <=> Exists(tiers, j)
  BY <1>2, <1>3, <1>4, <1>5 DEF Exists
<1>7. tiers' \in [Ids -> Tiers \cup {Vacant}]
  BY <1>1, <1>3, <1>4
<1>8. Current' \in Tables
  BY <1>1, <1>2, <1>7 DEF Current, Tables
<1>9. \A j \in DefaultTiers(tiers') : j = i
  BY <1>3, <1>5, <1>6 DEF DefaultTiers
<1>10. SingleDefault(tiers')
  BY <1>9 DEF SingleDefault
<1>11. \A j, k \in Ids : Exists(tiers', j) /\ tiers'[j].name = tiers'[k].name => j = k
  <2>1. \A j \in Ids : tiers'[j].name = tiers[j].name
    BY <1>3, <1>4
  <2> QED BY <1>2, <1>6, <2>1
<1>12. \A g \in Groups : groupTier'[g] # NoTier => Exists(tiers', groupTier'[g])
  BY <1>1, <1>2, <1>6
<1>13. \A j \in Ids : Exists(tiers', j) => Validate(tiers'[j])
  BY <1>3, <1>6
<1> QED BY <1>1, <1>8, <1>10, <1>11, <1>12, <1>13 DEF Sound, Current

\* DeleteTier takes the mappings along.
LEMMA DeleteIsSound ==
  ASSUME Sound(Current), NEW i \in Ids, DeleteTier(i)
  PROVE  Sound(Current') /\ UNCHANGED override
<1>1. /\ tiers' = [tiers EXCEPT ![i] = Vacant]
      /\ groupTier' = [g \in Groups |-> IF groupTier[g] = i THEN NoTier ELSE groupTier[g]]
      /\ UNCHANGED override
  BY DEF DeleteTier
<1>2. /\ tiers \in [Ids -> Tiers \cup {Vacant}] /\ groupTier \in [Groups -> Ids \cup {NoTier}]
      /\ \A j \in Ids : Exists(tiers, j) => tiers[j] \in Tiers /\ Validate(tiers[j])
      /\ \A j, k \in Ids : Exists(tiers, j) /\ tiers[j].name = tiers[k].name => j = k
      /\ \A g \in Groups : groupTier[g] # NoTier => groupTier[g] \in Ids /\ Exists(tiers, groupTier[g])
      /\ \A t : Validate(t) => t # Vacant
      /\ SingleDefault(tiers)
  BY TiersExist DEF Sound, Current
<1>3. /\ tiers' \in [Ids -> Tiers \cup {Vacant}] /\ tiers'[i] = Vacant
      /\ \A j \in Ids \ {i} : tiers'[j] = tiers[j]
  BY <1>1, <1>2
<1>4. \A j \in Ids : Exists(tiers', j) <=> j # i /\ Exists(tiers, j)
  BY <1>2, <1>3 DEF Exists
<1>5. Current' \in Tables
  BY <1>1, <1>2, <1>3 DEF Current, Tables
<1>6. \A j \in DefaultTiers(tiers') : j \in DefaultTiers(tiers)
  <2>1. DOMAIN tiers' = Ids /\ DOMAIN tiers = Ids
    BY <1>2, <1>3
  <2> QED BY <1>3, <1>4, <2>1 DEF DefaultTiers
<1>7. SingleDefault(tiers')
  BY <1>2, <1>6 DEF SingleDefault
<1>8. \A j, k \in Ids : Exists(tiers', j) /\ tiers'[j].name = tiers'[k].name => j = k
  <2>1. SUFFICES ASSUME NEW j \in Ids, NEW k \in Ids, Exists(tiers', j), tiers'[j].name = tiers'[k].name
                 PROVE  j = k
    OBVIOUS
  <2>2. Exists(tiers, j) /\ tiers'[j] = tiers[j] /\ Validate(tiers[j])
    BY <1>2, <1>3, <1>4, <2>1
  <2>3. tiers[j].name # "" /\ Vacant.name = ""
    BY <2>2 DEF Validate, Vacant
  <2> QED BY <1>2, <1>3, <2>1, <2>2, <2>3
<1>9. \A g \in Groups : groupTier'[g] # NoTier => Exists(tiers', groupTier'[g])
  BY <1>1, <1>2, <1>4
<1>10. \A j \in Ids : Exists(tiers', j) => Validate(tiers'[j])
  BY <1>2, <1>3, <1>4
<1> QED BY <1>1, <1>5, <1>7, <1>8, <1>9, <1>10 DEF Sound, Current

\* A group is mapped to a tier there is, or to none.
LEMMA MapIsSound ==
  ASSUME Sound(Current), NEW g, NEW i \in Ids \cup {NoTier}, i # NoTier => Exists(tiers, i),
         MapGroupToTier(g, i)
  PROVE  Sound(Current') /\ UNCHANGED <<tiers, override>>
<1>1. groupTier' = [groupTier EXCEPT ![g] = i] /\ UNCHANGED <<tiers, override>>
  BY DEF MapGroupToTier
<1>2. groupTier \in [Groups -> Ids \cup {NoTier}]
  BY TiersExist
<1>3. /\ groupTier' \in [Groups -> Ids \cup {NoTier}]
      /\ \A h \in Groups : groupTier'[h] = groupTier[h] \/ groupTier'[h] = i
  BY <1>1, <1>2
<1> QED BY <1>1, <1>3 DEF Sound, Current, Tables

\* An override is made of a known quota, whoever sets it.
LEMMA OverrideIsSound ==
  ASSUME Sound(Current), override \in [Pairs -> Quotas],
         NEW u \in People, NEW p \in Providers, NEW q \in Quotas,
         SetProviderOverride(u, p, q) \/ ClearProviderOverride(u, p)
  PROVE  Sound(Current') /\ override' \in [Pairs -> Quotas]
<1>1. UNCHANGED <<tiers, groupTier>>
  BY DEF SetProviderOverride, ClearProviderOverride
<1>2. override' = [override EXCEPT ![<<u, p>>] = q] \/ override' = [override EXCEPT ![<<u, p>>] = Unknown]
  BY DEF SetProviderOverride, ClearProviderOverride
<1>3. override' \in [Pairs -> Quotas]
  BY <1>2, QuotaCases DEF Pairs
<1> QED BY <1>1, <1>3 DEF Current

(***************************************************************************)
(* What commands and forms hand to SaveTier is a tier.                     *)
(***************************************************************************)

\* What SetTier makes of a command.
LEMMA MentionedTyped ==
  ASSUME Sound(Current), NEW n \in Names, NEW b \in Typed, NEW d \in BOOLEAN, NEW a \in Drafts,
         NEW t \in Mentioned(n, b, d, a)
  PROVE  t \in Tiers
<1> DEFINE given(s) == [s EXCEPT !.budget = IF IsKnown(b) THEN b ELSE s.budget,
                                 !.default = s.default \/ d, !.alloc = a]
           blank == [name |-> n, budget |-> Unknown, default |-> FALSE, alloc |-> {}]
<1>1. b \in Quotas /\ a \subseteq Shares /\ IsFiniteSet(a)
  BY TypedAssumption, DraftsAssumption
<1>2. ASSUME NEW s \in Tiers PROVE given(s) \in Tiers
  BY <1>1, <1>2 DEF Tiers
<1>3. blank \in Tiers
  BY QuotaCases, FS_EmptySet DEF Tiers
<1>4. t = given(blank) \/ \E i \in FindTier(n) : t = given(tiers[i])
  BY DEF Mentioned
<1>5. \A i \in FindTier(n) : tiers[i] \in Tiers
  BY TiersExist DEF FindTier
<1> HIDE DEF given, blank
<1> QED BY <1>2, <1>3, <1>4, <1>5

\* What a form posts.
LEMMA PostedTyped ==
  ASSUME NEW n \in Names, NEW b \in Quotas, NEW d \in BOOLEAN,
         NEW a, a \subseteq Shares, IsFiniteSet(a)
  PROVE  Posted(n, b, d, a) \in Tiers
<1> DEFINE t == [name |-> n, budget |-> Unknown, default |-> d, alloc |-> a]
           posted == IF a # {} /\ \A x \in a : x.mode = "absolute" THEN BytesQuota(Wrap(Sum(a)))
                     ELSE RoundedQuota(b, Coarse)
<1>1. t \in Tiers /\ t.alloc = a
  BY QuotaCases DEF Tiers
<1>2. Sum(a) \in Int
  BY <1>1, SumIsInt
<1>3. BytesQuota(Wrap(Sum(a))) \in Quotas
  BY <1>2, Wrapped, QuotaCases
<1>4. RoundedQuota(b, Coarse) \in Quotas
  <2>1. IsBytes(b) => b.bytes \in Int
    BY DEF Quotas
  <2>2. IsBytes(b) => Rounded(b.bytes, Coarse) \in Int
    BY <2>1, StepsAssumption DEF Rounded
  <2> QED BY <2>2, QuotaCases DEF RoundedQuota
<1>5. posted \in Quotas
  BY <1>3, <1>4
<1>6. Posted(n, b, d, a) = [name |-> n, default |-> d, alloc |-> a, budget |-> posted]
  BY DEF Posted
<1> HIDE DEF posted
<1> QED BY <1>5, <1>6 DEF Tiers

\* What the fields of a page show of a tier, and what its buttons carry.
LEMMA FieldsTyped ==
  ASSUME NEW t \in Tiers, NEW p
  PROVE  /\ FieldsOf(t, p) \subseteq Shares /\ IsFiniteSet(FieldsOf(t, p))
         /\ PrintedOf(t) \subseteq Shares /\ IsFiniteSet(PrintedOf(t))
<1> DEFINE others == {b \in t.alloc : b.provider # p}
           f == [a \in others |-> FieldOf(t, a)]
           printed(a) == IF a.mode = "absolute" THEN [a EXCEPT !.value = Rounded(a.value, Coarse)] ELSE a
           g == [a \in t.alloc |-> printed(a)]
<1>1. t.alloc \subseteq Shares /\ IsFiniteSet(t.alloc)
  BY DEF Tiers
<1>2. IsFiniteSet(others)
  BY <1>1, FS_Subset
<1>3. FieldsOf(t, p) = {f[a] : a \in others} /\ PrintedOf(t) = {g[a] : a \in t.alloc}
  BY DEF FieldsOf, PrintedOf
<1>4. ASSUME NEW a \in t.alloc PROVE FieldOf(t, a) \in Shares
  <2> DEFINE q == AllocationFor(t, a.provider)
  <2>1. q \in Quotas
    BY AllocationTyped
  <2>2. IsBytes(q) => q.bytes \in Int
    BY <2>1 DEF Quotas
  <2>3. IsBytes(q) => Rounded(q.bytes, Grain) \in Int
    BY <2>2, StepsAssumption DEF Rounded
  <2>4. a \in Shares
    BY <1>1
  <2>5. FieldOf(t, a) = IF IsBytes(q) THEN [a EXCEPT !.mode = "absolute", !.value = Rounded(q.bytes, Grain)] ELSE a
    BY DEF FieldOf
  <2> HIDE DEF q
  <2> QED BY <2>3, <2>4, <2>5 DEF Shares, Modes
<1>5. ASSUME NEW a \in t.alloc PROVE printed(a) \in Shares
  <2>1. a \in Shares /\ a.value \in Int
    BY <1>1 DEF Shares
  <2>2. Rounded(a.value, Coarse) \in Int
    BY <2>1, StepsAssumption DEF Rounded
  <2> QED BY <2>1, <2>2 DEF Shares
<1>6. FieldsOf(t, p) \subseteq Shares /\ PrintedOf(t) \subseteq Shares
  BY <1>3, <1>4, <1>5
<1>7. IsFiniteSet({f[a] : a \in others}) /\ IsFiniteSet({g[a] : a \in t.alloc})
  <2> HIDE DEF f, g, others
  <2> QED BY <1>1, <1>2, FiniteImage
<1> QED BY <1>3, <1>6, <1>7

\* What a form posts for the ceilings of one tier, the typed one among them.
LEMMA EditedTyped ==
  ASSUME NEW t \in Tiers, NEW p \in Providers, NEW q \in Quotas
  PROVE  Posted(t.name, t.budget, t.default, FieldsOf(t, p) \cup FieldTyped(p, q)) \in Tiers
<1>1. t.name \in Names /\ t.budget \in Quotas /\ t.default \in BOOLEAN
  BY DEF Tiers
<1>2. FieldsOf(t, p) \subseteq Shares /\ IsFiniteSet(FieldsOf(t, p))
  BY FieldsTyped
<1>3. FieldTyped(p, q) \subseteq Shares /\ IsFiniteSet(FieldTyped(p, q))
  <2>1. \A x : IsFiniteSet({x})
    BY FS_Singleton
  <2>2. q = Unlimited \/ (IsBytes(q) /\ q.bytes \in Int) \/ ~IsKnown(q)
    BY QuotaCases DEF IsBytes
  <2>3. CASE q = Unlimited
    <3> DEFINE a == [provider |-> p, mode |-> "unlimited", value |-> 0]
    <3>1. FieldTyped(p, q) = {a}
      BY <2>3 DEF FieldTyped, Unlimited, IsBytes, IsKnown
    <3>2. a \in Shares
      BY DEF Shares, Modes
    <3> HIDE DEF a
    <3> QED BY <2>1, <3>1, <3>2
  <2>4. CASE q # Unlimited /\ IsBytes(q)
    <3> DEFINE a == [provider |-> p, mode |-> "absolute", value |-> q.bytes]
    <3>1. FieldTyped(p, q) = {a}
      BY <2>4 DEF FieldTyped, IsBytes, IsKnown
    <3>2. a \in Shares
      BY DEF Quotas, Shares, Modes
    <3> HIDE DEF a
    <3> QED BY <2>1, <3>1, <3>2
  <2>5. CASE q # Unlimited /\ ~IsBytes(q)
    BY <2>2, <2>5, FS_EmptySet DEF FieldTyped
  <2> QED BY <2>3, <2>4, <2>5
<1>4. /\ FieldsOf(t, p) \cup FieldTyped(p, q) \subseteq Shares
      /\ IsFiniteSet(FieldsOf(t, p) \cup FieldTyped(p, q))
  BY <1>2, <1>3, FS_Union
<1> QED BY <1>1, <1>4, PostedTyped

\* A tier an open page shows is one there was.
LEMMA PageShowsTiers ==
  ASSUME TypeOK, NEW i, Exists(page, i)
  PROVE  page[i] \in Tiers
<1>1. DOMAIN Closed = {} /\ i \in DOMAIN page
  BY DEF Closed, Exists
<1>2. page \in [Ids -> Tiers \cup {Vacant}] /\ i \in Ids
  BY <1>1 DEF TypeOK
<1> QED BY <1>2 DEF Exists

(***************************************************************************)
(* Type correctness.                                                       *)
(***************************************************************************)

\* An edit that leaves the tables sound disturbs nothing else.
LEMMA EditedTypes ==
  ASSUME TypeOK, Edited, Sound(Current'), override' \in [Pairs -> Quotas]
  PROVE  TypeOK'
<1>1. /\ left' \in 0..MaxEdits /\ adopted' = FALSE
      /\ UNCHANGED <<row, page, reader, resolved, plan>>
  BY EditsAssumption DEF Edited, TypeOK
<1>2. quiet' \in BOOLEAN /\ lifted' \subseteq Providers
  BY DEF Edited, TypeOK, UnlimitedOn
<1> QED BY <1>1, <1>2 DEF TypeOK

\* Every command leaves the tables sound.
LEMMA CommandTypes ==
  ASSUME TypeOK, Command
  PROVE  TypeOK'
<1> USE DEF ByCommand
<1>1. Sound(Current) /\ override \in [Pairs -> Quotas]
  BY DEF TypeOK
<1>2. ASSUME NEW n \in Names, NEW b \in Typed, NEW d \in BOOLEAN, NEW a \in Drafts, SetTier(n, b, d, a)
      PROVE  TypeOK'
  <2>1. PICK t \in Mentioned(n, b, d, a) : SaveTier(t)
    BY <1>2 DEF SetTier
  <2>2. t \in Tiers
    BY <1>1, MentionedTyped
  <2> QED BY <1>1, <1>2, <2>1, <2>2, SaveIsSound, EditedTypes DEF SetTier
<1>3. ASSUME NEW n \in Names, DeleteTierByName(n)
      PROVE  TypeOK'
  BY <1>1, <1>3, DeleteIsSound, EditedTypes DEF DeleteTierByName
<1>4. ASSUME NEW n \in Names, DefaultTier(n)
      PROVE  TypeOK'
  BY <1>1, <1>4, DefaultIsSound, EditedTypes DEF DefaultTier
<1>5. ASSUME NEW g \in Groups, UnmapCommand(g)
      PROVE  TypeOK'
  BY <1>1, <1>5, MapIsSound, EditedTypes DEF UnmapCommand
<1>6. ASSUME NEW g \in Groups, NEW n \in Names, MapCommand(g, n)
      PROVE  TypeOK'
  BY <1>1, <1>6, MapIsSound, EditedTypes DEF MapCommand, FindTier
<1>7. ASSUME NEW u \in People, NEW p \in Providers, NEW q \in Typed, OverrideCommand(u, p, q)
      PROVE  TypeOK'
  <2>1. q \in Quotas
    BY TypedAssumption
  <2> QED BY <1>1, <1>7, <2>1, OverrideIsSound, EditedTypes DEF OverrideCommand
<1>8. ASSUME Adopt PROVE TypeOK'
  <2>1. \A k \in Pairs : Adopted(k) \in Quotas
    BY DEF Adopted, TypeOK
  <2>2. override' \in [Pairs -> Quotas]
    BY <1>8, <2>1 DEF Adopt
  <2>3. left' \in 0..MaxEdits /\ adopted' \in BOOLEAN
    BY <1>8, EditsAssumption DEF Adopt, TypeOK
  <2> QED BY <1>8, <2>2, <2>3 DEF Adopt, TypeOK, Current
<1> QED BY <1>2, <1>3, <1>4, <1>5, <1>6, <1>7, <1>8 DEF Command

\* Every form does.
LEMMA FormTypes ==
  ASSUME TypeOK, Form
  PROVE  TypeOK'
<1> USE DEF ByForm
<1>1. Sound(Current) /\ override \in [Pairs -> Quotas]
  BY DEF TypeOK
<1>2. ASSUME OpenPage PROVE TypeOK'
  BY <1>1, <1>2, TiersExist DEF OpenPage, TypeOK, tables, Current
<1>3. ASSUME NEW i \in Ids, NEW p \in Providers, NEW q \in Typed, EditCeiling(i, p, q)
      PROVE  TypeOK'
  <2> DEFINE t == Posted(page[i].name, page[i].budget, page[i].default,
                         FieldsOf(page[i], p) \cup FieldTyped(p, q))
  <2>1. Exists(page, i) /\ SaveTier(t) /\ Edited
    BY <1>3 DEF EditCeiling
  <2>2. t \in Tiers
    BY <2>1, PageShowsTiers, EditedTyped, TypedAssumption
  <2> HIDE DEF t
  <2> QED BY <1>1, <2>1, <2>2, SaveIsSound, EditedTypes
<1>4. ASSUME NEW i \in Ids, MakeDefault(i)
      PROVE  TypeOK'
  <2> DEFINE t == Posted(page[i].name, page[i].budget, TRUE, PrintedOf(page[i]))
  <2>1. Exists(page, i) /\ SaveTier(t) /\ Edited
    BY <1>4 DEF MakeDefault
  <2>2. page[i] \in Tiers
    BY <2>1, PageShowsTiers
  <2>3. page[i].name \in Names /\ page[i].budget \in Quotas
    BY <2>2 DEF Tiers
  <2>4. PrintedOf(page[i]) \subseteq Shares /\ IsFiniteSet(PrintedOf(page[i]))
    BY <2>2, FieldsTyped
  <2>5. t \in Tiers
    BY <2>3, <2>4, PostedTyped
  <2> HIDE DEF t
  <2> QED BY <1>1, <2>1, <2>5, SaveIsSound, EditedTypes
<1>5. ASSUME NEW n \in Names, NEW d \in BOOLEAN, NEW a \in Drafts, NewTier(n, d, a)
      PROVE  TypeOK'
  <2> DEFINE t == Posted(n, Unknown, d, a)
  <2>1. SaveTier(t) /\ Edited
    BY <1>5 DEF NewTier
  <2>2. t \in Tiers
    BY DraftsAssumption, PostedTyped, QuotaCases
  <2> HIDE DEF t
  <2> QED BY <1>1, <2>1, <2>2, SaveIsSound, EditedTypes
<1>6. ASSUME NEW g \in Groups, NEW n \in Names, MapGroup(g, n)
      PROVE  TypeOK'
  BY <1>1, <1>6, MapIsSound, EditedTypes DEF MapGroup, FindTier
<1>7. ASSUME NEW g \in Groups, UnmapGroup(g)
      PROVE  TypeOK'
  BY <1>1, <1>7, MapIsSound, EditedTypes DEF UnmapGroup
<1>8. ASSUME NEW u \in People, NEW p \in Providers, ClearOverride(u, p)
      PROVE  TypeOK'
  BY <1>1, <1>8, OverrideIsSound, EditedTypes, QuotaCases DEF ClearOverride
<1>9. ASSUME NEW u \in People, NEW p \in Providers, NEW q \in Typed, SetOverride(u, p, q)
      PROVE  TypeOK'
  <2>1. q \in Quotas
    BY TypedAssumption
  <2> QED BY <1>1, <1>9, <2>1, OverrideIsSound, EditedTypes DEF SetOverride
<1> QED BY <1>2, <1>3, <1>4, <1>5, <1>6, <1>7, <1>8, <1>9 DEF Form, Post

\* The planner reads tables of tiers, even torn ones, and changes none.
LEMMA PlannerTypes ==
  ASSUME TypeOK, Planner
  PROVE  TypeOK'
<1> DEFINE steps == {"idle", "tiers", "allocations", "people", "done"}
           readers == [at : steps, policy : Tables, todo : SUBSET People]
<1>1. /\ Sound(Current) /\ reader \in readers
      /\ reader.policy.tiers \in [Ids -> Tiers \cup {Vacant}]
      /\ reader.policy.groupTier \in [Groups -> Ids \cup {NoTier}]
      /\ tiers \in [Ids -> Tiers \cup {Vacant}] /\ groupTier \in [Groups -> Ids \cup {NoTier}]
  BY TiersExist DEF TypeOK, Tables
<1>2. Empty \in Tables
  BY DEF Empty, Tables
<1>3. ASSUME NEW t \in Tiers, NEW alloc, alloc \subseteq Shares, IsFiniteSet(alloc)
      PROVE  [t EXCEPT !.alloc = alloc] \in Tiers
  BY <1>3 DEF Tiers
<1>4. \A t \in Tiers : t.alloc \subseteq Shares /\ IsFiniteSet(t.alloc)
  BY DEF Tiers
<1>5. ASSUME NEW from, NEW to \in steps, NEW policy \in Tables, Reads(from, to, policy),
             lifted' \subseteq Providers
      PROVE  TypeOK'
  BY <1>1, <1>5 DEF Reads, TypeOK, tables, Current
<1>6. ASSUME ReadTiers PROVE TypeOK'
  <2> DEFINE policy == [Empty EXCEPT !.tiers = [i \in Ids |-> IF Exists(tiers, i)
                                          THEN [tiers[i] EXCEPT !.alloc = {}] ELSE Vacant]]
  <2>1. \A i \in Ids : Exists(tiers, i) => [tiers[i] EXCEPT !.alloc = {}] \in Tiers
    BY <1>1, <1>3, FS_EmptySet DEF Exists
  <2>2. policy \in Tables
    BY <1>2, <2>1 DEF Tables
  <2>3. Reads("idle", "tiers", policy) /\ lifted' \subseteq Providers
    BY <1>6 DEF ReadTiers, UnlimitedOn
  <2> HIDE DEF policy
  <2> QED BY <1>5, <2>2, <2>3
<1>7. ASSUME ReadAllocations PROVE TypeOK'
  <2> DEFINE alloc(i) == IF Exists(tiers, i) THEN tiers[i].alloc ELSE {}
             read == [i \in Ids |-> IF Exists(reader.policy.tiers, i)
                                    THEN [reader.policy.tiers[i] EXCEPT !.alloc = alloc(i)] ELSE Vacant]
             policy == [reader.policy EXCEPT !.tiers = read]
  <2>1. \A i \in Ids : alloc(i) \subseteq Shares /\ IsFiniteSet(alloc(i))
    BY <1>1, <1>4, FS_EmptySet DEF Exists
  <2>2. \A i \in Ids : Exists(reader.policy.tiers, i) =>
          [reader.policy.tiers[i] EXCEPT !.alloc = alloc(i)] \in Tiers
    BY <1>1, <1>3, <2>1 DEF Exists
  <2>3. read \in [Ids -> Tiers \cup {Vacant}]
    BY <2>2
  <2>4. policy \in Tables
    <3> HIDE DEF read
    <3> QED BY <1>1, <2>3 DEF Tables
  <2>5. Reads("tiers", "allocations", policy) /\ lifted' = lifted
    BY <1>7 DEF ReadAllocations
  <2>6. lifted' \subseteq Providers
    BY <2>5 DEF TypeOK
  <2> HIDE DEF policy
  <2> QED BY <1>5, <2>4, <2>5, <2>6
<1>8. ASSUME ReadMappings PROVE TypeOK'
  <2> DEFINE policy == [reader.policy EXCEPT !.groupTier = groupTier]
  <2>1. policy \in Tables
    BY <1>1 DEF Tables
  <2>2. Reads("allocations", "people", policy) /\ lifted' = lifted
    BY <1>8 DEF ReadMappings
  <2>3. lifted' \subseteq Providers
    BY <2>2 DEF TypeOK
  <2> HIDE DEF policy
  <2> QED BY <1>5, <2>1, <2>2, <2>3
<1>9. ASSUME NEW u \in People, PlanPerson(u) PROVE TypeOK'
  <2>1. reader' \in readers
    BY <1>1, <1>9 DEF PlanPerson
  <2> QED BY <1>9, <2>1 DEF PlanPerson, TypeOK, tables, Current
<1>10. ASSUME EndPlan PROVE TypeOK'
  <2>1. reader' \in readers
    BY <1>2, <1>10 DEF EndPlan, Idle
  <2> QED BY <1>10, <2>1 DEF EndPlan, TypeOK, tables, Current
<1> QED BY <1>6, <1>7, <1>8, <1>9, <1>10 DEF Planner

\* The tables stay typed and sound whatever is edited, observed or planned in
\* between: what every tier holds passes Validate, one tier at most is the
\* default, names are unique, and no group is mapped to a tier that is gone
\* (saveTierTx, SetDefaultTier, DeleteTier, MapGroupToTier).
THEOREM StoreTyped == Spec => []TypeOK
<1>1. Init => TypeOK
  <2>1. SUFFICES ASSUME Init PROVE TypeOK
    OBVIOUS
  <2>2. PICK s \in Start : tiers = s.tiers /\ groupTier = s.groupTier
    BY <2>1 DEF Init
  <2>3. Sound(s) /\ Current = s
    BY <2>2, StartAssumption DEF Sound, Tables, Current
  <2>4. row \in [Pairs -> [quota : Quotas, used : Quotas, observeOK : BOOLEAN]]
    BY <2>1, RowsAssumption DEF Init
  <2>5. reader \in [at : {"idle", "tiers", "allocations", "people", "done"}, policy : Tables,
                    todo : SUBSET People]
    BY <2>1 DEF Init, Idle, Empty, Tables
  <2>6. override \in [Pairs -> Quotas]
    BY <2>1, QuotaCases DEF Init
  <2>7. left \in 0..MaxEdits
    BY <2>1, EditsAssumption DEF Init
  <2> QED BY <2>1, <2>3, <2>4, <2>5, <2>6, <2>7 DEF Init, TypeOK
<1>2. TypeOK /\ [Next]_vars => TypeOK'
  <2>1. SUFFICES ASSUME TypeOK, [Next]_vars PROVE TypeOK'
    OBVIOUS
  <2>2. ASSUME NEW k \in Pairs, NEW r \in Rows[k], Observe(k, r) PROVE TypeOK'
    <3>1. row' \in [Pairs -> [quota : Quotas, used : Quotas, observeOK : BOOLEAN]]
      BY <2>1, <2>2, RowsAssumption DEF Observe, TypeOK
    <3>2. left' \in 0..MaxEdits /\ adopted' = FALSE
      BY <2>1, <2>2, EditsAssumption DEF Observe, TypeOK
    <3> QED BY <2>1, <2>2, <3>1, <3>2 DEF Observe, TypeOK, tables, Current
  <2>3. ASSUME UNCHANGED vars PROVE TypeOK'
    BY <2>1, <2>3 DEF vars, tables, TypeOK, Current
  <2> QED BY <2>1, <2>2, <2>3, CommandTypes, FormTypes, PlannerTypes DEF Next
<1> QED BY <1>1, <1>2, PTL DEF Spec

(***************************************************************************)
(* The planner.  Each property is proved from an invariant that says, for  *)
(* every statement the planner may stand after, what it has read and made  *)
(* so far and how that relates to the tables.                              *)
(***************************************************************************)

\* An edit, by form or by command, moves neither the planner nor the accounts,
\* and is remembered.
LEMMA EditsAre ==
  ASSUME Command \/ Form
  PROVE  \/ Edited
         \/ Adopt
         \/ UNCHANGED <<tables, row, reader, resolved, plan, quiet, lifted, adopted>>
<1> USE DEF ByCommand, ByForm
<1>1. CASE Command
  BY <1>1 DEF Command, SetTier, DeleteTierByName, DefaultTier, UnmapCommand, MapCommand, OverrideCommand
<1>2. CASE Form
  BY <1>2 DEF Form, Post, OpenPage, EditCeiling, MakeDefault, NewTier, MapGroup, UnmapGroup, ClearOverride, SetOverride
<1> QED BY <1>1, <1>2

\* An account that could be read, and whose ceiling is stored as it would be again.
Same(k) ==
  /\ row[k].observeOK /\ IsKnown(row[k].quota) /\ IsKnown(row[k].used)
  /\ Norm[k[2]][row[k].quota] = row[k].quota

\* Until the next edit every override is what was read, and the planner, who
\* takes people one by one, has planned nothing for such an account.
AdoptedInv ==
  /\ adopted => \A k \in Pairs : IsKnown(row[k].quota) => override[k] = row[k].quota
  /\ reader.at = "done" => reader.todo = {}
  /\ adopted /\ reader.at \in {"people", "done"} =>
       \A k \in Pairs : k[1] \notin reader.todo /\ Same(k) => plan[k] = NoChange

\* An override that reads like the account and is stored like it plans nothing.
LEMMA SamePlansNothing ==
  ASSUME NEW k, Same(k), NEW r, r.present, r.ceiling = row[k].quota
  PROVE  ChangeFor(AccountFor(k, r)) = NoChange
<1> DEFINE account == AccountFor(k, r)
<1>1. /\ account.desired = row[k].quota /\ account.observed = row[k].quota
      /\ account.used = row[k].used /\ account.observeOK
  BY DEF AccountFor, Desired, Same
<1> HIDE DEF account
<1>2. Readable(account)
  BY <1>1 DEF Readable, Same
<1>3. Classify(account) # Blind
  BY <1>2 DEF Classify, Blind, Shrink, Safe
<1>4. Equal(account.desired, account.observed)
  BY <1>1 DEF Equal
<1>5. ~NeedsChange(account)
  BY <1>3, <1>4 DEF NeedsChange
<1> QED BY <1>5 DEF ChangeFor, account

\* The plan that follows an adoption is empty, however many were planned
\* before it and whatever is posted meanwhile, for every account that could be
\* read and whose ceiling its provider would store the same (Adopt, Plan).
THEOREM AdoptionSettles == Spec => []AdoptedPlanIsEmpty
<1>1. Init => AdoptedInv
  BY DEF Init, AdoptedInv, Idle
<1>2. TypeOK /\ AdoptedInv /\ [Next]_vars => AdoptedInv'
  <2>1. SUFFICES ASSUME TypeOK, AdoptedInv, [Next]_vars PROVE AdoptedInv'
    OBVIOUS
  <2>2. ASSUME Edited PROVE AdoptedInv'
    BY <2>1, <2>2 DEF Edited, AdoptedInv
  <2>3. ASSUME Adopt PROVE AdoptedInv'
    BY <2>1, <2>3 DEF Adopt, Adopted, AdoptedInv
  <2>4. ASSUME UNCHANGED <<tables, row, reader, resolved, plan, quiet, lifted, adopted>>
        PROVE  AdoptedInv'
    BY <2>1, <2>4 DEF tables, AdoptedInv, Same
  <2>5. ASSUME ReadTiers \/ ReadAllocations \/ ReadMappings PROVE AdoptedInv'
    <3>1. PICK from, to, policy : Reads(from, to, policy) /\ to # "done"
      BY <2>5 DEF ReadTiers, ReadAllocations, ReadMappings
    <3>2. reader' = [at |-> to, policy |-> policy, todo |-> People]
      BY <3>1 DEF Reads
    <3>3. \A k \in Pairs : k[1] \in People
      BY DEF Pairs
    <3>4. UNCHANGED <<override, row, adopted>>
      BY <3>1 DEF Reads, tables
    <3> QED BY <2>1, <3>1, <3>2, <3>3, <3>4 DEF AdoptedInv
  <2>6. ASSUME NEW u \in People, PlanPerson(u) PROVE AdoptedInv'
    <3>1. /\ reader.at = "people" /\ reader'.todo = reader.todo \ {u}
          /\ reader'.at = "done" => reader'.todo = {}
          /\ UNCHANGED <<override, row, adopted>>
      BY <2>1, <2>6 DEF PlanPerson, TypeOK, tables
    <3>2. ASSUME NEW k \in Pairs, adopted, k[1] \notin reader'.todo, Same(k)
          PROVE  plan'[k] = NoChange
      <4>1. CASE k[1] = u
        <5> DEFINE r == Resolve(MemberOf[u], k[2], reader.policy, override[k], NoTier)
        <5>1. resolved'[k] = r /\ plan'[k] = ChangeFor(AccountFor(k, resolved'[k]))
          BY <2>6, <4>1 DEF PlanPerson, UserPolicy
        <5>2. override[k] = row[k].quota /\ IsKnown(override[k])
          BY <2>1, <3>2 DEF AdoptedInv, Same
        <5>3. r.present /\ r.ceiling = row[k].quota
          BY <5>2, OverrideDecides
        <5> HIDE DEF r
        <5> QED BY <3>2, <5>1, <5>3, SamePlansNothing
      <4>2. CASE k[1] # u
        BY <2>1, <2>6, <3>1, <3>2, <4>2 DEF PlanPerson, AdoptedInv
      <4> QED BY <4>1, <4>2
    <3>3. \A k \in Pairs : Same(k)' => Same(k)
      BY <3>1 DEF Same
    <3> QED BY <2>1, <3>1, <3>2, <3>3 DEF AdoptedInv
  <2>7. ASSUME EndPlan PROVE AdoptedInv'
    BY <2>1, <2>7 DEF EndPlan, Idle, tables, AdoptedInv
  <2>8. ASSUME NEW k \in Pairs, NEW r \in Rows[k], Observe(k, r) PROVE AdoptedInv'
    BY <2>1, <2>8 DEF Observe, AdoptedInv
  <2>9. ASSUME UNCHANGED vars PROVE AdoptedInv'
    BY <2>4, <2>9 DEF vars
  <2> QED BY <2>1, <2>2, <2>3, <2>4, <2>5, <2>6, <2>7, <2>8, <2>9, EditsAre DEF Next, Planner
<1>3. AdoptedInv => AdoptedPlanIsEmpty
  BY DEF AdoptedInv, AdoptedPlanIsEmpty, Same
<1> QED BY <1>1, <1>2, <1>3, StoreTyped, PTL DEF Spec

\* While the planner reads, lifted holds every provider somebody's ceiling is
\* lifted on, and those of the allocations read.  Nothing is resolved before
\* the last statement.
LiftedInv ==
  /\ reader.at # "idle" => UnlimitedOn(tiers, override) \subseteq lifted
  /\ reader.at \in {"allocations", "people", "done"} =>
       \A i \in Ids, p \in Providers :
         Exists(reader.policy.tiers, i) /\ SaysUnlimited(reader.policy.tiers[i].alloc, p) => p \in lifted
  /\ reader.at \notin {"people", "done"} => resolved = Unresolved

\* What an offer of the tiers read lifts, some tier lifted while they were read.
LEMMA OffersAreLifted ==
  ASSUME TypeOK, LiftedInv, reader.at = "people", NEW u \in People, NEW p \in Providers,
         Resolve(MemberOf[u], p, reader.policy, override[<<u, p>>], NoTier).ceiling = Unlimited
  PROVE  p \in lifted
<1> DEFINE member == MemberOf[u]
           policy == reader.policy
           q == override[<<u, p>>]
           made == Made(member, p, policy)
           r == Resolve(member, p, policy, q, NoTier)
<1>1. /\ member \in SUBSET Groups /\ policy \in Tables /\ q \in Quotas
      /\ policy.tiers \in [Ids -> Tiers \cup {Vacant}]
  BY MemberAssumption DEF TypeOK, Pairs, Tables
<1> HIDE DEF member, policy, q
<1>2. CASE IsKnown(q)
  <2>1. q = Unlimited
    BY <1>2, OverrideDecides DEF member, policy, q
  <2>2. p \in UnlimitedOn(tiers, override)
    BY <2>1 DEF UnlimitedOn, q
  <2> QED BY <2>2 DEF LiftedInv
<1>3. CASE ~IsKnown(q)
  <2>1. /\ made = {} => r = Nothing
        /\ made # {} => \E o \in made : r.ceiling = o.offered
    BY <1>1, <1>3, ResolveIs
  <2>2. r.ceiling = Unlimited
    BY DEF member, policy, q
  <2>3. Nothing.ceiling # Unlimited
    BY DEF Nothing, Unknown, Unlimited
  <2> HIDE DEF made, r
  <2>4. PICK o \in made : o.offered = Unlimited
    BY <2>1, <2>2, <2>3
  <2>5. PICK i \in Ids : Exists(policy.tiers, i) /\ o.offered = AllocationFor(policy.tiers[i], p)
    BY <1>1, MadeTyped DEF made
  <2>6. SaysUnlimited(policy.tiers[i].alloc, p)
    BY <1>1, <2>4, <2>5, AnyTierOffers
  <2> QED BY <2>5, <2>6 DEF LiftedInv, policy
<1> QED BY <1>2, <1>3

\* However the statements of LoadPolicy and the edits fall into each other, a
\* ceiling is lifted on a provider only if some tier or override lifted one
\* there while the plan was made (LoadPolicy, loadAllocations, Resolve).
THEOREM NothingInvented == Spec => []NeverInvents
<1> DEFINE Inv == LiftedInv /\ NeverInvents
<1>1. Init => Inv
  <2>1. Nothing.ceiling # Unlimited
    BY DEF Nothing, Unknown, Unlimited
  <2> QED BY <2>1 DEF Init, LiftedInv, NeverInvents, Idle, Unresolved
<1>2. TypeOK /\ Inv /\ [Next]_vars => Inv'
  <2>1. SUFFICES ASSUME TypeOK, LiftedInv, NeverInvents, [Next]_vars PROVE LiftedInv' /\ NeverInvents'
    OBVIOUS
  <2>2. ASSUME Edited PROVE LiftedInv' /\ NeverInvents'
    <3>1. UNCHANGED <<reader, resolved>> /\ lifted \subseteq lifted'
      BY <2>2 DEF Edited
    <3>2. reader.at # "idle" => UnlimitedOn(tiers', override') \subseteq lifted'
      BY <2>2 DEF Edited
    <3>3. UnlimitedOn(tiers, override)' = UnlimitedOn(tiers', override')
      BY DEF UnlimitedOn
    <3> QED BY <2>1, <3>1, <3>2, <3>3 DEF LiftedInv, NeverInvents
  <2>3. ASSUME Adopt PROVE LiftedInv' /\ NeverInvents'
    BY <2>1, <2>3 DEF Adopt, LiftedInv, NeverInvents
  <2>4. ASSUME UNCHANGED <<tables, row, reader, resolved, plan, quiet, lifted, adopted>>
        PROVE  LiftedInv' /\ NeverInvents'
    BY <2>1, <2>4 DEF LiftedInv, NeverInvents, tables, UnlimitedOn
  <2>5. ASSUME ReadTiers PROVE LiftedInv' /\ NeverInvents'
    <3>1. /\ reader.at = "idle" /\ reader'.at = "tiers" /\ lifted' = UnlimitedOn(tiers, override)
          /\ UNCHANGED <<tiers, override, resolved>>
      BY <2>5 DEF ReadTiers, Reads, tables
    <3>2. resolved = Unresolved
      BY <2>1, <3>1 DEF LiftedInv
    <3>3. Nothing.ceiling # Unlimited
      BY DEF Nothing, Unknown, Unlimited
    <3> QED BY <3>1, <3>2, <3>3 DEF LiftedInv, NeverInvents, Unresolved, UnlimitedOn
  <2>6. ASSUME ReadAllocations PROVE LiftedInv' /\ NeverInvents'
    <3> DEFINE alloc(i) == IF Exists(tiers, i) THEN tiers[i].alloc ELSE {}
               old == reader.policy.tiers
    <3>1. /\ reader.at = "tiers" /\ reader'.at = "allocations"
          /\ reader'.policy.tiers = [i \in Ids |-> IF Exists(old, i) THEN [old[i] EXCEPT !.alloc = alloc(i)]
                                                   ELSE Vacant]
          /\ UNCHANGED <<tiers, override, resolved, lifted>>
      BY <2>1, <2>6 DEF ReadAllocations, Reads, tables, TypeOK, Tables
    <3>2. \A i \in Ids : Exists(old, i) => old[i] \in Tiers
      BY <2>1 DEF TypeOK, Tables, Exists
    <3>3. ASSUME NEW i \in Ids, NEW p \in Providers, Exists(reader'.policy.tiers, i),
                 SaysUnlimited(reader'.policy.tiers[i].alloc, p)
          PROVE  p \in lifted
      <4>1. Exists(old, i)
        BY <3>1, <3>3 DEF Exists
      <4>2. reader'.policy.tiers[i].alloc = alloc(i)
        BY <3>1, <3>2, <4>1 DEF Tiers
      <4>3. Exists(tiers, i) /\ SaysUnlimited(tiers[i].alloc, p)
        BY <3>3, <4>2 DEF SaysUnlimited
      <4>4. tiers[i] \in Tiers
        BY <2>1, <4>3, TiersExist DEF TypeOK
      <4>5. AllocationFor(tiers[i], p) = Unlimited
        BY <4>3, <4>4, AllocationTyped
      <4> QED BY <2>1, <3>1, <4>3, <4>5 DEF LiftedInv, UnlimitedOn
    <3>4. resolved = Unresolved
      BY <2>1, <3>1 DEF LiftedInv
    <3> HIDE DEF alloc, old
    <3> QED BY <2>1, <3>1, <3>3, <3>4 DEF LiftedInv, NeverInvents, UnlimitedOn
  <2>7. ASSUME ReadMappings PROVE LiftedInv' /\ NeverInvents'
    <3>1. /\ reader.at = "allocations" /\ reader'.at = "people"
          /\ reader'.policy.tiers = reader.policy.tiers
          /\ UNCHANGED <<tiers, override, resolved, lifted>>
      BY <2>1, <2>7 DEF ReadMappings, Reads, tables, TypeOK, Tables
    <3> QED BY <2>1, <3>1 DEF LiftedInv, NeverInvents, UnlimitedOn
  <2>8. ASSUME NEW u \in People, PlanPerson(u) PROVE LiftedInv' /\ NeverInvents'
    <3>1. /\ reader.at = "people" /\ reader'.at \in {"people", "done"}
          /\ reader'.policy = reader.policy
          /\ UNCHANGED <<tiers, override, lifted>>
      BY <2>1, <2>8 DEF PlanPerson, TypeOK, tables
    <3>2. ASSUME NEW k \in Pairs, resolved'[k].ceiling = Unlimited PROVE k[2] \in lifted
      <4>1. CASE k[1] = u
        <5>1. resolved'[k] = Resolve(MemberOf[u], k[2], reader.policy, override[k], NoTier)
          BY <2>8, <4>1 DEF PlanPerson, UserPolicy
        <5>2. k = <<u, k[2]>> /\ k[2] \in Providers
          BY <4>1 DEF Pairs
        <5> QED BY <2>1, <3>1, <3>2, <5>1, <5>2, OffersAreLifted
      <4>2. CASE k[1] # u
        BY <2>1, <2>8, <3>2, <4>2 DEF PlanPerson, NeverInvents
      <4> QED BY <4>1, <4>2
    <3> QED BY <2>1, <3>1, <3>2 DEF LiftedInv, NeverInvents, UnlimitedOn
  <2>9. ASSUME EndPlan PROVE LiftedInv' /\ NeverInvents'
    <3>1. Nothing.ceiling # Unlimited
      BY DEF Nothing, Unknown, Unlimited
    <3> QED BY <2>9, <3>1 DEF EndPlan, LiftedInv, NeverInvents, Idle, Unresolved
  <2>10. ASSUME NEW k \in Pairs, NEW r \in Rows[k], Observe(k, r) PROVE LiftedInv' /\ NeverInvents'
    BY <2>1, <2>10 DEF Observe, LiftedInv, NeverInvents, tables, UnlimitedOn
  <2>11. ASSUME UNCHANGED vars PROVE LiftedInv' /\ NeverInvents'
    BY <2>4, <2>11 DEF vars
  <2> QED
    BY <2>1, <2>2, <2>3, <2>4, <2>5, <2>6, <2>7, <2>8, <2>9, <2>10, <2>11, EditsAre DEF Next, Planner
<1>3. Inv => NeverInvents
  OBVIOUS
<1> QED BY <1>1, <1>2, <1>3, StoreTyped, PTL DEF Spec

\* What a person may claim is what the offers made to her say, of a sound policy.
LEMMA ClaimsAreMade ==
  ASSUME Sound(Current), NEW u \in People, NEW p \in Providers, ~IsKnown(override[<<u, p>>])
  PROVE  Claims(u, p) = {o.offered : o \in Made(MemberOf[u], p, Current)}
<1> DEFINE member == MemberOf[u]
           mapped == {g \in member : groupTier[g] # NoTier}
           by == IF mapped # {} THEN {groupTier[g] : g \in mapped} ELSE DefaultTiers(tiers)
           tiersOf == CandidateTiers(member, Current, NoTier).tiers
           offer(i) == AllocationFor(tiers[i], p)
           made == Made(member, p, Current)
<1>1. /\ member \in SUBSET Groups /\ Current \in Tables
      /\ Current.tiers = tiers /\ Current.groupTier = groupTier
      /\ \A g \in Groups : groupTier[g] # NoTier => groupTier[g] \in Ids /\ Exists(tiers, groupTier[g])
      /\ SingleDefault(tiers)
  BY MemberAssumption, TiersExist DEF Sound, Current
<1>2. Claims(u, p) = {q \in {offer(i) : i \in by} : IsKnown(q)}
  BY DEF Claims
<1>3. made = {o \in {[group |-> c.group, offered |-> offer(c.tier)] :
                       c \in {d \in tiersOf : Exists(tiers, d.tier)}} : IsKnown(o.offered)}
  BY <1>1 DEF Made, Offers
<1>4. /\ mapped # {} => tiersOf = {[tier |-> groupTier[g], group |-> g] : g \in mapped}
      /\ mapped = {} /\ DefaultTiers(tiers) # {} =>
           \E i \in DefaultTiers(tiers) : tiersOf = {[tier |-> i, group |-> NoGroup]}
      /\ mapped = {} /\ DefaultTiers(tiers) = {} => tiersOf = {}
  <2> DEFINE of == {g \in member : Current.groupTier[g] # NoTier}
  <2>1. /\ of # {} => tiersOf = {[tier |-> Current.groupTier[g], group |-> g] : g \in of}
        /\ of = {} /\ DefaultTiers(Current.tiers) # {} =>
             \E i \in DefaultTiers(Current.tiers) : tiersOf = {[tier |-> i, group |-> NoGroup]}
        /\ of = {} /\ DefaultTiers(Current.tiers) = {} => tiersOf = {}
    <3> HIDE DEF Current
    <3> QED BY <1>1, CandidateCases
  <2> HIDE DEF tiersOf
  <2> QED BY <2>1 DEF Current
<1>5. \A c \in tiersOf : c.tier \in by /\ Exists(tiers, c.tier)
  <2> HIDE DEF tiersOf
  <2>1. CASE mapped # {}
    BY <1>1, <1>4, <2>1
  <2>2. CASE mapped = {} /\ DefaultTiers(tiers) # {}
    BY <1>1, <1>4, <2>2 DEF DefaultTiers
  <2>3. CASE mapped = {} /\ DefaultTiers(tiers) = {}
    BY <1>1, <1>4, <2>3
  <2> QED BY <2>1, <2>2, <2>3
<1>6. ASSUME NEW i \in by PROVE \E c \in tiersOf : c.tier = i
  <2> HIDE DEF tiersOf
  <2>1. CASE mapped # {}
    <3>1. PICK g \in mapped : i = groupTier[g]
      BY <2>1
    <3>2. [tier |-> groupTier[g], group |-> g] \in tiersOf
      BY <1>4, <2>1
    <3> QED BY <3>1, <3>2
  <2>2. CASE mapped = {}
    <3>1. i \in DefaultTiers(tiers)
      BY <2>2
    <3>2. PICK j \in DefaultTiers(tiers) : tiersOf = {[tier |-> j, group |-> NoGroup]}
      BY <1>4, <2>2, <3>1
    <3> QED BY <1>1, <3>1, <3>2 DEF SingleDefault
  <2> QED BY <2>1, <2>2
<1> HIDE DEF tiersOf, by, offer
<1>7. ASSUME NEW q \in Claims(u, p) PROVE \E o \in made : o.offered = q
  <2>1. PICK i \in by : q = offer(i) /\ IsKnown(q)
    BY <1>2
  <2>2. PICK c \in tiersOf : c.tier = i
    BY <1>6
  <2>3. [group |-> c.group, offered |-> offer(c.tier)] \in made
    BY <1>3, <1>5, <2>1, <2>2
  <2> QED BY <2>1, <2>2, <2>3
<1>8. ASSUME NEW o \in made PROVE o.offered \in Claims(u, p)
  <2>1. PICK c \in tiersOf : o = [group |-> c.group, offered |-> offer(c.tier)] /\ IsKnown(o.offered)
    BY <1>3
  <2> QED BY <1>2, <1>5, <2>1
<1> QED BY <1>7, <1>8

\* The documents' order on ceilings is the one the code compares by.
LEMMA LessIsLessGenerous ==
  ASSUME NEW q \in Quotas, NEW r \in Quotas, IsKnown(q), IsKnown(r)
  PROVE  Less(q, r) <=> MoreGenerous(r, q)
<1>1. /\ q = Unlimited \/ (q # Unlimited /\ q.kind = "bytes" /\ q.bytes \in Nat)
      /\ r = Unlimited \/ (r # Unlimited /\ r.kind = "bytes" /\ r.bytes \in Nat)
  BY QuotaCases
<1>2. Unlimited.kind = "unlimited"
  BY DEF Unlimited
<1> QED BY <1>1, <1>2 DEF Less, MoreGenerous, IsBytes

\* Resolved against the policy as it is, everybody gets the best of her claims.
LEMMA ResolvedAsClaimed ==
  ASSUME Sound(Current), override \in [Pairs -> Quotas], NEW u \in People, NEW p \in Providers
  PROVE  LET r == Resolve(MemberOf[u], p, Current, override[<<u, p>>], NoTier)
             claims == Claims(u, p)
         IN /\ r.present <=> claims # {}
            /\ claims # {} => r.ceiling \in claims /\ \A q \in claims : ~Less(r.ceiling, q)
<1> DEFINE over == override[<<u, p>>]
           r == Resolve(MemberOf[u], p, Current, over, NoTier)
           claims == Claims(u, p)
           made == Made(MemberOf[u], p, Current)
<1> SUFFICES /\ r.present <=> claims # {}
             /\ claims # {} => r.ceiling \in claims /\ \A q \in claims : ~Less(r.ceiling, q)
  OBVIOUS
<1>1. MemberOf[u] \in SUBSET Groups /\ Current \in Tables /\ over \in Quotas
  BY MemberAssumption DEF Sound, Pairs
<1>2. CASE IsKnown(over)
  <2>1. r.present /\ r.ceiling = over
    BY <1>2, OverrideDecides
  <2>2. claims = {over}
    BY <1>2 DEF Claims
  <2>3. ~MoreGenerous(over, over)
    BY <1>1, <1>2, Generosity
  <2>4. ~Less(over, over)
    BY <1>1, <1>2, <2>3, LessIsLessGenerous
  <2> QED BY <2>1, <2>2, <2>4
<1>3. CASE ~IsKnown(over)
  <2>1. /\ made = {} => r = Nothing
        /\ made # {} => /\ r.present
                        /\ \E o \in made : /\ r.ceiling = o.offered
                                           /\ \A z \in made : ~MoreGenerous(z.offered, o.offered)
    BY <1>1, <1>3, ResolveIs
  <2>2. claims = {o.offered : o \in made}
    BY <1>3, ClaimsAreMade
  <2>3. \A o \in made : o.offered \in Quotas /\ IsKnown(o.offered)
    BY <1>1, MadeTyped
  <2> HIDE DEF r, made, claims
  <2>4. CASE made = {}
    BY <2>1, <2>2, <2>4 DEF Nothing
  <2>5. CASE made # {}
    <3>1. PICK o \in made : r.ceiling = o.offered /\ \A z \in made : ~MoreGenerous(z.offered, o.offered)
      BY <2>1, <2>5
    <3>2. \A z \in made : ~Less(o.offered, z.offered)
      BY <2>3, <3>1, LessIsLessGenerous
    <3> QED BY <2>1, <2>2, <2>5, <3>1, <3>2
  <2> QED BY <2>4, <2>5
<1> QED BY <1>2, <1>3

\* As long as nothing was edited since, the planner has read the tables as they
\* are, statement by statement, and resolved by them.
QuietInv ==
  /\ reader.at = "done" => reader.todo = {}
  /\ quiet => /\ reader.at = "tiers" =>
                   reader.policy.tiers = [i \in Ids |-> IF Exists(tiers, i)
                                                        THEN [tiers[i] EXCEPT !.alloc = {}] ELSE Vacant]
              /\ reader.at \in {"allocations", "people", "done"} => reader.policy.tiers = tiers
              /\ reader.at \in {"people", "done"} =>
                   /\ reader.policy.groupTier = groupTier
                   /\ \A k \in Pairs : k[1] \notin reader.todo =>
                        resolved[k] = Resolve(MemberOf[k[1]], k[2], Current, override[k], NoTier)

\* A plan that nothing was edited during gives everybody the best she may claim
\* of the policy as it then is, and is silent exactly where she may claim
\* nothing (LoadPolicy, Resolve, Plan).
THEOREM PlanFollowsPolicy == Spec => []PlanIsPolicy
<1>1. Init => QuietInv
  BY DEF Init, QuietInv, Idle
<1>2. TypeOK /\ QuietInv /\ [Next]_vars => QuietInv'
  <2>1. SUFFICES ASSUME TypeOK, QuietInv, [Next]_vars PROVE QuietInv'
    OBVIOUS
  <2>2. ASSUME Edited PROVE QuietInv'
    BY <2>1, <2>2 DEF Edited, QuietInv
  <2>3. ASSUME Adopt PROVE QuietInv'
    BY <2>1, <2>3 DEF Adopt, QuietInv
  <2>4. ASSUME UNCHANGED <<tables, row, reader, resolved, plan, quiet, lifted, adopted>>
        PROVE  QuietInv'
    BY <2>1, <2>4 DEF QuietInv, tables, Current
  <2>5. ASSUME ReadTiers PROVE QuietInv'
    <3>1. /\ reader'.at = "tiers"
          /\ reader'.policy.tiers = [i \in Ids |-> IF Exists(tiers, i)
                                                   THEN [tiers[i] EXCEPT !.alloc = {}] ELSE Vacant]
          /\ tiers' = tiers
      BY <2>5 DEF ReadTiers, Reads, tables, Empty
    <3> QED BY <3>1 DEF QuietInv
  <2>6. ASSUME ReadAllocations PROVE QuietInv'
    <3> DEFINE alloc(i) == IF Exists(tiers, i) THEN tiers[i].alloc ELSE {}
               old == reader.policy.tiers
               new == [i \in Ids |-> IF Exists(old, i) THEN [old[i] EXCEPT !.alloc = alloc(i)] ELSE Vacant]
    <3>1. /\ reader.at = "tiers" /\ reader'.at = "allocations" /\ reader'.policy.tiers = new
          /\ UNCHANGED <<tiers, quiet>>
      BY <2>1, <2>6 DEF ReadAllocations, Reads, tables, TypeOK, Tables
    <3>2. ASSUME quiet PROVE new = tiers
      <4>1. old = [i \in Ids |-> IF Exists(tiers, i) THEN [tiers[i] EXCEPT !.alloc = {}] ELSE Vacant]
        BY <2>1, <3>1, <3>2 DEF QuietInv
      <4>2. /\ tiers \in [Ids -> Tiers \cup {Vacant}]
            /\ \A i \in Ids : Exists(tiers, i) => tiers[i] \in Tiers /\ Validate(tiers[i])
            /\ \A i \in Ids : ~Exists(tiers, i) => tiers[i] = Vacant
        BY <2>1, TiersExist DEF TypeOK
      <4>3. ASSUME NEW i \in Ids, Exists(tiers, i) PROVE new[i] = tiers[i]
        <5>1. old[i] = [tiers[i] EXCEPT !.alloc = {}]
          BY <4>1, <4>3
        <5>2. tiers[i] \in Tiers /\ tiers[i].name # "" /\ Vacant.name = ""
          BY <4>2, <4>3 DEF Validate, Vacant
        <5>3. Exists(old, i)
          BY <4>1, <5>1, <5>2 DEF Exists, Tiers
        <5>4. new[i] = [old[i] EXCEPT !.alloc = tiers[i].alloc]
          BY <4>3, <5>3
        <5> QED BY <5>1, <5>2, <5>4 DEF Tiers
      <4>4. ASSUME NEW i \in Ids, ~Exists(tiers, i) PROVE new[i] = tiers[i]
        BY <4>1, <4>2, <4>4 DEF Exists
      <4>5. \A i \in Ids : new[i] = tiers[i]
        BY <4>3, <4>4
      <4>6. new = [i \in Ids |-> new[i]] /\ tiers = [i \in Ids |-> tiers[i]]
        BY <4>2
      <4> HIDE DEF new
      <4> QED BY <4>5, <4>6
    <3> HIDE DEF new, old, alloc
    <3> QED BY <3>1, <3>2 DEF QuietInv
  <2>7. ASSUME ReadMappings PROVE QuietInv'
    <3>1. /\ reader.at = "allocations" /\ reader'.at = "people" /\ reader'.todo = People
          /\ reader'.policy.tiers = reader.policy.tiers /\ reader'.policy.groupTier = groupTier
          /\ UNCHANGED <<tiers, groupTier, quiet>>
      BY <2>1, <2>7 DEF ReadMappings, Reads, tables, TypeOK, Tables
    <3>2. \A k \in Pairs : k[1] \in People
      BY DEF Pairs
    <3> QED BY <2>1, <3>1, <3>2 DEF QuietInv
  <2>8. ASSUME NEW u \in People, PlanPerson(u) PROVE QuietInv'
    <3>1. /\ reader.at = "people" /\ reader'.at \in {"people", "done"}
          /\ reader'.policy = reader.policy /\ reader'.todo = reader.todo \ {u}
          /\ reader'.at = "done" => reader'.todo = {}
          /\ UNCHANGED <<tiers, groupTier, override, quiet>>
      BY <2>1, <2>8 DEF PlanPerson, TypeOK, tables
    <3>2. ASSUME quiet PROVE reader.policy = Current
      <4>1. reader.policy \in Tables
        BY <2>1 DEF TypeOK
      <4>2. reader.policy = [tiers |-> reader.policy.tiers, groupTier |-> reader.policy.groupTier]
        BY <4>1 DEF Tables
      <4> QED BY <2>1, <3>1, <3>2, <4>2 DEF QuietInv, Current
    <3>3. ASSUME quiet, NEW k \in Pairs, k[1] \notin reader'.todo
          PROVE  resolved'[k] = Resolve(MemberOf[k[1]], k[2], Current, override[k], NoTier)
      <4>1. CASE k[1] = u
        BY <2>8, <3>2, <3>3, <4>1 DEF PlanPerson, UserPolicy
      <4>2. CASE k[1] # u
        BY <2>1, <2>8, <3>1, <3>3, <4>2 DEF PlanPerson, QuietInv
      <4> QED BY <4>1, <4>2
    <3>4. Current' = Current
      BY <3>1 DEF Current
    <3> QED BY <2>1, <3>1, <3>3, <3>4 DEF QuietInv
  <2>9. ASSUME EndPlan PROVE QuietInv'
    BY <2>9 DEF EndPlan, QuietInv, Idle
  <2>10. ASSUME NEW k \in Pairs, NEW r \in Rows[k], Observe(k, r) PROVE QuietInv'
    BY <2>1, <2>10 DEF Observe, QuietInv
  <2>11. ASSUME UNCHANGED vars PROVE QuietInv'
    BY <2>4, <2>11 DEF vars
  <2> QED
    BY <2>1, <2>2, <2>3, <2>4, <2>5, <2>6, <2>7, <2>8, <2>9, <2>10, <2>11, EditsAre DEF Next, Planner
<1>3. TypeOK /\ QuietInv => PlanIsPolicy
  <2>1. SUFFICES ASSUME TypeOK, QuietInv, reader.at = "done", quiet, NEW k \in Pairs
                 PROVE  LET claims == Claims(k[1], k[2])
                        IN /\ resolved[k].present <=> claims # {}
                           /\ claims # {} => /\ resolved[k].ceiling \in claims
                                             /\ \A q \in claims : ~Less(resolved[k].ceiling, q)
    BY DEF PlanIsPolicy
  <2>2. k[1] \in People /\ k[2] \in Providers /\ k = <<k[1], k[2]>>
    BY DEF Pairs
  <2>3. resolved[k] = Resolve(MemberOf[k[1]], k[2], Current, override[k], NoTier)
    BY <2>1 DEF QuietInv
  <2> QED BY <2>1, <2>2, <2>3, ResolvedAsClaimed DEF TypeOK
<1> QED BY <1>1, <1>2, <1>3, StoreTyped, PTL DEF Spec

(***************************************************************************)
(* One more group.                                                         *)
(***************************************************************************)

\* Somebody who has a tier of a group keeps every offer when groups are added.
LEMMA OffersGrow ==
  ASSUME NEW member \in SUBSET Groups, NEW p, NEW old \in Tables, NEW new \in Tables,
         new.tiers = old.tiers,
         \A g \in Groups : old.groupTier[g] # NoTier => new.groupTier[g] = old.groupTier[g],
         \E g \in member : old.groupTier[g] # NoTier
  PROVE  Made(member, p, old) \subseteq Made(member, p, new)
<1> DEFINE before == {g \in member : old.groupTier[g] # NoTier}
           after == {g \in member : new.groupTier[g] # NoTier}
           tiersOf(policy) == CandidateTiers(member, policy, NoTier).tiers
<1>1. before # {} /\ before \subseteq after /\ after # {}
  OBVIOUS
<1>2. /\ tiersOf(old) = {[tier |-> old.groupTier[g], group |-> g] : g \in before}
      /\ tiersOf(new) = {[tier |-> new.groupTier[g], group |-> g] : g \in after}
  BY <1>1, CandidateCases
<1>3. \A g \in before : new.groupTier[g] = old.groupTier[g]
  OBVIOUS
<1> HIDE DEF before, after, tiersOf
<1>4. tiersOf(old) \subseteq tiersOf(new)
  <2>1. SUFFICES ASSUME NEW g \in before
                 PROVE  [tier |-> old.groupTier[g], group |-> g] \in tiersOf(new)
    BY <1>2
  <2>2. g \in after /\ new.groupTier[g] = old.groupTier[g]
    BY <1>1, <1>3
  <2>3. [tier |-> new.groupTier[g], group |-> g] \in tiersOf(new)
    BY <1>2, <2>2
  <2> QED BY <2>2, <2>3
<1>5. ASSUME NEW o \in Made(member, p, old) PROVE o \in Made(member, p, new)
  <2>1. PICK c \in tiersOf(old) : /\ Exists(old.tiers, c.tier) /\ IsKnown(o.offered)
                                  /\ o = [group |-> c.group, offered |-> AllocationFor(old.tiers[c.tier], p)]
    BY DEF Made, Offers, tiersOf
  <2>2. c \in tiersOf(new) /\ Exists(new.tiers, c.tier)
    BY <1>4, <2>1
  <2> QED BY <2>1, <2>2 DEF Made, Offers, tiersOf
<1> QED BY <1>5

\* A step that maps a group changes nothing else the planner reads.
LEMMA MappingIsAlone ==
  ASSUME TypeOK, Next, NEW g \in Groups, groupTier[g] = NoTier, groupTier'[g] # NoTier
  PROVE  UNCHANGED <<tiers, override>> /\ \A h \in Groups \ {g} : groupTier'[h] = groupTier[h]
<1> DEFINE Alone == UNCHANGED <<tiers, override>> /\ \A h \in Groups \ {g} : groupTier'[h] = groupTier[h]
<1>1. groupTier \in [Groups -> Ids \cup {NoTier}]
  BY TiersExist DEF TypeOK
<1>2. ASSUME NEW h \in Groups, NEW i, MapGroupToTier(h, i) PROVE Alone
  <2>1. UNCHANGED <<tiers, override>> /\ groupTier' = [groupTier EXCEPT ![h] = i]
    BY <1>2 DEF MapGroupToTier
  <2>2. h = g
    BY <1>1, <2>1
  <2> QED BY <1>1, <2>1, <2>2
<1>3. ~ UNCHANGED groupTier
  OBVIOUS
<1>4. ~ \E i : DeleteTier(i)
  BY <1>1 DEF DeleteTier
<1>5. CASE Command
  BY <1>2, <1>3, <1>4, <1>5
     DEF Command, SetTier, SaveTier, DeleteTierByName, DefaultTier, SetDefaultTier, UnmapCommand, MapCommand,
         OverrideCommand, SetProviderOverride, Adopt
<1>6. CASE Form
  BY <1>2, <1>3, <1>6
     DEF Form, Post, OpenPage, tables, EditCeiling, MakeDefault, NewTier, SaveTier, MapGroup, UnmapGroup, ClearOverride,
         SetOverride, SetProviderOverride, ClearProviderOverride
<1>7. CASE Planner
  BY <1>3, <1>7 DEF Planner, ReadTiers, ReadAllocations, ReadMappings, Reads, PlanPerson, EndPlan, tables
<1>8. ASSUME NEW k \in Pairs, NEW r \in Rows[k], Observe(k, r) PROVE Alone
  BY <1>3, <1>8 DEF Observe, tables
<1>9. Command \/ Form \/ Planner \/ \E k \in Pairs : \E r \in Rows[k] : Observe(k, r)
  BY DEF Next
<1> QED BY <1>5, <1>6, <1>7, <1>8, <1>9

\* Mapping one more group to a tier, however strict, lowers the ceiling of
\* nobody who has a tier of a group already (MapGroupToTier, Resolve; listTiers
\* says so to the administrator).
THEOREM MappingRestrictsNobody == Spec => StricterNeverRestricts
<1> DEFINE Kept == \A g \in Groups :
                     groupTier[g] = NoTier /\ groupTier'[g] # NoTier =>
                       \A u \in People, p \in Providers :
                         (\E h \in MemberOf[u] : groupTier[h] # NoTier) =>
                           ~Less(Ceiling(u, p)', Ceiling(u, p))
<1>1. TypeOK /\ TypeOK' /\ [Next]_vars => [Kept]_vars
  <2>1. SUFFICES ASSUME TypeOK, TypeOK', Next,
                        NEW g \in Groups, groupTier[g] = NoTier, groupTier'[g] # NoTier,
                        NEW u \in People, NEW p \in Providers, NEW h \in MemberOf[u], groupTier[h] # NoTier
                 PROVE  ~Less(Ceiling(u, p)', Ceiling(u, p))
    OBVIOUS
  <2> DEFINE over == override[<<u, p>>]
             member == MemberOf[u]
             before == Resolve(member, p, Current, over, NoTier)
             after == Resolve(member, p, Current', over, NoTier)
             old == Made(member, p, Current)
             new == Made(member, p, Current')
  <2>2. UNCHANGED <<tiers, override>> /\ \A j \in Groups \ {g} : groupTier'[j] = groupTier[j]
    BY <2>1, MappingIsAlone
  <2>3. Ceiling(u, p) = before.ceiling /\ Ceiling(u, p)' = after.ceiling
    BY <2>2 DEF Ceiling
  <2>4. member \in SUBSET Groups /\ over \in Quotas /\ Current \in Tables /\ Current' \in Tables
    BY <2>1, MemberAssumption DEF TypeOK, Sound, Pairs
  <2>5. CASE IsKnown(over)
    <3>1. before.ceiling = over /\ after.ceiling = over
      BY <2>5, OverrideDecides
    <3>2. ~MoreGenerous(over, over)
      BY <2>4, <2>5, Generosity
    <3> QED BY <2>3, <2>4, <2>5, <3>1, <3>2, LessIsLessGenerous
  <2>6. CASE ~IsKnown(over)
    <3>1. /\ old = {} => before = Nothing
          /\ old # {} => \E o \in old : before.ceiling = o.offered
      BY <2>4, <2>6, ResolveIs
    <3>2. new # {} => \E o \in new : /\ after.ceiling = o.offered
                                     /\ \A z \in new : ~MoreGenerous(z.offered, o.offered)
      BY <2>4, <2>6, ResolveIs
    <3>3. \A o \in new : o.offered \in Quotas /\ IsKnown(o.offered)
      BY <2>4, MadeTyped
    <3>4. old \subseteq new
      <4>1. Current'.tiers = Current.tiers
        BY <2>2 DEF Current
      <4>2. \A j \in Groups : Current.groupTier[j] # NoTier => Current'.groupTier[j] = Current.groupTier[j]
        BY <2>1, <2>2 DEF Current
      <4>3. \E j \in member : Current.groupTier[j] # NoTier
        BY <2>1 DEF Current
      <4> HIDE DEF Current, member
      <4> QED BY <2>4, <4>1, <4>2, <4>3, OffersGrow
    <3> HIDE DEF old, new, before, after
    <3>5. CASE old = {}
      <4>1. ~IsKnown(before.ceiling)
        BY <3>1, <3>5 DEF Nothing, IsKnown, Unknown
      <4> QED BY <2>3, <4>1 DEF Less
    <3>6. CASE old # {}
      <4>1. PICK o \in new : before.ceiling = o.offered
        BY <3>1, <3>4, <3>6
      <4>2. PICK q \in new : after.ceiling = q.offered /\ \A z \in new : ~MoreGenerous(z.offered, q.offered)
        BY <3>2, <3>4, <3>6
      <4> QED BY <2>3, <3>3, <4>1, <4>2, LessIsLessGenerous
    <3> QED BY <3>5, <3>6
  <2> QED BY <2>5, <2>6
<1> QED BY <1>1, StoreTyped, PTL DEF Spec, StricterNeverRestricts

(***************************************************************************)
(* A form that edits one ceiling posts them all.                           *)
(***************************************************************************)

\* What integer division leaves over.
LEMMA Division ==
  ASSUME NEW a \in Int, NEW b \in Int, b > 0
  PROVE  /\ a \div b \in Int /\ a % b \in 0..(b - 1)
         /\ a = b * (a \div b) + (a % b)
OBVIOUS

\* Rounding moves a size by half a step at most, and never below nothing.
LEMMA RoundedIsNear ==
  ASSUME NEW n \in Nat, NEW step \in Nat \ {0}
  PROVE  /\ Rounded(n, step) \in Nat
         /\ 2 * (Rounded(n, step) - n) <= step /\ 2 * (n - Rounded(n, step)) <= step
<1> DEFINE d == (2 * n + step) \div (2 * step)
           m == (2 * n + step) % (2 * step)
           x == d * step
<1>1. 2 * n + step \in Int /\ 2 * step \in Int /\ 2 * step > 0
  OBVIOUS
<1>2. d \in Int /\ m \in 0..(2 * step - 1) /\ 2 * n + step = (2 * step) * d + m
  BY <1>1, Division
<1>3. Rounded(n, step) = x
  BY DEF Rounded
<1> HIDE DEF d, m
<1>4. x \in Int /\ (2 * step) * d = 2 * x
  BY <1>2
<1>5. x >= 0
  <2>1. SUFFICES ASSUME d <= -1 PROVE FALSE
    BY <1>2
  <2>2. x <= (-1) * step
    BY <1>2, <2>1
  <2> HIDE DEF x
  <2> QED BY <1>2, <1>4, <2>2
<1> HIDE DEF x
<1> QED BY <1>2, <1>3, <1>4, <1>5

\* Another provider's field carries what its allocation offers, rounded.
LEMMA EditedOffers ==
  ASSUME NEW tier \in Tiers, Validate(tier), \A a \in tier.alloc : IsKnown(Offer(tier, a)),
         NEW p \in Providers, NEW q \in Quotas, NEW r \in Providers \ {p},
         NEW t, t.alloc = FieldsOf(tier, p) \cup FieldTyped(p, q), Validate(t)
  PROVE  Near(AllocationFor(tier, r), AllocationFor(t, r))
<1>1. /\ \A a, b \in tier.alloc : a.provider = b.provider => a = b
      /\ \A a, b \in t.alloc : a.provider = b.provider => a = b
  BY DEF Validate
<1>2. tier.alloc \subseteq Shares
  BY DEF Tiers
<1>3. \A b \in FieldTyped(p, q) : b.provider = p
  BY QuotaCases DEF FieldTyped
<1>4. ASSUME NEW a \in tier.alloc PROVE FieldOf(tier, a).provider = a.provider
  <2>1. a \in Shares
    BY <1>2
  <2> QED BY <2>1 DEF FieldOf, Shares
<1>5. CASE \E a \in tier.alloc : a.provider = r
  <2> DEFINE c == CHOOSE a \in tier.alloc : a.provider = r
             b == FieldOf(tier, c)
             o == Offer(tier, c)
  <2>1. c \in tier.alloc /\ c.provider = r
    BY <1>5
  <2>2. AllocationFor(tier, r) = o
    BY <1>5 DEF AllocationFor
  <2> HIDE DEF c
  <2>3. o \in Quotas /\ IsKnown(o) /\ (o = Unlimited <=> c.mode = "unlimited")
    BY <2>1, OfferTyped
  <2>4. b \in t.alloc /\ b.provider = r
    BY <1>4, <2>1 DEF FieldsOf
  <2>5. AllocationFor(t, r) = Offer(t, b)
    <3> DEFINE d == CHOOSE a \in t.alloc : a.provider = r
    <3>1. d \in t.alloc /\ d.provider = r
      BY <2>4
    <3>2. d = b
      BY <1>1, <2>4, <3>1
    <3>3. AllocationFor(t, r) = Offer(t, d)
      BY <2>4 DEF AllocationFor
    <3> HIDE DEF d
    <3> QED BY <3>2, <3>3
  <2>6. b = IF IsBytes(o) THEN [c EXCEPT !.mode = "absolute", !.value = Rounded(o.bytes, Grain)] ELSE c
    BY <2>1, <2>2 DEF FieldOf
  <2>7. CASE o = Unlimited
    <3>1. b = c
      BY <2>6, <2>7 DEF IsBytes, Unlimited
    <3>2. Offer(t, b) = Unlimited
      BY <2>3, <2>7, <3>1 DEF Offer
    <3> QED BY <2>2, <2>5, <2>7, <3>2, StepsAssumption DEF Near, Unlimited
  <2>8. CASE o # Unlimited
    <3>1. IsBytes(o) /\ o.kind = "bytes" /\ o.bytes \in Nat
      BY <2>3, <2>8, QuotaCases
    <3> DEFINE x == Rounded(o.bytes, Grain)
    <3>2. x \in Nat /\ 2 * (x - o.bytes) <= Grain /\ 2 * (o.bytes - x) <= Grain
      BY <3>1, RoundedIsNear, StepsAssumption
    <3>3. b.mode = "absolute" /\ b.value = x
      BY <1>2, <2>1, <2>6, <3>1 DEF Shares
    <3>4. Offer(t, b) = BytesQuota(x)
      BY <3>3 DEF Offer
    <3> HIDE DEF x, o
    <3>5. Offer(t, b).kind = "bytes" /\ Offer(t, b).bytes = x
      BY <3>2, <3>4 DEF BytesQuota
    <3> QED BY <2>2, <2>5, <3>1, <3>2, <3>5, StepsAssumption DEF Near
  <2> QED BY <2>7, <2>8
<1>6. CASE ~ \E a \in tier.alloc : a.provider = r
  <2>1. \A b \in t.alloc : b.provider # r
    BY <1>3, <1>4, <1>6 DEF FieldsOf
  <2>2. AllocationFor(tier, r) = Unknown /\ AllocationFor(t, r) = Unknown
    BY <1>6, <2>1 DEF AllocationFor
  <2> QED BY <2>2, StepsAssumption DEF Near, Unknown
<1> QED BY <1>5, <1>6

\* Editing one ceiling on a page that is up to date moves each of the tier's
\* others by half a step of its field at most, and takes none away, though
\* shares are posted as bytes (tiersHandler, actionTier, saveTierTx).
THEOREM EditsAreLocal == Spec => EditIsLocal
<1> DEFINE Local == \A i \in Ids, p \in Providers, q \in Typed :
                      /\ EditCeiling(i, p, q) /\ page[i] = tiers[i]
                      /\ (\A a \in tiers[i].alloc : IsKnown(Offer(tiers[i], a)))
                      => \A r \in Providers \ {p} :
                          Near(AllocationFor(tiers[i], r), AllocationFor(tiers'[i], r))
<1>1. TypeOK => [Local]_vars
  <2>1. SUFFICES ASSUME TypeOK, NEW i \in Ids, NEW p \in Providers, NEW q \in Typed,
                        EditCeiling(i, p, q), page[i] = tiers[i],
                        \A a \in tiers[i].alloc : IsKnown(Offer(tiers[i], a)),
                        NEW r \in Providers \ {p}
                 PROVE  Near(AllocationFor(tiers[i], r), AllocationFor(tiers'[i], r))
    OBVIOUS
  <2> DEFINE tier == tiers[i]
             t == Posted(tier.name, tier.budget, tier.default, FieldsOf(tier, p) \cup FieldTyped(p, q))
  <2>2. Exists(page, i) /\ SaveTier(t)
    BY <2>1 DEF EditCeiling
  <2>3. /\ t.name = tier.name /\ t.alloc = FieldsOf(tier, p) \cup FieldTyped(p, q)
        /\ Validate(t)
    BY <2>2 DEF Posted, SaveTier
  <2>4. /\ tiers \in [Ids -> Tiers \cup {Vacant}]
        /\ \A j \in Ids : Exists(tiers, j) => tiers[j] \in Tiers /\ Validate(tiers[j])
        /\ \A j, k \in Ids : Exists(tiers, j) /\ tiers[j].name = tiers[k].name => j = k
    BY <2>1, TiersExist DEF TypeOK
  <2>5. Exists(tiers, i)
    BY <2>1, <2>2, <2>4 DEF Exists
  <2>6. PICK j \in RowFor(t) \cap Ids : tiers' = [tiers EXCEPT ![j] = t]
    BY <2>2 DEF SaveTier
  <2> HIDE DEF t
  <2>7. j = i
    <3>1. i \in {k \in Ids : Exists(tiers, k) /\ tiers[k].name = t.name}
      BY <2>3, <2>5
    <3>2. Exists(tiers, j) /\ tiers[j].name = t.name
      BY <2>6, <3>1 DEF RowFor
    <3> QED BY <2>3, <2>4, <3>2
  <2>8. tiers'[i] = t
    BY <2>4, <2>6, <2>7
  <2>9. q \in Quotas
    BY TypedAssumption
  <2> QED BY <2>1, <2>3, <2>4, <2>5, <2>8, <2>9, EditedOffers
<1> QED BY <1>1, StoreTyped, PTL DEF EditIsLocal

(***************************************************************************)
(* What a tier offers adds up to no more than its budget.                  *)
(***************************************************************************)

\* The sums Validate checks are numbers the program can represent, and so is
\* the budget: int64 in the code, where each value and no sum of several is.
Fits(tier) ==
  /\ Sum(Allocations("absolute", tier)) < Half /\ Sum(Allocations("percent", tier)) < Half
  /\ tier.budget.bytes < Half

\* Wrapping around never makes a number larger, and leaves one that fits alone.
LEMMA WrapLowers ==
  ASSUME NEW n \in Nat
  PROVE  Wrap(n) \in Int /\ Wrap(n) <= n /\ (n < Half => Wrap(n) = n)
<1> DEFINE d == (n + Half) \div (2 * Half)
           m == (n + Half) % (2 * Half)
<1>1. Half \in Nat /\ Half > 0 /\ n + Half \in Int /\ 2 * Half \in Int /\ 2 * Half > 0
  BY HalfAssumption
<1>2. d \in Int /\ m \in 0..(2 * Half - 1) /\ n + Half = (2 * Half) * d + m
  BY <1>1, Division
<1>3. Wrap(n) = m - Half
  BY DEF Wrap
<1> HIDE DEF d, m
<1>4. d >= 0
  <2>1. SUFFICES ASSUME d <= -1 PROVE FALSE
    BY <1>2
  <2>2. (2 * Half) * d <= (2 * Half) * (-1)
    BY <1>1, <1>2, <2>1
  <2> QED BY <1>1, <1>2, <2>2
<1>5. (2 * Half) * d >= 0 /\ (2 * Half) * d \in Int
  BY <1>1, <1>2, <1>4
<1>6. m <= n + Half
  BY <1>1, <1>2, <1>5
<1>7. n < Half => m = n + Half
  <2>1. SUFFICES ASSUME n < Half PROVE d = 0
    BY <1>1, <1>2
  <2>2. SUFFICES ASSUME d >= 1 PROVE FALSE
    BY <1>2, <1>4
  <2>3. (2 * Half) * d >= (2 * Half) * 1
    BY <1>1, <1>2, <2>2
  <2> QED BY <1>1, <1>2, <2>1, <2>3
<1> QED BY <1>1, <1>2, <1>3, <1>6, <1>7

\* A hundredth of a product that may have wrapped is a hundredth of it at most.
LEMMA HundredthLowers ==
  ASSUME NEW n \in Nat
  PROVE  LET b == BytesQuota(Hundredth(Wrap(n))).bytes IN b \in Nat /\ 100 * b <= n
<1> DEFINE w == Wrap(n)
<1>1. w \in Int /\ w <= n
  BY WrapLowers
<1> HIDE DEF w
<1>2. CASE w >= 0
  <2>1. Hundredth(w) \in Nat /\ 100 * Hundredth(w) <= w
    BY <1>1, <1>2 DEF Hundredth
  <2>2. BytesQuota(Hundredth(w)).bytes = Hundredth(w)
    BY <2>1 DEF BytesQuota
  <2> QED BY <1>1, <2>1, <2>2 DEF w
<1>3. CASE w < 0
  <2>1. Hundredth(w) \in Int /\ Hundredth(w) <= 0
    BY <1>1, <1>3 DEF Hundredth
  <2>2. BytesQuota(Hundredth(w)).bytes = 0
    BY <2>1 DEF BytesQuota, Unknown
  <2> QED BY <2>2 DEF w
<1> QED BY <1>1, <1>2, <1>3

Part(S, p) == {a \in S : a.provider = p}

\* A sum of allocations, provider by provider.
LEMMA SumByProvider ==
  ASSUME NEW tier \in Tiers, NEW S, S \subseteq tier.alloc, \A a \in S : a.value >= 0
  PROVE  /\ Sum(S) = Total([p \in Providers |-> Sum(Part(S, p))], Providers) /\ Sum(S) \in Nat
         /\ \A p \in Providers : Sum(Part(S, p)) \in Nat
<1> DEFINE f == [a \in S |-> a.value]
           key == [a \in S |-> a.provider]
           with(p) == {a \in S : key[a] = p}
           sums == [p \in Providers |-> Total(f, with(p))]
           parts == [p \in Providers |-> Sum(Part(S, p))]
<1>1. IsFiniteSet(S) /\ \A a \in S : a.value \in Nat /\ a.provider \in Providers
  <2>1. \A a \in S : a \in Shares
    BY DEF Tiers
  <2> QED BY <2>1, SumIsInt DEF Shares
<1>2. \A a \in S : f[a] \in Nat /\ f[a] \in Int /\ key[a] \in Providers
  BY <1>1
<1>3. Sum(S) = Total(f, S)
  BY <1>1, SumIsTotal
<1>4. Total(f, S) = Total(sums, Providers)
  <2> HIDE DEF f, key
  <2> QED BY <1>1, <1>2, PeopleAssumption, TotalByKey
<1>5. ASSUME NEW T \in SUBSET S PROVE Sum(T) = Total(f, T) /\ Total(f, T) \in Nat
  <2> DEFINE h == [a \in T |-> a.value]
  <2>1. IsFiniteSet(T) /\ \A a \in T : a.value \in Nat
    BY <1>1, FS_Subset
  <2>2. Sum(T) = Total(h, T)
    BY <2>1, SumIsTotal
  <2>3. \A a \in T : f[a] \in Int /\ f[a] \in Nat /\ h[a] = f[a]
    BY <2>1
  <2> HIDE DEF f, h
  <2> QED BY <2>1, <2>2, <2>3, TotalExtensional, TotalOfNats
<1>6. \A p \in Providers : /\ with(p) = Part(S, p) /\ with(p) \in SUBSET S
  BY DEF Part
<1>7. \A p \in Providers : /\ sums[p] = Sum(Part(S, p)) /\ sums[p] \in Nat
  <2> HIDE DEF f, with
  <2> QED BY <1>5, <1>6
<1>8. Total(sums, Providers) = Total(parts, Providers)
  <2>1. \A p \in Providers : sums[p] \in Int /\ parts[p] = sums[p]
    BY <1>7
  <2> HIDE DEF sums, parts
  <2> QED BY <2>1, PeopleAssumption, TotalExtensional
<1>9. Sum(S) \in Nat
  BY <1>5
<1> QED BY <1>3, <1>4, <1>7, <1>8, <1>9

\* The sum of a part that has one element at most.
LEMMA SumOfPart ==
  ASSUME NEW tier \in Tiers, NEW S, S \subseteq tier.alloc, NEW p
  PROVE  /\ Part(S, p) = {} => Sum(Part(S, p)) = 0
         /\ \A c : Part(S, p) = {c} => Sum(Part(S, p)) = c.value
<1> DEFINE T == Part(S, p)
           f == [a \in T |-> a.value]
<1>1. T \subseteq tier.alloc
  BY DEF Part
<1>2. IsFiniteSet(T) /\ \A a \in T : a.value \in Int
  BY <1>1, SumIsInt
<1>3. Sum(T) = Total(f, T) /\ \A a \in T : f[a] = a.value /\ f[a] \in Int
  BY <1>2, SumIsTotal
<1> HIDE DEF T, f
<1>4. /\ Total(f, {}) = 0
      /\ \A x \in T : Total(f, T) = f[x] + Total(f, T \ {x})
  BY <1>2, <1>3, TotalSteps
<1>5. CASE T = {}
  BY <1>3, <1>4, <1>5 DEF T
<1>6. ASSUME NEW c, T = {c} PROVE Sum(T) = c.value
  <2>1. c \in T /\ T \ {c} = {}
    BY <1>6
  <2> QED BY <1>3, <1>4, <2>1
<1> QED BY <1>3, <1>4, <1>5, <1>6 DEF T

\* What is left of the budget of a tier that passes Validate.
LEMMA RemainderIs ==
  ASSUME NEW tier \in Tiers, Validate(tier), Fits(tier), IsBytes(tier.budget)
  PROVE  LET absolute == Sum(Allocations("absolute", tier))
         IN /\ absolute \in Nat /\ tier.budget.bytes \in Nat /\ absolute <= tier.budget.bytes
            /\ Remainder(tier) = tier.budget.bytes - absolute
<1> DEFINE absolute == Sum(Allocations("absolute", tier))
           budget == tier.budget.bytes
<1>1. Allocations("absolute", tier) \subseteq tier.alloc
  BY DEF Allocations
<1>2. \A a \in Allocations("absolute", tier) : a.value >= 0
  BY DEF Validate
<1>3. absolute \in Nat
  BY <1>1, <1>2, SumByProvider
<1>4. budget \in Nat
  BY DEF Tiers, Quotas
<1>5. Wrap(absolute) = absolute /\ Wrap(absolute) <= budget
  <2>1. absolute < Half /\ Wrap(absolute) <= budget
    BY DEF Fits, Validate
  <2> QED BY <1>3, <2>1, WrapLowers
<1>6. budget - absolute \in Nat /\ budget - absolute < Half
  <2>1. budget < Half
    BY DEF Fits
  <2> HIDE DEF absolute, budget
  <2> QED BY <1>3, <1>4, <1>5, <2>1, HalfAssumption
<1>7. Wrap(budget - absolute) = budget - absolute
  BY <1>6, WrapLowers
<1>8. Remainder(tier) = IF budget - absolute < 0 THEN 0 ELSE budget - absolute
  <2>1. Remainder(tier) = IF Wrap(budget - absolute) < 0 THEN 0 ELSE Wrap(budget - absolute)
    BY DEF Remainder
  <2> QED BY <1>7, <2>1
<1> HIDE DEF absolute, budget
<1>9. absolute <= budget /\ Remainder(tier) = budget - absolute
  BY <1>3, <1>4, <1>6, <1>8
<1> QED BY <1>3, <1>4, <1>9 DEF absolute, budget

\* On each provider a tier offers no more than what it allocates there in
\* bytes, and its share of what that leaves of the budget.
LEMMA OfferedWithin ==
  ASSUME NEW tier \in Tiers, Validate(tier), Fits(tier), IsBytes(tier.budget), NEW p \in Providers
  PROVE  LET offered == AllocationFor(tier, p).bytes
             absolute == Sum(Part(Allocations("absolute", tier), p))
             percent == Sum(Part(Allocations("percent", tier), p))
         IN offered \in Nat /\ 100 * offered <= 100 * absolute + Remainder(tier) * percent
<1> DEFINE offered == AllocationFor(tier, p).bytes
           A == Part(Allocations("absolute", tier), p)
           P == Part(Allocations("percent", tier), p)
           R == Remainder(tier)
<1>1. R \in Nat
  BY RemainderIs
<1>2. /\ Allocations("absolute", tier) \subseteq tier.alloc /\ Allocations("percent", tier) \subseteq tier.alloc
      /\ \A a \in Allocations("absolute", tier) : a.value >= 0
      /\ \A a \in Allocations("percent", tier) : a.value \in 0..100 /\ a.value >= 0
      /\ \A a, b \in tier.alloc : a.provider = b.provider => a = b
  <2>1. Allocations("absolute", tier) \subseteq tier.alloc /\ Allocations("percent", tier) \subseteq tier.alloc
    BY DEF Allocations
  <2>2. /\ \A a \in Allocations("absolute", tier) : a.value >= 0
        /\ \A a \in Allocations("percent", tier) : a.value \in 0..100
        /\ \A a, b \in tier.alloc : a.provider = b.provider => a = b
    BY DEF Validate
  <2> QED BY <2>1, <2>2
<1>3. Sum(A) \in Nat /\ Sum(P) \in Nat
  BY <1>2, SumByProvider
<1>4. AllocationFor(tier, p) \in Quotas
  BY AllocationTyped
<1>5. offered \in Nat
  BY <1>4 DEF Quotas
<1>6. CASE ~ \E a \in tier.alloc : a.provider = p
  <2>1. offered = 0
    BY <1>6 DEF AllocationFor, Unknown
  <2>2. R * Sum(P) \in Nat
    BY <1>1, <1>3
  <2> HIDE DEF offered, A, P, R
  <2>3. 100 * offered <= 100 * Sum(A) + R * Sum(P)
    BY <1>3, <2>1, <2>2
  <2> QED BY <1>5, <2>3 DEF offered, A, P, R
<1>7. CASE \E a \in tier.alloc : a.provider = p
  <2> DEFINE c == CHOOSE a \in tier.alloc : a.provider = p
  <2>1. c \in tier.alloc /\ c.provider = p /\ AllocationFor(tier, p) = Offer(tier, c)
    BY <1>7 DEF AllocationFor
  <2> HIDE DEF c
  <2>2. \A a \in tier.alloc : a.provider = p => a = c
    BY <1>2, <2>1
  <2>3. c.mode \in Modes /\ c.value \in Int
    BY <2>1 DEF Tiers, Shares
  <2>4. CASE c.mode = "unlimited"
    <3>1. offered = 0
      BY <2>1, <2>4 DEF Offer, Unlimited
    <3>2. R * Sum(P) \in Nat
      BY <1>1, <1>3
    <3> HIDE DEF offered, A, P, R
    <3>3. 100 * offered <= 100 * Sum(A) + R * Sum(P)
      BY <1>3, <3>1, <3>2
    <3> QED BY <1>5, <3>3 DEF offered, A, P, R
  <2>5. CASE c.mode = "absolute"
    <3>1. A = {c}
      BY <2>1, <2>2, <2>5 DEF Allocations, Part
    <3>2. Sum(A) = c.value /\ c.value >= 0
      <4>1. c \in Allocations("absolute", tier)
        BY <2>1, <2>5 DEF Allocations
      <4> QED BY <1>2, <3>1, <4>1, SumOfPart
    <3>3. offered = c.value
      BY <2>1, <2>3, <2>5, <3>2 DEF Offer, BytesQuota
    <3>4. R * Sum(P) \in Nat
      BY <1>1, <1>3
    <3> HIDE DEF offered, A, P, R
    <3>5. 100 * offered <= 100 * Sum(A) + R * Sum(P)
      BY <1>3, <3>2, <3>3, <3>4
    <3> QED BY <1>5, <3>5 DEF offered, A, P, R
  <2>6. CASE c.mode = "percent"
    <3>1. P = {c}
      BY <2>1, <2>2, <2>6 DEF Allocations, Part
    <3>2. Sum(P) = c.value
      BY <1>2, <3>1, SumOfPart
    <3>3. Offer(tier, c) = BytesQuota(Hundredth(Wrap(R * c.value)))
      BY <2>6 DEF Offer, PercentOf
    <3>4. R * c.value \in Nat
      BY <1>1, <1>3, <3>2
    <3>5. 100 * offered <= R * c.value
      <4> DEFINE n == R * c.value
      <4>1. n \in Nat
        BY <3>4
      <4> HIDE DEF n
      <4>2. 100 * BytesQuota(Hundredth(Wrap(n))).bytes <= n
        BY <4>1, HundredthLowers
      <4>3. offered = BytesQuota(Hundredth(Wrap(n))).bytes
        BY <2>1, <3>3 DEF n
      <4> HIDE DEF offered
      <4> QED BY <4>2, <4>3 DEF n
    <3> HIDE DEF offered, A, P, R
    <3>6. 100 * offered <= 100 * Sum(A) + R * Sum(P)
      BY <1>3, <1>5, <3>2, <3>4, <3>5
    <3> QED BY <1>5, <3>6 DEF offered, A, P, R
  <2> QED BY <2>3, <2>4, <2>5, <2>6 DEF Modes
<1> QED BY <1>6, <1>7

\* The sum WithinBudget takes is the total of what is offered.
LEMMA OfferedIsTotal ==
  ASSUME NEW q, \A p \in Providers : q[p].bytes \in Int
  PROVE  MapThenSumSet(LAMBDA p : q[p].bytes, Providers) = Total([p \in Providers |-> q[p].bytes], Providers)
<1> DEFINE f == [p \in Providers |-> q[p].bytes]
           P(h) == h = [T \in SUBSET Providers |-> IF T = {} THEN 0
                          ELSE LET x == CHOOSE y \in T : TRUE IN q[x].bytes + h[T \ {x}]]
           iter == CHOOSE h : P(h)
<1>1. PICK g : Measures(g, f, Providers)
  <2>1. \A p \in Providers : f[p] \in Int
    OBVIOUS
  <2> HIDE DEF f
  <2> QED BY <2>1, MeasureExists, PeopleAssumption
<1>2. \A h : P(h) <=> AddsUp(h, f, Providers)
  BY DEF AddsUp
<1>3. AddsUp(g, f, Providers)
  BY <1>1, MeasureAddsUp
<1>4. P(iter)
  <2> HIDE DEF P
  <2> QED BY <1>2, <1>3
<1>5. iter = g
  <2> HIDE DEF iter, P, f
  <2> QED BY <1>1, <1>2, <1>4, RecursionMeasures, PeopleAssumption
<1>6. MapThenSumSet(LAMBDA p : q[p].bytes, Providers) = iter[Providers]
  BY DEF MapThenSumSet, MapThenFoldSet
<1>7. Total(f, Providers) = g[Providers]
  <2> HIDE DEF f
  <2> QED BY <1>1, TotalIsMeasured, PeopleAssumption
<1> QED BY <1>5, <1>6, <1>7

\* What a tier offers in bytes, over all providers, stays within its budget.
LEMMA TierWithinBudget ==
  ASSUME NEW tier \in Tiers, Validate(tier), Fits(tier), IsBytes(tier.budget), ~Overcommitted(tier)
  PROVE  LET offered == [p \in Providers |-> AllocationFor(tier, p)]
         IN MapThenSumSet(LAMBDA p : offered[p].bytes, Providers) <= tier.budget.bytes
<1> DEFINE offered == [p \in Providers |-> AllocationFor(tier, p)]
           bytes == [p \in Providers |-> offered[p].bytes]
           Abs == Allocations("absolute", tier)
           Pct == Allocations("percent", tier)
           absolute == [p \in Providers |-> Sum(Part(Abs, p))]
           percent == [p \in Providers |-> Sum(Part(Pct, p))]
           R == Remainder(tier)
           scaled == [p \in Providers |-> 100 * bytes[p]]
           bound == [p \in Providers |-> 100 * absolute[p] + R * percent[p]]
           budget == tier.budget.bytes
<1>1. /\ Abs \subseteq tier.alloc /\ Pct \subseteq tier.alloc
      /\ \A a \in Abs : a.value >= 0
      /\ \A a \in Pct : a.value >= 0
  <2>1. Abs \subseteq tier.alloc /\ Pct \subseteq tier.alloc
    BY DEF Allocations
  <2>2. \A a \in Abs : a.value >= 0
    BY DEF Validate
  <2>3. \A a \in Pct : a.value \in 0..100
    BY DEF Validate
  <2> QED BY <2>1, <2>2, <2>3
<1>2. /\ Sum(Abs) = Total(absolute, Providers) /\ Sum(Abs) \in Nat
      /\ \A p \in Providers : absolute[p] \in Nat
  BY <1>1, SumByProvider
<1>3. /\ Sum(Pct) = Total(percent, Providers) /\ Sum(Pct) \in Nat
      /\ \A p \in Providers : percent[p] \in Nat
  BY <1>1, SumByProvider
<1>4. R \in Nat /\ budget \in Nat /\ R = budget - Sum(Abs) /\ Sum(Abs) <= budget
  BY RemainderIs
<1>5. ASSUME NEW p \in Providers
      PROVE  bytes[p] \in Nat /\ 100 * bytes[p] <= 100 * absolute[p] + R * percent[p]
  <2>1. bytes[p] = AllocationFor(tier, p).bytes
    OBVIOUS
  <2>2. absolute[p] = Sum(Part(Abs, p)) /\ percent[p] = Sum(Part(Pct, p))
    OBVIOUS
  <2> HIDE DEF bytes, absolute, percent
  <2> QED BY <2>1, <2>2, OfferedWithin
<1>6. \A p \in Providers : offered[p].bytes \in Int
  BY <1>5
<1>7. MapThenSumSet(LAMBDA p : offered[p].bytes, Providers) = Total(bytes, Providers)
  <2> HIDE DEF offered
  <2> QED BY <1>6, OfferedIsTotal
<1>8. Total(scaled, Providers) = 100 * Total(bytes, Providers)
  <2>1. \A p \in Providers : bytes[p] \in Int /\ scaled[p] = 100 * bytes[p]
    BY <1>5
  <2> HIDE DEF bytes, scaled
  <2> QED BY <2>1, PeopleAssumption, TotalScales
<1>9. Total(bound, Providers) = 100 * Sum(Abs) + R * Sum(Pct)
  <2>1. \A p \in Providers : /\ absolute[p] \in Int /\ percent[p] \in Int
                             /\ bound[p] = 100 * absolute[p] + R * percent[p]
    BY <1>2, <1>3
  <2>2. 100 \in Int /\ R \in Int
    BY <1>4
  <2>3. Total(bound, Providers) = 100 * Total(absolute, Providers) + R * Total(percent, Providers)
    <3> HIDE DEF bound, absolute, percent, R
    <3> QED BY <2>1, <2>2, PeopleAssumption, TotalIsLinear
  <2> HIDE DEF bound, absolute, percent
  <2> QED BY <1>2, <1>3, <2>3
<1>10. Total(scaled, Providers) <= Total(bound, Providers)
  <2>1. ASSUME NEW p \in Providers
        PROVE  scaled[p] \in Int /\ bound[p] \in Int /\ scaled[p] <= bound[p]
    <3>1. scaled[p] = 100 * bytes[p] /\ bound[p] = 100 * absolute[p] + R * percent[p]
      OBVIOUS
    <3>2. /\ bytes[p] \in Nat /\ absolute[p] \in Nat /\ percent[p] \in Nat /\ R \in Nat
          /\ 100 * bytes[p] <= 100 * absolute[p] + R * percent[p]
      BY <1>2, <1>3, <1>4, <1>5
    <3> HIDE DEF scaled, bound, bytes, absolute, percent, R
    <3>3. R * percent[p] \in Int
      BY <3>2
    <3> QED BY <3>1, <3>2, <3>3
  <2> HIDE DEF scaled, bound
  <2> QED BY <2>1, PeopleAssumption, TotalMonotone
<1>11. R * Sum(Pct) <= R * 100
  <2>1. Wrap(Sum(Pct)) <= 100 /\ Sum(Pct) < Half
    <3>1. Wrap(Sum(Pct)) \in Int
      BY <1>3, Wrapped
    <3>2. ~(Wrap(Sum(Pct)) > 100) /\ Sum(Pct) < Half
      BY DEF Overcommitted, Fits
    <3> QED BY <3>1, <3>2
  <2>2. Sum(Pct) <= 100
    BY <1>3, <2>1, WrapLowers
  <2> HIDE DEF R
  <2> QED BY <1>3, <1>4, <2>2
<1>12. Total(bytes, Providers) \in Int
  <2>1. \A p \in Providers : bytes[p] \in Int
    BY <1>5
  <2> HIDE DEF bytes
  <2> QED BY <2>1, PeopleAssumption, TotalSteps
<1> HIDE DEF bytes, scaled, bound, absolute, percent, R, budget, Abs, Pct
<1>13. Total(bytes, Providers) <= budget
  <2>1. R * Sum(Pct) \in Int
    BY <1>3, <1>4
  <2> QED BY <1>2, <1>3, <1>4, <1>8, <1>9, <1>10, <1>11, <1>12, <2>1
<1> QED BY <1>7, <1>13 DEF budget

\* Whatever is edited in between, the tables stay sound, and a tier that is not
\* over-committed offers no more than its budget, as long as what its
\* allocations add up to can be represented (Validate, AllocationFor,
\* percentOf).  Validate adds in 64 bits and does not look for an overflow:
\* without the hypothesis two ceilings of 2^62 bytes pass it under any budget.
THEOREM TiersStayWithinBudget ==
  Spec => []((\A i \in Ids : Exists(tiers, i) => Fits(tiers[i])) => TiersHold)
<1>1. TypeOK => ((\A i \in Ids : Exists(tiers, i) => Fits(tiers[i])) => TiersHold)
  <2>1. SUFFICES ASSUME TypeOK, \A i \in Ids : Exists(tiers, i) => Fits(tiers[i])
                 PROVE  WithinBudget
    BY DEF TiersHold
  <2>2. SUFFICES ASSUME NEW i \in Ids, Exists(tiers, i), IsBytes(tiers[i].budget), ~Overcommitted(tiers[i])
                 PROVE  LET offered == [p \in Providers |-> AllocationFor(tiers[i], p)]
                        IN MapThenSumSet(LAMBDA p : offered[p].bytes, Providers) <= tiers[i].budget.bytes
    BY DEF WithinBudget
  <2>3. tiers[i] \in Tiers /\ Validate(tiers[i]) /\ Fits(tiers[i])
    BY <2>1, <2>2, TiersExist DEF TypeOK
  <2> QED BY <2>2, <2>3, TierWithinBudget
<1> QED BY <1>1, StoreTyped, PTL
=============================================================================
