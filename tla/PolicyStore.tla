---------------------------- MODULE PolicyStore ----------------------------
(***************************************************************************)
(* The policy tables (internal/store/policy.go), every command and form    *)
(* that edits them (cmd/nuno/policy.go, internal/api/actions.go and        *)
(* pages.go), and the planner that reads them statement by statement       *)
(* (internal/reconcile/plan.go).  Forms are posted while a plan is being   *)
(* computed; commands need the data directory, which a server holds.       *)
(***************************************************************************)
EXTENDS Policy, PlanRules

CONSTANTS
  People, Providers, Groups,  \* groups are numbered in the order of their uuids
  Ids,          \* rows a tier may have
  Names,        \* names a tier may be given
  Folded,       \* what a name is when upper and lower case are the same
  MemberOf,     \* the groups of each person
  Typed,        \* ceilings an admin types
  Drafts,       \* sets of allocations an admin types at once
  Rows,         \* what each linked account may be observed as
  Start,        \* tiers and mappings an earlier session may have left
  Norm,         \* what each provider stores for a ceiling
  Grain,        \* bytes in the smallest step of a GiB field
  Coarse,       \* bytes in the smallest step of a printed size
  MaxEdits      \* bound on edits and observations

Pairs == People \X Providers

\* What the columns of a tier, and those of a quota, may hold.
Quotas == {q \in [kind : Kinds, bytes : Nat] : Valid(q)}
Shares == [provider : Providers, mode : Modes, value : Int]
Tiers  == [name : Names, budget : Quotas, default : BOOLEAN,
           alloc : {d \in SUBSET Shares : IsFiniteSet(d)}]

Tables == [tiers : [Ids -> Tiers \cup {Vacant}], groupTier : [Groups -> Ids \cup {NoTier}]]

SingleDefault(t) == \A i, j \in DefaultTiers(t) : i = j

\* Every tier kept passes Validate, at most one is the default, no two have the
\* same name, and no group is mapped to a tier that is gone.
Sound(s) ==
  /\ s \in Tables
  /\ \A i \in Ids : Exists(s.tiers, i) => Validate(s.tiers[i])
  /\ SingleDefault(s.tiers)
  /\ \A i, j \in Ids : Exists(s.tiers, i) /\ s.tiers[i].name = s.tiers[j].name => i = j
  /\ \A g \in Groups : s.groupTier[g] # NoTier => Exists(s.tiers, s.groupTier[g])

ASSUME PeopleAssumption == People \subseteq Nat /\ IsFiniteSet(People) /\ IsFiniteSet(Providers)
ASSUME GroupsAssumption == Groups \subseteq Nat \ {NoGroup} /\ IsFiniteSet(Groups)
ASSUME IdsAssumption    == Ids \subseteq Nat \ {NoTier} /\ IsFiniteSet(Ids)
ASSUME MemberAssumption == MemberOf \in [People -> SUBSET Groups]
ASSUME TypedAssumption  == Typed \subseteq Quotas
ASSUME DraftsAssumption == \A d \in Drafts : d \subseteq Shares /\ IsFiniteSet(d)
ASSUME RowsAssumption   == \A k \in Pairs : Rows[k] \subseteq
                             [quota : Quotas, used : Quotas, observeOK : BOOLEAN]
ASSUME StartAssumption  == \A s \in Start : Sound(s)
ASSUME NormAssumption   == \A p \in Providers : Norm[p][Unlimited] = Unlimited
ASSUME StepsAssumption  == Grain \in Nat \ {0} /\ Coarse \in Nat \ {0}
ASSUME EditsAssumption  == MaxEdits \in Nat

VARIABLES
  tiers,      \* tiers and allocations, by row
  groupTier,  \* group_tiers
  override,   \* user_provider_overrides, Unknown where there is none
  row,        \* external_accounts of the linked pairs, as last observed
  page,       \* the tiers as an open page shows them, or Closed
  reader,     \* where the planner is, what it has read, who is left
  resolved,   \* what it resolved each pair to
  plan,       \* the change it made of it
  quiet,      \* history: nothing was edited since the planner began
  lifted,     \* history: providers some tier or override left unlimited since
  adopted,    \* history: nothing was edited since everything was adopted
  left        \* edits left

tables == <<tiers, groupTier, override>>
vars   == <<tables, row, page, reader, resolved, plan, quiet, lifted, adopted, left>>

Closed == [i \in {} |-> Vacant]
Unresolved == [k \in Pairs |-> Nothing]
NoPlan     == [k \in Pairs |-> NoChange]

Empty    == [tiers |-> [i \in Ids |-> Vacant], groupTier |-> [g \in Groups |-> NoTier]]
Idle     == [at |-> "idle", policy |-> Empty, todo |-> {}]

Current == [tiers |-> tiers, groupTier |-> groupTier]

UnlimitedOn(t, o) ==
  {p \in Providers : \/ \E i \in Ids : Exists(t, i) /\ AllocationFor(t[i], p) = Unlimited
                     \/ \E u \in People : o[<<u, p>>] = Unlimited}

Init ==
  /\ \E s \in Start : tiers = s.tiers /\ groupTier = s.groupTier
  /\ override  = [k \in Pairs |-> Unknown]
  /\ row \in {f \in [Pairs -> UNION {Rows[k] : k \in Pairs}] : \A k \in Pairs : f[k] \in Rows[k]}
  /\ page = Closed /\ reader = Idle
  /\ resolved = Unresolved /\ plan = NoPlan
  /\ quiet = TRUE /\ lifted = {} /\ adopted = FALSE
  /\ left = MaxEdits
-----------------------------------------------------------------------------
(* The store.                                                              *)

\* Every edit, by form or by command, is over in one statement or transaction.
Edited ==
  /\ left > 0 /\ left' = left - 1
  /\ adopted' = FALSE
  /\ IF reader.at = "idle" THEN UNCHANGED <<quiet, lifted>>
     ELSE quiet' = FALSE /\ lifted' = lifted \cup UnlimitedOn(tiers', override')
  /\ UNCHANGED <<row, page, reader, resolved, plan>>

ByForm    == Edited
ByCommand == reader.at = "idle" /\ Edited

\* A new row's id follows the largest there is, so a deleted one may come back.
RowFor(tier) ==
  LET named == {i \in Ids : Exists(tiers, i) /\ tiers[i].name = tier.name}
      used  == {i \in Ids : Exists(tiers, i)}
  IN IF named # {} THEN named ELSE {1 + (IF used = {} THEN 0 ELSE Max(used))}

SaveTier(tier) ==
  /\ Validate(tier)
  /\ \E i \in RowFor(tier) \cap Ids :
       /\ tiers' = [tiers EXCEPT ![i] = tier]
       /\ SingleDefault(tiers')
  /\ UNCHANGED <<groupTier, override>>

SetDefaultTier(i) ==
  /\ tiers' = [j \in Ids |-> IF Exists(tiers, j)
                             THEN [tiers[j] EXCEPT !.default = (i = j)] ELSE Vacant]
  /\ UNCHANGED <<groupTier, override>>

\* Allocations and mappings go with the tier.
DeleteTier(i) ==
  /\ tiers' = [tiers EXCEPT ![i] = Vacant]
  /\ groupTier' = [g \in Groups |-> IF groupTier[g] = i THEN NoTier ELSE groupTier[g]]
  /\ UNCHANGED override

MapGroupToTier(g, i) ==
  groupTier' = [groupTier EXCEPT ![g] = i] /\ UNCHANGED <<tiers, override>>

SetProviderOverride(u, p, quota) ==
  /\ IsKnown(quota)
  /\ override' = [override EXCEPT ![<<u, p>>] = quota]
  /\ UNCHANGED <<tiers, groupTier>>

ClearProviderOverride(u, p) ==
  /\ IsKnown(override[<<u, p>>])
  /\ override' = [override EXCEPT ![<<u, p>>] = Unknown]
  /\ UNCHANGED <<tiers, groupTier>>

\* Names match without regard to case, in no order.
FindTier(name) == {i \in Ids : Exists(tiers, i) /\ Folded[tiers[i].name] = Folded[name]}
-----------------------------------------------------------------------------
(* Commands.                                                               *)

\* An existing tier keeps what is not mentioned, but for its allocations.
Mentioned(name, budget, default, alloc) ==
  LET given(t) == [t EXCEPT !.budget  = IF IsKnown(budget) THEN budget ELSE t.budget,
                            !.default = t.default \/ default,
                            !.alloc   = alloc]
      blank == [name |-> name, budget |-> Unknown, default |-> FALSE, alloc |-> {}]
  IN IF FindTier(name) = {} THEN {given(blank)} ELSE {given(tiers[i]) : i \in FindTier(name)}

SetTier(name, budget, default, alloc) ==
  /\ \E t \in Mentioned(name, budget, default, alloc) : SaveTier(t)
  /\ ByCommand

DeleteTierByName(name) ==
  /\ \E i \in Ids : Exists(tiers, i) /\ tiers[i].name = name /\ DeleteTier(i)
  /\ ByCommand

DefaultTier(name) == (\E i \in FindTier(name) : SetDefaultTier(i)) /\ ByCommand

MapCommand(g, name) == (\E i \in FindTier(name) : MapGroupToTier(g, i)) /\ ByCommand

UnmapCommand(g) == groupTier[g] # NoTier /\ MapGroupToTier(g, NoTier) /\ ByCommand

OverrideCommand(u, p, quota) == SetProviderOverride(u, p, quota) /\ ByCommand

\* Adopt, without a filter: whatever could be read becomes an override.
Adopted(k) == IF IsKnown(row[k].quota) THEN row[k].quota ELSE override[k]

Adopt ==
  /\ reader.at = "idle" /\ left > 0 /\ left' = left - 1
  /\ override' = [k \in Pairs |-> Adopted(k)]
  /\ adopted' = TRUE
  /\ UNCHANGED <<tiers, groupTier, row, page, reader, resolved, plan, quiet, lifted>>
-----------------------------------------------------------------------------
(* Forms.  A page is as old as the moment it was opened.                   *)

OpenPage ==
  /\ page # tiers /\ page' = tiers
  /\ UNCHANGED <<tables, row, reader, resolved, plan, quiet, lifted, adopted, left>>

Rounded(n, step) == ((2 * n + step) \div (2 * step)) * step

RoundedQuota(q, step) == IF IsBytes(q) THEN BytesQuota(Rounded(q.bytes, step)) ELSE q

\* The field shows the bytes a share comes to, so a share is posted as bytes.
FieldOf(tier, a) ==
  LET q == AllocationFor(tier, a.provider)
  IN IF IsBytes(q)
     THEN [a EXCEPT !.mode = "absolute", !.value = Rounded(q.bytes, Grain)]
     ELSE a

\* Mutant: the fields of the other providers are not carried.
FieldsDropped(tier, p) == {}

FieldsOf(tier, p) == {FieldOf(tier, a) : a \in {b \in tier.alloc : b.provider # p}}

\* The button carries the printed sizes, and shares as they are.
PrintedOf(tier) ==
  {IF a.mode = "absolute" THEN [a EXCEPT !.value = Rounded(a.value, Coarse)] ELSE a : a \in tier.alloc}

\* Absolute ceilings alone add up to the budget; else it is the printed one.
Posted(name, budget, default, alloc) ==
  [name |-> name, default |-> default, alloc |-> alloc,
   budget |-> IF alloc # {} /\ \A a \in alloc : a.mode = "absolute"
              THEN BytesQuota(Wrap(Sum(alloc)))
              ELSE RoundedQuota(budget, Coarse)]

\* An empty field is silence.
FieldTyped(p, q) ==
  CASE q = Unlimited -> {[provider |-> p, mode |-> "unlimited", value |-> 0]}
    [] IsBytes(q)    -> {[provider |-> p, mode |-> "absolute", value |-> q.bytes]}
    [] ~IsKnown(q)   -> {}

EditCeiling(i, p, typed) ==
  /\ Exists(page, i)
  /\ SaveTier(Posted(page[i].name, page[i].budget, page[i].default,
                     FieldsOf(page[i], p) \cup FieldTyped(p, typed)))
  /\ ByForm

MakeDefault(i) ==
  /\ Exists(page, i) /\ ~page[i].default
  /\ SaveTier(Posted(page[i].name, page[i].budget, TRUE, PrintedOf(page[i])))
  /\ ByForm

NewTier(name, default, alloc) ==
  /\ page # Closed
  /\ SaveTier(Posted(name, Unknown, default, alloc))
  /\ ByForm
MapGroup(g, name) == (\E i \in FindTier(name) : MapGroupToTier(g, i)) /\ ByForm

UnmapGroup(g) == groupTier[g] # NoTier /\ MapGroupToTier(g, NoTier) /\ ByForm

SetOverride(u, p, quota) == SetProviderOverride(u, p, quota) /\ ByForm

\* An empty field clears.
ClearOverride(u, p) == ClearProviderOverride(u, p) /\ ByForm
-----------------------------------------------------------------------------
(* The planner: three statements for the policy, one for each person.      *)

Reads(from, to, policy) ==
  /\ reader.at = from
  /\ reader' = [at |-> to, policy |-> policy, todo |-> People]
  /\ UNCHANGED <<tables, row, page, adopted, left, quiet, resolved, plan>>

ReadTiers ==
  /\ Reads("idle", "tiers",
           [Empty EXCEPT !.tiers = [i \in Ids |-> IF Exists(tiers, i)
                                                  THEN [tiers[i] EXCEPT !.alloc = {}] ELSE Vacant]])
  /\ lifted' = UnlimitedOn(tiers, override)

\* An allocation of a tier that was not there is skipped.
ReadAllocations ==
  /\ Reads("tiers", "allocations",
           [reader.policy EXCEPT
              !.tiers = [i \in Ids |->
                IF Exists(@, i)
                THEN [@[i] EXCEPT !.alloc = IF Exists(tiers, i) THEN tiers[i].alloc ELSE {}]
                ELSE Vacant]])
  /\ UNCHANGED lifted

ReadMappings ==
  /\ Reads("allocations", "people", [reader.policy EXCEPT !.groupTier = groupTier])
  /\ UNCHANGED lifted

UserPolicy(k) == override[k]

Desired(p, q) == IF IsKnown(q) THEN Norm[p][q] ELSE Unknown

AccountFor(k, r) ==
  [present |-> r.present, desired |-> Desired(k[2], r.ceiling), observed |-> row[k].quota,
   used |-> row[k].used, neverUsed |-> FALSE, observeOK |-> row[k].observeOK]

PlanPerson(u) ==
  /\ reader.at = "people" /\ u \in reader.todo /\ \A v \in reader.todo : u <= v
  /\ LET todo == reader.todo \ {u}
     IN reader' = [reader EXCEPT !.todo = todo, !.at = IF todo = {} THEN "done" ELSE "people"]
  /\ resolved' = [k \in Pairs |->
       IF k[1] = u THEN Resolve(MemberOf[u], k[2], reader.policy, UserPolicy(k), NoTier)
                   ELSE resolved[k]]
  /\ plan' = [k \in Pairs |-> IF k[1] = u THEN ChangeFor(AccountFor(k, resolved'[k])) ELSE plan[k]]
  /\ UNCHANGED <<tables, row, page, adopted, left, lifted, quiet>>

\* The plan is applied, or shown, and the providers are read again.
EndPlan ==
  /\ reader.at = "done"
  /\ reader' = Idle /\ resolved' = Unresolved /\ plan' = NoPlan
  /\ quiet' = TRUE /\ lifted' = {}
  /\ UNCHANGED <<tables, row, page, adopted, left>>

Observe(k, r) ==
  /\ reader.at = "idle" /\ left > 0 /\ left' = left - 1
  /\ r # row[k] /\ row' = [row EXCEPT ![k] = r]
  /\ adopted' = FALSE
  /\ UNCHANGED <<tables, page, reader, resolved, plan, quiet, lifted>>
-----------------------------------------------------------------------------

Command ==
  /\ reader.at = "idle" /\ left > 0
  /\ \/ \E n \in Names, b \in Typed, d \in BOOLEAN, a \in Drafts : SetTier(n, b, d, a)
     \/ \E n \in Names : DeleteTierByName(n) \/ DefaultTier(n)
     \/ \E g \in Groups : UnmapCommand(g) \/ \E n \in Names : MapCommand(g, n)
     \/ \E u \in People, p \in Providers, q \in Typed : OverrideCommand(u, p, q)
     \/ Adopt

Post ==
  /\ left > 0
  /\ \/ \E i \in Ids, p \in Providers, q \in Typed : EditCeiling(i, p, q)
     \/ \E i \in Ids : MakeDefault(i)
     \/ \E n \in Names, d \in BOOLEAN, a \in Drafts : NewTier(n, d, a)
     \/ \E g \in Groups, n \in Names : MapGroup(g, n)
     \/ \E g \in Groups : UnmapGroup(g)
     \/ \E u \in People, p \in Providers :
          ClearOverride(u, p) \/ \E q \in Typed : SetOverride(u, p, q)

Form == OpenPage \/ Post

Planner ==
  \/ ReadTiers \/ ReadAllocations \/ ReadMappings
  \/ \E u \in People : PlanPerson(u)
  \/ EndPlan

Next == Command \/ Form \/ Planner \/ \E k \in Pairs : \E r \in Rows[k] : Observe(k, r)

Spec == Init /\ [][Next]_vars
-----------------------------------------------------------------------------
(* Properties.                                                             *)

TypeOK ==
  /\ Sound(Current)
  /\ override \in [Pairs -> Quotas]
  /\ row \in [Pairs -> [quota : Quotas, used : Quotas, observeOK : BOOLEAN]]
  /\ page = Closed \/ page \in [Ids -> Tiers \cup {Vacant}]
  /\ reader \in [at : {"idle", "tiers", "allocations", "people", "done"}, policy : Tables,
                 todo : SUBSET People]
  /\ quiet \in BOOLEAN /\ lifted \subseteq Providers /\ adopted \in BOOLEAN
  /\ left \in 0..MaxEdits

Ceiling(u, p) == Resolve(MemberOf[u], p, Current, override[<<u, p>>], NoTier).ceiling

\* What a tier that is not over-committed offers in bytes never adds up to
\* more than its budget, whatever mixture of modes, rounded forms and
\* overflowing shares made it (Validate, AllocationFor, percentOf).
WithinBudget ==
  \A i \in Ids :
    LET offered == [p \in Providers |-> AllocationFor(tiers[i], p)]
    IN Exists(tiers, i) /\ IsBytes(tiers[i].budget) /\ ~Overcommitted(tiers[i]) =>
         MapThenSumSet(LAMBDA p : offered[p].bytes, Providers) <= tiers[i].budget.bytes

\* What the store and the forms keep, whatever is edited in between: tiers that
\* are valid and within their budgets, and no reference to one that is gone.
TiersHold == TypeOK /\ WithinBudget

Less(q, r) ==
  /\ IsKnown(r)
  /\ \/ ~IsKnown(q)
     \/ r = Unlimited /\ q # Unlimited
     \/ IsBytes(q) /\ IsBytes(r) /\ q.bytes < r.bytes

\* What a person may claim on a provider, as the documents say it: the
\* override, else what the tiers of her groups offer, else the default tier.
Claims(u, p) ==
  LET mapped == {g \in MemberOf[u] : groupTier[g] # NoTier}
      by     == IF mapped # {} THEN {groupTier[g] : g \in mapped} ELSE DefaultTiers(tiers)
  IN IF IsKnown(override[<<u, p>>]) THEN {override[<<u, p>>]}
     ELSE {q \in {AllocationFor(tiers[i], p) : i \in by} : IsKnown(q)}

\* A plan no edit fell into gives everybody the best she may claim of the
\* policy as it is, and leaves a provider alone where she may claim nothing
\* (Plan, Resolve).
PlanIsPolicy ==
  reader.at = "done" /\ quiet =>
    \A k \in Pairs :
      LET claims == Claims(k[1], k[2])
      IN /\ resolved[k].present <=> claims # {}
         /\ claims # {} => /\ resolved[k].ceiling \in claims
                           /\ \A q \in claims : ~Less(resolved[k].ceiling, q)

\* However a tier is edited between the statements of LoadPolicy, the mixture
\* lifts a ceiling on a provider only if some tier or override did while the
\* plan was made.
NeverInvents ==
  \A k \in Pairs : resolved[k].ceiling = Unlimited => k[2] \in lifted

\* Once everything is adopted, the plan leaves alone whatever could be read
\* and is stored as the provider would store it again (Adopt: "the first plan
\* against an existing stack is empty by construction").
AdoptedPlanIsEmpty ==
  reader.at = "done" /\ quiet /\ adopted =>
    \A k \in Pairs :
      /\ row[k].observeOK /\ IsKnown(row[k].quota) /\ IsKnown(row[k].used)
      /\ Norm[k[2]][row[k].quota] = row[k].quota
      => plan[k] = NoChange

\* Mapping one more group never lowers the ceiling of somebody a group gave a
\* tier already (listTiers: "Adding somebody to a stricter tier does not
\* restrict them").
StricterNeverRestricts ==
  [][\A g \in Groups :
       groupTier[g] = NoTier /\ groupTier'[g] # NoTier =>
         \A u \in People, p \in Providers :
           (\E h \in MemberOf[u] : groupTier[h] # NoTier) =>
             ~Less(Ceiling(u, p)', Ceiling(u, p))]_vars

Near(q, r) ==
  /\ q.kind = r.kind
  /\ 2 * (q.bytes - r.bytes) <= Grain /\ 2 * (r.bytes - q.bytes) <= Grain

\* Editing one ceiling on a page that is up to date, of a tier none of whose
\* shares overflows, moves its others by no more than what the fields round
\* away, and never takes one away, though the form posts them all
\* (tiersHandler, actionTier).
EditIsLocal ==
  [][\A i \in Ids, p \in Providers, q \in Typed :
       /\ EditCeiling(i, p, q) /\ page[i] = tiers[i]
       /\ (\A a \in tiers[i].alloc : IsKnown(Offer(tiers[i], a)))
       => \A r \in Providers \ {p} :
           Near(AllocationFor(tiers[i], r), AllocationFor(tiers'[i], r))]_vars
=============================================================================
