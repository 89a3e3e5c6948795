------------------------------ MODULE Readings ------------------------------
(***************************************************************************)
(* From a service's account to the number on the page: the answers the     *)
(* adapters decode, the rows an observation and a write leave, the write   *)
(* probe (internal/reconcile/probe.go), and the usage response built from  *)
(* those rows (internal/core/usage.go, internal/api/usage.go).             *)
(*                                                                         *)
(* Every account here is linked to a person and enabled; linking is        *)
(* Linker's matter, and which writes a run may make is Reconcile's.        *)
(***************************************************************************)
EXTENDS Quota, Rounding, FiniteSetsExt

CONSTANTS
  Users, Providers,   \* numbered, in the order of their names
  Accounts,           \* pairs of the two
  Lossy,              \* the providers that store rounded sizes
  Bytes, Uses,        \* byte counts that occur as ceilings and as usage
  Decisions,          \* what policy may resolve to, person by person
  Stale,              \* a reading older than this many ticks is stale
  MaxDisturbances

ASSUME PeopleAssumption == /\ Users \subseteq Nat /\ IsFiniteSet(Users)
                           /\ Providers \subseteq Nat /\ IsFiniteSet(Providers)
ASSUME PairsAssumption  == Accounts \subseteq Users \X Providers /\ IsFiniteSet(Accounts)
ASSUME SizesAssumption  == Bytes \subseteq Nat /\ Uses \subseteq Nat /\ Uses # {} /\ Lossy \subseteq Providers
ASSUME BoundAssumption  == Stale \in Nat /\ MaxDisturbances \in Nat

Of(p)     == {a \in Accounts : a[2] = p}
OwnedBy(u) == {a \in Accounts : a[1] = u}

NoPolicy == [u \in {} |-> Unknown]
NoRow    == [stored |-> FALSE, quota |-> Unknown, used |-> Unknown, ok |-> FALSE, age |-> 0]
Idle     == [doing |-> "nothing", to |-> <<0, 0>>, sent |-> Unknown]

VARIABLES
  real,     \* the services: the account, its quota and its usage
  row,      \* external_accounts
  status,   \* providers: last_observe_at is set, last_observe_ok, write_access
  policy,   \* the resolved budget of each person; nobody, without a tier
  pending,  \* the write whose account is still to be read back
  wrote,    \* history: written, and not read since, by a process still alive
  left      \* disturbances left

vars == <<real, row, status, policy, pending, wrote, left>>

Init ==
  /\ real = [a \in Accounts |-> [there |-> TRUE, quota |-> Unlimited, used |-> CHOOSE n \in Uses : TRUE]]
  /\ row = [a \in Accounts |-> NoRow]
  /\ status = [p \in Providers |-> [observed |-> FALSE, ok |-> FALSE, access |-> "unproven"]]
  /\ policy = NoPolicy /\ pending = Idle /\ wrote = {} /\ left = MaxDisturbances

Disturb == left > 0 /\ left' = left - 1
-----------------------------------------------------------------------------
(* The services.                                                           *)

\* What a service keeps of what it is asked to store.
Kept(p, q) == IF p \in Lossy /\ IsBytes(q) THEN BytesQuota(NormalizeBytes(q.bytes)) ELSE q

\* Somebody changes an account, uses it, or takes it away, in the middle of
\* anything.  A ceiling set by hand need not be one the adapter could write.
Drift(a) ==
  /\ Disturb
  /\ \E q \in CeilingsOver(Bytes), n \in Uses, there \in BOOLEAN :
       real' = [real EXCEPT ![a] = [there |-> there, quota |-> q, used |-> n]]
  /\ real' # real
  /\ UNCHANGED <<row, status, policy, pending, wrote>>

\* An account may come whole; with its quota as [], after a storage error;
\* without a usage that can be believed (no total, a failed statistics call,
\* counters that diverge); or as one nobody ever logged in to.
Answers(p) == IF p \in Lossy THEN {"whole", "storage", "partial", "new"} ELSE {"whole", "partial"}

Decoded(a, answer) ==
  [quota |-> IF answer = "storage" THEN Unknown ELSE real[a].quota,
   used  |-> CASE answer \in {"storage", "partial"} -> Unknown
               [] answer = "new"   -> BytesQuota(0)
               [] answer = "whole" -> BytesQuota(real[a].used)]

RowFrom(a, answer) ==
  [stored |-> TRUE, quota |-> Decoded(a, answer).quota, used |-> Decoded(a, answer).used,
   ok |-> TRUE, age |-> 0]
-----------------------------------------------------------------------------
(* Observing a provider.                                                   *)

\* Mutant: a row that was marked keeps its mark.
StoredMarked(a, answer) == [RowFrom(a, answer) EXCEPT !.ok = row[a].ok \/ ~row[a].stored]

Stored(a, answer) == RowFrom(a, answer)

\* The rows are replaced in one transaction, those of accounts that are gone
\* removed; the provider's own row is written after it, or not.
ReplaceExternalAccounts(p, answer) ==
  /\ row' = [a \in Accounts |->
       IF a[2] # p THEN row[a] ELSE IF real[a].there THEN Stored(a, answer[a]) ELSE NoRow]
  /\ wrote' = wrote \ Of(p)

SaveObserveResult(p, ok) == status' = [status EXCEPT ![p].observed = TRUE, ![p].ok = ok]

Whole(p, answer) == \A a \in Of(p) : answer[a] = "whole"

Observe(p) ==
  /\ pending = Idle
  /\ \E answer \in [Of(p) -> Answers(p)] :
       /\ ReplaceExternalAccounts(p, answer)
       /\ IF Whole(p, answer) THEN left' = left ELSE Disturb
  /\ SaveObserveResult(p, TRUE)
  /\ UNCHANGED <<real, policy, pending>>

\* The process dies between the two, or the second does not succeed.
ObserveHalfStored(p) ==
  /\ pending = Idle /\ Disturb
  /\ ReplaceExternalAccounts(p, [a \in Of(p) |-> "whole"])
  /\ UNCHANGED <<real, status, policy, pending>>

\* The call fails, or one account of it does not decode: the others go with it.
ObserveFails(p) ==
  /\ pending = Idle /\ Disturb
  /\ SaveObserveResult(p, FALSE)
  /\ UNCHANGED <<real, row, policy, pending, wrote>>
-----------------------------------------------------------------------------
(* A write of a run, and the reading that follows it.                      *)

\* Mutant: every step rounds to one decimal, the first included.
NormalizeQuotaFiner(p, q) ==
  IF p \in Lossy /\ IsBytes(q) THEN BytesQuota(ComputerFileSize(HumanFileSizeFiner(q.bytes))) ELSE q

NormalizeQuota(p, q) == IF p \in Lossy /\ IsBytes(q) THEN BytesQuota(NormalizeBytes(q.bytes)) ELSE q

SetQuota(a, q) == real' = [real EXCEPT ![a].quota = Kept(a[2], q)]

Apply(a, q) ==
  /\ pending = Idle /\ Disturb
  /\ row[a].stored /\ row[a].ok /\ real[a].there
  /\ SetQuota(a, NormalizeQuota(a[2], q))
  /\ pending' = [doing |-> "apply", to |-> a, sent |-> NormalizeQuota(a[2], q)]
  /\ wrote' = wrote \cup {a}
  /\ UNCHANGED <<row, status, policy>>

RefreshAfterWrite(answer) ==
  LET a == pending.to IN
  /\ pending.doing = "apply" /\ real[a].there
  /\ IF answer = "whole" THEN left' = left ELSE Disturb
  /\ row' = [row EXCEPT ![a] = RowFrom(a, answer)]
  /\ wrote' = wrote \ {a} /\ pending' = Idle
  /\ UNCHANGED <<real, status, policy>>

\* Mutant: a reading that failed says nothing of the row.
MarkNothing(a) == UNCHANGED row

MarkAccountUnobserved(a) == row' = [row EXCEPT ![a].ok = FALSE]

RefreshFails ==
  LET a == pending.to IN
  /\ pending.doing = "apply"
  /\ IF real[a].there THEN Disturb ELSE left' = left
  /\ MarkAccountUnobserved(a)
  /\ pending' = Idle
  /\ UNCHANGED <<real, status, policy, wrote>>

\* Killed after a write, or its answer lost, or the row neither stored nor
\* marked: it is as it was, and nothing knows better.
Killed ==
  /\ pending # Idle /\ Disturb
  /\ pending' = Idle /\ wrote' = {}
  /\ UNCHANGED <<real, row, status, policy>>
-----------------------------------------------------------------------------
(* The write probe of nuno doctor.                                         *)

\* Mutant: any known quota will do.
FixedPointOrNot(a) == TRUE

FixedPoint(a) == NormalizeQuota(a[2], row[a].quota) = row[a].quota

Candidates(p) == {a \in Of(p) : row[a].stored /\ IsKnown(row[a].quota) /\ FixedPoint(a)}

\* By external id, which is the order of the people here.
ProbeTarget(p, a) == a \in Candidates(p) /\ \A b \in Candidates(p) : a[1] <= b[1]

SaveWriteAccess(p, access) == status' = [status EXCEPT ![p].access = access]

\* The stored value, which nobody reads again first.
ProbeWrites(p) ==
  /\ pending = Idle /\ Disturb
  /\ \E a \in Of(p) :
       /\ ProbeTarget(p, a) /\ real[a].there
       /\ SetQuota(a, row[a].quota)
       /\ pending' = [doing |-> "probe", to |-> a, sent |-> row[a].quota]
  /\ UNCHANGED <<row, status, policy, wrote>>

ProbeRefused(p) ==
  /\ pending = Idle /\ Disturb
  /\ Candidates(p) # {}
  /\ SaveWriteAccess(p, "no")
  /\ UNCHANGED <<real, row, policy, pending, wrote>>

\* The row is left as it is.
ProbeReads(answer) ==
  LET a == pending.to IN
  /\ pending.doing = "probe" /\ real[a].there
  /\ IF answer = "whole" THEN left' = left ELSE Disturb
  /\ SaveWriteAccess(a[2], IF Equal(Decoded(a, answer).quota, pending.sent) THEN "yes" ELSE "no")
  /\ pending' = Idle
  /\ UNCHANGED <<real, row, policy, wrote>>

ProbeUnread ==
  /\ pending.doing = "probe"
  /\ IF real[pending.to].there THEN Disturb ELSE left' = left
  /\ pending' = Idle
  /\ UNCHANGED <<real, row, status, policy, wrote>>
-----------------------------------------------------------------------------
(* The usage response, from the rows as they are.                          *)

Status(a) ==
  IF ~status[a[2]].observed \/ ~status[a[2]].ok \/ ~row[a].ok THEN "unavailable"
  ELSE IF ~IsKnown(row[a].quota) \/ ~IsKnown(row[a].used) THEN "unknown"
  ELSE IF row[a].age > Stale THEN "stale" ELSE "ok"

\* Mutant: any reading is as good as another.
ReadableWhenKnown(a) == IsKnown(row[a].used)

\* Anything but ok and stale makes the numbers meaningless: they are left out.
Readable(a) == Status(a) \in {"ok", "stale"}

SumOf(accounts, number) == MapThenSumSet(LAMBDA a : number[a], accounts)
QuotaBytes == [a \in Accounts |-> row[a].quota.bytes]
UsedBytes  == [a \in Accounts |-> row[a].used.bytes]

Shown(u)  == {a \in OwnedBy(u) : row[a].stored}
Readables(accounts) == {a \in accounts : Readable(a)}
HasPolicy == policy # NoPolicy

\* With a policy the budget is the resolved one, observed or not.
Usage(u) ==
  LET seen == Readables(Shown(u)) IN
  [complete  |-> seen = Shown(u) /\ (HasPolicy => IsKnown(policy[u])),
   used      |-> SumOf(seen, UsedBytes),
   unlimited |-> IF HasPolicy THEN policy[u] = Unlimited
                 ELSE \E a \in seen : row[a].quota = Unlimited,
   budget    |-> IF HasPolicy THEN policy[u].bytes ELSE SumOf(seen, QuotaBytes)]

\* The same, service by service, of those who have an account there.
Service(p) ==
  LET listed == {a \in Of(p) : row[a].stored}
      seen   == {a \in listed : Readable(a)} IN
  [partial   |-> seen # listed,
   known     |-> seen # {},
   used      |-> SumOf(seen, UsedBytes),
   unlimited |-> \E a \in seen : row[a].quota = Unlimited,
   quota     |-> SumOf(seen, QuotaBytes)]
-----------------------------------------------------------------------------
Tick ==
  /\ \E a \in Accounts : row[a].stored /\ row[a].age <= Stale
  /\ row' = [a \in Accounts |->
       IF row[a].stored /\ row[a].age <= Stale THEN [row[a] EXCEPT !.age = @ + 1] ELSE row[a]]
  /\ UNCHANGED <<real, status, policy, pending, wrote, left>>

\* A tier is saved, or the last one deleted.
PolicyChanges ==
  /\ Disturb
  /\ policy' \in {NoPolicy} \cup [Users -> Decisions] /\ policy' # policy
  /\ UNCHANGED <<real, row, status, pending, wrote>>

AnswerComes == \E answer \in Answers(pending.to[2]) : RefreshAfterWrite(answer) \/ ProbeReads(answer)

Next ==
  \/ \E p \in Providers :
       \/ Observe(p) \/ ObserveHalfStored(p) \/ ObserveFails(p)
       \/ ProbeWrites(p) \/ ProbeRefused(p)
  \/ \E a \in Accounts : Drift(a) \/ \E q \in CeilingsOver(Bytes) : Apply(a, q)
  \/ AnswerComes \/ RefreshFails \/ ProbeUnread \/ Killed
  \/ Tick \/ PolicyChanges

Spec == Init /\ [][Next]_vars

\* The refresh loop comes round, and a call that was made returns.
FairSpec ==
  /\ Spec
  /\ \A p \in Providers : WF_vars(Observe(p))
  /\ WF_vars(AnswerComes \/ RefreshFails \/ ProbeUnread)
-----------------------------------------------------------------------------
(* Properties.                                                             *)

\* What Nuno plans to write is what the service then holds: a rounded ceiling
\* is a fixed point of the rounding, so the planner converges (ADR-0021).
PlannedIsStored ==
  [][pending = Idle /\ pending'.doing = "apply" => real'[pending'.to].quota = pending'.sent]_vars

\* A ceiling Nuno has changed and not read back is not shown as the one in
\* force: when the reading after the write fails it is shown as unavailable,
\* through every failed observation and probe, until a reading succeeds.
WritesAreShown == \A a \in wrote : pending.to = a \/ (row[a].stored => Status(a) = "unavailable")

\* A probe changes nobody's quota, as long as nothing has changed it since it
\* was read: what it writes back is what the service holds already.
ProbeAltersNothing ==
  [][pending'.doing = "probe" /\ pending = Idle =>
       \A a \in Accounts : row[a].quota = real[a].quota => real'[a] = real[a]]_vars

\* What the people use adds up to what the services hold, in the two shapes of
\* the response, and so do the ceilings while there is no policy.  When nobody
\* is partial no service is, and the sums are those of every row there is.
TotalsAgree ==
  LET used   == SumOf(Users, [u \in Users |-> Usage(u).used])
      stored == {a \in Accounts : row[a].stored}
  IN /\ used = SumOf(Providers, [p \in Providers |-> Service(p).used])
     /\ ~HasPolicy => SumOf(Users, [u \in Users |-> Usage(u).budget])
                        = SumOf(Providers, [p \in Providers |-> Service(p).quota])
     /\ (\A u \in Users : Usage(u).complete) =>
          /\ \A p \in Providers : ~Service(p).partial
          /\ used = SumOf(stored, UsedBytes)
          /\ \A a \in stored : status[a[2]].ok /\ row[a].ok

\* An account that is there is shown with good numbers again and again,
\* whatever was lost, marked or half stored before.
ShownAgain == \A a \in Accounts : []<>(real[a].there => row[a].stored /\ Status(a) = "ok")
=============================================================================
