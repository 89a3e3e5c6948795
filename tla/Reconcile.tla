----------------------------- MODULE Reconcile -----------------------------
(***************************************************************************)
(* One reconcile cycle of internal/reconcile: observe every provider, link *)
(* its accounts, plan, and apply the plan one change at a time, against    *)
(* providers other people use and an admin who edits policy and links      *)
(* while the run is in progress.                                           *)
(*                                                                         *)
(* The gate of cmd/nuno/serve.go lets one run at a time in, so there is    *)
(* one program counter.  Nothing but a run takes the gate: policy edits,   *)
(* links and unlinks interleave with every step of it.                     *)
(***************************************************************************)
EXTENDS PlanRules, FiniteSets

CONSTANTS
  Users,            \* people, numbered in the order of their uid
  Providers,        \* provider instances, numbered in the order of their name
  Sizes,            \* the byte counts that occur, as quotas and as usage
  Keeps,            \* what a provider stores when asked for a byte count
  Statuses,         \* what may happen to an account: enabled, disabled, gone
  Degraded,         \* providers with a competing writer, known at startup
  WriteBudget,      \* writes a run may make per provider, after the headroom
  StartAccounts,    \* initial accounts are drawn from this set
  StartPolicy,      \* and initial ceilings from this one
  Interrupts,       \* whether a run may be killed or its context cancelled
  Unnoticed,        \* what a run may fail to store and go on: entries, rows, its end
  MaxDisturbances   \* bound on environment steps, bad answers and UI runs

Pairs == Users \X Providers
Of(p) == {a \in Pairs : a[2] = p}

\* Ceilings that can be asked for and stored.
Ceilings == CeilingsOver(Sizes)

\* What policy resolves to for a pair.  A tier may not allocate the provider.
Unallocated == [present |-> FALSE, ceiling |-> Unknown]
Decisions == {Unallocated} \cup [present : {TRUE}, ceiling : Ceilings]

\* A provider may round a byte count (Nextcloud keeps a human-readable size)
\* or be unable to express it.
NormalizeQuota(p, q) == IF IsBytes(q) THEN Keeps[p][q.bytes] ELSE q

Accounts == [quota : Ceilings, used : Sizes, status : Statuses]

ASSUME SizesAssumption    == Sizes \subseteq Nat
ASSUME OrderAssumption    == /\ Users \subseteq Nat /\ IsFiniteSet(Users)
                             /\ Providers \subseteq Nat /\ IsFiniteSet(Providers)
ASSUME KeepsAssumption    ==
  /\ Keeps \in [Providers -> [Sizes -> UsagesOver(Sizes)]]
  /\ \A p \in Providers : \A n \in Sizes :
       LET kept == NormalizeQuota(p, BytesQuota(n)) IN NormalizeQuota(p, kept) = kept
ASSUME StatusAssumption   == /\ Statuses \subseteq {"enabled", "disabled", "gone"}
                             /\ "enabled" \in Statuses
ASSUME DegradedAssumption == Degraded \subseteq Providers
ASSUME BudgetAssumption   == WriteBudget \in [Providers -> Nat]
ASSUME StartAssumption    == StartAccounts \subseteq Accounts /\ StartPolicy \subseteq Decisions
ASSUME InterruptAssumption == Interrupts \in BOOLEAN
ASSUME UnnoticedAssumption == Unnoticed \subseteq {"entry", "row", "end"}
ASSUME BoundAssumption    == MaxDisturbances \in Nat

VARIABLES
  account,    \* the truth, on the providers
  policy,     \* what the admin's tiers and overrides resolve to
  row,        \* external_accounts: the last observed state
  linked,     \* account_links
  outcome,    \* what record was called with for each change of the current run
  lost,       \* those of them whose entry did not reach audit_log
  status,     \* status of the newest row of reconcile_runs
  pc,         \* where the run is
  run,        \* who asked for it, with which consent, mode and filter
  toObserve,  \* providers still to read in this cycle
  failed,     \* providers whose read failed in this cycle
  plan, todo, \* the plan, and its applicable changes not yet dealt with
  fresh,      \* what the re-check of the change in hand read
  stopped, budget, report,    \* locals of Apply
  landed,     \* history: pairs whose quota a SetQuota of this run changed
  mark,       \* history: disturbances left when this run began
  settled,    \* history: the last run that had a plan ended clean and whole
  announced,  \* history: what it said would be applied, if it was a dry run
  left        \* disturbances left

provider == <<account>>
admin    == <<policy, linked>>
engine   == <<run, toObserve, failed, plan, todo, fresh, stopped, budget, report>>
history  == <<landed, mark, settled, announced>>
vars     == <<account, policy, row, linked, outcome, lost, status, pc, engine, history, left>>

NoRow == [stored |-> FALSE, quota |-> Unknown, used |-> Unknown, enabled |-> FALSE,
          neverUsed |-> FALSE, observeOK |-> FALSE]
Nothing  == -1
NoRead   == [quota |-> Unknown, used |-> Unknown]
NoReport == [applied |-> 0, failed |-> 0, guarded |-> 0, unknown |-> 0, moved |-> 0,
             skipped |-> 0, throttled |-> FALSE]
NoRun    == [actor |-> "none", consent |-> FALSE, dryRun |-> FALSE, scope |-> {}]
Actors   == {"none", "schedule", "operator", "refresh"}
Results  == {"none", "applied", "failed", "refused", "skipped"}

\* The filter of a partial reconcile admits everything, one person, one
\* provider, or one person on one provider.
Scopes == {Pairs} \cup {{u} \X Providers : u \in Users} \cup {Of(p) : p \in Providers}
                  \cup {{a} : a \in Pairs}

Rows == [stored : BOOLEAN, quota : QuotasOver(Sizes), used : UsagesOver(Sizes),
         enabled : BOOLEAN, neverUsed : BOOLEAN, observeOK : BOOLEAN]
Runs == [actor : Actors, consent : BOOLEAN, dryRun : BOOLEAN, scope : SUBSET Pairs]
Changes == [from : QuotasOver(Sizes), to : QuotasOver(Sizes), class : Classes \cup {"none"}]
Reads   == [quota : QuotasOver(Sizes), used : UsagesOver(Sizes)]
Reports == [applied : Nat, failed : Nat, guarded : Nat, unknown : Nat, moved : Nat,
            skipped : Nat, throttled : BOOLEAN]

TypeOK ==
  /\ account \in [Pairs -> Accounts]
  /\ policy \in [Pairs -> Decisions]
  /\ row \in [Pairs -> Rows]
  /\ linked \subseteq Pairs
  /\ outcome \in [Pairs -> Results]
  /\ lost \subseteq Pairs
  /\ status \in {"none", "running", "clean", "failed", "incomplete", "dry-run"}
  /\ pc \in {"idle", "observe", "link", "plan", "start", "apply", "write", "record", "refresh"}
  /\ run \in Runs
  /\ toObserve \subseteq Providers
  /\ failed \subseteq Providers
  /\ plan \in [Pairs -> Changes]
  /\ todo \subseteq Pairs
  /\ fresh \in Reads
  /\ stopped \subseteq Providers
  /\ budget \in [Providers -> Nat]
  /\ report \in Reports
  /\ landed \subseteq Pairs
  /\ mark \in Nat
  /\ settled \in BOOLEAN
  /\ announced \in Nat \cup {Nothing}
  /\ left \in Nat

Init ==
  /\ account \in [Pairs -> StartAccounts]
  /\ policy \in [Pairs -> StartPolicy]
  /\ row = [a \in Pairs |-> NoRow]
  /\ linked = {}
  /\ outcome = [a \in Pairs |-> "none"] /\ lost = {}
  /\ status = "none"
  /\ pc = "idle"
  /\ run = NoRun
  /\ toObserve = {} /\ failed = {}
  /\ plan = [a \in Pairs |-> NoChange] /\ todo = {}
  /\ fresh = NoRead
  /\ stopped = {} /\ budget = WriteBudget /\ report = NoReport
  /\ landed = {} /\ mark = MaxDisturbances /\ settled = FALSE
  /\ announced = Nothing
  /\ left = MaxDisturbances

Disturb == left > 0 /\ left' = left - 1

(***************************************************************************)
(* The environment: people use their accounts, other tools and the         *)
(* provider's own admin change them, and Nuno's admin edits policy and     *)
(* links.  None of it waits for a run.                                     *)
(***************************************************************************)
UseStorage(a, n) ==
  /\ Disturb
  /\ account[a].status = "enabled" /\ account[a].used # n
  /\ account' = [account EXCEPT ![a].used = n]
  /\ UNCHANGED <<admin, row, outcome, lost, status, pc, engine, history>>

OthersSetQuota(a, q) ==
  /\ Disturb
  /\ account[a].status # "gone" /\ account[a].quota # q
  /\ account' = [account EXCEPT ![a].quota = q]
  /\ UNCHANGED <<admin, row, outcome, lost, status, pc, engine, history>>

ChangeStatus(a, s) ==
  /\ Disturb
  /\ account[a].status # s
  /\ account' = [account EXCEPT ![a].status = s]
  /\ UNCHANGED <<admin, row, outcome, lost, status, pc, engine, history>>

EditPolicy(a, d) ==
  /\ Disturb
  /\ policy[a] # d
  /\ policy' = [policy EXCEPT ![a] = d]
  /\ UNCHANGED <<provider, row, linked, outcome, lost, status, pc, engine, history>>

Unlink(a) ==
  /\ Disturb
  /\ a \in linked
  /\ linked' = linked \ {a}
  /\ UNCHANGED <<provider, policy, row, outcome, lost, status, pc, engine, history>>

\* A manual link is only accepted to an account that was observed and may be
\* written.
LinkByHand(a) ==
  /\ Disturb
  /\ a \notin linked /\ row[a].stored /\ row[a].enabled
  /\ linked' = linked \cup {a}
  /\ UNCHANGED <<provider, policy, row, outcome, lost, status, pc, engine, history>>

Environment ==
  \E a \in Pairs :
    \/ \E n \in Sizes : UseStorage(a, n)
    \/ \E q \in Ceilings : OthersSetQuota(a, q)
    \/ \E s \in Statuses : ChangeStatus(a, s)
    \/ \E d \in Decisions : EditPolicy(a, d)
    \/ Unlink(a)
    \/ LinkByHand(a)

(***************************************************************************)
(* Taking the gate.  A timer never carries consent and never filters; a    *)
(* person may do both, and may ask for a dry run.  A refresh only observes.*)
(***************************************************************************)
Begin(r) ==
  /\ pc = "idle"
  /\ pc' = "observe"
  /\ run' = r
  /\ toObserve' = Providers /\ failed' = {}
  /\ plan' = [a \in Pairs |-> NoChange] /\ todo' = {}
  /\ settled' = (settled /\ mark = left)
  /\ announced' = IF mark = left THEN announced ELSE Nothing
  /\ mark' = left'
  /\ UNCHANGED <<provider, admin, row, outcome, lost, status, fresh, stopped, budget, report,
                 landed>>

BeginScheduled ==
  /\ left' = left
  /\ Begin([actor |-> "schedule", consent |-> FALSE, dryRun |-> FALSE, scope |-> Pairs])

BeginRefresh ==
  /\ Disturb
  /\ Begin([actor |-> "refresh", consent |-> FALSE, dryRun |-> FALSE, scope |-> Pairs])

BeginByOperator(consent, dryRun, scope) ==
  /\ Disturb
  /\ Begin([actor |-> "operator", consent |-> consent, dryRun |-> dryRun, scope |-> scope])

(***************************************************************************)
(* Observe.  A provider's answer may leave out the configured quota of     *)
(* some accounts and the usage of others; a failed read leaves every row   *)
(* as it was.  Rows of accounts no longer reported are deleted.            *)
(***************************************************************************)

\* Mutant: a row once marked unobserved is never trusted again.
RowOfDistrusted(a, noQuota, noUsed) ==
  IF account[a].status = "gone" THEN NoRow
  ELSE [stored    |-> TRUE,
        quota     |-> IF a \in noQuota THEN Unknown ELSE account[a].quota,
        used      |-> IF a \in noUsed THEN Unknown ELSE BytesQuota(account[a].used),
        enabled   |-> account[a].status = "enabled",
        neverUsed |-> account[a].used = 0,
        observeOK |-> row[a].observeOK \/ ~row[a].stored]

RowOf(a, noQuota, noUsed) ==
  IF account[a].status = "gone" THEN NoRow
  ELSE [stored    |-> TRUE,
        quota     |-> IF a \in noQuota THEN Unknown ELSE account[a].quota,
        used      |-> IF a \in noUsed THEN Unknown ELSE BytesQuota(account[a].used),
        enabled   |-> account[a].status = "enabled",
        neverUsed |-> account[a].used = 0,
        observeOK |-> TRUE]

NextToRead(p) == p \in toObserve /\ \A q \in toObserve : p <= q

NextPhase == IF toObserve' = {} THEN pc' = "link" ELSE pc' = pc

ObserveProvider(p, noQuota, noUsed) ==
  /\ pc = "observe" /\ NextToRead(p)
  /\ row' = [a \in Pairs |-> IF a[2] = p THEN RowOf(a, noQuota, noUsed) ELSE row[a]]
  /\ toObserve' = toObserve \ {p}
  /\ NextPhase
  /\ IF noQuota = {} /\ noUsed = {} THEN left' = left ELSE Disturb
  /\ UNCHANGED <<provider, admin, outcome, lost, status, run, failed, plan, todo, fresh, stopped,
                 budget, report, history>>

ObserveFails(p) ==
  /\ pc = "observe" /\ NextToRead(p)
  /\ failed' = failed \cup {p}
  /\ toObserve' = toObserve \ {p}
  /\ NextPhase
  /\ Disturb
  /\ UNCHANGED <<provider, admin, row, outcome, lost, status, run, plan, todo, fresh, stopped,
                 budget, report, history>>

\* Every pair of this model is one person and the one account that carries
\* her match key, so linking adopts each account that was read and may be
\* written.  A provider whose read failed is skipped whole, and existing
\* links are kept whatever became of their account.
LinkAccounts ==
  /\ pc = "link"
  /\ linked' = linked \cup {a \in Pairs : a[2] \notin failed /\ row[a].stored /\ row[a].enabled}
  /\ pc' = IF run.actor = "refresh" THEN "idle" ELSE "plan"
  /\ UNCHANGED <<provider, policy, row, outcome, lost, status, engine, history, left>>

(***************************************************************************)
(* Plan: over the links as they are, and the rows as they were stored.     *)
(***************************************************************************)
Considered == {a \in run.scope \cap linked : row[a].stored}

\* Mutant: the plan compares the ceiling before the provider has normalised it.
PlanAccountRaw(a) ==
  [present   |-> a \in Considered /\ policy[a].present,
   desired   |-> policy[a].ceiling,
   observed  |-> row[a].quota,
   used      |-> row[a].used,
   neverUsed |-> row[a].neverUsed,
   observeOK |-> row[a].observeOK]

PlanAccount(a) ==
  [present   |-> a \in Considered /\ policy[a].present,
   desired   |-> IF policy[a].present THEN NormalizeQuota(a[2], policy[a].ceiling) ELSE Unknown,
   observed  |-> row[a].quota,
   used      |-> row[a].used,
   neverUsed |-> row[a].neverUsed,
   observeOK |-> row[a].observeOK]

MakePlan ==
  /\ pc = "plan"
  /\ plan' = BuildPlan([a \in Pairs |-> PlanAccount(a)])
  \* An empty plan ends the cycle here: no run is opened.
  /\ pc' = IF Changed(plan') = {} THEN "idle" ELSE "start"
  /\ UNCHANGED <<provider, admin, row, outcome, lost, status, run, toObserve, failed, todo, fresh,
                 stopped, budget, report, history, left>>

(***************************************************************************)
(* Apply, one change at a time, in the order of (uid, provider).           *)
(***************************************************************************)
Before(a, b) == a[1] < b[1] \/ (a[1] = b[1] /\ a[2] < b[2])
InHand(a) == a \in todo /\ \A b \in todo \ {a} : Before(a, b)

\* A plan past its window is refused before a run is opened, and a run whose
\* row cannot be stored is not opened.
RefuseExpired ==
  /\ pc = "start"
  /\ Disturb
  /\ pc' = "idle"
  /\ UNCHANGED <<provider, admin, row, outcome, lost, status, engine, history>>

OfClass(c) == {a \in Pairs : plan[a].class = c}

\* record hands entries to the log.  One that cannot be stored leaves a line in
\* the program's own log and nothing else: the run goes on as if it were there.
Loses(kept, entries) ==
  lost' \in {kept} \cup (IF "entry" \in Unnoticed
                         THEN {kept \cup refused : refused \in SUBSET entries} ELSE {})

StartApply ==
  LET refused == OfClass(Blind) \cup (IF run.consent THEN {} ELSE OfClass(Shrink)) IN
  /\ pc = "start"
  /\ pc' = "apply"
  /\ status' = "running"
  /\ outcome' = [a \in Pairs |-> IF a \in refused THEN "refused" ELSE "none"]
  /\ Loses({}, refused)
  /\ report' = [NoReport EXCEPT
                  !.unknown = Cardinality(OfClass(Blind)),
                  !.guarded = IF run.consent THEN 0 ELSE Cardinality(OfClass(Shrink))]
  /\ todo' = Applicable(plan, run.consent)
  /\ stopped' = {} /\ budget' = WriteBudget /\ landed' = {}
  /\ UNCHANGED <<provider, admin, row, run, toObserve, failed, plan, fresh, mark, settled,
                 announced, left>>

\* What a step does with the change in hand when it is done with it.
Settle(a, result) ==
  /\ todo' = todo \ {a}
  /\ pc' = "apply"
  /\ outcome' = IF result = "none" THEN outcome ELSE [outcome EXCEPT ![a] = result]
  /\ Loses(lost, IF result = "none" THEN {} ELSE {a})

\* Not attempted: the provider stopped at an earlier error, or has a competing
\* writer.
SkipChange(a) ==
  /\ pc = "apply" /\ InHand(a)
  /\ a[2] \in stopped \cup Degraded
  /\ report' = [report EXCEPT !.skipped = @ + 1]
  /\ Settle(a, "skipped")
  /\ UNCHANGED <<provider, admin, row, status, run, toObserve, failed, plan, fresh, stopped,
                 budget, history, left>>

\* Mutant: a dry run passes over the reasons not to write.
AttemptedInDryRun(a) ==
  pc = "apply" /\ InHand(a) /\ (run.dryRun \/ a[2] \notin stopped \cup Degraded)

Attempted(a) == pc = "apply" /\ InHand(a) /\ a[2] \notin stopped \cup Degraded

\* Mutant: one failure does not stop the provider.
FailAndGoOn(a) ==
  /\ report' = [report EXCEPT !.failed = @ + 1]
  /\ stopped' = stopped
  /\ Settle(a, "failed")
  /\ fresh' = NoRead

Fail(a) ==
  /\ report' = [report EXCEPT !.failed = @ + 1]
  /\ stopped' = stopped \cup {a[2]}
  /\ Settle(a, "failed")
  /\ fresh' = NoRead

\* The re-read fails, or finds the account disabled or deleted.
RecheckFails(a) ==
  /\ Attempted(a)
  /\ Fail(a)
  /\ IF account[a].status = "enabled" THEN Disturb ELSE left' = left
  /\ UNCHANGED <<provider, admin, row, status, run, toObserve, failed, plan, budget, history>>

\* The class of the change against what the re-read found.  A plan that comes
\* back empty leaves the class as it was.
RecheckClass(a, read) ==
  LET again == ChangeFor([present |-> TRUE, desired |-> plan[a].to,
                          observed |-> read.quota, used |-> read.used,
                          neverUsed |-> account[a].used = 0, observeOK |-> TRUE])
  IN IF again.class = "none" THEN plan[a].class ELSE again.class

Read(a, quotaKnown, usedKnown) ==
  [quota |-> IF quotaKnown THEN account[a].quota ELSE Unknown,
   used  |-> IF usedKnown THEN BytesQuota(account[a].used) ELSE Unknown]

\* What becomes of the change after a successful re-read: its class moved, in
\* either direction; the quota is there already; a dry run counts it; the
\* write limit is reached; or it is written.
Refuse(a) ==
  /\ report' = [report EXCEPT !.moved = @ + 1]
  /\ Settle(a, "refused")
  /\ UNCHANGED <<fresh, stopped, budget>>

\* Mutant: a change found done is left in hand.
LeaveInHand(a) ==
  /\ pc' = "apply"
  /\ UNCHANGED <<outcome, lost, todo, fresh, stopped, budget, report>>

LeaveAlone(a) ==
  /\ Settle(a, "none")
  /\ UNCHANGED <<fresh, stopped, budget, report>>

\* Mutant: a dry run that falls through to the write.
AnnounceAndWrite(a) ==
  /\ report' = report
  /\ fresh' = [quota |-> account[a].quota, used |-> BytesQuota(account[a].used)]
  /\ pc' = "write"
  /\ UNCHANGED <<outcome, lost, todo, stopped, budget>>

Announce(a) ==
  /\ report' = [report EXCEPT !.applied = @ + 1]
  /\ Settle(a, "none")
  /\ UNCHANGED <<fresh, stopped, budget>>

Allowed(p) == budget[p] > 0

HoldBack(a) ==
  /\ report' = [report EXCEPT !.throttled = TRUE]
  /\ stopped' = stopped \cup {a[2]}
  /\ Settle(a, "skipped")
  /\ UNCHANGED budget

Proceed(a, read) ==
  /\ budget' = [budget EXCEPT ![a[2]] = @ - 1]
  /\ fresh' = read
  /\ pc' = "write"
  /\ UNCHANGED <<outcome, lost, todo, stopped, report>>

\* One re-read, and everything decided from it.
Recheck(a, quotaKnown, usedKnown) ==
  LET read  == Read(a, quotaKnown, usedKnown)
      moved == RecheckClass(a, read) # plan[a].class
      done  == Equal(read.quota, plan[a].to)
  IN
  /\ Attempted(a) /\ account[a].status = "enabled"
  /\ IF quotaKnown /\ usedKnown THEN left' = left ELSE Disturb
  /\ \/ moved /\ Refuse(a)
     \/ ~moved /\ done /\ LeaveAlone(a)
     \/ ~moved /\ ~done /\ run.dryRun /\ Announce(a)
     \/ ~moved /\ ~done /\ ~run.dryRun /\ ~Allowed(a[2]) /\ HoldBack(a) /\ UNCHANGED fresh
     \/ ~moved /\ ~done /\ ~run.dryRun /\ Allowed(a[2]) /\ Proceed(a, read)
  /\ UNCHANGED <<provider, admin, row, status, run, toObserve, failed, plan, history>>

\* SetQuota, and the provider stores what it makes of the value it is sent.
\* The answer to a write that landed may still be lost.
Write(a) ==
  /\ pc = "write" /\ InHand(a)
  /\ account' = [account EXCEPT ![a].quota = NormalizeQuota(a[2], plan[a].to)]
  /\ landed' = landed \cup {a}

WriteLands(a) ==
  /\ Write(a)
  /\ account[a].status # "gone"
  /\ report' = [report EXCEPT !.applied = @ + 1]
  /\ fresh' = NoRead
  /\ pc' = "record"
  /\ UNCHANGED <<admin, row, outcome, lost, status, run, toObserve, failed, plan, todo, stopped,
                 budget, mark, settled, announced, left>>

\* Mutant: a write whose answer was lost is sent again as it was.
WriteRetried(a) ==
  /\ Write(a)
  /\ account[a].status # "gone"
  /\ Disturb
  /\ UNCHANGED <<admin, row, outcome, lost, status, pc, run, toObserve, failed, plan, todo, fresh,
                 stopped, budget, report, mark, settled, announced>>

WriteAnswerLost(a) ==
  /\ Write(a)
  /\ account[a].status # "gone"
  /\ Disturb
  /\ Fail(a)
  /\ UNCHANGED <<admin, row, status, run, toObserve, failed, plan, budget, mark, settled,
                 announced>>

WriteFails(a) ==
  /\ pc = "write" /\ InHand(a)
  /\ IF account[a].status = "gone" THEN left' = left ELSE Disturb
  /\ Fail(a)
  /\ UNCHANGED <<provider, admin, row, status, run, toObserve, failed, plan, budget, history>>

WriteThrottled(a) ==
  /\ pc = "write" /\ InHand(a)
  /\ Disturb
  /\ HoldBack(a)
  /\ fresh' = NoRead
  /\ UNCHANGED <<provider, admin, row, status, run, toObserve, failed, plan, history>>

\* Mutant: nobody records the write.
RecordForgotten(a) ==
  /\ pc = "record" /\ InHand(a)
  /\ pc' = "refresh"
  /\ UNCHANGED <<provider, admin, row, outcome, lost, status, engine, history, left>>

RecordApplied(a) ==
  /\ pc = "record" /\ InHand(a)
  /\ outcome' = [outcome EXCEPT ![a] = "applied"]
  /\ Loses(lost, {a})
  /\ pc' = "refresh"
  /\ UNCHANGED <<provider, admin, row, status, engine, history, left>>

\* Read back what was stored.  A row that cannot be read back is marked, so
\* that the next plan sees unknown state.
RefreshRow(a, noQuota, noUsed) ==
  /\ pc = "refresh" /\ InHand(a)
  /\ account[a].status # "gone"
  /\ row' = [row EXCEPT ![a] = IF row[a].stored THEN RowOf(a, noQuota, noUsed) ELSE @]
  /\ Settle(a, "none")
  /\ IF noQuota = {} /\ noUsed = {} THEN left' = left ELSE Disturb
  /\ UNCHANGED <<provider, admin, status, run, toObserve, failed, plan, fresh, stopped,
                 budget, report, history>>

RefreshFails(a) ==
  /\ pc = "refresh" /\ InHand(a)
  /\ row' = [row EXCEPT ![a].observeOK = FALSE]
  /\ Settle(a, "none")
  /\ IF account[a].status = "gone" THEN left' = left ELSE Disturb
  /\ UNCHANGED <<provider, admin, status, run, toObserve, failed, plan, fresh, stopped,
                 budget, report, history>>

\* The row keeps what was observed before the write when what was read back, or
\* the mark that nothing was, cannot be stored.
RowNotStored(a) ==
  /\ pc = "refresh" /\ InHand(a)
  /\ "row" \in Unnoticed
  /\ Disturb
  /\ Settle(a, "none")
  /\ UNCHANGED <<provider, admin, row, status, run, toObserve, failed, plan, fresh, stopped,
                 budget, report, history>>

\* Mutant: a change refused at the re-check leaves the run clean.
IncompleteButMoved == \/ report.guarded > 0 \/ report.unknown > 0
                      \/ report.skipped > 0 \/ report.throttled

Incomplete == \/ report.guarded > 0 \/ report.unknown > 0 \/ report.moved > 0
              \/ report.skipped > 0 \/ report.throttled

Finish ==
  /\ pc = "apply" /\ todo = {}
  /\ status' = IF run.dryRun THEN "dry-run"
               ELSE IF report.failed > 0 THEN "failed"
               ELSE IF Incomplete THEN "incomplete" ELSE "clean"
  /\ pc' = "idle"
  /\ settled' = (status' = "clean" /\ run.scope = Pairs)
  /\ announced' = IF run.dryRun /\ ~run.consent /\ run.scope = Pairs
                   THEN report.applied ELSE Nothing
  /\ UNCHANGED <<provider, admin, row, outcome, lost, engine, landed, mark, left>>

\* The run ends, but its row cannot be closed: it says running for ever.
FinishUnrecorded ==
  /\ pc = "apply" /\ todo = {}
  /\ "end" \in Unnoticed
  /\ Disturb
  /\ pc' = "idle"
  /\ UNCHANGED <<provider, admin, row, outcome, lost, status, engine, history>>

\* The process dies or the context is cancelled.  Every later statement of
\* the run uses that context, so nothing more of it reaches the database or a
\* provider.
Interrupt ==
  /\ Interrupts
  /\ pc # "idle"
  /\ Disturb
  /\ pc' = "idle"
  /\ fresh' = NoRead
  /\ UNCHANGED <<provider, admin, row, outcome, lost, status, run, toObserve, failed, plan, todo,
                 stopped, budget, report, history>>

(***************************************************************************)
(* Specification                                                           *)
(***************************************************************************)
Observing ==
  \E p \in Providers :
    \/ \E noQuota, noUsed \in SUBSET Of(p) : ObserveProvider(p, noQuota, noUsed)
    \/ ObserveFails(p)

Handle(a) ==
  \/ SkipChange(a)
  \/ RecheckFails(a)
  \/ \E quotaKnown, usedKnown \in BOOLEAN : Recheck(a, quotaKnown, usedKnown)
  \/ WriteLands(a)
  \/ WriteAnswerLost(a)
  \/ WriteFails(a)
  \/ WriteThrottled(a)
  \/ RecordApplied(a)
  \/ \E noQuota, noUsed \in SUBSET {a} : RefreshRow(a, noQuota, noUsed)
  \/ RefreshFails(a)
  \/ RowNotStored(a)

Engine ==
  \/ Observing
  \/ LinkAccounts
  \/ MakePlan
  \/ RefuseExpired
  \/ StartApply
  \/ \E a \in Pairs : Handle(a)
  \/ Finish
  \/ FinishUnrecorded

Trigger ==
  \/ BeginScheduled
  \/ BeginRefresh
  \/ \E consent, dryRun \in BOOLEAN, scope \in Scopes : BeginByOperator(consent, dryRun, scope)

Next == Environment \/ Trigger \/ Engine \/ Interrupt

Spec == Init /\ [][Next]_vars

\* A run that holds the gate keeps taking steps, and the timer keeps firing.
Fairness == WF_vars(Engine) /\ WF_vars(BeginScheduled)

FairSpec == Spec /\ Fairness

(***************************************************************************)
(* Properties                                                              *)
(***************************************************************************)
\* SetQuota changed this pair's quota in this step.
NunoWrites(a) == a \in landed' \ landed

\* Unknown state is never written, and no flag forces it: whatever happened
\* since the plan, the stored row the plan was made from and the re-read just
\* before the write both had a known quota and a known usage.
NeverBlind ==
  [][\A a \in Pairs : NunoWrites(a) =>
       /\ row[a].observeOK /\ IsKnown(row[a].quota) /\ IsKnown(row[a].used)
       /\ IsKnown(fresh.quota) /\ IsKnown(fresh.used)]_vars

\* A quota is brought to or below what the person stores only by a run an
\* operator consented to.  The one thing that escapes is usage that moved
\* between the re-read of this very account and the write after it.
ShrinkNeedsConsent ==
  [][\A a \in Pairs :
       /\ NunoWrites(a)
       /\ IsBytes(account'[a].quota) /\ account'[a].quota.bytes <= account[a].used
       /\ fresh.used = BytesQuota(account[a].used)
       => run.consent /\ run.actor = "operator"]_vars

\* Once a change of a provider failed, or was held back by its write limit,
\* the run writes nothing more to it, whether or not the log took the entry, and
\* it never makes more writes than the limit allows.
StopsAtFirstError ==
  [][\A a \in Pairs : NunoWrites(a) =>
       /\ \A b \in Of(a[2]) : outcome[b] \notin {"failed", "skipped"}
       /\ Cardinality(landed' \cap Of(a[2])) <= WriteBudget[a[2]]]_vars

\* A run's report and its row speak of what it did, and the log may know less.
\* Every write that landed and was answered is counted as applied, and by result
\* the counts exceed the entries by exactly those the log lost; clean is a run
\* that refused, failed and skipped nothing, whether or not that was stored.
WithResult(result) == {a \in Pairs : outcome[a] = result}
Entries(result)    == WithResult(result) \ lost
Missing(result)    == WithResult(result) \cap lost

Tells(n, result) == n = Cardinality(Entries(result)) + Cardinality(Missing(result))

HonestReport ==
  status \in {"clean", "failed", "incomplete"} =>
    /\ report.applied = Cardinality(landed \ WithResult("failed"))
    /\ Tells(report.applied, "applied")
    /\ Tells(report.failed, "failed")
    /\ Tells(report.guarded + report.unknown + report.moved, "refused")
    /\ report.skipped <= Cardinality(WithResult("skipped"))
    /\ WithResult("skipped") # {} => report.skipped > 0 \/ report.throttled
    /\ status = "clean" <=> WithResult("failed") \cup WithResult("refused")
                              \cup WithResult("skipped") = {}

\* A quota a run changed has an audit entry of that run, applied, or failed when
\* the answer was lost, unless the log could not store it: the run never fails
\* to hand it over.  A run still marked as running though it is not was killed,
\* or could not be closed; killed, it may lack the entry of its last write, and
\* of no other that the log took.
Unclosed  == status = "running" /\ pc \notin {"apply", "write", "record", "refresh"}
Unaudited == {a \in landed : a \notin Entries("applied") \cup Entries("failed")}

EveryWriteAudited ==
  /\ pc # "record" /\ ~Unclosed => Unaudited \subseteq lost
  /\ \A a, b \in Unaudited \ lost : a = b

\* What a dry run announces is what the schedule then does: the run right
\* after it, with nothing disturbed since, applies that many changes, or fewer
\* when it reaches a write limit the dry run had no need to count.  A dry run
\* that wrote anything would leave the next run nothing to apply.
DryRunForetells ==
  [][\/ ~(run.actor = "schedule" /\ pc = "apply" /\ pc' = "idle" /\ todo = {})
     \/ announced = Nothing \/ mark # left
     \/ report.throttled /\ report.applied <= announced
     \/ ~report.throttled /\ report.applied = announced]_vars

\* Applying and planning again yields an empty plan: a run that comes right
\* after a clean, unfiltered one, with nothing disturbed since that one began,
\* has nothing to apply, though a provider may store another value than it is
\* sent.
PlanAgainIsEmpty == settled /\ mark = left => pc # "start"

\* A run that holds the gate gives it back.
RunsEnd == (pc # "idle") ~> (pc = "idle")

\* Once nothing disturbs it any more, the schedule brings every account to its
\* ceiling, whatever happened before: lost answers, killed runs, throttling,
\* links taken away, rows that could not be trusted.
Aim(a) == NormalizeQuota(a[2], policy[a].ceiling)

Attainable(a) ==
  /\ account[a].status = "enabled"
  /\ a[2] \notin Degraded /\ WriteBudget[a[2]] > 0
  /\ policy[a].present /\ IsKnown(Aim(a))
  /\ ~AtOrBelow(Aim(a), BytesQuota(account[a].used))

Converges == <>[](\A a \in Pairs : Attainable(a) => account[a].quota = Aim(a))
=============================================================================
