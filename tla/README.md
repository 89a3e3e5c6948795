# Nuno: a verification project

Nuno gives the people of a small household quotas on the services they share
(Nextcloud, Immich). It reads who exists from a directory (LLDAP), what accounts
exist from each provider, links the two, resolves each person's ceiling from
tiers and overrides, and writes the ceilings that differ to the providers.
Writes have guardrails: nothing is written from unknown state, nothing shrinks
to or below what somebody already stores without an operator's consent, and
every write is preceded by a fresh look at the account.

This directory models that in TLA+, checks the models with TLC and proves what
matters most with TLAPS. Paths below are relative to the repository.

## 1. The system

| component | state it keeps | operations | how it interacts | modelled in |
|---|---|---|---|---|
| Reconcile engine (`internal/reconcile/{observe,plan,apply}.go`) | `external_accounts`, `reconcile_runs`, `audit_log`; locals of one run | observe every provider, plan, apply change by change, refresh after a write, finish; adopt | called under the gate by the timer and the UI, under the data-directory lock by the command line; calls providers, store, notifier | Reconcile |
| Identity sync and linking pass (`reconcile/{identity,link}.go`, `store/{identity,accounts}.go`) | `users`, `account_links`, the owner column of `external_accounts`, `link_issues` | sync people, revalidate links, match on a key, match on the OIDC subject, collect issues, persist | first steps of every cycle; the planner reads its links, the usage pages its owners | Linker |
| Quota values and planning rules (`core/{quota,plan}.go`) | none | validate, compare, classify, build a plan, select what may be applied | pure, used by the engine | Quota, PlanRules |
| Policy resolution (`core/{resolve,policy}.go`) | none | resolve a person's ceiling on a provider from tiers, groups, overrides | pure, used by the planner and the pages | Policy |
| Policy store (`store/policy.go`) | tiers, allocations, group mappings, overrides, runs | save, delete, map, override; load | edited by UI and command line without the gate, read by the planner in several statements | PolicyStore |
| Audit and guarded keys (`store/audit.go`) | `audit_log`, `notified_changes` | record a change; seen, forget | the engine | Reconcile, Server |
| Server loops, gate, UI actor (`cmd/nuno/{serve,actor}.go`) | one mutex, retry delay | scheduled reconcile, refresh, UI requests, start and stop | mutual exclusion of runs; edits take no gate | Server |
| Command line (`cmd/nuno/{cli,policy,main}.go`) | the data-directory lock | the same operations, by hand | excluded from a running server by the lock | Reconcile, Linker, PolicyStore, Lifecycle |
| Providers (`internal/providers`) | the services' own accounts | list, get, set quota, normalise | may fail, throttle, answer late or not at all, round what they store | Reconcile, Readings, Rounding |
| Write probe (`reconcile/probe.go`) | write-access status | write a quota back and read it again | doctor | Readings |
| Admin keys (`store/keys.go`, `api/auth.go`) | `admin_keys`, a token bucket | ensure, revoke, issue, check | startup, pages, API | Lifecycle |
| Migrations, copies and lock (`store/{migrate,lock_unix}.go`) | schema version, backup files, `nuno.lock` | lock, check, copy, prune, migrate, close | startup of every command | Lifecycle |
| Provider registry and status (`store/providers.go`) | `providers`: type, last observation, write access | register, record an observation or a probe | startup, engine, pages | Lifecycle, Readings |
| Usage read side (`core/usage.go`, `api/usage.go`) | none | status of an account; response by person and by service | reads the rows an observation left | Readings |
| Notifications (`internal/notify`) | none | send a message, once | the end of a run | Server |
| Pages, configuration, doctor, LDAP client | none of their own | read, render, parse | - | what their forms change is in the modules above |

What is hard here: a plan is made once and applied slowly, while people store
files, other tools write quotas and the admin edits policy and links; a write
can land and lose its answer; the process can be killed between any two
statements, and only some of them are in one transaction; a provider may keep
another number than it was sent; match values move between people; the pass that
makes links stores them later than it worked them out, in statements other edits
fall between; a form posts back everything a page showed, whenever it was
opened; integers wrap; processes of two versions meet over one data directory.

What makes each part correct:

- engine: never write blind; never shrink without consent; one failure stops
  its provider and only it; reports and audit agree with what was done; a plan
  applied leaves nothing to plan; a dry run foretells; runs end; the accounts
  converge;
- linking: one person per account; no retargeting by a cycle; no guessing;
  owners follow links; cycles settle; nobody is orphaned by an empty answer;
  whoever can be linked is linked;
- policy: offers stay within the budget; a plan is what the documents say of the
  policy; a torn reading lifts nothing; an adopted stack needs no change; a
  stricter tier restricts nobody; an edit stays where it was made;
- server: a guarded change is told, and told once; no loop is shut out; a signal
  ends the process;
- data directory: one process inside; a known schema; a copy before a migration;
  the keys that were granted and no others;
- readings: what was written and not read back is not shown as read; the two
  shapes of the response agree; a rounded ceiling is stored as planned; a probe
  changes nothing; good numbers come back.

`PROJECT.json` lists the components with their status, and every hazard at the
line where it bites with the properties aimed at it.

## 2. Modules

```
Quota <- PlanRules <- Reconcile <- ReconcileRefinement <- MCReconcile
  ^          ^              |           ^
  |          |              |           +-- ReconcileProofs <- RunProofs
  +------ GuardedWrites <---+ (abstract)
  ^          |
  +- Policy <- PolicyStore <- MCPolicy       (PolicyStore extends PlanRules too)
  |               ^---------- PolicyProofs   (and SumProofs)
  +- Readings <- MCReadings                  (and extends Rounding)
        ^------- ReadingsProofs              (and SumProofs)
Linker    <- MCLinker,    LinkerProofs
Server    <- MCServer,    ServerProofs
Lifecycle <- MCLifecycle, LifecycleProofs
```

The modules divide the system where the code has a narrow interface, and each
abstracts what the others detail: Reconcile takes the linking pass as one step,
the policy as what it resolves to and a rounding as a table; Linker, PolicyStore
and Readings are those in full; Server sees of a run only what it tells;
Lifecycle sees of a process only what it opens.

**Quota** (`core/quota.go`): the tagged quota. `Unknown`, `Unlimited` and a byte
count are different values; a usage is never `Unlimited`.

**PlanRules** (`core/plan.go`): `Classify`, `BuildPlan`, `Applicable` as
operators on functions from pairs to accounts, generic in the pairs.

**Reconcile**: one cycle against a world that does not wait. A *pair* is a
person and the account she may hold on a provider. `account` is the truth on the
providers, `row` what `external_accounts` says of it, `policy` what tiers and
overrides resolve to, `linked` the links. `outcome` is what `record` was called
with for each change of the run, `lost` those of them `audit_log` did not take:
`record`, the refresh and `finish` only log an error of the store and go on
(`apply.go:351-356`, `414-421`, `315`), and `Unnoticed` says which of the three may
happen. `pc` is where the run is; there is one because the gate
(`serve.go`, `sync.Mutex`) admits one run. The actions, in the order of the code:

| code | actions |
|---|---|
| `runScheduledReconcile`, `serverActor.Reconcile`, `refreshOnce` | `BeginScheduled`, `BeginByOperator`, `BeginRefresh` |
| `observeOne` | `ObserveProvider` (answers may lack quotas or usages), `ObserveFails` |
| `link` | `LinkAccounts` |
| `Plan`, `BuildPlan` | `MakePlan` |
| `Apply` up to its loop | `RefuseExpired`, `StartApply` |
| one turn of the loop | `SkipChange`; `RecheckFails`; `Recheck`, which reads once and then refuses, leaves alone, announces, holds back or proceeds; `WriteLands`, `WriteAnswerLost`, `WriteFails`, `WriteThrottled`; `RecordApplied`; `RefreshRow`, `RefreshFails`, `RowNotStored` |
| `record`, in each of them | `Settle`, `Loses` |
| `finish` | `Finish`, `FinishUnrecorded` |
| kill, cancelled context | `Interrupt`, between any two of them |
| everyone else | `UseStorage`, `OthersSetQuota`, `ChangeStatus`, `EditPolicy`, `Unlink`, `LinkByHand` |

**GuardedWrites**: what the engine promises, with the engine left out. It may
look at an account, and spend the look on one write; a look that shows the write
would block the person is spent only under consent, and consent is settled
before anything is looked at.

**ReconcileRefinement**: the mapping (`look` is the re-read of the change in hand
while `pc = "write"`) and `Inductive`, the invariant the proofs rest on.

**Linker**: identity sync, observation and linking pass in detail. `directory`
and `real` are the truth; `user`, `acct`, `link`, `issue` the four tables. An
account shows a *face*, its match value and its OIDC subject, 0 standing for
the empty string.

| code | actions and operators |
|---|---|
| `SyncIdentity`, `ReplaceIdentity` | `SyncIdentity`, `Synced`, `EmptyAnswerRefused` |
| `Observe`, `ReplaceExternalAccounts` | `Observe`, `Observed` |
| `link`: `revalidate`, `matchDirect`, `matchBySubject`, `collectIssues` | `LinkPass`, with `Dangling`, `Stale`, `Holds`; `Candidates`, `Free`, `Direct`, `Crowded`; `Claimants`, `Joinable`, `Joined`; `IssuesFound` |
| `persist` | `StoreLink`, `StoreAborts`, `StoreOwners`, `StoreIssues` |
| `serverActor.Link`, `cli.go` | `LinkByHand` and `OwnByHand` (two statements), `UnlinkByHand`, `AddManualUser`, `DeleteUser` |

`Concurrent` says whether edits of links may fall inside a pass: yes for the UI,
no for the command line, which holds the data directory.

**Policy** (`core/policy.go`, `core/resolve.go`): pure operators. Integers wrap at
`Half`, which stands for 2^63, division truncates towards zero. `Validate`,
`AllocationFor` with `PercentOf` and `Remainder`, `MoreGenerous`,
`CandidateTiers`, `Resolve`, `EffectiveBudget`.

**SumProofs**: lemmas about sums over finite sets, for the proofs of the two
modules that add things up.

**PolicyStore** (`store/policy.go` and every edit of it): the tables as functions
of row ids, a `page` as old as its opening, and the planner that reads tiers,
allocations and mappings in three statements and then one person at a time, with
forms posted in between. Commands run only while no plan is being made: they need
the data directory. `SaveTier` finds a row by name and takes the next id
otherwise, so an id comes back; `Posted` is what a form sends, rounded sizes,
shares turned into bytes and all; plans are made with PlanRules.

**Server** (`serve.go`, `actor.go`, `notifyOutcome`, `store/audit.go`): `loop`,
`gate` and `run`. A run goes `PlanEmpty`, or `PlanMade`, `Apply`,
`SeenGuardedChange` key by key, `ForgetGuardedChanges`, `Notify`. The world makes
changes guarded and fixes them, and fails the webhook. `Start`, `Signal`,
`LoopStops`, `ExitsClean`, `GraceOver`, `ListenFails`, `Killed` are the process;
`CommandReconciles` a command in its place.

**Lifecycle** (`main.go`, `store/{migrate,lock_unix,keys,providers}.go`): several
processes, each of one of two binaries, over one directory: `Lock`, `Open`,
`CheckSchema` or `BuildProviders`, `Migrate`, `CopyBegins`, `CopyEnds`,
`PruneBackups`, `MigrationApplied`, `EnsureAdminKey`, `RevokeEnvKeysExcept`, the
keys of the page, then `Close`, `Release`, `Exit`; `Kill` anywhere, and an operator
who edits the environment and puts copies back.

**Rounding** (`nextcloud/quota.go`): the trip of a size to Nextcloud's text and
back, `HumanFileSize` and `ComputerFileSize`, in exact fractions: a value is
counted in `D`ths of its unit, units are powers of `Kilo`.

**Readings**: from the account on the service to the number on the page. `row`
and `status` are what an observation leaves, `Answers` the ways in which an
account may come incomplete, `pending` a write or probe between its call and its
reading, `wrote` the accounts Nuno changed and has not read since; `Usage` and
`Service` are the two shapes of the response.

The modules **MCReconcile**, **MCLinker**, **MCPolicy**, **MCServer**,
**MCLifecycle** and **MCReadings** only give constants their values. Operators
introduced by the word *Mutant* are one plausible bug each; no specification uses
them. Each property of a passing run is violated when the mutant listed for it
in `PROJECT.json` takes the place of the definition it is a variant of.

## 3. What is checked

| run | instance | shows |
|---|---|---|
| MCReconcile `safety` | 2 people, 1 provider, accounts may be disabled or vanish, people who store one byte or two and tiers that give one or two, runs may be killed, entries, rows and ends of runs may not be stored, 2 disturbances | `Inductive`, which has the type invariant in it; `KeepsPromise`: implements GuardedWrites; `NeverBlind`, `HonestReport`, `EveryWriteAudited` |
| `providers` | 2 people, 2 providers that round (1 and 3 bytes are kept as 2), two writes each, the second degraded, rows and ends of runs may not be stored, 2 disturbances | `PlanAgainIsEmpty`, `ShrinkNeedsConsent`, `DryRunForetells` across providers and limits |
| `liveness` | 2 people, 1 write per run, kills, anything not stored, 2 disturbances | `StopsAtFirstError`, `RunsEnd`, `Converges` |
| MCLinker `handedits` | 2 people, 2 accounts, match values that change hands between the people and from the second account to the first, edits between cycles only, 3 disturbances | `NeverRetargets`, `NeverGuesses`, `SomebodyStays` |
| `subjects` | 2 people, 2 providers, the second known by subject only, where one account may take the other's subject, edits inside a pass, 2 disturbances | `OnePersonPerAccount`, `OwnersAgree`, `CyclesSettle` |
| `linked` (`MCLinker_liveness.cfg`) | one person of the directory, one added by hand, edits inside a pass, 3 disturbances | `EverybodyLinked` |
| MCPolicy `policy` | 2 people (one in two groups, one in none), 2 providers, the second rounding; no tiers or two to begin with; 2 edits; integers from -128 to 127 | `TiersHold` (the type invariant and `WithinBudget`), `PlanIsPolicy`, `NeverInvents`, `AdoptedPlanIsEmpty`, `StricterNeverRestricts`, `EditIsLocal` |
| MCServer `server` | 2 guarded changes, one of which may be consented to, full and filtered runs, 5 disturbances | `TypeOK`, `ToldOnce`, `NewIsTold`, `LoopsGoOn`, `ShutdownEnds` |
| MCLifecycle `lifecycle` | 2 processes, binaries that know schema 2 and 3, 2 keys, 2 providers, 1 copy kept of at most 2 made, 5 disturbances | `TypeOK`, `OneWriter`, `SchemaIsKnown`, `CopiedFirst`, `OnlyGrantedKeysWork`, `EnvKeyWorks` |
| MCReadings `readings` | 2 people, 3 accounts, 2 services of which one rounds, units of 8 in thirds, usage between the two ceilings, 3 disturbances | `WritesAreShown`, `TotalsAgree`, `PlannedIsStored`, `ProbeAltersNothing`, `ShownAgain` |

**Bounds.** `MaxDisturbances` (`MaxEdits` in PolicyStore) bounds what the
environment does: changes on a provider or in the directory, edits, bad answers,
kills, and runs other than the scheduled one. Cycles themselves are unbounded.
An entry the log does not take costs no disturbance: any number may be lost. In
`safety` accounts and tiers are drawn from all that two sizes allow, so that the two
disturbances are left for what falls into a run: an operator's consent and a change
on the provider, a lost answer and a kill, an edit and a row that is not stored.
Three are enough for a match value to leave one person, arrive at another and an
account to follow; each mutant is caught within them. Two people
are needed for a change to wait behind another, two accounts for an ambiguity,
two providers for one to fail alone and for a subject to join. Two sizes decide
every comparison of a ceiling with a usage (`<`, `=`, `>`), four make room for the
rounding. Of the newer modules: five disturbances in Server are a start, a change
that appears, is fixed and appears again, and one failure; five in Lifecycle are
two starts of different binaries, a kill, a copy put back and a third start, or a
start, a key issued, revoked and put in the environment, and a restart with it. `Half = 128` makes a share of the largest
budgets overflow and leaves small ones room. `Kilo = 8, D = 3` in Readings keeps
what matters of 1024 and 10: units that several roundings reach, a first step
without decimals, a fraction that is not a power of two. `MaxCopies` bounds the
copies ever begun; a process that would begin another fails instead, as the code
lets it. With one copy kept, the newest must be the one the migration needs.

**Deadlock** is checked in the runs of MCReconcile and MCLinker; none is
possible, since a cycle can always begin. In the others the bounded operator is
also who starts things, a process or an edit, so that the system may rightly stop
when her bound is reached, and the runs say `CHECK_DEADLOCK FALSE`; that nobody
waits for ever there is what `LoopsGoOn`, `ShutdownEnds` and `ShownAgain` say.

**Fairness.** `WF(Engine)`, `WF(Step)`: a run that holds the gate is a goroutine
that keeps running, and provider calls have timeouts. `WF(BeginScheduled)`,
`WF(BeginCycle)`: `reconcileLoop` comes round whatever the last cycle returned
(`serve.go:237-256`). `WF(OwnByHand)`: the second statement of a request follows
the first. In Server, `WF` of a run's steps, of the timers, of a loop that sees
the signal while it waits and of the process that ends; `SF` of the two actions
by which a loop gets the gate: a Go mutex hands itself over to a goroutine that
has waited for a millisecond, whereas the page tries once and gives up
(`actor.go`, `TryLock`). In Readings, `WF` of each provider's observation (the
refresh loop) and of the return of a call that was made. Nothing is assumed of the
admin, the UI, the providers or the webhook, and bad answers are bounded by
`MaxDisturbances`: liveness is said of a world that has become quiet.

### Where documents and code part

Two runs are expected to violate their one property, which states what a
document or comment of the repository says; `PROJECT.json` quotes it.

| run | document says | code does |
|---|---|---|
| `reused_key` | an issue never aborts the run | a stale link and the new match of its account conflict, and every later pass fails |
| `first_start` | a stack brought up all at once needs no restart of Nuno | providers are registered before the database is migrated; on a fresh directory that fails, and the first server observes nothing until it is started again |

Other places where a document says more than the code does came up while
modelling and have no run of their own.

*Engine.* "Every write is audited with its run id" (ARCHITECTURE.md:366,
`store/audit.go:26`) is not so in two cases. `record` only logs an error of
`RecordChange` (`apply.go:351-356`): any number of entries may be lost, of writes
that landed too, and the run goes on and may end clean; and a kill between
`SetQuota` and `RecordChange` leaves one write without an entry.
`EveryWriteAudited` says exactly what may be missing, and `HonestReport` counts
what the log holds and what it lost. A row that cannot be stored after a write
keeps what was observed before it, trusted as it was (`apply.go:414-421`); the next
run's re-read sees the truth. A run whose end cannot be stored says running for
ever (`apply.go:315`). An account unlinked in the UI
after planning is still written (README.md:55). An account that fails on every
run keeps those after it from converging (apply.go:40-43), which is why
`Converges` is checked where accounts do not fail for ever. A provider that fails
to be read keeps its rows trusted, and changes are planned from the old values
(ARCHITECTURE.md:248, observe.go:10-13 say they become unknown state). A dangling
link is planned, fails its re-check and stops its provider (decisions.md:276).

*Linking.* Of two accounts with one subject the first is taken (link.go:278-280
calls that ambiguous). An account whose link went stale is reported as unmanaged
and still planned (link.go:340). A link made by hand between a pass's reading and
its storing is overwritten (cli.go:136-137). A link recovered by the subject on a
provider that has match keys goes stale at the next cycle, where its email does
not match (link.go:245-246). That may lead on to what `reused_key` shows: one
person's link to an account of a second provider, made by hand, joins her to an
account of a keyed one that shows its subject; the next cycle calls that link
stale and the account free; and once the person whose key the account shows is
there, she is matched to it, the two links conflict and every pass fails.

*Policy.* Editing one ceiling in the UI rounds the others to a hundredth of a GiB
and turns shares into bytes (`EditIsLocal` says how far they move); a page opened
before an edit undoes it, and may bring a deleted tier back; "make default" fails
while another tier is the default; ids of deleted tiers are used again;
`policy.go:213` always drops the allocations of an edited tier, which its comment
(208-209) restricts. A share of a budget above 2^63 / 100 bytes wraps, to less
than it should be or to nothing; so may the sum in `Validate`. `LoadPolicy` can be
half loaded, in spite of `store/policy.go:174-175`; what survives is
`NeverInvents`. An adopted plan is not empty where the usage was unknown or the
quota not one the provider would store again, hence the conditions of
`AdoptedPlanIsEmpty`. Somebody on the default tier *can* be restricted by mapping
her group; `StricterNeverRestricts` is about people a group gave a tier already.

*Notices.* "A change that was fixed and comes back later must notify again"
(apply.go:286): with an empty plan in between `Apply` is not called, the key is
not forgotten and nothing is told. A filtered or consented run forgets the keys of
everybody else, who are told again. A message that fails after `Seen` is never
sent again. A run's context is the request's: a browser that goes away, or the
signal, can leave a landed write without its entry. When listening fails the
process exits while loops run, and after the shutdown grace it does not wait for
them.

*Data directory.* A key revoked on the page and still in the environment is
granted again at the next start; one issued on the page and put in the environment
keeps its source and survives its removal there. Copies are pruned by version
first, so after an older database was put back the copy just made may be the one
removed (migrate.go:204 says the timestamp sorts); each restart of a failing
migration adds a copy and evicts an older one; a killed `VACUUM INTO` leaves a
file that counts as a copy. An older binary writes its provider rows into a newer
schema before it is refused. A copy put back revives the keys revoked since.
`lock_other.go` locks nothing, on platforms that are not shipped.

*Readings.* The probe does not look at the account first and accepts rows that
were not read in this cycle (probe.go:92, ARCHITECTURE.md:104): what it writes is
as old as the last observation, and a change made since is undone. It runs when
doctor asks, not at startup (decisions.md:537). One account that does not decode
hides all of its provider's (nextcloud.go:155, observe.go:63-69). A write whose
answer was lost leaves the old row trusted and shown, which is why `WritesAreShown`
is about accounts whose write returned. A person may be complete though her
account on another service was never read. Times are compared as text with
fractions of any length (time.go:11).

## 4. What is proved

For every set of people, providers, accounts, keys, processes and sizes, every
rounding, every limit and every number of disturbances that satisfies the
modules' `ASSUME`s (sets of numbers where an order is needed, finite where counts
are; a rounding that is idempotent; starting accounts and policies that are well
typed, and of a policy also sound; finite sets where something is added up; a
provider keeps `Unlimited` as it is; versions below ten, since names of copies
sort as text):

| theorem | says |
|---|---|
| `InductiveHolds`, `TypeCorrect` (ReconcileProofs) | `Inductive`, hence the type invariant, always holds |
| `NeverWritesBlind` | `NeverBlind` |
| `ShrinksOnlyWithConsent` | `ShrinkNeedsConsent` |
| `KeepsThePromise` | `Spec => Promise!Spec`: the engine implements GuardedWrites |
| `WritesAreAudited` (RunProofs) | `EveryWriteAudited`: every write was handed to the log, and what has no entry is what the log did not take, and of a killed run its last write at most |
| `StopsAndKeepsTheLimit` | `StopsAtFirstError`: nothing is written to a provider after a failure or beyond its limit |
| `ReportsAreHonest` | `HonestReport`: the row of a finished run counts the writes that landed, and its audit entries together with those that were lost; clean means what it says, entries lost or not |
| `ASecondRunFindsNothing` | `PlanAgainIsEmpty`: right after a clean run there is nothing left to apply |
| `DryRunsTellTheTruth` | `DryRunForetells`: a dry run announces as many changes as the schedule then makes |
| `CleanRunsConverge` | after a clean, unfiltered run, while nothing is disturbed, every account that may be changed is at its ceiling, and a run that ends undisturbed has an unfinished entry for any that is not: what `Converges` waits for |
| `RunsTakeBoundedlyManySteps`, `RunsAreNeverStuck` | every step of a run lowers the number it has left, and it always has one to take: what `RunsEnd` needs besides fairness |
| `LinkerTypeCorrect` (LinkerProofs) | the type invariant of the linking cycle |
| `NobodySharesAnAccount` | `OnePersonPerAccount`, edits inside a pass included |
| `CyclesNeverRetarget` | `NeverRetargets`, when `~Concurrent` |
| `MatchesAreUnique` | `NeverGuesses`, when `~Concurrent` |
| `OwnersFollowLinks` | `OwnersAgree`, edits inside a pass included |
| `SettledCyclesStaySettled` | `CyclesSettle`, whatever subjects the accounts share |
| `NobodyIsLeftUnlinked` | after an undisturbed cycle that joined nobody to an account of a keyed provider, nobody is left to match or to join, and the issues stored are those there are: what `EverybodyLinked` waits for |
| `CyclesTakeBoundedlyManySteps`, `CyclesAreNeverStuck` | a cycle of finitely many people and accounts comes nearer to its end with every step, edits inside it included, and always has one to take |
| `TheSyncKeepsSomebody` | `SomebodyStays` |
| `StoreTyped` (PolicyProofs) | the type invariant of the tables: valid tiers, one default at most, unique names, no mapping to a tier that is gone |
| `TiersStayWithinBudget` | `TiersHold`, as long as what a tier's allocations add up to fits an integer |
| `PlanFollowsPolicy` | `PlanIsPolicy`: a plan no edit fell into is the best everybody may claim |
| `NothingInvented` | `NeverInvents`: a half-read policy lifts nothing nobody lifted |
| `AdoptionSettles` | `AdoptedPlanIsEmpty` |
| `MappingRestrictsNobody` | `StricterNeverRestricts` |
| `EditsAreLocal` | `EditIsLocal`: half a step of a field at most |
| `ServerTypeCorrect` (ServerProofs) | the gate, the loops and the run agree |
| `ToldOnceHolds` | `ToldOnce` |
| `CleanExitHolds` | a server that exits clean has no run half way |
| `ShutdownTakesBoundedlyManySteps`, `ShutdownIsNeverStuck` | a server told to stop comes nearer to it with every step, and always has one to take: what `ShutdownEnds` needs besides fairness |
| `TheGateIsGivenBack` | whoever holds the gate keeps it for boundedly many steps, always has one to take, and is robbed of it by nobody: what `LoopsGoOn` needs besides a fair mutex |
| `LifecycleTypeCorrect`, `OneWriterAtATime` (LifecycleProofs) | `OneWriter`, through every kill |
| `NobodyWorksBlind` | `SchemaIsKnown` |
| `MigratesBehindACopy` | `CopiedFirst`, for any number of copies kept |
| `OnlyGrantedKeysAccepted`, `EnvKeyAccepted` | `OnlyGrantedKeysWork`, `EnvKeyWorks` |
| `RoundingIsStable` (ReadingsProofs) | at 1024 and ten, rounding what was rounded changes nothing, for every number of bytes |
| `WritesShown` | `WritesAreShown` |
| `ProbeIsHarmless` | `ProbeAltersNothing` |
| `PlannedIsKept` | `PlannedIsStored`, at 1024 and ten |
| `TotalsHold` | `TotalsAgree`: by person and by service the same sums, for any people, accounts and numbers |

**The engine's argument.** A write happens at `pc = "write"`, long after the
plan. That it is licensed is not inductive by itself: one needs to know that what
is still to do was classed safe, or as a shrink under consent (`TodoIsTrusted`),
which comes from the plan and from what `Applicable` let through
(`PlanIsTrusted`); that consent belongs to an operator's run (`ConsentIsGiven`);
that the row the plan was made from was trusted and its target known; and that
the re-read in hand shows a usage the target stays above, or consent
(`LookIsGood`), which `Recheck` establishes because a class that moved is refused
in either direction. Even the type invariant needs this: that a write leaves an
account with a quota at all holds because nothing unknown ever reaches `todo`.
The refinement adds `TodoIsUnwritten`, so that a run writes an account once, and
one case per action: a step looks, forgets, writes, decides or is invisible.

**The run's argument.** `AuditInv` says that only the write being recorded has
not been handed to the log, and relies on `TodoIsUnwritten`: nothing that was
written is settled as something else. What was handed over and has no entry is in
`lost`, which nothing but the log's failure adds to. `LimitInv` ties the log to the provider it stopped
and counts: what was written to a provider, what may still be, and the write in
hand never exceed the limit; the place of a write is taken when it is let
through (`WriteIsReserved`), so an answer that is lost is paid for.

**The report's argument.** `HonestReport` speaks of finished runs; `Tally` says
what holds on the way. The report's numbers equal the cardinalities of what was
recorded by result, but for a write that landed and is not recorded yet
(`Balanced`), and what is still to do was not recorded (`TodoIsOpen`), so that the
next is a new one. Two lemmas do the counting: `OneMore`, for a result, and
`TallySettle`, for a change put aside with one. `EntriesAddUp` splits each number
into the entries there are and those that were lost.

**The argument about two runs.** What a run will plan is said of the accounts
themselves, before anything was read: a pair is `Due` when its account differs
from its ceiling as the provider would keep it and may be changed. `TrueAccount`
says what a reading of an undisturbed account must give, and `CalmInv` that while
nothing was disturbed since the mark each stage of a run agrees with it: rows that
were read tell the truth (`ReadingsAreTrue`), the plan is what is due
(`PlanIsDue`), and a pair already handled is not due any more or the report says
so (`DoneOrSaid`). After a clean run nothing is due, which is `PlanAgainIsEmpty`;
that the report is honest is used here. `ForecastInv` counts: of the pairs of one
provider in the order of the loop, those a run without consent reaches before the
first that is refused are told by the accounts (`Reached`), and what it has made,
plus what it still will, is their number, whether it writes or only announces. The
schedule may fall short of it where it met a limit, which the report records.

`CleanRunsConverge` adds what `CalmInv` says of a clean run that is over: a pair
that is not `Due` and may be changed is `AtAim`.

**The argument about ending.** Of `RunsEnd`, `ShutdownEnds`, `LoopsGoOn` and the
cycles of `EverybodyLinked` everything but fairness is proved, in two halves. The first is a
number that every step lowers. For a run, `StepsLeft` counts its phases, the
providers it has still to read, and four steps for each change in `todo` (the
re-read, the write, its entry, the second look); no run begins with more than
`RunLength`, which allows for a plan of everybody. For a cycle, `CycleLeft` counts the links still
to be stored (`Pending`) and two steps for each provider to store. For a server
told to stop, `ToStop` adds up the run, the two loops and a reading of the page; a
loop that waits for the gate counts a whole run, since it may still get one. The
second half is the guards: the change next in the order of the loop exists
(`FirstChange`), as do the provider to store next and the least key to tell, each
a least number of a set that is not empty. What these steps need to be taken is
fairness, and that a fair step is taken is TLC's part.

**The linker's argument.** Sharing an account is excluded at the only place links
are written (`UpsertLink`), whatever the pass believed. Retargeting is excluded
by `StoresFresh`: what a pass is about to store names only people without a
link and gives each of them one account (`WorkFresh`, by the three rules of the
pass: a direct match is the only one of its key, a subject join takes the least
account and nobody with a direct match), and it stays so while nobody else
writes links, each stored link leaving the list. `Matched` carries, from the pass
to the moment a link is stored, that the match was the only one on both sides
(`Alone`) or that the person is reached through the account's subject: storing
other links only takes rivals away, and never takes away what she holds
elsewhere. The owner columns are stored long after they were worked out, between
the links of the pass, so `Settling` speaks of what will be held once the pass is
stored: an account is `Firm` if it is held or about to be, the owner worked out
for it is whoever has it firmly or reached it through a firm account of another
provider (`Accounted`), storing a link or an owner moves neither, and a provider
that is done has its owners in the table (`Persisted`). That no edit falls into
such a cycle is `Quiet`: an edit spends a disturbance, which the mark tells, and
a request still to set its owner keeps the cycle from being counted undisturbed.

That the next cycle changes nothing compares two passes, so the pass is made a
function of the tables it reads (`Reading`, an instance of Linker). `SecondPass`:
a pass over the links the first one will have made (`Later`) makes none, and finds
the same owners and issues. Whom the first pass left without a link keeps the
rivals she had (`LaterCandidates`), and an account that was joined gives nobody a
claim who had none (`LaterClaimants`). `Fixed` carries this through the storing of
the first cycle, where the links made and those pending together stay the same
(`Final`), to the reading of the second, with `Calm`: syncing people and observing
accounts twice is doing it once. It needs that the first pass joined nobody to an
account of a keyed provider (`NoneJoinKeyed`): the match value of such an account
may differ from hers, and the next pass then calls the link stale, as §3 says, or
finds a key with one rival fewer. Nothing is assumed of the subjects; that such a
join was made is recorded when it is (`joined`), the property is silent about the
cycle after, and `Straight` shows that a cycle it speaks of makes none either, so
that once a cycle is settled the ones after it are. A join to a provider without
keys, from a keyed one too, is covered: its link is never judged by a key.
`NobodyIsLeftUnlinked` reads the same invariant (`FixedHolds`)
after the cycle: nothing pending, so `Final` is what is stored.

**The policy's argument.** Most of it is about choices: that the first of the
most generous offers exists, for any finite set, is a minimum in an order: by
what the offers give and then by the group they come through. `LiftedInv` follows the three statements of `LoadPolicy`: what
the half-loaded policy offers without limit some tier offered when it was read.
`QuietInv` says that while nothing is edited each statement brought exactly what
is stored, so that what was resolved is what the tables resolve to;
`AdoptedInv` that after an adoption every override is the row it was made from.
`TiersStayWithinBudget` is arithmetic of shares: a hundredth part of
`remainder * share`, truncated, stays below its share whether or not the product
wraps, and shares of at most a hundred add up to at most the remainder. It needs
the hypothesis `Fits`: `Validate` adds in 64 bits and does not look for an
overflow, so that two ceilings of 2^62 bytes pass it under any budget. The run
checks the property without the hypothesis because what its admins type cannot
add up to so much.

**Sums** are folds of the community modules, and their lemmas (`TotalExtensional`,
`TotalIsLinear`, `TotalByKey`, `TotalScales`) are proved without induction over an
operator: a set on which a lemma fails has one of least cardinality, and taking
one element out of it gives a smaller one.

**The server's argument.** `ToldOnce` needs what the store remembers:
`Remembers` says that the keys about to be told, and those told and not spared
since, are in `seen`. A run holds what is fresh only between `SeenGuardedChange`
and `Notify`, and a crash in between leaves the key seen, so that the change is
lost rather than told twice.

**The data directory's argument.** `OneWriter`: a process is inside only if it
holds the lock, which the kernel drops with it. `SchemaInv` extends what is known
at the check to the places after it; nobody else can migrate meanwhile.
`CopyInv` follows the copy from its beginning to the migration; the pruning keeps
it because no copy is of a newer version than the database, as long as no older
database was put back (`LatestIsKept`), which is the theorem's exception. `GrantInv`
and `EnvInv` follow a key's row through `EnsureAdminKey` and `RevokeEnvKeysExcept`.

**The readings' argument.** `RoundingIsStable` is arithmetic: each unit's count is
bounded on both sides by the one before (`UnitBounds`), and a value stored in a
unit is counted in that unit again, with nothing left to round. It justifies at
the program's scale the idempotence Reconcile assumes of its table (`Keeps`), which
the run checks scaled down; the numbers are exact fractions where the program has
`float64`. `Marked` says that an account written and not read has its row marked
or is the one being read. `TotalsHold` needs no history: with numbers that are
known where a row is sound (`Numbers`), both shapes add up the same readings
(`WhatIsCounted`), by person or by service (`TotalByKey`).

**Only model-checked.** Liveness (`RunsEnd`, `Converges`, `EverybodyLinked`,
`NewIsTold`, `LoopsGoOn`, `ShutdownEnds`, `ShownAgain`), which rests on fairness
and so on `ENABLED`, beyond the prover: proved are the measures and the guards
above, and what a run or cycle that ends undisturbed leaves behind. Of `NewIsTold`
and `ShownAgain` nothing of this kind is proved: they depend on messages that
arrive and on readings that succeed.

## 5. Abstractions, and what is not modelled

- In Reconcile the linking pass is one step that links each pair whose account
  was read; Linker has the detail. Policy is what it resolves to. Whether a
  provider is degraded is a constant: asking it for competing writers
  (`CheckCompetingWriters`, `SetDegraded`) is left out.
- The notion that an account was never used (`never_used`) is taken as a usage
  of zero.
- A wait of the pacer and the 200 ms between writes take no step of their own:
  the environment may act between the re-read and the write anyway. No module has
  a clock, so the limit is checked within a run and not across runs of one minute.
- Command-line runs appear as operator runs, with edits allowed inside them:
  more than the lock admits.
- The check of the account and the insert of the link of a UI request are one
  step; the owner column is a second one. A UI request at most is pending.
- New links of a pass are stored in any order: for matched links the order is
  that of a Go map.
- In Linker all providers are read in one step: the pass starts only when all
  were read, and nothing reads their rows in between but the edits.
- In PolicyStore who is in which group is a constant, and a tier set on a person
  does not occur: nothing in the program calls `SetUserTierOverride`. The overrides
  of a person are read with her, in one statement. What `Norm` makes
  of a ceiling is a table.
- In Server a plan is its guarded changes and whether it has others. A timer may
  fire at any moment: the retry delays are left out. A write is decided by `Apply`
  as a whole; its steps are Reconcile's.
- In Lifecycle a schema is its number, and a migration one step: SQLite applies it
  in one transaction. Two operators with two file systems, and platforms without
  a file lock, are left out.
- In Readings every account is linked and enabled. An Immich answer whose counters
  diverge is one without a usage. Percentages, wording and the page's own reading
  in several statements are left out.
- Not modelled at all: rendering, routing, parsing of sizes and arguments,
  configuration, the token bucket and the proxy's header, LDAP and HTTP wire
  formats. They keep no state of their own, or only a counter.

## 6. What would come next

1. A clock: the pacer across runs, the backoff of the loops, the plan's expiry
   as a duration.
2. Competing writers: degradation as state, written by the check and read by the
   planner and the pages.
3. The pages' reading of users, links and rows in several statements, as
   PolicyStore does for the planner.
4. Reconcile's runs as the detailed form of Server's, and `LinkAccounts` as the
   abstract form of Linker's pass, by refinement.
5. Proofs: what the cycle after a join to a keyed provider may change; the
   liveness itself, once a prover handles `ENABLED`.
