----------------------------- MODULE Lifecycle -----------------------------
(***************************************************************************)
(* Processes that come and go over one data directory (cmd/nuno/main.go):  *)
(* the lock, the schema check, registering the providers, migrating behind *)
(* a copy (internal/store/migrate.go), the admin keys (keys.go) and what   *)
(* a server does with them, with kills between any two steps, binaries of  *)
(* several versions, and an operator who edits the environment and puts    *)
(* old copies back.                                                        *)
(***************************************************************************)
EXTENDS Naturals, FiniteSets

CONSTANTS
  Procs, Keys, Providers,
  Retyped,        \* providers whose row has another type than is configured
  Targets,        \* newest migration of each binary there is
  BackupsKept,
  MaxCopies, MaxDisturbances

\* Names of copies sort as text: up to nine, versions do so in their order.
ASSUME TargetsAssumption == Targets \subseteq 1..9 /\ Targets # {}
ASSUME KeptAssumption    == BackupsKept \in Nat \ {0}
ASSUME NoneAssumption    == "none" \notin Procs \cup Keys
ASSUME BoundsAssumption  == MaxCopies \in Nat /\ MaxDisturbances \in Nat /\ Retyped \subseteq Providers

None     == "none"
Commands == {"serve", "migrate", "other"}

\* The first migration creates the providers, the second adds columns that
\* reading one back needs.
RowsFrom == 1
ReadFrom == 2

VARIABLES
  env,       \* NUNO_ADMIN_KEY, or None
  lock,      \* the process that holds nuno.lock, or None
  proc,      \* each process: what it runs, and how far it is
  db,        \* the database: schema version, provider rows, admin keys
  copies,    \* the backup directory
  clock,     \* copies ever begun
  issued, dropped, restored, \* history: keys of the page, those revoked there
                             \* and not re-established; a copy was put back
  left       \* disturbances left

vars == <<env, lock, proc, db, copies, clock, issued, dropped, restored, left>>

EmptyDB == [v |-> 0, rows |-> {}, fromEnv |-> {}, fromUI |-> {}, live |-> {}]
Off     == [at |-> "off", cmd |-> "other", bin |-> 0, env |-> None, insts |-> {}, was |-> EmptyDB]

Init ==
  /\ env \in Keys \cup {None} /\ lock = None
  /\ proc = [p \in Procs |-> Off]
  /\ db = EmptyDB /\ copies = {} /\ clock = 0
  /\ issued = {} /\ dropped = {} /\ restored = FALSE
  /\ left = MaxDisturbances

At(p, places) == proc[p].at \in places
Goes(p, to)   == proc' = [proc EXCEPT ![p].at = to]

keysKept == <<issued, dropped>>
-----------------------------------------------------------------------------
(* Starting: withAppSchema.                                                *)

Launch(p, cmd, bin) ==
  /\ At(p, {"off"}) /\ left > 0 /\ left' = left - 1
  /\ proc' = [proc EXCEPT ![p] = [Off EXCEPT !.at = "starting", !.cmd = cmd, !.bin = bin, !.env = env]]
  /\ UNCHANGED <<env, lock, db, copies, clock, keysKept, restored>>

\* LOCK_NB: somebody else's lock ends the process.
Lock(p) ==
  /\ At(p, {"starting"})
  /\ \/ lock = None /\ lock' = p /\ Goes(p, "locked")
     \/ lock # None /\ UNCHANGED lock /\ proc' = [proc EXCEPT ![p] = Off]
  /\ UNCHANGED <<env, db, copies, clock, keysKept, restored, left>>

Open(p) ==
  /\ At(p, {"locked"})
  /\ Goes(p, IF proc[p].cmd = "other" THEN "checking" ELSE "registering")
  /\ UNCHANGED <<env, lock, db, copies, clock, keysKept, restored, left>>

\* Mutant: only a schema that is too old is refused.
KnownOrNewer(v, bin) == v >= bin

Known(v, bin) == v = bin

CheckSchema(p) ==
  /\ At(p, {"checking"})
  /\ Goes(p, IF Known(db.v, proc[p].bin) THEN "registering" ELSE "closing")
  /\ UNCHANGED <<env, lock, db, copies, clock, keysKept, restored, left>>

\* Before anything has migrated: what cannot be written or read back is
\* reported, and left out for the life of the process.
BuildProviders(p) ==
  /\ At(p, {"registering"})
  /\ db' = IF db.v >= RowsFrom THEN [db EXCEPT !.rows = Providers] ELSE db
  /\ proc' = [proc EXCEPT
       ![p].insts = IF db.v >= ReadFrom THEN Providers \ Retyped ELSE {},
       ![p].at = IF proc[p].cmd = "other" THEN "working" ELSE "migrating?"]
  /\ UNCHANGED <<env, lock, copies, clock, keysKept, restored, left>>
-----------------------------------------------------------------------------
(* Migrating behind a copy.                                                *)

Migrated(p) == IF proc[p].cmd = "serve" THEN "storing key" ELSE "closing"

RefusesNewer(v, bin) == v > bin

Migrate(p) ==
  /\ At(p, {"migrating?"})
  /\ proc' = [proc EXCEPT
       ![p].was = db,
       ![p].at = IF RefusesNewer(db.v, proc[p].bin) THEN "closing"
                 ELSE IF db.v >= proc[p].bin THEN Migrated(p)
                 ELSE IF db.v > 0 THEN "copying" ELSE "migrating"]
  /\ UNCHANGED <<env, lock, db, copies, clock, keysKept, restored, left>>

\* VACUUM INTO a new name; until it ends the file is there and not whole.
CopyBegins(p) ==
  /\ At(p, {"copying"}) /\ clock < MaxCopies /\ clock' = clock + 1
  /\ copies' = copies \cup {[v |-> db.v, at |-> clock', whole |-> FALSE, db |-> db]}
  /\ Goes(p, "vacuuming")
  /\ UNCHANGED <<env, lock, db, keysKept, restored, left>>

CopyEnds(p) ==
  /\ At(p, {"vacuuming"})
  /\ copies' = {IF c.at = clock THEN [c EXCEPT !.whole = TRUE] ELSE c : c \in copies}
  /\ Goes(p, "pruning")
  /\ UNCHANGED <<env, lock, db, clock, keysKept, restored, left>>

\* By name: the version comes before the time.
SortsBefore(c, d) == c.v < d.v \/ (c.v = d.v /\ c.at < d.at)

\* Mutant: one copy too few is kept.
ExcessOffByOne(all) ==
  {c \in all : Cardinality({d \in all : SortsBefore(c, d)}) + 1 >= BackupsKept}

Excess(all) == {c \in all : Cardinality({d \in all : SortsBefore(c, d)}) >= BackupsKept}

PruneBackups(p) ==
  /\ At(p, {"pruning"})
  /\ copies' = copies \ Excess(copies)
  /\ Goes(p, "migrating")
  /\ UNCHANGED <<env, lock, db, clock, keysKept, restored, left>>

\* Some could not be removed: the copy is there, and the process ends.
PruneFails(p) ==
  /\ At(p, {"pruning"}) /\ Excess(copies) # {}
  /\ \E gone \in SUBSET Excess(copies) \ {Excess(copies)} : copies' = copies \ gone
  /\ Goes(p, "closing")
  /\ UNCHANGED <<env, lock, db, clock, keysKept, restored, left>>

MigrationApplied(p) ==
  /\ At(p, {"migrating"}) /\ db.v < proc[p].bin
  /\ db' = [db EXCEPT !.v = @ + 1]
  /\ UNCHANGED <<env, lock, proc, copies, clock, keysKept, restored, left>>

MigrationsDone(p) ==
  /\ At(p, {"migrating"}) /\ db.v = proc[p].bin
  /\ Goes(p, Migrated(p))
  /\ UNCHANGED <<env, lock, db, copies, clock, keysKept, restored, left>>

\* A copy or a migration fails, or a key cannot be stored.
StepFails(p) ==
  /\ At(p, {"copying", "vacuuming", "migrating", "storing key", "revoking keys"})
  /\ Goes(p, "closing")
  /\ UNCHANGED <<env, lock, db, copies, clock, keysKept, restored, left>>
-----------------------------------------------------------------------------
(* Admin keys.  Accepted is what the usage endpoint lets in.               *)

Accepted == db.live

\* Mutant: the row of a key is always the environment's.
SourcedAgain(k) == {k}

\* The row of a key the page issued stays the page's.
Sourced(k) == {k} \ db.fromUI

\* A key revoked on the page is re-established, and stays after the variable.
EnsureAdminKey(p) ==
  /\ At(p, {"storing key"})
  /\ LET k == proc[p].env IN
       /\ db' = IF k = None THEN db
                ELSE [db EXCEPT !.live = @ \cup {k}, !.fromEnv = @ \cup Sourced(k)]
       /\ dropped' = dropped \ {k}
  /\ Goes(p, "revoking keys")
  /\ UNCHANGED <<env, lock, copies, clock, issued, restored, left>>

\* Mutant: a key the variable once held goes on working.
StaleNever(p) == {}

Stale(p) == db.fromEnv \ {proc[p].env}

RevokeEnvKeysExcept(p) ==
  /\ At(p, {"revoking keys"})
  /\ db' = [db EXCEPT !.live = @ \ Stale(p)]
  /\ Goes(p, "serving")
  /\ UNCHANGED <<env, lock, copies, clock, keysKept, restored, left>>

\* 32 random bytes are no key there was.
IssueAdminKey(p, k) ==
  /\ At(p, {"serving"}) /\ left > 0 /\ left' = left - 1
  /\ k \notin db.fromEnv \cup db.fromUI \cup issued /\ k # env
  /\ db' = [db EXCEPT !.fromUI = @ \cup {k}, !.live = @ \cup {k}]
  /\ issued' = issued \cup {k}
  /\ UNCHANGED <<env, lock, proc, copies, clock, dropped, restored>>

\* Mutant: any key may be revoked on the page.
RevocableAll == db.fromUI \cup db.fromEnv

Revocable == db.fromUI

RevokeAdminKey(p, k) ==
  /\ At(p, {"serving"}) /\ left > 0 /\ left' = left - 1
  /\ k \in Revocable
  /\ db' = [db EXCEPT !.live = @ \ {k}]
  /\ dropped' = dropped \cup {k}
  /\ UNCHANGED <<env, lock, proc, copies, clock, issued, restored>>
-----------------------------------------------------------------------------
(* Ending.  Deferred calls run last to first: the database is closed, then *)
(* the lock released.                                                      *)

Ends(p) ==
  /\ At(p, {"serving", "working"}) /\ Goes(p, "closing")
  /\ UNCHANGED <<env, lock, db, copies, clock, keysKept, restored, left>>

\* Mutant: the lock goes before the database is closed.
ReleasedFirst(p) == TRUE

Closed(p) == At(p, {"closed"})

Close(p) ==
  /\ At(p, {"closing"}) /\ Goes(p, "closed")
  /\ UNCHANGED <<env, lock, db, copies, clock, keysKept, restored, left>>

Release(p) ==
  /\ lock = p /\ At(p, {"closing", "closed"}) /\ Closed(p)
  /\ lock' = None /\ UNCHANGED proc
  /\ UNCHANGED <<env, db, copies, clock, keysKept, restored, left>>

Exit(p) ==
  /\ At(p, {"closed"}) /\ lock # p /\ proc' = [proc EXCEPT ![p] = Off]
  /\ UNCHANGED <<env, lock, db, copies, clock, keysKept, restored, left>>

\* The kernel drops the lock of a process that died.
Kill(p) ==
  /\ ~At(p, {"off"}) /\ left > 0 /\ left' = left - 1
  /\ lock' = (IF lock = p THEN None ELSE lock) /\ proc' = [proc EXCEPT ![p] = Off]
  /\ UNCHANGED <<env, db, copies, clock, keysKept, restored>>
-----------------------------------------------------------------------------
(* The operator.                                                           *)

EditsEnvironment(k) ==
  /\ k # env /\ left > 0 /\ left' = left - 1 /\ env' = k
  /\ UNCHANGED <<lock, proc, db, copies, clock, keysKept, restored>>

PutsBack(c) ==
  /\ c \in copies /\ c.whole /\ \A p \in Procs : At(p, {"off"})
  /\ left > 0 /\ left' = left - 1
  /\ db' = c.db /\ restored' = TRUE
  /\ UNCHANGED <<env, lock, proc, copies, clock, keysKept>>

Step(p) ==
  \/ Lock(p) \/ Open(p) \/ CheckSchema(p) \/ BuildProviders(p)
  \/ Migrate(p) \/ CopyBegins(p) \/ CopyEnds(p) \/ PruneBackups(p) \/ PruneFails(p)
  \/ MigrationApplied(p) \/ MigrationsDone(p) \/ StepFails(p)
  \/ EnsureAdminKey(p) \/ RevokeEnvKeysExcept(p)
  \/ Close(p) \/ Release(p) \/ Exit(p)

Next ==
  \/ \E p \in Procs :
       \/ Step(p) \/ Ends(p) \/ Kill(p)
       \/ \E c \in Commands, b \in Targets : Launch(p, c, b)
       \/ \E k \in Keys : IssueAdminKey(p, k) \/ RevokeAdminKey(p, k)
  \/ \E k \in Keys \cup {None} : EditsEnvironment(k)
  \/ \E c \in copies : PutsBack(c)

Spec == Init /\ [][Next]_vars
-----------------------------------------------------------------------------
(* Properties.                                                             *)

Holding == {"locked", "checking", "registering", "migrating?", "copying", "vacuuming",
            "pruning", "migrating", "storing key", "revoking keys", "serving", "working", "closing"}

DBs == [v : 0..9, rows : SUBSET Providers, fromEnv : SUBSET Keys, fromUI : SUBSET Keys, live : SUBSET Keys]

TypeOK ==
  /\ env \in Keys \cup {None} /\ lock \in Procs \cup {None}
  /\ proc \in [Procs -> [at : Holding \cup {"off", "starting", "closed"}, cmd : Commands,
                         bin : Nat, env : Keys \cup {None}, insts : SUBSET Providers, was : DBs]]
  /\ db \in DBs /\ db.live \subseteq db.fromEnv \cup db.fromUI /\ db.fromEnv \cap db.fromUI = {}
  /\ \A c \in copies : c.at \in 1..clock /\ c.v = c.db.v
  /\ issued \subseteq Keys /\ dropped \subseteq issued

\* Nobody has the database open but the holder of the lock, up to the moment
\* it is closed.
OneWriter == \A p \in Procs : At(p, Holding) => lock = p

\* Whoever works on the database knows its schema, though others migrate it,
\* are killed half way, and put old copies of it back.
SchemaIsKnown == \A p \in Procs : At(p, {"serving", "working"}) => db.v = proc[p].bin

\* Unless an older database was put back, a migration runs only while a whole
\* copy of what it found is there (migrate.go: "after copying the database").
CopiedFirst ==
  \A p \in Procs : At(p, {"migrating"}) /\ proc[p].was.v > 0 /\ ~restored
    => \E c \in copies : c.whole /\ c.db = proc[p].was

\* A key a serving process accepts is the one in its environment, or one the
\* page issued that was not revoked there since an environment last held it;
\* unless a database was put back.
OnlyGrantedKeysWork ==
  \A p \in Procs : At(p, {"serving"}) /\ ~restored
    => Accepted \subseteq {proc[p].env} \cup (issued \ dropped)

\* The key in the environment works as long as the process serves, whatever
\* is revoked on the page, unless the page issued it.
EnvKeyWorks ==
  \A p \in Procs : At(p, {"serving"}) /\ proc[p].env \in Keys \ db.fromUI
    => proc[p].env \in Accepted

\* A server observes every provider that is configured (serve.go: "a service
\* that is not up yet is picked up as soon as it appears").
ServesConfigured ==
  \A p \in Procs : At(p, {"serving"}) => proc[p].insts = Providers \ Retyped
=============================================================================
