-------------------------- MODULE LifecycleProofs --------------------------
(***************************************************************************)
(* Theorems about Lifecycle, for any processes, keys, providers, versions  *)
(* and bounds: its type invariant; one process at a time has the database  *)
(* open; whoever works on it knows its schema; a migration has its copy;   *)
(* and the keys a server accepts are those somebody granted.               *)
(***************************************************************************)
EXTENDS Lifecycle, FiniteSetTheorems, TLAPS

Places == Holding \cup {"off", "starting", "closed"}

\* Every key that works has a row, and a row has one source.
GoodDBs == {d \in DBs : d.live \subseteq d.fromEnv \cup d.fromUI /\ d.fromEnv \cap d.fromUI = {}}

Processes == [at : Places, cmd : Commands, bin : Targets \cup {0}, env : Keys \cup {None},
              insts : SUBSET Providers, was : GoodDBs]

Copies == [v : 0..9, at : Nat, whole : BOOLEAN, db : GoodDBs]

TypeInv ==
  /\ env \in Keys \cup {None} /\ lock \in Procs \cup {None}
  /\ proc \in [Procs -> Processes]
  /\ db \in GoodDBs
  /\ copies \subseteq Copies /\ clock \in Nat
  /\ \A c \in copies : c.at \in 1..clock /\ c.v = c.db.v
  /\ issued \subseteq Keys /\ dropped \subseteq issued /\ restored \in BOOLEAN
  /\ db.fromUI \subseteq issued /\ \A c \in copies : c.db.fromUI \subseteq issued

\* Versions are counted up to nine.
LEMMA VersionsTyped == \A b \in Targets \cup {0} : b \in 0..9
<1>1. \A b \in Targets : b \in 1..9
  BY TargetsAssumption
<1>. QED
  BY <1>1

\* What is kept of the types implies what is checked of them.
LEMMA TypeInvImplies == TypeInv => TypeOK
<1>. SUFFICES ASSUME TypeInv PROVE TypeOK
  OBVIOUS
<1>1. Targets \cup {0} \subseteq Nat /\ GoodDBs \subseteq DBs
  BY TargetsAssumption DEF GoodDBs
<1>2. Processes \subseteq [at : Holding \cup {"off", "starting", "closed"}, cmd : Commands,
                         bin : Nat, env : Keys \cup {None}, insts : SUBSET Providers, was : DBs]
  BY <1>1 DEF Processes, Places
<1>3. proc \in [Procs -> [at : Holding \cup {"off", "starting", "closed"}, cmd : Commands,
                         bin : Nat, env : Keys \cup {None}, insts : SUBSET Providers, was : DBs]]
  BY <1>2 DEF TypeInv
<1>4. db \in DBs /\ db.live \subseteq db.fromEnv \cup db.fromUI /\ db.fromEnv \cap db.fromUI = {}
  BY DEF TypeInv, GoodDBs
<1>. QED
  BY <1>3, <1>4 DEF TypeInv, TypeOK

\* What Goes does to the processes.
LEMMA GoesMoves ==
  ASSUME TypeInv, NEW p \in Procs, NEW to \in Places, Goes(p, to)
  PROVE  /\ proc' \in [Procs -> Processes]
         /\ proc'[p].at = to /\ proc'[p].cmd = proc[p].cmd /\ proc'[p].bin = proc[p].bin
         /\ proc'[p].env = proc[p].env /\ proc'[p].was = proc[p].was
         /\ proc'[p].insts = proc[p].insts
         /\ \A q \in Procs \ {p} : proc'[q] = proc[q]
  BY DEF TypeInv, Goes, Processes

\* A process that is off.
LEMMA OffTyped == Off \in Processes /\ Off.at = "off"
<1>1. EmptyDB \in DBs
  BY DEF EmptyDB, DBs
<1>2. EmptyDB \in GoodDBs
  BY <1>1 DEF EmptyDB, GoodDBs
<1>. QED
  BY <1>2 DEF Off, Processes, Places, Commands, None

\* The first state is well typed.
LEMMA TypeInit == Init => TypeInv
<1>. SUFFICES ASSUME Init PROVE TypeInv
  OBVIOUS
<1>1. EmptyDB \in DBs
  BY DEF EmptyDB, DBs
<1>2. EmptyDB \in GoodDBs
  BY <1>1 DEF EmptyDB, GoodDBs
<1>. QED
  BY <1>2, OffTyped DEF Init, TypeInv, EmptyDB

\* Every step keeps the types.
LEMMA TypeStep == TypeInv /\ [Next]_vars => TypeInv'
<1>. SUFFICES ASSUME TypeInv, [Next]_vars PROVE TypeInv'
  OBVIOUS
<1>1. CASE UNCHANGED vars
  BY <1>1 DEF vars, TypeInv
<1>2. ASSUME NEW p \in Procs, NEW c \in Commands, NEW b \in Targets, Launch(p, c, b) PROVE TypeInv'
  <2>. DEFINE r == [Off EXCEPT !.at = "starting", !.cmd = c, !.bin = b, !.env = env]
  <2>1. r \in Processes
    BY OffTyped DEF TypeInv, Processes, Places
  <2>. HIDE DEF r
  <2>2. proc' = [proc EXCEPT ![p] = r]
    BY <1>2 DEF Launch, r
  <2>. QED
    BY <1>2, <2>1, <2>2 DEF Launch, TypeInv, keysKept
<1>3. ASSUME NEW p \in Procs, Lock(p) PROVE TypeInv'
  <2>1. proc' \in [Procs -> Processes]
    <3>1. CASE lock = None
      BY <1>3, <3>1, GoesMoves DEF Lock, Places, Holding
    <3>2. CASE lock # None
      BY <1>3, <3>2, OffTyped DEF Lock, TypeInv
    <3>. QED
      BY <3>1, <3>2
  <2>. QED
    BY <1>3, <2>1 DEF Lock, TypeInv, keysKept
<1>4. ASSUME NEW p \in Procs, Open(p) \/ CheckSchema(p) \/ Ends(p) \/ Close(p) PROVE TypeInv'
  <2>1. \E to \in Places : Goes(p, to)
    BY <1>4 DEF Open, CheckSchema, Ends, Close, Places, Holding
  <2>2. proc' \in [Procs -> Processes]
    BY <2>1, GoesMoves
  <2>. QED
    BY <1>4, <2>2 DEF Open, CheckSchema, Ends, Close, TypeInv, keysKept
<1>5. ASSUME NEW p \in Procs, BuildProviders(p) PROVE TypeInv'
  <2>1. db' \in GoodDBs /\ db'.fromUI \subseteq issued
    BY <1>5 DEF BuildProviders, TypeInv, GoodDBs, DBs
  <2>. DEFINE seen == IF db.v >= ReadFrom THEN Providers \ Retyped ELSE {}
              to   == IF proc[p].cmd = "other" THEN "working" ELSE "migrating?"
              mid  == [proc EXCEPT ![p].insts = seen]
  <2>2. proc' \in [Procs -> Processes]
    <3>1. seen \in SUBSET Providers /\ to \in Places
      BY DEF Places, Holding
    <3>. HIDE DEF seen, to
    <3>2. mid \in [Procs -> Processes]
      BY <3>1 DEF TypeInv, Processes
    <3>3. proc' = [mid EXCEPT ![p].at = to]
      BY <1>5 DEF BuildProviders, TypeInv, seen, to
    <3>. HIDE DEF mid
    <3>. QED
      BY <3>1, <3>2, <3>3 DEF Processes
  <2>. QED
    BY <1>5, <2>1, <2>2 DEF BuildProviders, TypeInv, keysKept
<1>6. ASSUME NEW p \in Procs, Migrate(p) PROVE TypeInv'
  <2>. DEFINE to  == IF RefusesNewer(db.v, proc[p].bin) THEN "closing"
                     ELSE IF db.v >= proc[p].bin THEN Migrated(p)
                     ELSE IF db.v > 0 THEN "copying" ELSE "migrating"
              mid == [proc EXCEPT ![p].was = db]
  <2>1. proc' \in [Procs -> Processes]
    <3>1. to \in Places
      BY DEF Migrated, Places, Holding
    <3>. HIDE DEF to
    <3>2. mid \in [Procs -> Processes]
      BY DEF TypeInv, Processes
    <3>3. proc' = [mid EXCEPT ![p].at = to]
      BY <1>6 DEF Migrate, TypeInv, to
    <3>. HIDE DEF mid
    <3>. QED
      BY <3>1, <3>2, <3>3 DEF Processes
  <2>. QED
    BY <1>6, <2>1 DEF Migrate, TypeInv, keysKept
<1>7. ASSUME NEW p \in Procs, CopyBegins(p) PROVE TypeInv'
  <2>. DEFINE new == [v |-> db.v, at |-> clock', whole |-> FALSE, db |-> db]
  <2>1. clock' = clock + 1 /\ copies' = copies \cup {new}
    BY <1>7 DEF CopyBegins
  <2>2. new \in Copies /\ new.at \in 1..clock' /\ new.v = new.db.v /\ new.db.fromUI \subseteq issued
    BY <2>1 DEF TypeInv, Copies, GoodDBs, DBs
  <2>. HIDE DEF new
  <2>3. \A c \in copies' : c.at \in 1..clock' /\ c.v = c.db.v /\ c.db.fromUI \subseteq issued
    BY <2>1, <2>2 DEF TypeInv
  <2>4. proc' \in [Procs -> Processes]
    BY <1>7, GoesMoves DEF CopyBegins, Places, Holding
  <2>. QED
    BY <1>7, <2>1, <2>2, <2>3, <2>4 DEF CopyBegins, TypeInv, keysKept
<1>8. ASSUME NEW p \in Procs, CopyEnds(p) PROVE TypeInv'
  <2>1. \A d \in copies' : d \in Copies /\ d.at \in 1..clock /\ d.v = d.db.v /\ d.db.fromUI \subseteq issued
    <3>. TAKE d \in copies'
    <3>1. PICK c \in copies : d = IF c.at = clock THEN [c EXCEPT !.whole = TRUE] ELSE c
      BY <1>8 DEF CopyEnds
    <3>. QED
      BY <3>1 DEF TypeInv, Copies
  <2>2. proc' \in [Procs -> Processes]
    BY <1>8, GoesMoves DEF CopyEnds, Places, Holding
  <2>. QED
    BY <1>8, <2>1, <2>2 DEF CopyEnds, TypeInv, keysKept
<1>9. ASSUME NEW p \in Procs, PruneBackups(p) \/ PruneFails(p) PROVE TypeInv'
  <2>1. copies' \subseteq copies
    BY <1>9 DEF PruneBackups, PruneFails
  <2>2. proc' \in [Procs -> Processes]
    BY <1>9, GoesMoves DEF PruneBackups, PruneFails, Places, Holding
  <2>3. UNCHANGED <<env, lock, db, clock, issued, dropped, restored>>
    BY <1>9 DEF PruneBackups, PruneFails, keysKept
  <2>4. copies' \subseteq Copies
    BY <2>1 DEF TypeInv
  <2>5. \A c \in copies' : c.at \in 1..clock' /\ c.v = c.db.v /\ c.db.fromUI \subseteq issued'
    BY <2>1, <2>3 DEF TypeInv
  <2>. QED
    BY <2>2, <2>3, <2>4, <2>5 DEF TypeInv
<1>10. ASSUME NEW p \in Procs, MigrationApplied(p) PROVE TypeInv'
  <2>1. proc[p].bin \in 0..9
    <3>1. proc[p].bin \in Targets \cup {0}
      BY DEF TypeInv, Processes
    <3>. QED
      BY <3>1, VersionsTyped
  <2>2. db' \in GoodDBs /\ db'.fromUI \subseteq issued
    BY <1>10, <2>1 DEF MigrationApplied, TypeInv, GoodDBs, DBs
  <2>. QED
    BY <1>10, <2>2 DEF MigrationApplied, TypeInv, keysKept
<1>11. ASSUME NEW p \in Procs, MigrationsDone(p) \/ StepFails(p) PROVE TypeInv'
  <2>1. proc' \in [Procs -> Processes]
    BY <1>11, GoesMoves DEF MigrationsDone, StepFails, Migrated, Places, Holding
  <2>. QED
    BY <1>11, <2>1 DEF MigrationsDone, StepFails, TypeInv, keysKept
<1>12. ASSUME NEW p \in Procs, EnsureAdminKey(p) PROVE TypeInv'
  <2>1. proc[p].env \in Keys \cup {None}
    BY DEF TypeInv, Processes
  <2>2. db' \in GoodDBs /\ db'.fromUI \subseteq issued
    BY <1>12, <2>1 DEF EnsureAdminKey, Sourced, TypeInv, GoodDBs, DBs
  <2>3. proc' \in [Procs -> Processes]
    BY <1>12, GoesMoves DEF EnsureAdminKey, Places, Holding
  <2>. QED
    BY <1>12, <2>2, <2>3 DEF EnsureAdminKey, TypeInv
<1>13. ASSUME NEW p \in Procs, RevokeEnvKeysExcept(p) PROVE TypeInv'
  <2>1. db' \in GoodDBs /\ db'.fromUI \subseteq issued
    BY <1>13 DEF RevokeEnvKeysExcept, TypeInv, GoodDBs, DBs
  <2>2. proc' \in [Procs -> Processes]
    BY <1>13, GoesMoves DEF RevokeEnvKeysExcept, Places, Holding
  <2>. QED
    BY <1>13, <2>1, <2>2 DEF RevokeEnvKeysExcept, TypeInv, keysKept
<1>14. ASSUME NEW p \in Procs, NEW k \in Keys, IssueAdminKey(p, k) PROVE TypeInv'
  <2>1. db' \in GoodDBs /\ db'.fromUI \subseteq issued'
    BY <1>14 DEF IssueAdminKey, TypeInv, GoodDBs, DBs
  <2>. QED
    BY <1>14, <2>1 DEF IssueAdminKey, TypeInv
<1>15. ASSUME NEW p \in Procs, NEW k \in Keys, RevokeAdminKey(p, k) PROVE TypeInv'
  <2>1. db' \in GoodDBs /\ db'.fromUI \subseteq issued
    BY <1>15 DEF RevokeAdminKey, TypeInv, GoodDBs, DBs
  <2>2. dropped' \subseteq issued
    BY <1>15 DEF RevokeAdminKey, Revocable, TypeInv
  <2>. QED
    BY <1>15, <2>1, <2>2 DEF RevokeAdminKey, TypeInv
<1>16. ASSUME NEW p \in Procs, Release(p) \/ Exit(p) \/ Kill(p) PROVE TypeInv'
  <2>1. proc' \in [Procs -> Processes] /\ lock' \in Procs \cup {None}
    BY <1>16, OffTyped DEF Release, Exit, Kill, TypeInv
  <2>. QED
    BY <1>16, <2>1 DEF Release, Exit, Kill, TypeInv, keysKept
<1>17. ASSUME NEW k \in Keys \cup {None}, EditsEnvironment(k) PROVE TypeInv'
  BY <1>17 DEF EditsEnvironment, TypeInv, keysKept
<1>18. ASSUME NEW c \in copies, PutsBack(c) PROVE TypeInv'
  BY <1>18 DEF PutsBack, TypeInv, Copies, keysKept
<1>. QED
  BY <1>1, <1>2, <1>3, <1>4, <1>5, <1>6, <1>7, <1>8, <1>9, <1>10, <1>11, <1>12, <1>13, <1>14,
     <1>15, <1>16, <1>17, <1>18 DEF Next, Step
-----------------------------------------------------------------------------
(* Where each step leaves the processes.                                   *)

\* Whoever has the database open has it alone.
LEMMA Alone ==
  ASSUME OneWriter, NEW p \in Procs, At(p, Holding), NEW q \in Procs \ {p}
  PROVE  ~At(q, Holding)
  BY DEF OneWriter

\* Registering and looking at the version also store what they found.
LEMMA FoundMoves ==
  ASSUME TypeInv, NEW p \in Procs, BuildProviders(p) \/ Migrate(p)
  PROVE  /\ \A q \in Procs \ {p} : proc'[q] = proc[q]
         /\ proc'[p].cmd = proc[p].cmd /\ proc'[p].bin = proc[p].bin /\ proc'[p].env = proc[p].env
         /\ BuildProviders(p) => proc'[p].at = IF proc[p].cmd = "other" THEN "working" ELSE "migrating?"
         /\ Migrate(p) => /\ proc'[p].was = db
                          /\ proc'[p].at = IF RefusesNewer(db.v, proc[p].bin) THEN "closing"
                                           ELSE IF db.v >= proc[p].bin THEN Migrated(p)
                                           ELSE IF db.v > 0 THEN "copying" ELSE "migrating"
  BY DEF TypeInv, Processes, BuildProviders, Migrate

\* A step of one process leaves the others where they are.
LEMMA OthersStay ==
  ASSUME TypeInv, NEW p \in Procs, Step(p) \/ Ends(p) \/ Kill(p)
  PROVE  \A q \in Procs \ {p} : proc'[q] = proc[q]
<1>1. CASE BuildProviders(p) \/ Migrate(p)
  BY <1>1, FoundMoves
<1>2. CASE MigrationApplied(p) \/ Release(p) \/ Lock(p) \/ Exit(p) \/ Kill(p)
  BY <1>2 DEF MigrationApplied, Release, Lock, Exit, Kill, Goes, TypeInv
<1>3. CASE Open(p) \/ CheckSchema(p) \/ CopyBegins(p) \/ CopyEnds(p) \/ PruneBackups(p) \/ PruneFails(p)
  BY <1>3 DEF Open, CheckSchema, CopyBegins, CopyEnds, PruneBackups, PruneFails, Goes, TypeInv
<1>4. CASE MigrationsDone(p) \/ StepFails(p) \/ EnsureAdminKey(p) \/ RevokeEnvKeysExcept(p) \/ Close(p) \/ Ends(p)
  BY <1>4 DEF MigrationsDone, StepFails, EnsureAdminKey, RevokeEnvKeysExcept, Close, Ends, Goes, TypeInv
<1>. QED
  BY <1>1, <1>2, <1>3, <1>4 DEF Step

\* Who has it open keeps it until it is closed; who gets it open found it free.
LEMMA HeldMoves ==
  ASSUME TypeInv, NEW p \in Procs, Step(p) \/ Ends(p) \/ Kill(p)
  PROVE  \/ At(p, Holding) /\ lock' = lock
         \/ ~At(p, Holding)' /\ lock' \in {lock, None} /\ (lock' # lock => lock = p)
         \/ lock = None /\ lock' = p
<1>1. CASE BuildProviders(p) \/ Migrate(p) \/ MigrationApplied(p)
  BY <1>1 DEF BuildProviders, Migrate, MigrationApplied, At, Holding
<1>2. CASE Release(p) \/ Exit(p) \/ Kill(p)
  BY <1>2, OffTyped DEF Release, Closed, Exit, Kill, At, Holding, TypeInv
<1>3. CASE Lock(p)
  BY <1>3, OffTyped DEF Lock, At, Holding, TypeInv
<1>4. CASE Open(p) \/ CheckSchema(p) \/ CopyBegins(p) \/ CopyEnds(p) \/ PruneBackups(p) \/ PruneFails(p)
  BY <1>4 DEF Open, CheckSchema, CopyBegins, CopyEnds, PruneBackups, PruneFails, At, Holding
<1>5. CASE MigrationsDone(p) \/ StepFails(p) \/ EnsureAdminKey(p) \/ RevokeEnvKeysExcept(p) \/ Close(p) \/ Ends(p)
  BY <1>5 DEF MigrationsDone, StepFails, EnsureAdminKey, RevokeEnvKeysExcept, Close, Ends, At, Holding
<1>. QED
  BY <1>1, <1>2, <1>3, <1>4, <1>5 DEF Step

\* What is not a step of a process, nor its end.
Elsewhere ==
  \/ \E p \in Procs :
       \/ \E c \in Commands, b \in Targets : Launch(p, c, b)
       \/ \E k \in Keys : IssueAdminKey(p, k) \/ RevokeAdminKey(p, k)
  \/ \E k \in Keys \cup {None} : EditsEnvironment(k)
  \/ \E c \in copies : PutsBack(c)
  \/ UNCHANGED vars

\* Every step is one of a process, or happens elsewhere.
LEMMA NextCases ==
  ASSUME [Next]_vars
  PROVE  Elsewhere \/ \E p \in Procs : Step(p) \/ Ends(p) \/ Kill(p)
  BY DEF Next, Elsewhere

\* There a process stays as it is, or is launched.
LEMMA ElsewhereStays ==
  ASSUME TypeInv, Elsewhere
  PROVE  /\ lock' = lock
         /\ \A q \in Procs : proc'[q] = proc[q] \/ proc'[q].at = "starting"
<1>1. ASSUME NEW p \in Procs, NEW c \in Commands, NEW b \in Targets, Launch(p, c, b)
      PROVE  /\ lock' = lock
             /\ \A q \in Procs : proc'[q] = proc[q] \/ proc'[q].at = "starting"
  <2>1. [Off EXCEPT !.at = "starting", !.cmd = c, !.bin = b, !.env = env].at = "starting"
    BY DEF Off
  <2>. QED
    BY <1>1, <2>1 DEF Launch, TypeInv
<1>2. ASSUME NEW p \in Procs, NEW k \in Keys, IssueAdminKey(p, k) \/ RevokeAdminKey(p, k)
      PROVE  proc' = proc /\ lock' = lock
  BY <1>2 DEF IssueAdminKey, RevokeAdminKey
<1>3. ASSUME NEW k \in Keys \cup {None}, EditsEnvironment(k) PROVE proc' = proc /\ lock' = lock
  BY <1>3 DEF EditsEnvironment
<1>4. ASSUME NEW c \in copies, PutsBack(c) PROVE proc' = proc /\ lock' = lock
  BY <1>4 DEF PutsBack
<1>. QED
  BY <1>1, <1>2, <1>3, <1>4 DEF Elsewhere, vars
-----------------------------------------------------------------------------
(* One writer.                                                             *)

\* Every step keeps the database with one process.
LEMMA LockStep == TypeInv /\ OneWriter /\ [Next]_vars => OneWriter'
<1>. SUFFICES ASSUME TypeInv, OneWriter, [Next]_vars, NEW q \in Procs, At(q, Holding)'
              PROVE  lock' = q
  BY DEF OneWriter
<1>1. CASE Elsewhere
  BY <1>1, ElsewhereStays DEF OneWriter, At, Holding
<1>2. ASSUME NEW p \in Procs, Step(p) \/ Ends(p) \/ Kill(p) PROVE lock' = q
  <2>1. CASE p = q
    BY <1>2, <2>1, HeldMoves DEF OneWriter
  <2>2. CASE p # q
    <3>1. proc'[q] = proc[q]
      BY <1>2, <2>2, OthersStay
    <3>2. lock = q
      BY <3>1 DEF OneWriter, At
    <3>3. q # None
      BY NoneAssumption DEF None
    <3>. QED
      BY <1>2, <2>2, <3>2, <3>3, HeldMoves DEF OneWriter
  <2>. QED
    BY <2>1, <2>2
<1>. QED
  BY <1>1, <1>2, NextCases
-----------------------------------------------------------------------------
(* The schema.                                                             *)

Checked(p) ==
  \/ At(p, {"storing key", "revoking keys", "serving", "working"})
  \/ At(p, {"registering"}) /\ proc[p].cmd = "other"

SchemaInv == \A p \in Procs : Checked(p) => db.v = proc[p].bin

\* Nobody changes the version but a migration, and a copy put back.
LEMMA VersionKept ==
  ASSUME TypeInv, NEW p \in Procs, Step(p) \/ Ends(p) \/ Kill(p)
  PROVE  db'.v = db.v \/ MigrationApplied(p)
<1>1. CASE BuildProviders(p) \/ EnsureAdminKey(p) \/ RevokeEnvKeysExcept(p)
  BY <1>1 DEF BuildProviders, EnsureAdminKey, RevokeEnvKeysExcept, TypeInv, GoodDBs, DBs
<1>2. CASE Lock(p) \/ Open(p) \/ CheckSchema(p) \/ Migrate(p) \/ CopyBegins(p) \/ CopyEnds(p)
  BY <1>2 DEF Lock, Open, CheckSchema, Migrate, CopyBegins, CopyEnds
<1>3. CASE PruneBackups(p) \/ PruneFails(p) \/ MigrationsDone(p) \/ StepFails(p)
  BY <1>3 DEF PruneBackups, PruneFails, MigrationsDone, StepFails
<1>4. CASE Close(p) \/ Release(p) \/ Exit(p) \/ Ends(p) \/ Kill(p)
  BY <1>4 DEF Close, Release, Exit, Ends, Kill
<1>. QED
  BY <1>1, <1>2, <1>3, <1>4 DEF Step

\* A process that has checked the schema, or migrated it, goes on with it.
LEMMA CheckedMoves ==
  ASSUME TypeInv, SchemaInv, NEW p \in Procs, Step(p) \/ Ends(p) \/ Kill(p), Checked(p)'
  PROVE  db.v = proc[p].bin /\ proc'[p].bin = proc[p].bin /\ ~MigrationApplied(p)
<1>1. CASE BuildProviders(p)
  <2>1. /\ proc'[p].bin = proc[p].bin
        /\ proc'[p].at = IF proc[p].cmd = "other" THEN "working" ELSE "migrating?"
    BY <1>1, FoundMoves
  <2>2. proc[p].cmd = "other"
    BY <2>1 DEF Checked, At
  <2>3. proc[p].at = "registering"
    BY <1>1 DEF BuildProviders, At
  <2>. QED
    BY <2>1, <2>2, <2>3 DEF SchemaInv, Checked, MigrationApplied, At
<1>2. CASE Migrate(p)
  <2>1. ~RefusesNewer(db.v, proc[p].bin) /\ db.v >= proc[p].bin
    BY <1>2, FoundMoves DEF Checked, At
  <2>2. db.v \in 0..9 /\ proc[p].bin \in 0..9
    BY VersionsTyped DEF TypeInv, GoodDBs, DBs, Processes
  <2>3. proc[p].at = "migrating?"
    BY <1>2 DEF Migrate, At
  <2>4. proc'[p].bin = proc[p].bin
    BY <1>2, FoundMoves
  <2>. QED
    BY <2>1, <2>2, <2>3, <2>4 DEF RefusesNewer, MigrationApplied, At
<1>3. CASE MigrationApplied(p) \/ Release(p)
  BY <1>3 DEF MigrationApplied, Release, Closed, Checked, At
<1>4. CASE Lock(p) \/ Exit(p) \/ Kill(p)
  <2>1. proc'[p].at \in {"locked", "off"}
    BY <1>4, OffTyped DEF Lock, Exit, Kill, Goes, TypeInv, Processes
  <2>. QED
    BY <2>1 DEF Checked, At
<1>6. CASE Open(p)
  <2> DEFINE to == IF proc[p].cmd = "other" THEN "checking" ELSE "registering"
  <2>1. Goes(p, to) /\ to \in Places
    BY <1>6 DEF Open, Places, Holding
  <2>2. proc'[p].at = to /\ proc'[p].cmd = proc[p].cmd
    BY <2>1, GoesMoves
  <2>. QED
    BY <2>2 DEF Checked, At
<1>8. CASE CheckSchema(p)
  <2> DEFINE to == IF db.v = proc[p].bin THEN "registering" ELSE "closing"
  <2>1. Goes(p, to) /\ to \in Places /\ proc[p].at = "checking"
    BY <1>8 DEF CheckSchema, Known, Places, Holding, At
  <2>2. proc'[p].at = to /\ proc'[p].bin = proc[p].bin
    BY <2>1, GoesMoves
  <2>. QED
    BY <2>1, <2>2 DEF Checked, At, MigrationApplied
<1>7. CASE CopyBegins(p) \/ CopyEnds(p) \/ PruneBackups(p) \/ PruneFails(p) \/ StepFails(p) \/ Close(p) \/ Ends(p)
  <2>1. proc'[p].at \in {"vacuuming", "pruning", "migrating", "closing", "closed"}
    BY <1>7 DEF CopyBegins, CopyEnds, PruneBackups, PruneFails, StepFails, Close, Ends, Goes, TypeInv, Processes
  <2>. QED
    BY <2>1 DEF Checked, At
<1>5. CASE MigrationsDone(p) \/ EnsureAdminKey(p) \/ RevokeEnvKeysExcept(p)
  <2>1. PICK to \in Places : Goes(p, to)
    BY <1>5 DEF MigrationsDone, Migrated, EnsureAdminKey, RevokeEnvKeysExcept, Places, Holding
  <2>2. proc'[p].bin = proc[p].bin
    BY <2>1, GoesMoves
  <2>3. CASE MigrationsDone(p)
    <3>1. db.v = proc[p].bin /\ db.v \in 0..9
      BY <2>3, VersionsTyped DEF MigrationsDone, TypeInv, GoodDBs, DBs
    <3>. QED
      BY <2>2, <3>1 DEF MigrationApplied
  <2>4. CASE EnsureAdminKey(p) \/ RevokeEnvKeysExcept(p)
    <3>1. proc[p].at \in {"storing key", "revoking keys"}
      BY <2>4 DEF EnsureAdminKey, RevokeEnvKeysExcept, At
    <3>. QED
      BY <2>2, <3>1 DEF SchemaInv, Checked, At, MigrationApplied
  <2>. QED
    BY <1>5, <2>3, <2>4
<1>. QED
  BY <1>1, <1>2, <1>3, <1>4, <1>5, <1>6, <1>7, <1>8 DEF Step

\* Who has checked the schema has the database open.
LEMMA CheckedHolds ==
  ASSUME NEW p \in Procs, Checked(p)
  PROVE  At(p, Holding)
  BY DEF Checked, At, Holding

\* Every step keeps what was checked true.
LEMMA SchemaStep == TypeInv /\ OneWriter /\ SchemaInv /\ [Next]_vars => SchemaInv'
<1>. SUFFICES ASSUME TypeInv, OneWriter, SchemaInv, [Next]_vars, NEW q \in Procs, Checked(q)'
              PROVE  db'.v = proc'[q].bin
  BY DEF SchemaInv
<1>1. CASE Elsewhere
  <2>1. proc'[q] = proc[q] /\ Checked(q)
    BY <1>1, ElsewhereStays DEF Checked, At
  <2>2. db'.v = db.v
    <3>1. ASSUME NEW c \in copies, PutsBack(c) PROVE FALSE
      BY <3>1, <2>1 DEF PutsBack, Checked, At
    <3>2. ASSUME NEW p \in Procs, NEW k \in Keys, IssueAdminKey(p, k) \/ RevokeAdminKey(p, k)
          PROVE  db'.v = db.v
      BY <3>2 DEF IssueAdminKey, RevokeAdminKey, TypeInv, GoodDBs, DBs
    <3>. QED
      BY <1>1, <3>1, <3>2 DEF Elsewhere, Launch, EditsEnvironment, vars
  <2>. QED
    BY <2>1, <2>2 DEF SchemaInv
<1>2. ASSUME NEW p \in Procs, Step(p) \/ Ends(p) \/ Kill(p) PROVE db'.v = proc'[q].bin
  <2>1. CASE p = q
    BY <1>2, <2>1, CheckedMoves, VersionKept
  <2>2. CASE p # q
    <3>1. proc'[q] = proc[q] /\ Checked(q)
      BY <1>2, <2>2, OthersStay DEF Checked, At
    <3>2. ~MigrationApplied(p)
      BY <2>2, <3>1, CheckedHolds, Alone DEF MigrationApplied, At, Holding
    <3>. QED
      BY <1>2, <3>1, <3>2, VersionKept DEF SchemaInv
  <2>. QED
    BY <2>1, <2>2
<1>. QED
  BY <1>1, <1>2, NextCases
-----------------------------------------------------------------------------
(* The copy.                                                               *)

Behind(p) ==
  /\ At(p, {"copying"})   => proc[p].was = db
  /\ At(p, {"vacuuming"}) => proc[p].was = db /\ \E c \in copies : c.at = clock /\ c.db = db
  /\ At(p, {"pruning"})   => proc[p].was = db /\ \E c \in copies : c.at = clock /\ c.whole /\ c.db = db
  /\ At(p, {"migrating"}) /\ proc[p].was.v > 0 => \E c \in copies : c.whole /\ c.db = proc[p].was

\* Until an older database is put back no copy is newer than what is there.
CopyInv ==
  ~restored => /\ \A c \in copies : c.v <= db.v
               /\ \A p \in Procs : Behind(p)

\* The pruning keeps a copy that is the newest and of the newest version.
LEMMA LatestIsKept ==
  ASSUME TypeInv, NEW c \in copies, c.at = clock, \A d \in copies : d.v <= c.v
  PROVE  c \notin Excess(copies)
<1>1. ASSUME NEW d \in copies PROVE ~SortsBefore(c, d)
  <2>1. c.v \in 0..9 /\ d.v \in 0..9 /\ d.at \in 1..clock /\ clock \in Nat
    BY DEF TypeInv, Copies
  <2>. QED
    BY <2>1 DEF SortsBefore
<1>2. {d \in copies : SortsBefore(c, d)} = {}
  BY <1>1
<1>3. Cardinality({}) = 0
  BY FS_EmptySet
<1>4. ~(0 >= BackupsKept)
  BY KeptAssumption
<1>. QED
  BY <1>2, <1>3, <1>4 DEF Excess

\* Every step keeps the copies no newer than the database.
LEMMA OrderStep ==
  ASSUME TypeInv, OneWriter, ~restored, \A c \in copies : c.v <= db.v, [Next]_vars, ~restored'
  PROVE  \A c \in copies' : c.v <= db'.v
<1>1. CASE Elsewhere
  <2>1. db'.v = db.v /\ copies' = copies
    <3>1. ASSUME NEW c \in copies, PutsBack(c) PROVE FALSE
      BY <3>1 DEF PutsBack
    <3>2. ASSUME NEW p \in Procs, NEW k \in Keys, IssueAdminKey(p, k) \/ RevokeAdminKey(p, k)
          PROVE  db'.v = db.v /\ copies' = copies
      BY <3>2 DEF IssueAdminKey, RevokeAdminKey, TypeInv, GoodDBs, DBs
    <3>. QED
      BY <1>1, <3>1, <3>2 DEF Elsewhere, Launch, EditsEnvironment, vars
  <2>. QED
    BY <2>1
<1>2. ASSUME NEW p \in Procs, Step(p) \/ Ends(p) \/ Kill(p) PROVE \A c \in copies' : c.v <= db'.v
  <2>1. CASE MigrationApplied(p)
    <3>1. copies' = copies /\ db'.v = db.v + 1 /\ db.v \in 0..9
      BY <2>1 DEF MigrationApplied, TypeInv, GoodDBs, DBs
    <3>2. \A c \in copies : c.v \in 0..9
      BY DEF TypeInv, Copies
    <3>. QED
      BY <3>1, <3>2
  <2>2. CASE ~MigrationApplied(p)
    <3>1. db'.v = db.v
      BY <1>2, <2>2, VersionKept
    <3>2. \A d \in copies' : d.v = db.v \/ \E c \in copies : c.v = d.v
      <4>1. CASE CopyBegins(p)
        BY <4>1 DEF CopyBegins
      <4>2. CASE CopyEnds(p)
        <5>. SUFFICES ASSUME NEW d \in copies' PROVE \E c \in copies : c.v = d.v
          OBVIOUS
        <5>1. PICK c \in copies : d = IF c.at = clock THEN [c EXCEPT !.whole = TRUE] ELSE c
          BY <4>2 DEF CopyEnds
        <5>. QED
          BY <5>1 DEF TypeInv, Copies
      <4>3. CASE PruneBackups(p) \/ PruneFails(p)
        BY <4>3 DEF PruneBackups, PruneFails
      <4>4. CASE ~(CopyBegins(p) \/ CopyEnds(p) \/ PruneBackups(p) \/ PruneFails(p))
        BY <1>2, <2>2, <4>4 DEF Step, Lock, Open, CheckSchema, BuildProviders, Migrate, MigrationsDone, StepFails,
           EnsureAdminKey, RevokeEnvKeysExcept, Close, Release, Exit, Ends, Kill
      <4>. QED
        BY <4>1, <4>2, <4>3, <4>4
    <3>3. db.v \in 0..9
      BY DEF TypeInv, GoodDBs, DBs
    <3>. QED
      BY <3>1, <3>2, <3>3
  <2>. QED
    BY <2>1, <2>2
<1>. QED
  BY <1>1, <1>2, NextCases

\* What one process does to its own copy.
LEMMA BehindMoves ==
  ASSUME TypeInv, CopyInv, NEW p \in Procs, Step(p) \/ Ends(p) \/ Kill(p), ~restored, ~restored'
  PROVE  Behind(p)'
<1>0. Behind(p) /\ \A c \in copies : c.v <= db.v
  BY DEF CopyInv
<1>1. CASE Migrate(p)
  <2>1. proc'[p].was = db /\ db' = db /\ copies' = copies /\ clock' = clock
    BY <1>1, FoundMoves DEF Migrate
  <2>2. \/ proc'[p].at \in {"closing", "storing key", "copying"}
        \/ proc'[p].at = "migrating" /\ ~(db.v > 0)
    BY <1>1, FoundMoves DEF Migrated
  <2>. QED
    BY <2>1, <2>2 DEF Behind, At
<1>2. CASE CopyBegins(p)
  <2>1. proc'[p].at = "vacuuming" /\ proc'[p].was = proc[p].was /\ proc[p].at = "copying"
    BY <1>2, GoesMoves DEF CopyBegins, At, Places, Holding
  <2>. DEFINE new == [v |-> db.v, at |-> clock', whole |-> FALSE, db |-> db]
  <2>2. new \in copies' /\ new.at = clock' /\ new.db = db /\ db' = db
    BY <1>2 DEF CopyBegins
  <2>3. proc[p].was = db
    BY <1>0, <2>1 DEF Behind, At
  <2>. HIDE DEF new
  <2>. QED
    BY <2>1, <2>2, <2>3 DEF Behind, At
<1>3. CASE CopyEnds(p)
  <2>1. proc'[p].at = "pruning" /\ proc'[p].was = proc[p].was /\ proc[p].at = "vacuuming"
    BY <1>3, GoesMoves DEF CopyEnds, At, Places, Holding
  <2>2. PICK c \in copies : c.at = clock /\ c.db = db
    BY <1>0, <2>1 DEF Behind, At
  <2>. DEFINE d == [c EXCEPT !.whole = TRUE]
  <2>3. d \in copies'
    BY <1>3, <2>2 DEF CopyEnds
  <2>4. d.at = clock /\ d.whole /\ d.db = db /\ clock' = clock /\ db' = db /\ proc[p].was = db
    BY <1>0, <1>3, <2>1, <2>2 DEF CopyEnds, TypeInv, Copies, Behind, At
  <2>. HIDE DEF d
  <2>. QED
    BY <2>1, <2>3, <2>4 DEF Behind, At
<1>4. CASE PruneBackups(p)
  <2>1. proc'[p].at = "migrating" /\ proc'[p].was = proc[p].was /\ proc[p].at = "pruning"
    BY <1>4, GoesMoves DEF PruneBackups, At, Places, Holding
  <2>2. PICK c \in copies : c.at = clock /\ c.whole /\ c.db = db
    BY <1>0, <2>1 DEF Behind, At
  <2>3. c.v = db.v
    BY <2>2 DEF TypeInv
  <2>4. c \notin Excess(copies)
    BY <1>0, <2>2, <2>3, LatestIsKept
  <2>5. c \in copies'
    BY <1>4, <2>2, <2>4 DEF PruneBackups
  <2>6. proc[p].was = db
    BY <1>0, <2>1 DEF Behind, At
  <2>. QED
    BY <2>1, <2>2, <2>5, <2>6 DEF Behind, At
<1>5. CASE MigrationApplied(p)
  BY <1>0, <1>5 DEF MigrationApplied, Behind, At
<1>6. CASE Lock(p) \/ Open(p) \/ CheckSchema(p) \/ BuildProviders(p) \/ Exit(p) \/ Kill(p) \/ Release(p)
  <2>1. proc'[p].at \notin {"copying", "vacuuming", "pruning", "migrating"}
    <3>1. CASE BuildProviders(p)
      BY <3>1, FoundMoves
    <3>2. CASE Release(p)
      BY <3>2 DEF Release, Closed, At
    <3>3. CASE Lock(p) \/ Exit(p) \/ Kill(p)
      BY <3>3, OffTyped DEF Lock, Exit, Kill, Goes, TypeInv, Processes
    <3>4. CASE Open(p) \/ CheckSchema(p)
      BY <3>4 DEF Open, CheckSchema, Goes, TypeInv, Processes
    <3>. QED
      BY <1>6, <3>1, <3>2, <3>3, <3>4
  <2>. QED
    BY <2>1 DEF Behind, At
<1>7. CASE PruneFails(p) \/ MigrationsDone(p) \/ StepFails(p) \/ EnsureAdminKey(p) \/ RevokeEnvKeysExcept(p)
           \/ Close(p) \/ Ends(p)
  <2>1. proc'[p].at \notin {"copying", "vacuuming", "pruning", "migrating"}
    <3>1. \E to \in {"storing key", "revoking keys", "serving", "closing", "closed"} : Goes(p, to)
      BY <1>7 DEF PruneFails, MigrationsDone, Migrated, StepFails, EnsureAdminKey, RevokeEnvKeysExcept, Close, Ends
    <3>. QED
      BY <3>1 DEF Goes, TypeInv, Processes
  <2>. QED
    BY <2>1 DEF Behind, At
<1>. QED
  BY <1>1, <1>2, <1>3, <1>4, <1>5, <1>6, <1>7 DEF Step

\* While nobody has the database open, nothing is behind.
LEMMA IdleIsBehind ==
  ASSUME NEW q \in Procs, ~At(q, Holding)
  PROVE  Behind(q)
  BY DEF Behind, At, Holding

\* Every step keeps the copy of what is being migrated.
LEMMA CopyStep == TypeInv /\ OneWriter /\ CopyInv /\ [Next]_vars => CopyInv'
<1>. SUFFICES ASSUME TypeInv, OneWriter, CopyInv, [Next]_vars, ~restored' PROVE CopyInv'
  BY DEF CopyInv
<1>1. ~restored
  <2>1. CASE Elsewhere
    BY <2>1 DEF Elsewhere, Launch, IssueAdminKey, RevokeAdminKey, EditsEnvironment, PutsBack, vars
  <2>2. ASSUME NEW p \in Procs, Step(p) \/ Ends(p) \/ Kill(p) PROVE ~restored
    BY <2>2 DEF Step, Lock, Open, CheckSchema, BuildProviders, Migrate, CopyBegins, CopyEnds, PruneBackups,
       PruneFails, MigrationApplied, MigrationsDone, StepFails, EnsureAdminKey, RevokeEnvKeysExcept, Close,
       Release, Exit, Ends, Kill
  <2>. QED
    BY <2>1, <2>2, NextCases
<1>2. \A c \in copies' : c.v <= db'.v
  BY <1>1, OrderStep DEF CopyInv
<1>3. ASSUME NEW q \in Procs PROVE Behind(q)'
  <2>1. CASE Elsewhere
    <3>1. ASSUME NEW c \in copies, PutsBack(c) PROVE FALSE
      BY <1>1, <3>1 DEF PutsBack
    <3>2. ASSUME NEW p \in Procs, NEW k \in Keys, IssueAdminKey(p, k) \/ RevokeAdminKey(p, k)
          PROVE  Behind(q)'
      <4>1. proc' = proc /\ At(p, {"serving"})
        BY <3>2 DEF IssueAdminKey, RevokeAdminKey
      <4>2. CASE p = q
        BY <4>1, <4>2 DEF Behind, At
      <4>3. CASE p # q
        <5>1. ~At(q, Holding)'
          BY <4>1, <4>3, Alone DEF At, Holding
        <5>. QED
          BY <5>1 DEF Behind, At, Holding
      <4>. QED
        BY <4>2, <4>3
    <3>3. CASE UNCHANGED <<db, copies, clock>>
      BY <1>1, <2>1, <3>3, ElsewhereStays DEF CopyInv, Behind, At
    <3>. QED
      BY <2>1, <3>1, <3>2, <3>3 DEF Elsewhere, Launch, EditsEnvironment, vars
  <2>2. ASSUME NEW p \in Procs, Step(p) \/ Ends(p) \/ Kill(p) PROVE Behind(q)'
    <3>1. CASE p = q
      BY <1>1, <2>2, <3>1, BehindMoves
    <3>2. CASE p # q /\ At(p, Holding)
      <4>1. ~At(q, Holding)'
        BY <2>2, <3>2, OthersStay, Alone DEF At
      <4>. QED
        BY <4>1 DEF Behind, At, Holding
    <3>3. CASE p # q /\ ~At(p, Holding)
      <4>1. UNCHANGED <<db, copies, clock>>
        BY <2>2, <3>3 DEF Step, Lock, Open, CheckSchema, BuildProviders, Migrate, CopyBegins, CopyEnds, PruneBackups,
           PruneFails, MigrationApplied, MigrationsDone, StepFails, EnsureAdminKey, RevokeEnvKeysExcept, Close,
           Release, Exit, Ends, Kill, At, Holding
      <4>2. proc'[q] = proc[q]
        BY <2>2, <3>3, OthersStay
      <4>. QED
        BY <1>1, <4>1, <4>2 DEF CopyInv, Behind, At
    <3>. QED
      BY <3>1, <3>2, <3>3
  <2>. QED
    BY <2>1, <2>2, NextCases
<1>. QED
  BY <1>2, <1>3 DEF CopyInv
-----------------------------------------------------------------------------
(* The keys.                                                               *)

\* Of the page's keys, those that work are granted; of the environment's, a
\* server accepts its own.
GrantInv ==
  ~restored => /\ db.live \cap db.fromUI \subseteq issued \ dropped
               /\ \A p \in Procs : At(p, {"serving"}) => db.live \cap db.fromEnv \subseteq {proc[p].env}

\* What a server was started with works, from the moment it is stored.
EnvInv ==
  \A p \in Procs : At(p, {"revoking keys", "serving"}) /\ proc[p].env \in Keys \ db.fromUI
    => proc[p].env \in db.live

\* Most steps do nothing to keys.
keysOf(d) == <<d.live, d.fromEnv, d.fromUI>>

LEMMA KeysKept ==
  ASSUME TypeInv, NEW p \in Procs, Step(p) \/ Ends(p) \/ Kill(p),
         ~EnsureAdminKey(p), ~RevokeEnvKeysExcept(p)
  PROVE  /\ keysOf(db') = keysOf(db) /\ dropped' = dropped /\ issued' = issued /\ restored' = restored
         /\ ~At(p, {"revoking keys", "serving"})'
<1>1. CASE BuildProviders(p) \/ MigrationApplied(p)
  <2>1. /\ keysOf(db') = keysOf(db)
        /\ dropped' = dropped /\ issued' = issued /\ restored' = restored
    BY <1>1 DEF BuildProviders, MigrationApplied, keysOf, TypeInv, GoodDBs, DBs, keysKept
  <2>2. ~At(p, {"revoking keys", "serving"})'
    BY <1>1, FoundMoves DEF MigrationApplied, At
  <2>. QED
    BY <2>1, <2>2
<1>2. CASE Lock(p) \/ Open(p) \/ CheckSchema(p) \/ Exit(p) \/ Kill(p) \/ Release(p)
  <2>1. db' = db /\ dropped' = dropped /\ issued' = issued /\ restored' = restored
    BY <1>2 DEF Lock, Open, CheckSchema, Exit, Kill, Release, keysKept
  <2>2. ~At(p, {"revoking keys", "serving"})'
    <3>1. CASE Release(p)
      BY <3>1 DEF Release, Closed, At
    <3>2. CASE Lock(p) \/ Exit(p) \/ Kill(p)
      BY <3>2, OffTyped DEF Lock, Exit, Kill, Goes, At, TypeInv, Processes
    <3>3. CASE Open(p) \/ CheckSchema(p)
      BY <3>3 DEF Open, CheckSchema, Goes, At, TypeInv, Processes
    <3>. QED
      BY <1>2, <3>1, <3>2, <3>3
  <2>. QED
    BY <2>1, <2>2 DEF keysOf
<1>3. CASE Migrate(p)
  <2>1. proc'[p].at \in {"closing", "storing key", "copying", "migrating"}
    BY <1>3, FoundMoves DEF Migrated
  <2>. QED
    BY <1>3, <2>1 DEF Migrate, keysOf, keysKept, At
<1>4. CASE CopyBegins(p) \/ CopyEnds(p) \/ PruneBackups(p) \/ PruneFails(p) \/ MigrationsDone(p)
           \/ StepFails(p) \/ Close(p) \/ Ends(p)
  <2>1. db' = db /\ dropped' = dropped /\ issued' = issued /\ restored' = restored
    BY <1>4 DEF CopyBegins, CopyEnds, PruneBackups, PruneFails, MigrationsDone, StepFails, Close, Ends, keysKept
  <2>2. \E to \in {"vacuuming", "pruning", "migrating", "storing key", "closing", "closed"} : Goes(p, to)
    BY <1>4 DEF CopyBegins, CopyEnds, PruneBackups, PruneFails, MigrationsDone, Migrated, StepFails, Close, Ends
  <2>3. ~At(p, {"revoking keys", "serving"})'
    BY <2>2 DEF Goes, At, TypeInv, Processes
  <2>. QED
    BY <2>1, <2>3 DEF keysOf
<1>. QED
  BY <1>1, <1>2, <1>3, <1>4 DEF Step

\* A process that changes keys is the only one that serves.
LEMMA OneServer ==
  ASSUME OneWriter, NEW p \in Procs, At(p, {"storing key", "revoking keys", "serving"}),
         NEW q \in Procs, At(q, {"revoking keys", "serving"})
  PROVE  q = p
  BY DEF OneWriter, At, Holding

\* Every step keeps the keys granted.
LEMMA KeyStep == TypeInv /\ OneWriter /\ GrantInv /\ EnvInv /\ [Next]_vars => GrantInv' /\ EnvInv'
<1>. SUFFICES ASSUME TypeInv, OneWriter, GrantInv, EnvInv, [Next]_vars PROVE GrantInv' /\ EnvInv'
  OBVIOUS
<1>0. /\ dropped \subseteq issued /\ db.fromUI \subseteq issued
      /\ db.live \subseteq db.fromEnv \cup db.fromUI /\ db.fromEnv \cap db.fromUI = {}
  BY DEF TypeInv, GoodDBs
<1>1. ASSUME NEW p \in Procs, EnsureAdminKey(p) PROVE GrantInv' /\ EnvInv'
  <2>. DEFINE k == proc[p].env
  <2>1. /\ proc'[p].at = "revoking keys" /\ proc'[p].env = k
        /\ \A q \in Procs \ {p} : proc'[q] = proc[q]
    BY <1>1, GoesMoves DEF EnsureAdminKey, Places, Holding
  <2>2. /\ dropped' = dropped \ {k} /\ issued' = issued /\ restored' = restored
        /\ db'.fromUI = db.fromUI /\ db'.live \subseteq db.live \cup {k}
        /\ db'.live \in {db.live, db.live \cup {k}} /\ (k # None => k \in db'.live)
    BY <1>1 DEF EnsureAdminKey, TypeInv, GoodDBs, DBs
  <2>3. ASSUME NEW q \in Procs, At(q, {"revoking keys", "serving"})' PROVE q = p
    BY <1>1, <2>1, <2>3, OneServer DEF EnsureAdminKey, At
  <2>4. ~At(p, {"serving"})'
    BY <2>1 DEF At
  <2>5. ASSUME NEW q \in Procs PROVE ~At(q, {"serving"})'
    BY <2>3, <2>4 DEF At
  <2>6. db'.live \cap db'.fromUI \subseteq issued' \ dropped' \/ restored
    BY <1>0, <2>2 DEF GrantInv
  <2>7. None \notin Keys
    BY NoneAssumption DEF None
  <2>8. EnvInv'
    BY <2>1, <2>2, <2>3, <2>7 DEF EnvInv
  <2>. QED
    BY <2>2, <2>5, <2>6, <2>8 DEF GrantInv
<1>2. ASSUME NEW p \in Procs, RevokeEnvKeysExcept(p) PROVE GrantInv' /\ EnvInv'
  <2>. DEFINE k == proc[p].env
  <2>1. /\ proc'[p].at = "serving" /\ proc'[p].env = k /\ At(p, {"revoking keys"})
        /\ \A q \in Procs \ {p} : proc'[q] = proc[q]
    BY <1>2, GoesMoves DEF RevokeEnvKeysExcept, Places, Holding
  <2>2. /\ dropped' = dropped /\ issued' = issued /\ restored' = restored
        /\ db'.fromUI = db.fromUI /\ db'.fromEnv = db.fromEnv /\ db'.live = db.live \ (db.fromEnv \ {k})
    BY <1>2 DEF RevokeEnvKeysExcept, Stale, TypeInv, GoodDBs, DBs, keysKept
  <2>3. ASSUME NEW q \in Procs, At(q, {"revoking keys", "serving"})' PROVE q = p
    BY <2>1, <2>3, OneServer DEF At
  <2>4. k \in Keys \ db.fromUI => k \in db.live
    BY <2>1 DEF EnvInv, At
  <2>5. EnvInv'
    BY <2>1, <2>2, <2>3, <2>4 DEF EnvInv
  <2>6. \A q \in Procs : At(q, {"serving"})' => q = p
    BY <2>3 DEF At
  <2>7. db'.live \cap db'.fromEnv \subseteq {k} /\ db'.live \cap db'.fromUI \subseteq db.live \cap db.fromUI
    BY <2>2
  <2>. QED
    BY <2>1, <2>2, <2>5, <2>6, <2>7 DEF GrantInv
<1>3. ASSUME NEW p \in Procs, Step(p) \/ Ends(p) \/ Kill(p), ~EnsureAdminKey(p), ~RevokeEnvKeysExcept(p)
      PROVE  GrantInv' /\ EnvInv'
  <2>1. /\ db'.live = db.live /\ db'.fromEnv = db.fromEnv /\ db'.fromUI = db.fromUI
        /\ dropped' = dropped /\ issued' = issued /\ restored' = restored
        /\ ~At(p, {"revoking keys", "serving"})'
    BY <1>3, KeysKept DEF keysOf
  <2>2. \A q \in Procs : At(q, {"revoking keys", "serving"})' => proc'[q] = proc[q]
    BY <1>3, <2>1, OthersStay DEF At
  <2>. QED
    BY <2>1, <2>2 DEF GrantInv, EnvInv, At
<1>4. ASSUME NEW p \in Procs, NEW k \in Keys, IssueAdminKey(p, k) PROVE GrantInv' /\ EnvInv'
  <2>1. /\ proc' = proc /\ dropped' = dropped /\ issued' = issued \cup {k} /\ restored' = restored
        /\ db'.fromUI = db.fromUI \cup {k} /\ db'.fromEnv = db.fromEnv /\ db'.live = db.live \cup {k}
        /\ k \notin issued /\ k \notin db.fromEnv
    BY <1>4 DEF IssueAdminKey, TypeInv, GoodDBs, DBs
  <2>. QED
    BY <1>0, <2>1 DEF GrantInv, EnvInv, At
<1>5. ASSUME NEW p \in Procs, NEW k \in Keys, RevokeAdminKey(p, k) PROVE GrantInv' /\ EnvInv'
  <2>1. /\ proc' = proc /\ dropped' = dropped \cup {k} /\ issued' = issued /\ restored' = restored
        /\ db'.fromUI = db.fromUI /\ db'.fromEnv = db.fromEnv /\ db'.live = db.live \ {k} /\ k \in db.fromUI
    BY <1>5 DEF RevokeAdminKey, Revocable, TypeInv, GoodDBs, DBs
  <2>. QED
    BY <1>0, <2>1 DEF GrantInv, EnvInv, At
<1>6. ASSUME NEW c \in copies, PutsBack(c) PROVE GrantInv' /\ EnvInv'
  BY <1>6 DEF PutsBack, GrantInv, EnvInv, At
<1>7. CASE UNCHANGED <<db, dropped, issued, restored>> /\ Elsewhere
  <2>1. \A q \in Procs : At(q, {"revoking keys", "serving"})' => proc'[q] = proc[q]
    BY <1>7, ElsewhereStays DEF At
  <2>. QED
    BY <1>7, <2>1 DEF GrantInv, EnvInv, At
<1>8. CASE Elsewhere
  BY <1>4, <1>5, <1>6, <1>7, <1>8 DEF Elsewhere, Launch, EditsEnvironment, keysKept, vars
<1>. QED
  BY <1>1, <1>2, <1>3, <1>8, NextCases
-----------------------------------------------------------------------------

LifecycleInv == TypeInv /\ OneWriter /\ SchemaInv /\ CopyInv /\ GrantInv /\ EnvInv

\* All of it together, for any processes, versions, copies and keys.
THEOREM LifecycleHolds == Spec => []LifecycleInv
<1>1. Init => LifecycleInv
  <2>. SUFFICES ASSUME Init PROVE LifecycleInv
    OBVIOUS
  <2>1. \A p \in Procs : proc[p].at = "off"
    BY DEF Init, Off
  <2>2. copies = {} /\ db.live = {} /\ db.fromUI = {}
    BY DEF Init, EmptyDB
  <2>3. OneWriter /\ SchemaInv
    BY <2>1 DEF OneWriter, SchemaInv, Checked, At, Holding
  <2>4. CopyInv
    BY <2>1, <2>2 DEF CopyInv, Behind, At
  <2>5. GrantInv /\ EnvInv
    BY <2>1, <2>2 DEF GrantInv, EnvInv, At
  <2>. QED
    BY <2>3, <2>4, <2>5, TypeInit DEF LifecycleInv
<1>2. LifecycleInv /\ [Next]_vars => LifecycleInv'
  BY TypeStep, LockStep, SchemaStep, CopyStep, KeyStep DEF LifecycleInv
<1>. QED
  BY <1>1, <1>2, PTL DEF Spec

\* Processes, database, copies and keys are always well typed: every key that
\* works has a row, of one source.
THEOREM LifecycleTypeCorrect == Spec => []TypeOK
<1>1. LifecycleInv => TypeOK
  BY TypeInvImplies DEF LifecycleInv
<1>. QED
  BY <1>1, LifecycleHolds, PTL

\* One process at a time has the database open, whatever is killed.
THEOREM OneWriterAtATime == Spec => []OneWriter
<1>1. LifecycleInv => OneWriter
  BY DEF LifecycleInv
<1>. QED
  BY <1>1, LifecycleHolds, PTL

\* Whoever works on the database knows its schema.
THEOREM NobodyWorksBlind == Spec => []SchemaIsKnown
<1>1. LifecycleInv => SchemaIsKnown
  BY DEF LifecycleInv, SchemaInv, SchemaIsKnown, Checked, At
<1>. QED
  BY <1>1, LifecycleHolds, PTL

\* A migration runs only behind a whole copy of what it found.
THEOREM MigratesBehindACopy == Spec => []CopiedFirst
<1>1. LifecycleInv => CopiedFirst
  BY DEF LifecycleInv, CopyInv, Behind, CopiedFirst
<1>. QED
  BY <1>1, LifecycleHolds, PTL

\* The keys a server accepts are its environment's and those the page granted.
THEOREM OnlyGrantedKeysAccepted == Spec => []OnlyGrantedKeysWork
<1>1. LifecycleInv => OnlyGrantedKeysWork
  BY DEF LifecycleInv, GrantInv, TypeInv, GoodDBs, OnlyGrantedKeysWork, Accepted
<1>. QED
  BY <1>1, LifecycleHolds, PTL

\* A server accepts the key of its environment for as long as it serves.
THEOREM EnvKeyAccepted == Spec => []EnvKeyWorks
<1>1. LifecycleInv => EnvKeyWorks
  BY DEF LifecycleInv, EnvInv, EnvKeyWorks, Accepted, At
<1>. QED
  BY <1>1, LifecycleHolds, PTL
=============================================================================
