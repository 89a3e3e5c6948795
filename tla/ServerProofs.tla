---------------------------- MODULE ServerProofs ----------------------------
(***************************************************************************)
(* What every step of the server keeps, for any set of guarded changes,    *)
(* filters and disturbances: where the gate is, and what is remembered of  *)
(* the changes somebody was told of; and that stopping it comes to an end. *)
(***************************************************************************)
EXTENDS Server, FiniteSetTheorems, WellFoundedInduction, TLAPS

Runs == [at      : {"idle", "planning", "applying", "telling", "sending"},
         filter  : Filters, consent : BOOLEAN,
         todo    : SUBSET Keys, keep : SUBSET Keys, fresh : SUBSET Keys]

\* A run that has not begun holds nothing, and one that has not applied has
\* nothing to tell; a command never shares the gate with a server.
RunOK ==
  /\ run \in Runs
  /\ run.at = "idle" => run = NoRun
  /\ run.at \in {"planning", "applying"} => run.fresh = {}
  /\ up # "down" => gate # "cli"

\* The table holds what is about to be told, and everything told that no
\* later run has left out.
Remembers ==
  /\ run.fresh \subseteq seen
  /\ heard \ spared \subseteq seen

ServerInv == TypeOK /\ RunOK /\ Remembers /\ ToldOnce

\* Nothing in progress: the record of a run between two runs is well formed.
LEMMA NoRunIsARun == NoRun \in Runs /\ NoRun.at = "idle" /\ NoRun.fresh = {}
                     /\ NoRun.todo = {} /\ NoRun.keep = {}
  BY FiltersAssumption DEF NoRun, Runs

\* A run just begun has planned nothing.
LEMMA BegunIsARun ==
  ASSUME NEW f \in Filters, NEW c \in BOOLEAN,
         run' = [NoRun EXCEPT !.at = "planning", !.filter = f, !.consent = c]
  PROVE  /\ run' \in Runs /\ run'.at = "planning" /\ run'.fresh = {}
         /\ run'.todo = {} /\ run'.keep = {}
  <1>1. NoRun \in Runs /\ NoRun.fresh = {} /\ NoRun.todo = {} /\ NoRun.keep = {}
    BY NoRunIsARun
  <1> HIDE DEF NoRun
  <1> QED BY <1>1 DEF Runs

\* The server starts with nothing told and nothing held.
LEMMA InitHolds == Init => ServerInv
  <1> SUFFICES ASSUME Init PROVE ServerInv
    OBVIOUS
  <1>1. RunOK /\ Remembers /\ ToldOnce
    BY NoRunIsARun DEF Init, RunOK, Remembers, ToldOnce
  <1>2. NoRun.filter \in Filters /\ NoRun.consent \in BOOLEAN
    BY NoRunIsARun DEF Runs
  <1>3. MaxDisturbances \in 0..MaxDisturbances
    BY OptionAssumption
  <1>4. TypeOK
    BY NoRunIsARun, <1>2, <1>3 DEF Init, TypeOK, Loops, Runners
  <1> QED BY <1>1, <1>4 DEF ServerInv

\* Letting the gate go, and the loop that held it: both agree again.
LEMMA LoopsAfterEnd ==
  ASSUME TypeOK, LoopEnds, gate' = "free"
  PROVE  /\ loop' \in [Loops -> {"off", "waiting", "wanting", "running", "ended"}]
         /\ \A l \in Loops : loop'[l] = "running" <=> gate' = l
  BY DEF TypeOK, LoopEnds, Loops, Runners

\* A run cut short leaves the gate free, and the memory as it stands.
LEMMA CancelKeeps ==
  ASSUME ServerInv, Cancel, left' \in 0..MaxDisturbances PROVE ServerInv'
  <1>1. /\ loop' \in [Loops -> {"off", "waiting", "wanting", "running", "ended"}]
        /\ \A l \in Loops : loop'[l] = "running" <=> gate' = l
    BY LoopsAfterEnd DEF Cancel, End, ServerInv
  <1>2. /\ run' = NoRun /\ run' \in Runs /\ gate' = "free" /\ run'.at = "idle"
        /\ run'.fresh = {} /\ run'.todo = {} /\ run'.keep = {}
    BY NoRunIsARun DEF Cancel, End
  <1>3. run'.filter \in Filters /\ run'.consent \in BOOLEAN
    BY <1>2 DEF Runs
  <1> QED
    BY <1>1, <1>2, <1>3
    DEF Cancel, ServerInv, TypeOK, RunOK, Remembers, ToldOnce, Runners, world

\* A process that ends, cleanly or not, leaves the tables and nothing else.
LEMMA EndsKeeps ==
  ASSUME ServerInv, NEW how \in {"clean", "error", "config", "killed"}, Ends(how),
         left' \in 0..MaxDisturbances
  PROVE  ServerInv'
  <1>1. /\ run' = NoRun /\ run' \in Runs /\ gate' = "free" /\ run'.at = "idle"
        /\ run'.fresh = {} /\ run'.todo = {} /\ run'.keep = {}
    BY NoRunIsARun DEF Ends
  <1>2. run'.filter \in Filters /\ run'.consent \in BOOLEAN
    BY <1>1 DEF Runs
  <1> QED
    BY <1>1, <1>2
    DEF Ends, ServerInv, TypeOK, RunOK, Remembers, ToldOnce, Loops, Runners, world

\* What the world does touches no run and no gate.
LEMMA WorldKeeps ==
  ASSUME ServerInv,
         (\E k \in Keys : Appear(k) \/ Fixed(k)) \/ WorkComes \/ HookTurns
  PROVE  ServerInv'
  <1> USE DEF ServerInv
  <1>0. left \in 0..MaxDisturbances /\ left > 0 => left - 1 \in 0..MaxDisturbances
    BY OptionAssumption
  <1>1. ASSUME NEW k \in Keys, Appear(k) PROVE ServerInv'
    BY <1>0, <1>1 DEF Appear, Disturb, TypeOK, RunOK, Remembers, ToldOnce, history
  <1>2. ASSUME NEW k \in Keys, Fixed(k) PROVE ServerInv'
    BY <1>0, <1>2 DEF Fixed, Disturb, TypeOK, RunOK, Remembers, ToldOnce
  <1>3. CASE WorkComes
    BY <1>0, <1>3 DEF WorkComes, Disturb, TypeOK, RunOK, Remembers, ToldOnce, history
  <1>4. CASE HookTurns
    BY <1>0, <1>4 DEF HookTurns, Disturb, TypeOK, RunOK, Remembers, ToldOnce, history
  <1> QED BY <1>1, <1>2, <1>3, <1>4


\* The steps of a run: what is told is remembered before it is sent, and what
\* is forgotten was left out of this plan.
LEMMA RunStepKeeps == ASSUME ServerInv, RunStep PROVE ServerInv'
  <1> USE DEF ServerInv
  <1>0. /\ run \in Runs /\ TypeOK /\ RunOK /\ Remembers /\ ToldOnce
        /\ run.at \in {"idle", "planning", "applying", "telling", "sending"}
        /\ run.todo \subseteq Keys /\ run.keep \subseteq Keys /\ run.fresh \subseteq Keys
    BY DEF RunOK, Runs
  <1>a. ASSUME run.at # "idle", End, LoopEnds,
               UNCHANGED <<up, exit, guarded, hook, seen, left>>,
               heard' \subseteq guarded, spared' \subseteq guarded,
               work' \in BOOLEAN, lossy' \in BOOLEAN, heard' \ spared' \subseteq seen
        PROVE  ServerInv'
    <2>1. /\ loop' \in [Loops -> {"off", "waiting", "wanting", "running", "ended"}]
          /\ \A l \in Loops : loop'[l] = "running" <=> gate' = l
      BY <1>0, <1>a, LoopsAfterEnd DEF End
    <2>2. TypeOK'
      <3>1. gate' = "free" /\ run' = NoRun
        BY <1>a DEF End
      <3>2. run'.at = "idle" /\ run'.filter \in Filters /\ run'.consent \in BOOLEAN
            /\ run'.todo = {} /\ run'.keep = {} /\ run'.fresh = {}
        BY <3>1, NoRunIsARun DEF Runs
      <3> QED BY <1>0, <1>a, <2>1, <3>1, <3>2 DEF TypeOK, Runners
    <2>3. RunOK' /\ Remembers' /\ ToldOnce'
      BY <1>a, NoRunIsARun DEF End, RunOK, Remembers, ToldOnce
    <2> QED BY <2>2, <2>3
  <1>1. CASE PlanEmpty
    BY <1>0, <1>1, <1>a DEF PlanEmpty, TypeOK, Remembers, world
  <1>2. CASE PlanMade
    <2> DEFINE told == (guarded \cap run.filter) \ Consented
    <2>1. told \subseteq Keys
      BY <1>0 DEF TypeOK
    <2>2. run' = [run EXCEPT !.at = "applying", !.todo = told, !.keep = told]
      BY <1>2 DEF PlanMade
    <2> HIDE DEF told
    <2>3. /\ run' \in Runs /\ run'.at = "applying" /\ run'.todo = told /\ run'.keep = told
          /\ run'.fresh = {} /\ run'.filter = run.filter /\ run'.consent = run.consent
      BY <1>0, <1>2, <2>1, <2>2 DEF PlanMade, Runs, RunOK
    <2> QED
      BY <1>0, <1>2, <2>1, <2>3
      DEF PlanMade, TypeOK, RunOK, Remembers, ToldOnce, world
  <1>3. CASE Apply
    <2>1. /\ run' \in Runs /\ run'.at = "telling" /\ run'.todo = run.todo /\ run'.keep = run.keep
          /\ run'.fresh = run.fresh /\ run'.filter = run.filter /\ run'.consent = run.consent
      BY <1>0, <1>3 DEF Apply, Runs
    <2>2. PICK done \in SUBSET (guarded \cap Consented) :
            guarded' = guarded \ done /\ heard' = heard \ done /\ spared' = spared \ done
      BY <1>3 DEF Apply
    <2> QED
      BY <1>0, <1>3, <2>1, <2>2 DEF Apply, TypeOK, RunOK, Remembers, ToldOnce
  <1>4. ASSUME NEW k \in Keys, SeenGuardedChange(k) PROVE ServerInv'
    <2>1. /\ run' \in Runs /\ run'.at = "telling" /\ run'.todo = run.todo \ {k} /\ run'.keep = run.keep
          /\ run'.fresh = (IF First(k) THEN run.fresh \cup {k} ELSE run.fresh)
          /\ run'.filter = run.filter /\ run'.consent = run.consent
      BY <1>0, <1>4 DEF SeenGuardedChange, Runs
    <2> QED
      BY <1>0, <1>4, <2>1
      DEF SeenGuardedChange, First, TypeOK, RunOK, Remembers, ToldOnce, world, history
  <1>5. CASE ForgetGuardedChanges
    <2>1. /\ run' \in Runs /\ run'.at = "sending" /\ run'.todo = run.todo /\ run'.keep = run.keep
          /\ run'.fresh = run.fresh /\ run'.filter = run.filter /\ run'.consent = run.consent
      BY <1>0, <1>5 DEF ForgetGuardedChanges, Runs
    <2>2. run.fresh \subseteq run.keep
      BY <1>0 DEF TypeOK
    <2> QED
      BY <1>0, <1>5, <2>1, <2>2
      DEF ForgetGuardedChanges, TypeOK, RunOK, Remembers, ToldOnce, world
  <1>6. CASE Notify
    BY <1>0, <1>6, <1>a DEF Notify, ToSend, TypeOK, Remembers, world
  <1> QED BY <1>1, <1>2, <1>3, <1>4, <1>5, <1>6 DEF RunStep

\* The loops, the page and the command: the gate goes from free to one of
\* them and back.
LEMMA ProcessKeeps == ASSUME ServerInv, Process PROVE ServerInv'
  <1> USE DEF ServerInv
  <1>0. TypeOK /\ RunOK /\ Remembers /\ ToldOnce /\ run \in Runs
    BY DEF RunOK
  <1>1. ASSUME NEW l \in Loops, TimerFires(l) PROVE ServerInv'
    BY <1>0, <1>1 DEF TimerFires, TypeOK, RunOK, Remembers, ToldOnce, Loops, world, history
  <1>2. ASSUME NEW l \in Loops, LoopStops(l) PROVE ServerInv'
    BY <1>0, <1>2 DEF LoopStops, TypeOK, RunOK, Remembers, ToldOnce, Loops, world, history
  <1>3. CASE RefreshBegins
    BY <1>0, <1>3
    DEF RefreshBegins, TypeOK, RunOK, Remembers, ToldOnce, Loops, Runners, world, history
  <1>4. CASE RefreshEnds
    <2>1. /\ loop' \in [Loops -> {"off", "waiting", "wanting", "running", "ended"}]
          /\ \A l \in Loops : loop'[l] = "running" <=> gate' = l
      BY <1>0, <1>4, LoopsAfterEnd DEF RefreshEnds
    <2> QED
      BY <1>0, <1>4, <2>1
      DEF RefreshEnds, TypeOK, RunOK, Remembers, ToldOnce, Runners, world, history
  <1>5. CASE ScheduleBegins
    <2>1. /\ run' \in Runs /\ run'.at = "planning" /\ run'.fresh = {} /\ run'.todo = {}
          /\ run'.keep = {}
      BY <1>5, BegunIsARun, FiltersAssumption, Keys \in Filters, FALSE \in BOOLEAN
      DEF ScheduleBegins, Begin
    <2>2. run'.filter \in Filters /\ run'.consent \in BOOLEAN
      BY <2>1 DEF Runs
    <2> QED
      BY <1>0, <1>5, <2>1, <2>2
      DEF ScheduleBegins, Begin, TypeOK, RunOK, Remembers, ToldOnce, Loops, Runners, world, history
  <1>6. ASSUME NEW f \in Filters, NEW c \in BOOLEAN,
               PageReconciles(f, c) \/ CommandReconciles(f, c)
        PROVE  ServerInv'
    <2>1. /\ run' \in Runs /\ run'.at = "planning" /\ run'.fresh = {} /\ run'.todo = {}
          /\ run'.keep = {}
      BY <1>6, BegunIsARun DEF PageReconciles, CommandReconciles, Begin
    <2>2. run'.filter \in Filters /\ run'.consent \in BOOLEAN
      BY <2>1 DEF Runs
    <2>3. left' \in 0..MaxDisturbances
      BY <1>0, <1>6, OptionAssumption DEF TypeOK, PageReconciles, CommandReconciles, Disturb
    <2>4. CASE PageReconciles(f, c)
      BY <1>0, <2>1, <2>2, <2>3, <2>4
      DEF PageReconciles, Begin, TypeOK, RunOK, Remembers, ToldOnce, Loops, Runners, world, history
    <2>5. CASE CommandReconciles(f, c)
      BY <1>0, <2>1, <2>2, <2>3, <2>5
      DEF CommandReconciles, Begin, TypeOK, RunOK, Remembers, ToldOnce, Loops, Runners, world,
          history
    <2> QED BY <1>6, <2>4, <2>5
  <1>7. CASE PageObserves
    BY <1>0, <1>7
    DEF PageObserves, TypeOK, RunOK, Remembers, ToldOnce, Loops, Runners, world, history
  <1>8. CASE PageObserved
    BY <1>0, <1>8
    DEF PageObserved, TypeOK, RunOK, Remembers, ToldOnce, Loops, Runners, world, history
  <1>9. CASE CycleCancelled
    <2>1. left' \in 0..MaxDisturbances
      BY <1>0, <1>9 DEF CycleCancelled, TypeOK
    <2> QED BY <1>9, <2>1, CancelKeeps DEF CycleCancelled
  <1>10. CASE ExitsClean
    BY <1>0, <1>10, EndsKeeps DEF ExitsClean, TypeOK
  <1>11. CASE GraceOver
    BY <1>0, <1>11, EndsKeeps DEF GraceOver, TypeOK
  <1> QED
    BY <1>1, <1>2, <1>3, <1>4, <1>5, <1>6, <1>7, <1>8, <1>9, <1>10, <1>11 DEF Process


\* Starting, being told to stop, and dying.
LEMMA WorldProcessKeeps ==
  ASSUME ServerInv, PageLeft \/ Start \/ Signal \/ ListenFails \/ Killed PROVE ServerInv'
  <1>0. TypeOK /\ RunOK /\ Remembers /\ ToldOnce /\ left \in 0..MaxDisturbances
    BY DEF ServerInv, TypeOK
  <1>1. Disturb
    BY DEF PageLeft, Start, Signal, ListenFails, Killed
  <1>2. left' \in 0..MaxDisturbances
    BY <1>0, <1>1, OptionAssumption DEF Disturb
  <1>3. CASE PageLeft
    BY <1>2, <1>3, CancelKeeps DEF PageLeft
  <1>4. CASE Start
    BY <1>0, <1>2, <1>4
    DEF Start, ServerInv, TypeOK, RunOK, Remembers, ToldOnce, Loops, Runners, world, history
  <1>5. CASE Signal
    BY <1>0, <1>2, <1>5
    DEF Signal, ServerInv, TypeOK, RunOK, Remembers, ToldOnce, world, history
  <1>6. CASE ListenFails
    BY <1>2, <1>6, EndsKeeps DEF ListenFails
  <1>7. CASE Killed
    BY <1>2, <1>7, EndsKeeps DEF Killed
  <1> QED BY <1>3, <1>4, <1>5, <1>6, <1>7

\* Every step keeps the invariant.
LEMMA StepHolds == ServerInv /\ [Next]_vars => ServerInv'
  <1> SUFFICES ASSUME ServerInv, [Next]_vars PROVE ServerInv'
    OBVIOUS
  <1>1. CASE UNCHANGED vars
    BY <1>1 DEF vars, world, history, ServerInv, TypeOK, RunOK, Remembers, ToldOnce
  <1>2. CASE RunStep
    BY <1>2, RunStepKeeps
  <1>3. CASE Process
    BY <1>3, ProcessKeeps
  <1>4. CASE World
    BY <1>4, WorldKeeps, WorldProcessKeeps DEF World
  <1> QED BY <1>1, <1>2, <1>3, <1>4 DEF Next

\* The invariant of the server, with what it rests on: the memory of what was
\* told (SeenGuardedChange) and the one gate (cmd/nuno/actor.go).
THEOREM ServerHolds == Spec => []ServerInv
  BY InitHolds, StepHolds, PTL DEF Spec

\* A loop runs exactly while it holds the gate, and no run outlives the one
\* that holds it.
THEOREM ServerTypeCorrect == Spec => []TypeOK
  <1>1. ServerInv => TypeOK
    BY DEF ServerInv
  <1> QED BY <1>1, ServerHolds, PTL

\* Whatever starts, crashes and lost messages lie between, a change that is
\* still guarded is not told twice, unless a run left it out of its plan.
THEOREM ToldOnceHolds == Spec => []ToldOnce
  <1>1. ServerInv => ToldOnce
    BY DEF ServerInv
  <1> QED BY <1>1, ServerHolds, PTL

\* A server that exits clean has finished its runs.
THEOREM CleanExitHolds == Spec => CleanExitIsIdle
  <1> DEFINE Clean == up = "stopping" /\ up' = "down" /\ exit' = "clean"
                         => run = NoRun /\ gate = "free"
  <1>1. ServerInv /\ [Next]_vars => [Clean]_vars
    <2> SUFFICES ASSUME ServerInv, Next, up = "stopping", up' = "down", exit' = "clean"
                 PROVE  run = NoRun /\ gate = "free"
      OBVIOUS
    <2>1. ~RunStep
      BY DEF RunStep, PlanEmpty, PlanMade, Apply, SeenGuardedChange, ForgetGuardedChanges, Notify
    <2>2. World => Killed
      BY DEF World, Appear, Fixed, WorkComes, HookTurns, PageLeft, Cancel, Start, Signal,
             ListenFails, world
    <2>3. ~Killed
      BY DEF Killed, Ends
    <2>4. Process => ExitsClean \/ GraceOver
      BY DEF Process, TimerFires, LoopStops, RefreshBegins, RefreshEnds, ScheduleBegins,
             PageReconciles, CommandReconciles, PageObserves, PageObserved, CycleCancelled, Cancel
    <2>5. ~GraceOver
      BY DEF GraceOver, Ends
    <2>6. ExitsClean
      BY <2>1, <2>2, <2>3, <2>4, <2>5 DEF Next
    <2>7. gate \notin {"ui", "page"} /\ \A l \in Loops : loop[l] = "ended"
      BY <2>6 DEF ExitsClean, Stopped
    <2>8. gate = "free"
      BY <2>7 DEF ServerInv, TypeOK, RunOK, Runners, Loops
    <2> QED BY <2>8 DEF ServerInv, TypeOK, RunOK, Runners
  <1>2. CleanExitIsIdle <=> [][Clean]_vars
    BY DEF CleanExitIsIdle
  <1> QED BY <1>1, <1>2, ServerHolds, PTL DEF Spec


(***************************************************************************)
(* Stopping takes boundedly many steps.  What a server told to stop has    *)
(* still to do is a number that every step of a loop, a run or a request   *)
(* lowers, and until it is down there is always such a step to take.       *)
(***************************************************************************)
RunLeft ==
  CASE run.at = "planning" -> Cardinality(Keys) + 4
    [] run.at = "applying" -> Cardinality(run.todo) + 3
    [] run.at = "telling"  -> Cardinality(run.todo) + 2
    [] run.at = "sending"  -> 1
    [] OTHER               -> 0

\* A loop that wants the gate has a whole run before it.
LoopLeft(s) ==
  CASE s = "wanting" -> Cardinality(Keys) + 7
    [] s = "running" -> 2
    [] s = "waiting" -> 1
    [] OTHER         -> 0

ReadLeft == IF gate = "page" THEN 1 ELSE 0

ToStop == RunLeft + LoopLeft(loop["refresh"]) + LoopLeft(loop["schedule"]) + ReadLeft

ShutdownShortens ==
  [][up = "stopping" =>
       \/ up' = "down"
       \/ up' = up /\ ToStop' < ToStop
       \/ UNCHANGED <<up, loop, gate, run>>]_vars

\* The guards of the steps that are left: of a run, of a reading, of a loop,
\* and of the end.
ShutdownReady ==
  up = "stopping" =>
    \/ run.at \in {"planning", "applying", "sending"}
    \/ run.at = "telling" /\ (run.todo = {} \/ \E k \in run.todo : \A j \in run.todo : k <= j)
    \/ gate \in {"refresh", "page"}
    \/ gate = "free" /\ \E l \in Loops : loop[l] = "wanting"
    \/ \E l \in Loops : loop[l] = "waiting"
    \/ Stopped

\* Subsets of the keys are counted, and no set of them has more than all.
LEMMA KeysCount ==
  ASSUME NEW S \in SUBSET Keys
  PROVE  /\ IsFiniteSet(S) /\ Cardinality(S) \in Nat /\ Cardinality(Keys) \in Nat
         /\ Cardinality(S) <= Cardinality(Keys)
  <1>1. IsFiniteSet(Keys)
    BY KeysAssumption
  <1>2. IsFiniteSet(S) /\ Cardinality(S) <= Cardinality(Keys)
    BY <1>1, FS_Subset
  <1> QED BY <1>1, <1>2, FS_CardinalityType

LEMMA RunLeftNat == ServerInv => RunLeft \in Nat
  <1> SUFFICES ASSUME ServerInv PROVE RunLeft \in Nat
    OBVIOUS
  <1>1. run.todo \subseteq Keys
    BY DEF ServerInv, TypeOK
  <1>2. Cardinality(run.todo) \in Nat /\ Cardinality(Keys) \in Nat
    BY <1>1, KeysCount
  <1> QED BY <1>2 DEF RunLeft

LEMMA LoopLeftNat == \A s : LoopLeft(s) \in Nat
  <1>1. Cardinality(Keys) \in Nat
    BY KeysCount
  <1> QED BY <1>1 DEF LoopLeft

\* A run that ends gives its loop two steps less to take, or leaves the loops.
LEMMA EndingShortens ==
  ASSUME ServerInv, LoopEnds, gate' = "free", run' = NoRun, run.at # "idle" \/ gate = "refresh"
  PROVE  ToStop' < ToStop
  <1>1. RunLeft' = 0
    BY NoRunIsARun DEF RunLeft
  <1>2. RunLeft \in Nat /\ (run.at # "idle" => RunLeft > 0)
    <2>1. Cardinality(run.todo) \in Nat /\ Cardinality(Keys) \in Nat
      BY KeysCount DEF ServerInv, TypeOK
    <2>2. run.at \in {"idle", "planning", "applying", "telling", "sending"}
      BY DEF ServerInv, TypeOK
    <2> QED BY <2>1, <2>2 DEF RunLeft
  <1>3. /\ LoopLeft("waiting") = 1 /\ LoopLeft("running") = 2
        /\ \A s : LoopLeft(s) \in Nat
    BY LoopLeftNat DEF LoopLeft
  <1>4. ReadLeft' = 0 /\ ReadLeft \in Nat
    BY DEF ReadLeft
  <1>5. \A l \in Loops : \/ loop[l] = "running" /\ loop'[l] = "waiting" /\ gate = l
                         \/ loop'[l] = loop[l] /\ gate # l
    BY DEF LoopEnds, ServerInv, TypeOK
  <1>6. \A l \in Loops : LoopLeft(loop'[l]) <= LoopLeft(loop[l])
                         /\ (gate = l => LoopLeft(loop'[l]) < LoopLeft(loop[l]))
    <2> SUFFICES ASSUME NEW l \in Loops
                 PROVE  LoopLeft(loop'[l]) <= LoopLeft(loop[l])
                        /\ (gate = l => LoopLeft(loop'[l]) < LoopLeft(loop[l]))
      OBVIOUS
    <2> QED BY <1>3, <1>5
  <1>7. "refresh" \in Loops /\ "schedule" \in Loops
    BY DEF Loops
  <1>8. /\ LoopLeft(loop'["refresh"]) <= LoopLeft(loop["refresh"])
        /\ LoopLeft(loop'["schedule"]) <= LoopLeft(loop["schedule"])
        /\ gate = "refresh" => LoopLeft(loop'["refresh"]) < LoopLeft(loop["refresh"])
    BY <1>6, <1>7
  <1>9. /\ LoopLeft(loop["refresh"]) \in Nat /\ LoopLeft(loop["schedule"]) \in Nat
        /\ LoopLeft(loop'["refresh"]) \in Nat /\ LoopLeft(loop'["schedule"]) \in Nat
    BY <1>3
  <1>10. /\ LoopLeft(loop["refresh"])' = LoopLeft(loop'["refresh"])
         /\ LoopLeft(loop["schedule"])' = LoopLeft(loop'["schedule"])
    BY DEF LoopLeft
  <1>11. ToStop' = RunLeft' + LoopLeft(loop'["refresh"]) + LoopLeft(loop'["schedule"]) + ReadLeft'
    BY <1>10 DEF ToStop
  <1> HIDE DEF RunLeft, LoopLeft, ReadLeft
  <1> QED BY <1>1, <1>2, <1>4, <1>8, <1>9, <1>11 DEF ToStop

\* A step of a run that goes on.
LEMMA RunShorter ==
  ASSUME ServerInv, ServerInv', UNCHANGED <<loop, gate>>, RunLeft' < RunLeft
  PROVE  ToStop' < ToStop
  <1>1. RunLeft \in Nat /\ RunLeft' \in Nat
    <2>1. run'.todo \subseteq Keys
      BY DEF ServerInv, TypeOK
    <2>2. Cardinality(run'.todo) \in Nat /\ Cardinality(Keys) \in Nat
      BY <2>1, KeysCount
    <2>3. RunLeft' \in Nat
      BY <2>2 DEF RunLeft
    <2> QED BY <2>3, RunLeftNat
  <1>2. ReadLeft' = ReadLeft /\ ReadLeft \in Nat
    BY DEF ReadLeft
  <1>3. /\ LoopLeft(loop["refresh"])' = LoopLeft(loop["refresh"])
        /\ LoopLeft(loop["schedule"])' = LoopLeft(loop["schedule"])
    BY DEF LoopLeft
  <1>4. LoopLeft(loop["refresh"]) \in Nat /\ LoopLeft(loop["schedule"]) \in Nat
    BY LoopLeftNat
  <1>5. ToStop' = RunLeft' + LoopLeft(loop["refresh"]) + LoopLeft(loop["schedule"]) + ReadLeft
    BY <1>2, <1>3 DEF ToStop
  <1> HIDE DEF RunLeft, LoopLeft, ReadLeft
  <1> QED BY <1>1, <1>2, <1>4, <1>5 DEF ToStop

\* A step of a run ends it, or shortens it.
LEMMA RunGoesOn ==
  ASSUME ServerInv, RunStep
  PROVE  /\ up' = up /\ run.at # "idle"
         /\ \/ LoopEnds /\ gate' = "free" /\ run' = NoRun
            \/ UNCHANGED <<loop, gate>> /\ RunLeft' < RunLeft
  <1>0. /\ ServerInv' /\ run \in Runs /\ run.todo \subseteq Keys
        /\ Cardinality(run.todo) \in Nat /\ Cardinality(Keys) \in Nat
    BY RunStepKeeps, KeysCount DEF ServerInv, RunOK, TypeOK
  <1>1. CASE PlanEmpty
    <2>1. up' = up /\ LoopEnds /\ gate' = "free" /\ run' = NoRun /\ run.at # "idle"
      BY <1>1 DEF PlanEmpty, End
    <2> QED BY <2>1
  <1>2. CASE PlanMade
    <2>1. run.at = "planning" /\ run'.at = "applying" /\ UNCHANGED <<loop, gate, up>>
      BY <1>0, <1>2 DEF PlanMade, Runs
    <2>2. run'.todo \subseteq Keys
      BY <1>0 DEF ServerInv, TypeOK
    <2>3. Cardinality(run'.todo) \in Nat /\ Cardinality(run'.todo) <= Cardinality(Keys)
      BY <2>2, KeysCount
    <2>4. RunLeft = Cardinality(Keys) + 4 /\ RunLeft' = Cardinality(run'.todo) + 3
      BY <2>1 DEF RunLeft
    <2>5. RunLeft' < RunLeft
      BY <1>0, <2>3, <2>4
    <2> QED BY <2>1, <2>5
  <1>3. CASE Apply
    <2>1. run.at = "applying" /\ run'.at = "telling" /\ run'.todo = run.todo
          /\ UNCHANGED <<loop, gate, up>>
      BY <1>0, <1>3 DEF Apply, Runs
    <2>2. RunLeft = Cardinality(run.todo) + 3 /\ RunLeft' = Cardinality(run.todo) + 2
      BY <2>1 DEF RunLeft
    <2>3. RunLeft' < RunLeft
      BY <1>0, <2>2
    <2> QED BY <2>1, <2>3
  <1>4. ASSUME NEW k \in Keys, SeenGuardedChange(k)
        PROVE  up' = up /\ run.at # "idle" /\ UNCHANGED <<loop, gate>> /\ RunLeft' < RunLeft
    <2>1. run.at = "telling" /\ k \in run.todo /\ run'.at = "telling"
          /\ run'.todo = run.todo \ {k} /\ UNCHANGED <<loop, gate, up>>
      BY <1>0, <1>4 DEF SeenGuardedChange, Runs
    <2>2. Cardinality(run.todo \ {k}) = Cardinality(run.todo) - 1
      BY <1>0, <2>1, KeysCount, FS_RemoveElement
    <2>3. RunLeft = Cardinality(run.todo) + 2 /\ RunLeft' = Cardinality(run.todo \ {k}) + 2
      BY <2>1 DEF RunLeft
    <2>4. RunLeft' < RunLeft
      BY <1>0, <2>2, <2>3
    <2> QED BY <2>1, <2>4
  <1>5. CASE ForgetGuardedChanges
    <2>1. run.at = "telling" /\ run'.at = "sending" /\ UNCHANGED <<loop, gate, up>>
      BY <1>0, <1>5 DEF ForgetGuardedChanges, Runs
    <2>2. RunLeft = Cardinality(run.todo) + 2 /\ RunLeft' = 1
      BY <2>1 DEF RunLeft
    <2>3. RunLeft' < RunLeft
      BY <1>0, <2>2
    <2> QED BY <2>1, <2>3
  <1>6. CASE Notify
    <2>1. up' = up /\ LoopEnds /\ gate' = "free" /\ run' = NoRun /\ run.at # "idle"
      BY <1>6 DEF Notify, End
    <2> QED BY <2>1
  <1> QED BY <1>1, <1>2, <1>3, <1>4, <1>5, <1>6 DEF RunStep

LEMMA RunStepShortens == ASSUME ServerInv, RunStep PROVE up' = up /\ ToStop' < ToStop
  BY RunGoesOn, RunStepKeeps, EndingShortens, RunShorter

\* A loop that moves on to a state with less before it, while no run begins.
LEMMA LoopShorter ==
  ASSUME ServerInv, NEW l \in Loops, NEW s, NEW n \in Nat,
         loop' = [loop EXCEPT ![l] = s], RunLeft' <= RunLeft + n, ReadLeft' <= ReadLeft,
         RunLeft' \in Nat, LoopLeft(s) + n < LoopLeft(loop[l])
  PROVE  ToStop' < ToStop
  <1>1. loop \in [Loops -> {"off", "waiting", "wanting", "running", "ended"}]
    BY DEF ServerInv, TypeOK
  <1>2. /\ LoopLeft(loop["refresh"])' = LoopLeft(loop'["refresh"])
        /\ LoopLeft(loop["schedule"])' = LoopLeft(loop'["schedule"])
    BY DEF LoopLeft
  <1>3. ToStop' = RunLeft' + LoopLeft(loop'["refresh"]) + LoopLeft(loop'["schedule"]) + ReadLeft'
    BY <1>2 DEF ToStop
  <1>4. RunLeft \in Nat /\ \A t : LoopLeft(t) \in Nat
    BY RunLeftNat, LoopLeftNat
  <1>5. ReadLeft \in Nat /\ ReadLeft' \in Nat
    BY DEF ReadLeft
  <1>6. /\ LoopLeft(loop["refresh"]) \in Nat /\ LoopLeft(loop["schedule"]) \in Nat
        /\ LoopLeft(s) \in Nat
    BY <1>4
  <1> HIDE DEF RunLeft, LoopLeft, ReadLeft
  <1>7. CASE l = "refresh"
    <2>1. loop'["refresh"] = s /\ loop'["schedule"] = loop["schedule"]
      BY <1>1, <1>7 DEF Loops
    <2> QED BY <1>3, <1>4, <1>5, <1>6, <1>7, <2>1 DEF ToStop
  <1>8. CASE l = "schedule"
    <2>1. loop'["schedule"] = s /\ loop'["refresh"] = loop["refresh"]
      BY <1>1, <1>8 DEF Loops
    <2> QED BY <1>3, <1>4, <1>5, <1>6, <1>8, <2>1 DEF ToStop
  <1> QED BY <1>7, <1>8 DEF Loops

LEMMA ProcessShortens ==
  ASSUME ServerInv, Process, up = "stopping"
  PROVE  up' = "down" \/ (up' = up /\ ToStop' < ToStop)
  <1>0. Cardinality(Keys) \in Nat /\ RunLeft \in Nat /\ ReadLeft \in Nat
    BY KeysCount, RunLeftNat DEF ReadLeft
  <1>1. ASSUME NEW l \in Loops, LoopStops(l) PROVE up' = up /\ ToStop' < ToStop
    <2>1. loop[l] = "waiting" /\ loop' = [loop EXCEPT ![l] = "ended"] /\ UNCHANGED <<up, gate, run>>
      BY <1>1 DEF LoopStops
    <2>2. RunLeft' = RunLeft /\ ReadLeft' = ReadLeft
      BY <2>1 DEF RunLeft, ReadLeft
    <2>3. LoopLeft("ended") + 0 < LoopLeft(loop[l])
      BY <2>1 DEF LoopLeft
    <2> HIDE DEF RunLeft, ReadLeft, LoopLeft
    <2>4. RunLeft' <= RunLeft + 0 /\ ReadLeft' <= ReadLeft /\ RunLeft' \in Nat /\ 0 \in Nat
      BY <1>0, <2>2
    <2> QED BY <2>1, <2>3, <2>4, LoopShorter
  <1>2. CASE RefreshBegins
    <2>1. /\ loop["refresh"] = "wanting" /\ loop' = [loop EXCEPT !["refresh"] = "running"]
          /\ gate' = "refresh" /\ UNCHANGED <<up, run>>
      BY <1>2 DEF RefreshBegins
    <2>2. RunLeft' = RunLeft /\ ReadLeft' = 0
      BY <2>1 DEF RunLeft, ReadLeft
    <2>3. LoopLeft("running") + 0 < LoopLeft(loop["refresh"])
      BY <1>0, <2>1 DEF LoopLeft
    <2> HIDE DEF RunLeft, ReadLeft, LoopLeft
    <2>4. RunLeft' <= RunLeft + 0 /\ ReadLeft' <= ReadLeft /\ RunLeft' \in Nat /\ 0 \in Nat
      BY <1>0, <2>2
    <2>5. "refresh" \in Loops
      BY DEF Loops
    <2> QED BY <2>1, <2>3, <2>4, <2>5, LoopShorter
  <1>3. CASE ScheduleBegins
    <2>1. /\ loop["schedule"] = "wanting" /\ loop' = [loop EXCEPT !["schedule"] = "running"]
          /\ gate' = "schedule" /\ up' = up /\ run' = [NoRun EXCEPT !.at = "planning", !.filter = Keys, !.consent = FALSE]
      BY <1>3 DEF ScheduleBegins, Begin
    <2>2. run'.at = "planning"
      BY <2>1, BegunIsARun, FiltersAssumption
    <2>3. RunLeft' = Cardinality(Keys) + 4 /\ ReadLeft' = 0
      BY <2>1, <2>2 DEF RunLeft, ReadLeft
    <2>4. LoopLeft("running") + (Cardinality(Keys) + 4) < LoopLeft(loop["schedule"])
      BY <1>0, <2>1 DEF LoopLeft
    <2> HIDE DEF RunLeft, ReadLeft, LoopLeft
    <2>5. /\ RunLeft' <= RunLeft + (Cardinality(Keys) + 4) /\ ReadLeft' <= ReadLeft
          /\ RunLeft' \in Nat /\ Cardinality(Keys) + 4 \in Nat
      BY <1>0, <2>3
    <2>6. "schedule" \in Loops
      BY DEF Loops
    <2> QED BY <2>1, <2>4, <2>5, <2>6, LoopShorter
  <1>4. CASE RefreshEnds
    <2>1. /\ gate = "refresh" /\ gate' = "free" /\ LoopEnds /\ UNCHANGED <<up, run>>
          /\ run' = NoRun
      BY <1>4 DEF RefreshEnds, ServerInv, TypeOK, RunOK, Runners
    <2> QED BY <2>1, EndingShortens
  <1>5. CASE PageObserved
    <2>1. gate = "page" /\ gate' = "free" /\ UNCHANGED <<up, loop, run>>
      BY <1>5 DEF PageObserved
    <2>2. RunLeft' = RunLeft /\ ReadLeft' = 0 /\ ReadLeft = 1
      BY <2>1 DEF RunLeft, ReadLeft
    <2>3. /\ LoopLeft(loop["refresh"])' = LoopLeft(loop["refresh"])
          /\ LoopLeft(loop["schedule"])' = LoopLeft(loop["schedule"])
      BY <2>1 DEF LoopLeft
    <2>4. LoopLeft(loop["refresh"]) \in Nat /\ LoopLeft(loop["schedule"]) \in Nat
      BY LoopLeftNat
    <2>5. ToStop' = RunLeft + LoopLeft(loop["refresh"]) + LoopLeft(loop["schedule"])
      <3> HIDE DEF RunLeft, LoopLeft, ReadLeft
      <3> QED BY <1>0, <2>2, <2>3, <2>4 DEF ToStop
    <2> HIDE DEF RunLeft, LoopLeft, ReadLeft
    <2> QED BY <1>0, <2>1, <2>2, <2>4, <2>5 DEF ToStop
  <1>6. CASE CycleCancelled
    <2>1. up' = up /\ gate \in Loops /\ LoopEnds /\ gate' = "free" /\ run' = NoRun
      BY <1>6 DEF CycleCancelled, Cancel, End
    <2>2. run.at # "idle" \/ gate = "refresh"
      BY <2>1 DEF ServerInv, TypeOK, Loops, Runners
    <2> QED BY <2>1, <2>2, EndingShortens
  <1>7. CASE ExitsClean \/ GraceOver
    BY <1>7 DEF ExitsClean, GraceOver, Ends
  <1>8. ~PageObserves /\ (\A l \in Loops : ~TimerFires(l))
        /\ \A f \in Filters, c \in BOOLEAN : ~PageReconciles(f, c) /\ ~CommandReconciles(f, c)
    BY DEF PageObserves, TimerFires, PageReconciles, CommandReconciles
  <1> QED BY <1>1, <1>2, <1>3, <1>4, <1>5, <1>6, <1>7, <1>8 DEF Process

LEMMA WorldShortens ==
  ASSUME ServerInv, World, up = "stopping"
  PROVE  \/ up' = "down"
         \/ up' = up /\ ToStop' < ToStop
         \/ UNCHANGED <<up, loop, gate, run>>
  <1>1. ASSUME NEW k \in Keys, Appear(k) \/ Fixed(k) PROVE UNCHANGED <<up, loop, gate, run>>
    BY <1>1 DEF Appear, Fixed
  <1>2. CASE WorkComes \/ HookTurns
    BY <1>2 DEF WorkComes, HookTurns
  <1>3. CASE PageLeft
    <2>1. up' = up /\ gate = "ui" /\ LoopEnds /\ gate' = "free" /\ run' = NoRun
      BY <1>3 DEF PageLeft, Cancel, End
    <2>2. run.at # "idle"
      BY <2>1 DEF ServerInv, TypeOK, Runners
    <2> QED BY <2>1, <2>2, EndingShortens
  <1>4. CASE Killed
    BY <1>4 DEF Killed, Ends
  <1>5. ~Start /\ ~Signal /\ ~ListenFails
    BY DEF Start, Signal, ListenFails
  <1> QED BY <1>1, <1>2, <1>3, <1>4, <1>5 DEF World

\* A server told to stop (serve.go: stop, wg.Wait) goes down, or comes nearer
\* to it with every step that a loop, a run or a request takes: nothing it does
\* while stopping, a run that was waiting for the gate included, gives it more
\* to do.  With the fairness of FairSpec this is ShutdownEnds.
THEOREM ShutdownTakesBoundedlyManySteps == Spec => ShutdownShortens
  <1> DEFINE Nearer == up = "stopping" =>
                         \/ up' = "down"
                         \/ up' = up /\ ToStop' < ToStop
                         \/ UNCHANGED <<up, loop, gate, run>>
  <1>1. ServerInv /\ [Next]_vars => [Nearer]_vars
    <2> SUFFICES ASSUME ServerInv, Next, up = "stopping"
                 PROVE  \/ up' = "down"
                        \/ up' = up /\ ToStop' < ToStop
                        \/ UNCHANGED <<up, loop, gate, run>>
      OBVIOUS
    <2>1. CASE RunStep
      BY <2>1, RunStepShortens
    <2>2. CASE Process
      BY <2>2, ProcessShortens
    <2>3. CASE World
      BY <2>3, WorldShortens
    <2> QED BY <2>1, <2>2, <2>3 DEF Next
  <1>2. [][Nearer]_vars <=> ShutdownShortens
    BY DEF ShutdownShortens
  <1> HIDE DEF Nearer
  <1> QED BY <1>1, <1>2, ServerHolds, PTL DEF Spec

\* A loop that was started has not been forgotten.
LoopsOn == up # "down" => \A l \in Loops : loop[l] # "off"

LEMMA LoopsOnNext == ASSUME ServerInv, LoopsOn, [Next]_vars PROVE LoopsOn'
  <1>0. loop \in [Loops -> {"off", "waiting", "wanting", "running", "ended"}]
    BY DEF ServerInv, TypeOK
  <1>1. CASE UNCHANGED vars
    BY <1>1 DEF vars, LoopsOn
  <1>2. CASE RunStep
    BY <1>2
    DEF RunStep, PlanEmpty, PlanMade, Apply, SeenGuardedChange, ForgetGuardedChanges, Notify,
        LoopEnds, LoopsOn
  <1>3. CASE Process
    <2>1. ASSUME NEW l \in Loops, TimerFires(l) \/ LoopStops(l) PROVE LoopsOn'
      BY <1>0, <2>1 DEF TimerFires, LoopStops, LoopsOn
    <2>2. CASE RefreshBegins \/ ScheduleBegins
      BY <1>0, <2>2 DEF RefreshBegins, ScheduleBegins, LoopsOn
    <2>3. CASE RefreshEnds \/ CycleCancelled
      BY <2>3 DEF RefreshEnds, CycleCancelled, Cancel, LoopEnds, LoopsOn
    <2>4. ASSUME NEW f \in Filters, NEW c \in BOOLEAN, PageReconciles(f, c) \/ CommandReconciles(f, c)
          PROVE  LoopsOn'
      BY <2>4 DEF PageReconciles, CommandReconciles, LoopsOn
    <2>5. CASE PageObserves \/ PageObserved
      BY <2>5 DEF PageObserves, PageObserved, LoopsOn
    <2>6. CASE ExitsClean \/ GraceOver
      BY <2>6 DEF ExitsClean, GraceOver, Ends, LoopsOn
    <2> QED BY <1>3, <2>1, <2>2, <2>3, <2>4, <2>5, <2>6 DEF Process
  <1>4. CASE World
    <2>1. ASSUME NEW k \in Keys, Appear(k) \/ Fixed(k) PROVE LoopsOn'
      BY <2>1 DEF Appear, Fixed, LoopsOn
    <2>2. CASE WorkComes \/ HookTurns \/ Signal
      BY <2>2 DEF WorkComes, HookTurns, Signal, LoopsOn
    <2>3. CASE PageLeft
      BY <2>3 DEF PageLeft, Cancel, LoopEnds, LoopsOn
    <2>4. CASE Start
      BY <2>4 DEF Start, LoopsOn
    <2>5. CASE ListenFails \/ Killed
      BY <2>5 DEF ListenFails, Killed, Ends, LoopsOn
    <2> QED BY <1>4, <2>1, <2>2, <2>3, <2>4, <2>5 DEF World
  <1> QED BY <1>1, <1>2, <1>3, <1>4 DEF Next

\* Of the keys still to be told there is a least one.
LEMMA LeastKey ==
  ASSUME NEW S \in SUBSET Keys, S # {}
  PROVE  \E k \in S : \A j \in S : k <= j
  <1>1. S \subseteq Nat
    BY KeysAssumption
  <1>2. PICK k \in S : \A j \in S : <<j, k>> \notin OpToRel(<, Nat)
    BY <1>1, NatLessThanWellFounded, WFMin
  <1>3. ASSUME NEW j \in S PROVE k <= j
    <2>1. j \in Nat /\ k \in Nat
      BY <1>1
    <2>2. ~(j < k)
      BY <1>2, <2>1 DEF OpToRel
    <2> QED BY <2>1, <2>2
  <1> QED BY <1>3

\* A server that is told to stop and is not down has a step to take (serve.go:
\* wg.Wait): whoever holds the gate has one, and while nobody does, a loop that
\* wants it may take it, one that waits may end, or the process exits.
THEOREM ShutdownIsNeverStuck == Spec => []ShutdownReady
  <1>1. ServerInv /\ LoopsOn => ShutdownReady
    <2> SUFFICES ASSUME ServerInv, LoopsOn, up = "stopping" PROVE ShutdownReady
      BY DEF ShutdownReady
    <2>1. CASE run.at # "idle"
      <3>1. run.at \in {"planning", "applying", "telling", "sending"} /\ run.todo \subseteq Keys
        BY <2>1 DEF ServerInv, TypeOK
      <3>2. run.todo # {} => \E k \in run.todo : \A j \in run.todo : k <= j
        BY <3>1, LeastKey
      <3> QED BY <3>1, <3>2 DEF ShutdownReady
    <2>2. CASE run.at = "idle"
      <3>1. gate \in {"free", "refresh", "page"} /\ \A l \in Loops : loop[l] = "running" <=> gate = l
        BY <2>2 DEF ServerInv, TypeOK, Runners
      <3>2. CASE gate # "free"
        BY <3>1, <3>2 DEF ShutdownReady
      <3>3. CASE gate = "free"
        <4>1. \A l \in Loops : loop[l] \in {"waiting", "wanting", "ended"}
          BY <3>1, <3>3 DEF ServerInv, TypeOK, LoopsOn, Loops
        <4> QED BY <3>3, <4>1 DEF ShutdownReady, Stopped
      <3> QED BY <3>2, <3>3
    <2> QED BY <2>1, <2>2
  <1>2. Init => LoopsOn
    BY DEF Init, LoopsOn
  <1>3. ServerInv /\ LoopsOn /\ [Next]_vars => LoopsOn'
    BY LoopsOnNext
  <1> QED BY <1>1, <1>2, <1>3, ServerHolds, PTL DEF Spec

\* Nobody takes the gate from whoever holds it, and the holder comes nearer to
\* giving it back with every step of its run; a reading is one step.
GateIsGivenBack ==
  [][gate # "free" =>
       \/ gate' = "free"
       \/ gate' = gate /\ (RunLeft' < RunLeft \/ run' = run)]_vars

\* Whoever holds the gate has a step to take.
HolderReady ==
  gate # "free" =>
    \/ run.at \in {"planning", "applying", "sending"}
    \/ run.at = "telling" /\ (run.todo = {} \/ \E k \in run.todo : \A j \in run.todo : k <= j)
    \/ run.at = "idle" /\ gate \in {"refresh", "page"}

\* The gate (cmd/nuno/actor.go: the mutex the loops and the page share) is held
\* for boundedly many steps of whoever holds it, and handed on by nobody else:
\* what LoopsGoOn needs besides a fair mutex.
THEOREM TheGateIsGivenBack == Spec => []HolderReady /\ GateIsGivenBack
  <1> DEFINE Kept == gate # "free" =>
                       \/ gate' = "free"
                       \/ gate' = gate /\ (RunLeft' < RunLeft \/ run' = run)
  <1>1. ServerInv => HolderReady
    <2> SUFFICES ASSUME ServerInv, gate # "free" PROVE HolderReady
      BY DEF HolderReady
    <2>1. run.at \in {"idle", "planning", "applying", "telling", "sending"} /\ run.todo \subseteq Keys
      BY DEF ServerInv, TypeOK
    <2>2. run.todo # {} => \E k \in run.todo : \A j \in run.todo : k <= j
      BY <2>1, LeastKey
    <2>3. run.at = "idle" => gate \in {"refresh", "page"}
      BY DEF ServerInv, TypeOK, Runners
    <2> QED BY <2>1, <2>2, <2>3 DEF HolderReady
  <1>2. ServerInv /\ [Next]_vars => [Kept]_vars
    <2> SUFFICES ASSUME ServerInv, Next, gate # "free"
                 PROVE  gate' = "free" \/ (gate' = gate /\ (RunLeft' < RunLeft \/ run' = run))
      OBVIOUS
    <2>1. CASE RunStep
      BY <2>1, RunGoesOn
    <2>2. CASE Process
      <3>1. ASSUME NEW l \in Loops, TimerFires(l) \/ LoopStops(l) PROVE gate' = gate /\ run' = run
        BY <3>1 DEF TimerFires, LoopStops
      <3>2. \A f \in Filters, c \in BOOLEAN : ~PageReconciles(f, c) /\ ~CommandReconciles(f, c)
        BY DEF PageReconciles, CommandReconciles, Begin
      <3>3. ~RefreshBegins /\ ~ScheduleBegins /\ ~PageObserves
        BY DEF RefreshBegins, ScheduleBegins, Begin, PageObserves
      <3>4. CASE RefreshEnds \/ PageObserved \/ CycleCancelled \/ ExitsClean \/ GraceOver
        BY <3>4 DEF RefreshEnds, PageObserved, CycleCancelled, Cancel, End, ExitsClean, GraceOver, Ends
      <3> QED BY <2>2, <3>1, <3>2, <3>3, <3>4 DEF Process
    <2>3. CASE World
      <3>1. ASSUME NEW k \in Keys, Appear(k) \/ Fixed(k) PROVE gate' = gate /\ run' = run
        BY <3>1 DEF Appear, Fixed
      <3>2. CASE WorkComes \/ HookTurns \/ Signal
        BY <3>2 DEF WorkComes, HookTurns, Signal
      <3>3. CASE PageLeft \/ ListenFails \/ Killed
        BY <3>3 DEF PageLeft, Cancel, End, ListenFails, Killed, Ends
      <3>4. ~Start
        BY DEF Start
      <3> QED BY <2>3, <3>1, <3>2, <3>3, <3>4 DEF World
    <2> QED BY <2>1, <2>2, <2>3 DEF Next
  <1>3. [][Kept]_vars <=> GateIsGivenBack
    BY DEF GateIsGivenBack
  <1> HIDE DEF Kept
  <1> QED BY <1>1, <1>2, <1>3, ServerHolds, PTL DEF Spec
=============================================================================
