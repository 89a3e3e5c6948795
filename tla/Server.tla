------------------------------- MODULE Server -------------------------------
(***************************************************************************)
(* The process around the engine: the loops and the gate they share with   *)
(* the page (cmd/nuno/serve.go, actor.go), shutting down, and what each    *)
(* run tells the operator of the changes a guardrail refused               *)
(* (notifyOutcome in internal/reconcile/apply.go, internal/store/audit.go, *)
(* internal/notify/notify.go).  What a run writes is Reconcile's matter;   *)
(* here a plan is the guarded changes in it, and whether it has others.    *)
(***************************************************************************)
EXTENDS Naturals, FiniteSets

CONSTANTS
  Keys,        \* guarded changes there may be: person, provider, from and to
  Shrinks,     \* those an operator may consent to
  Filters,     \* what a run may be restricted to
  Scheduled,   \* an interval is set, and a webhook to tell of it
  MaxDisturbances

ASSUME KeysAssumption    == Keys \subseteq Nat /\ IsFiniteSet(Keys) /\ Shrinks \subseteq Keys
ASSUME FiltersAssumption == Filters \subseteq SUBSET Keys /\ Keys \in Filters
ASSUME OptionAssumption  == Scheduled \in BOOLEAN /\ MaxDisturbances \in Nat

Loops   == {"refresh", "schedule"}
Runners == {"schedule", "ui", "cli"}

VARIABLES
  up,        \* the server: down, up or stopping
  exit,      \* how it last ended
  loop,      \* off, waiting for its timer, wanting the gate, running or ended
  gate,      \* who holds it, or free
  run,       \* the run in progress
  guarded,   \* guarded changes a full plan would hold now
  work,      \* whether it would hold others
  seen,      \* notified_changes
  hook,      \* whether the webhook answers
  heard,     \* history: told since it appeared
  spared,    \* history: left out of some later run's plan
  lossy,     \* history: a message was lost, or a run cut short
  left       \* disturbances left

world   == <<guarded, work, hook>>
history == <<heard, spared, lossy>>
vars    == <<up, exit, loop, gate, run, world, seen, history, left>>

NoRun == [at |-> "idle", filter |-> Keys, consent |-> FALSE,
          todo |-> {}, keep |-> {}, fresh |-> {}]

Init ==
  /\ up = "down" /\ exit = "none"
  /\ loop = [l \in Loops |-> "off"]
  /\ gate = "free" /\ run = NoRun
  /\ guarded = {} /\ work = FALSE /\ hook = TRUE
  /\ seen = {} /\ heard = {} /\ spared = {} /\ lossy = FALSE
  /\ left = MaxDisturbances
-----------------------------------------------------------------------------
(* The world: changes become guarded and stop being so, the webhook fails. *)

Disturb == left > 0 /\ left' = left - 1

Appear(k) ==
  /\ Disturb /\ k \notin guarded /\ guarded' = guarded \cup {k}
  /\ UNCHANGED <<up, exit, loop, gate, run, work, hook, seen, history>>

Fixed(k) ==
  /\ Disturb /\ k \in guarded /\ guarded' = guarded \ {k}
  /\ heard' = heard \ {k} /\ spared' = spared \ {k}
  /\ UNCHANGED <<up, exit, loop, gate, run, work, hook, seen, lossy>>

WorkComes ==
  /\ Disturb /\ ~work /\ work' = TRUE
  /\ UNCHANGED <<up, exit, loop, gate, run, guarded, hook, seen, history>>

HookTurns ==
  /\ Disturb /\ hook' = ~hook
  /\ UNCHANGED <<up, exit, loop, gate, run, guarded, work, seen, history>>
-----------------------------------------------------------------------------
(* A run, from the gate to its end.                                        *)

Begin(who, filter, consent) ==
  /\ gate = "free" /\ gate' = who
  /\ run' = [NoRun EXCEPT !.at = "planning", !.filter = filter, !.consent = consent]

End == gate' = "free" /\ run' = NoRun

\* Mutant: the loop that held the gate is not told that it may go on.
LoopLeftRunning == UNCHANGED loop

\* The loop that held the gate waits for its timer again.
LoopEnds == loop' = [l \in Loops |-> IF l = gate THEN "waiting" ELSE loop[l]]

\* A plan with nothing in it ends the run: Apply is not called.
PlanEmpty ==
  /\ run.at = "planning"
  /\ guarded \cap run.filter = {} /\ (~work \/ run.filter # Keys)
  /\ End /\ LoopEnds
  /\ UNCHANGED <<up, exit, world, seen, heard, spared, lossy, left>>

Consented == IF run.consent THEN Shrinks \cap run.filter ELSE {}

\* What the plan holds is counted and told; what was consented to is not.
PlanMade ==
  /\ run.at = "planning"
  /\ guarded \cap run.filter # {} \/ (work /\ run.filter = Keys)
  /\ LET told == (guarded \cap run.filter) \ Consented
     IN run' = [run EXCEPT !.at = "applying", !.todo = told, !.keep = told]
  /\ UNCHANGED <<up, exit, loop, gate, world, seen, heard, spared, lossy, left>>

\* Changes are written, or fail; one that was written is no longer there.
Apply ==
  /\ run.at = "applying"
  /\ \E done \in SUBSET (guarded \cap Consented) :
       /\ guarded' = guarded \ done
       /\ heard' = heard \ done /\ spared' = spared \ done
  /\ IF run.filter = Keys THEN work' \in {work, FALSE} ELSE UNCHANGED work
  /\ run' = [run EXCEPT !.at = "telling"]
  /\ UNCHANGED <<up, exit, loop, gate, hook, seen, lossy, left>>

\* Mutant: every appearance is the first.
FirstAlways(k) == TRUE

First(k) == k \notin seen

SeenGuardedChange(k) ==
  /\ run.at = "telling" /\ k \in run.todo /\ \A j \in run.todo : k <= j
  /\ seen' = seen \cup {k}
  /\ run' = [run EXCEPT !.todo = @ \ {k}, !.fresh = IF First(k) THEN @ \cup {k} ELSE @]
  /\ UNCHANGED <<up, exit, loop, gate, world, history, left>>

\* A change that was fixed and comes back must be told again, so the table
\* keeps what this plan holds and nothing else.
ForgetGuardedChanges ==
  /\ run.at = "telling" /\ run.todo = {}
  /\ seen' = seen \cap run.keep
  /\ spared' = spared \cup (heard \ run.keep)
  /\ run' = [run EXCEPT !.at = "sending"]
  /\ UNCHANGED <<up, exit, loop, gate, world, heard, lossy, left>>

\* Mutant: only a second appearance is worth a message.
ToSendLate(fresh) == {}

ToSend(fresh) == fresh

Notify ==
  /\ run.at = "sending"
  /\ IF hook THEN /\ heard' = heard \cup (ToSend(run.fresh) \cap guarded)
                  /\ spared' = spared \ ToSend(run.fresh)
                  /\ UNCHANGED lossy
     ELSE /\ lossy' = (lossy \/ run.fresh # {})
          /\ UNCHANGED <<heard, spared>>
  /\ End /\ LoopEnds
  /\ UNCHANGED <<up, exit, world, seen, left>>

RunStep ==
  \/ PlanEmpty \/ PlanMade \/ Apply
  \/ \E k \in Keys : SeenGuardedChange(k)
  \/ ForgetGuardedChanges \/ Notify

\* A cancelled context: what the run has not stored or sent, it never will.
Cancel ==
  /\ End /\ lossy' = TRUE
  /\ LoopEnds
  /\ UNCHANGED <<up, exit, world, seen, heard, spared>>
-----------------------------------------------------------------------------
(* The loops wait for the gate; the page gives up when it is taken.        *)

\* Mutant: the timer is armed by one loop only.
TimerFiresOnce(l) ==
  /\ up = "up" /\ loop[l] = "waiting" /\ l = "refresh"
  /\ loop' = [loop EXCEPT ![l] = "wanting"]
  /\ UNCHANGED <<up, exit, gate, run, world, seen, history, left>>

\* The retry delays are left out: a timer may fire at any moment.
TimerFires(l) ==
  /\ up = "up" /\ loop[l] = "waiting"
  /\ loop' = [loop EXCEPT ![l] = "wanting"]
  /\ UNCHANGED <<up, exit, gate, run, world, seen, history, left>>

RefreshBegins ==
  /\ up # "down" /\ loop["refresh"] = "wanting" /\ gate = "free"
  /\ gate' = "refresh" /\ loop' = [loop EXCEPT !["refresh"] = "running"]
  /\ UNCHANGED <<up, exit, run, world, seen, history, left>>

RefreshEnds ==
  /\ gate = "refresh" /\ gate' = "free" /\ LoopEnds
  /\ UNCHANGED <<up, exit, run, world, seen, history, left>>

\* Never consent, never a filter.
ScheduleBegins ==
  /\ up # "down" /\ loop["schedule"] = "wanting"
  /\ Begin("schedule", Keys, FALSE)
  /\ loop' = [loop EXCEPT !["schedule"] = "running"]
  /\ UNCHANGED <<up, exit, world, seen, history, left>>

PageReconciles(filter, consent) ==
  /\ up = "up" /\ Begin("ui", filter, consent)
  /\ UNCHANGED <<up, exit, loop, world, seen, history, left>>

\* The page also only reads, under the same gate.
PageObserves ==
  /\ up = "up" /\ gate = "free" /\ gate' = "page"
  /\ UNCHANGED <<up, exit, loop, run, world, seen, history, left>>

PageObserved ==
  /\ gate = "page" /\ gate' = "free"
  /\ UNCHANGED <<up, exit, loop, run, world, seen, history, left>>

\* The browser goes away, and takes the request's context with it.
PageLeft == gate = "ui" /\ Disturb /\ Cancel

\* A command holds the data directory, so it runs only where no server does.
CommandReconciles(filter, consent) ==
  /\ up = "down" /\ Disturb /\ Begin("cli", filter, consent)
  /\ UNCHANGED <<up, exit, loop, world, seen, history>>
-----------------------------------------------------------------------------
(* The process.                                                            *)

Start ==
  /\ up = "down" /\ gate = "free" /\ Disturb /\ up' = "up" /\ exit' = "none"
  /\ loop' = [l \in Loops |-> IF l = "schedule" /\ ~Scheduled THEN "ended" ELSE "wanting"]
  /\ UNCHANGED <<gate, run, world, seen, history>>

\* A signal cancels the context of the loops, not that of a request.
Signal ==
  /\ up = "up" /\ Disturb /\ up' = "stopping"
  /\ UNCHANGED <<exit, loop, gate, run, world, seen, history>>

CycleCancelled == up = "stopping" /\ gate \in Loops /\ Cancel /\ UNCHANGED left

\* Mutant: a loop that waits for its timer does not see the signal.
LoopSleepsOn(l) == FALSE

LoopStops(l) ==
  /\ up = "stopping" /\ loop[l] = "waiting"
  /\ loop' = [loop EXCEPT ![l] = "ended"]
  /\ UNCHANGED <<up, exit, gate, run, world, seen, history, left>>

Ends(how) ==
  /\ up' = "down" /\ exit' = how
  /\ gate' = "free" /\ run' = NoRun /\ loop' = [l \in Loops |-> "off"]
  /\ lossy' = (lossy \/ run # NoRun)
  /\ UNCHANGED <<world, seen, heard, spared>>

\* Requests first, then the two loops.
Stopped == gate \notin {"ui", "page"} /\ \A l \in Loops : loop[l] = "ended"

ExitsClean == up = "stopping" /\ Stopped /\ Ends("clean") /\ UNCHANGED left

\* A request outlasts the grace.
GraceOver == up = "stopping" /\ gate \in {"ui", "page"} /\ Ends("error") /\ UNCHANGED left

\* The address is taken: by then the loops are running.
ListenFails == up = "up" /\ Disturb /\ Ends("config")

Killed == (up # "down" \/ gate = "cli") /\ Disturb /\ Ends("killed")

Process ==
  \/ \E l \in Loops : TimerFires(l) \/ LoopStops(l)
  \/ RefreshBegins \/ RefreshEnds \/ ScheduleBegins
  \/ \E f \in Filters, c \in BOOLEAN : PageReconciles(f, c) \/ CommandReconciles(f, c)
  \/ PageObserves \/ PageObserved \/ CycleCancelled \/ ExitsClean \/ GraceOver

World ==
  \/ \E k \in Keys : Appear(k) \/ Fixed(k)
  \/ WorkComes \/ HookTurns \/ PageLeft
  \/ Start \/ Signal \/ ListenFails \/ Killed

Next == RunStep \/ Process \/ World

Spec == Init /\ [][Next]_vars

\* A run goes on, timers fire, and a mutex that was waited for is handed over
\* though the page may take it in between.
FairSpec ==
  /\ Spec
  /\ WF_vars(RunStep) /\ WF_vars(RefreshEnds) /\ WF_vars(PageObserved) /\ WF_vars(CycleCancelled)
  /\ \A l \in Loops : WF_vars(TimerFires(l)) /\ WF_vars(LoopStops(l))
  /\ SF_vars(RefreshBegins) /\ SF_vars(ScheduleBegins)
  /\ WF_vars(ExitsClean) /\ WF_vars(GraceOver)
-----------------------------------------------------------------------------
(* Properties.                                                             *)

\* A loop is running exactly while it holds the gate, a run is in progress
\* exactly while somebody who reconciles holds it, and nothing holds it in a
\* process that is gone.
TypeOK ==
  /\ up \in {"down", "up", "stopping"}
  /\ exit \in {"none", "clean", "error", "config", "killed"}
  /\ loop \in [Loops -> {"off", "waiting", "wanting", "running", "ended"}]
  /\ gate \in {"free", "refresh", "page"} \cup Runners
  /\ run.at \in {"idle", "planning", "applying", "telling", "sending"}
  /\ run.filter \in Filters /\ run.consent \in BOOLEAN
  /\ run.todo \subseteq run.keep /\ run.keep \subseteq Keys /\ run.fresh \subseteq run.keep
  /\ guarded \subseteq Keys /\ seen \subseteq Keys
  /\ heard \subseteq guarded /\ spared \subseteq guarded
  /\ work \in BOOLEAN /\ hook \in BOOLEAN /\ lossy \in BOOLEAN
  /\ left \in 0..MaxDisturbances
  /\ \A l \in Loops : loop[l] = "running" <=> gate = l
  /\ run.at # "idle" <=> gate \in Runners
  /\ up = "down" => gate \in {"free", "cli"}

\* A change that is still guarded is told once, not once per cycle, unless a
\* filtered or consented run since left it out of its plan, whatever crashes
\* and restarts lie between (SeenGuardedChange: "fires on first appearance and
\* on change, not once per cycle").
ToldOnce == run.fresh \cap heard \subseteq spared

\* A process that exits clean leaves no cycle half way.
CleanExitIsIdle ==
  [][up = "stopping" /\ up' = "down" /\ exit' = "clean" => run = NoRun /\ gate = "free"]_vars

\* A change never told of, and still guarded, is told, as long as no message
\* is lost, no run cut short, and the server stays up.
NewIsTold ==
  \A k \in Keys :
    (Scheduled /\ up = "up" /\ k \in guarded /\ k \notin seen /\ run = NoRun /\ ~lossy /\ hook)
      ~> (k \in heard \/ k \notin guarded \/ lossy \/ ~hook \/ up # "up")

\* Neither loop is ever shut out by the other or by the page.
LoopsGoOn ==
  /\ (up = "up") ~> (gate = "refresh" \/ up # "up")
  /\ (up = "up" /\ Scheduled) ~> (gate = "schedule" \/ up # "up")

\* A server told to stop does, however long its requests take.
ShutdownEnds == (up = "stopping") ~> (up # "stopping")
=============================================================================
