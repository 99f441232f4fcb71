---------------------------- MODULE TaskScheduling ----------------------------
(***************************************************************************)
(* The TaskManager of a session and its TaskQueue: which task runs when.   *)
(* Tasks are created by the user (roots) or planned by a running task (its *)
(* children, staged until its run has ended); a task waits for the tasks   *)
(* it depends on, for its agent, for its interaction port, or for a slot   *)
(* of the pool.  A run ends finished, failed, parked (for a human, for its *)
(* children, for a recovery) or is repeated.                               *)
(*                                                                         *)
(* The coroutines of the tasks, the loop of drain, the timers of           *)
(* autonomous jobs, the commands of the host and a failure threshold that  *)
(* stops the session interleave at the awaits of the code; a crash leaves  *)
(* only what the event log says.  drain is one loop however many callers   *)
(* ask for it: a request starts the loop, and what a caller does after its *)
(* drain waits until no loop is at work (closing).                         *)
(*                                                                         *)
(* Left out: cancellation by the user, pauses, task switches, late         *)
(* verdicts, storage failures, and the rounds of module Round.  Without a  *)
(* cancellation by the user, _cancelled is _threshold_tripped.             *)
(***************************************************************************)
EXTENDS Naturals, Sequences, FiniteSets

CONSTANTS
  Task,          \* the tasks that may be created
  Parent,        \* parent_task_id of each, None for a root
  Plan,          \* the children each task may delegate, in the order it names them
  Deps,          \* dag_deps of each
  Agent,         \* effective_agent_id of each
  Port,          \* port_key of each
  Unattended,    \* the autonomous tasks: nobody answers them
  None, Host,    \* nobody, and the host's command
  MaxConcurrent, MaxRetries, MaxRequeues, Threshold,   \* configuration
  MaxAgain,      \* bound: how often a run goes on or asks a human
  MaxResumes, MaxCrashes,  \* bounds: /resume commands and restarts
  MaxUpsets      \* bound: all of these together

Roots == {t \in Task : Parent[t] = None}

ASSUME SchedulingAssumption ==
  /\ \A t \in Task \ Roots : Port[t] = Port[Parent[t]] /\ (t \in Unattended <=> Parent[t] \in Unattended)
  /\ Parent \in [Task -> Task \cup {None}] /\ Deps \in [Task -> SUBSET Task]
  /\ Plan \in [Task -> Seq(Task \ Roots)]
  /\ Unattended \subseteq Task
  /\ None \notin Task /\ Host \notin Task /\ None # Host
  /\ {MaxConcurrent, MaxRetries, MaxRequeues, Threshold, MaxAgain, MaxResumes, MaxCrashes, MaxUpsets}
       \subseteq Nat

\* What control_tools.py delegates: a plan names tasks of its own, and each waits at
\* most for tasks the same plan names before it.  A root waits for nobody.
ASSUME PlansAssumption ==
  \A t \in Task :
    /\ \A i \in DOMAIN Plan[t] : Parent[Plan[t][i]] = t
    /\ \A i, j \in DOMAIN Plan[t] : Plan[t][i] = Plan[t][j] => i = j
    /\ \A d \in Deps[t] :
         /\ Parent[t] \in Task
         /\ \E i, j \in DOMAIN Plan[Parent[t]] :
              j < i /\ Plan[Parent[t]][i] = t /\ Plan[Parent[t]][j] = d

Terminal == {"FINISHED", "FAILED", "CANCELED"}
Parked == {"SUSPENDED", "AWAITING_HUMAN", "INTERRUPTED"}
Status == {"new", "PENDING", "ACTIVE"} \cup Parked \cup Terminal

VARIABLES
  status,     \* Task.status
  created,    \* TaskManager._tasks, in the order of creation
  queue,      \* TaskQueue._entries; the last one is on top
  succeeded,  \* TaskQueue._succeeded
  running,    \* _running_tasks (and TaskQueue._running, which is the same set)
  stage,      \* where the coroutine of each task's run is
  result,     \* the status its run has come to, for its settlement
  retries,    \* retry_count
  requeues,   \* interrupt_requeue_count
  timers,     \* _autonomous_requeue_timers
  answered,   \* the tasks whose open question has its answer
  signalled,  \* the runs told to cancel
  closing,    \* what is left to do after a drain: <<who, which tail>>
  draining,   \* a drain loop is at work
  disposer,   \* who holds _in_blocked_dispose
  host,       \* the recovery or reply in progress; _recovery_pending while not idle
  counter,    \* Session.failure_counter
  tripped,    \* _threshold_tripped and _cancelled
  doomed,     \* _pending_threshold_roots
  plan,       \* the decision of the threshold in progress
  announced,  \* on_session_done has been called since a task was last created or started
  budget, everTripped   \* what is left of the bounds, and history

taskVars == <<status, created, retries, requeues>>
queueVars == <<queue, succeeded, running>>
runVars == <<stage, result, closing>>
waitVars == <<timers, answered, host>>
tripVars == <<counter, tripped, doomed, plan, signalled>>
history == <<budget, everTripped>>
vars == <<taskVars, queueVars, runVars, waitVars, tripVars, history, draining, disposer, announced>>

Entry == [task : Task, blocked : SUBSET Task]
Stage == {"off", "assemble", "execute", "flush", "settle", "finish", "dispose", "trip", "wake"}
TailKind == {"parked", "finished", "final"}
NoPlan == [cancel |-> {}, signal |-> {}, roots |-> {}]
IdleHost == [at |-> "idle", on |-> None, cold |-> FALSE]
Created == {created[i] : i \in DOMAIN created}
Queued == {queue[i].task : i \in DOMAIN queue}

TypeOK ==
  /\ status \in [Task -> Status]
  /\ created \in Seq(Task) /\ Len(created) = Cardinality(Created)
  /\ queue \in Seq(Entry)
  /\ succeeded \subseteq Task /\ running \subseteq Task
  /\ stage \in [Task -> Stage]
  /\ result \in [Task -> Status \cup {"none"}]
  /\ retries \in [Task -> 0..MaxRetries] /\ requeues \in [Task -> 0..MaxRequeues]
  /\ timers \subseteq Unattended
  /\ answered \subseteq Task \ Unattended
  /\ signalled \subseteq Task /\ doomed \subseteq Roots
  /\ closing \subseteq (Task \cup {Host}) \X TailKind
  /\ draining \in BOOLEAN
  /\ disposer \in Task \cup {None, Host}
  /\ host \in [at : {"idle", "preparing", "disposing"}, on : Task \cup {None}, cold : BOOLEAN]
  /\ counter \in Nat
  /\ tripped \in BOOLEAN
  /\ plan \in [cancel : SUBSET Task, signal : SUBSET Task, roots : SUBSET Roots]
  /\ announced \in BOOLEAN
  /\ budget \in [agains : 0..MaxAgain, resumes : 0..MaxResumes, crashes : 0..MaxCrashes,
                 upsets : 0..MaxUpsets]
  /\ everTripped \in BOOLEAN

Init ==
  /\ status = [t \in Task |-> "new"] /\ created = <<>>
  /\ queue = <<>> /\ succeeded = {} /\ running = {}
  /\ stage = [t \in Task |-> "off"] /\ result = [t \in Task |-> "none"]
  /\ retries = [t \in Task |-> 0] /\ requeues = [t \in Task |-> 0]
  /\ timers = {} /\ answered = {} /\ signalled = {} /\ closing = {}
  /\ draining = FALSE /\ disposer = None /\ host = IdleHost
  /\ counter = 0 /\ tripped = FALSE /\ doomed = {} /\ plan = NoPlan
  /\ announced = FALSE
  /\ everTripped = FALSE
  /\ budget = [agains |-> MaxAgain, resumes |-> MaxResumes, crashes |-> MaxCrashes,
               upsets |-> MaxUpsets]
-------------------------------------------------------------------------------
\* TaskQueue.
Push(q, t, blocked) == Append(q, [task |-> t, blocked |-> blocked \ succeeded])
Remove(q, i) == SubSeq(q, 1, i - 1) \o SubSeq(q, i + 1, Len(q))
CancelEntry(q, t) ==
  IF \E i \in DOMAIN q : q[i].task = t
    THEN Remove(q, CHOOSE i \in DOMAIN q : q[i].task = t /\ \A j \in 1..(i-1) : q[j].task # t)
    ELSE q

\* Mutated form: a task that waits for its human does not hold the port.
HeldPortsRunning == {Port[t] : t \in running \ Unattended}

\* The interaction ports in use: an attended task runs on it or waits for its human.
HeldPorts ==
  {Port[t] : t \in {u \in Task \ Unattended : u \in running \/ status[u] = "AWAITING_HUMAN"}}

\* The agents that are busy.
BusyAgents == {Agent[t] : t \in running}

\* The gates of drain.  A dependency that has succeeded since is taken off first.
MayRun(e) ==
  /\ MaxConcurrent > 0
  /\ e.blocked \subseteq succeeded
  /\ e.task \notin running
  /\ Agent[e.task] \notin BusyAgents
  /\ e.task \notin Unattended => Port[e.task] \notin HeldPorts
  /\ e.task \in Unattended => Cardinality(running) < MaxConcurrent

Ready == {i \in DOMAIN queue : MayRun(queue[i])}

\* A drain that is asked for when the session is stopped or recovering does nothing.
RequestDrain == draining' = (draining \/ (~tripped' /\ host'.at = "idle"))

IsDone == queue = <<>> /\ running = {}
BlockedOrInterrupted == \E t \in Task : status[t] \in Parked
Children(p) == {c \in Created : Parent[c] = p}
AtWork == \E t \in Task : stage[t] # "off"
AllOver == \A t \in Created : status[t] \in Terminal

\* Mutated form: only success of all the children counts.
WokenBySuccess(st, t) ==
  {p \in Created : p = Parent[t] /\ st[p] = "SUSPENDED"
                   /\ \A c \in Children(p) : st[c] = "FINISHED"}

\* _try_resume_parent: whom the end of t wakes, with the statuses st.
Woken(st, t) ==
  {p \in Created : p = Parent[t] /\ st[p] = "SUSPENDED"
                   /\ \A c \in Children(p) : st[c] \in Terminal}
Awoken(st, t) == [u \in Task |-> IF u \in Woken(st, t) THEN "PENDING" ELSE st[u]]
WithParent(q, st, t) == IF Woken(st, t) = {} THEN q ELSE Push(q, Parent[t], {})

\* A queued task with a dependency that can no longer succeed.
Victims ==
  {queue[i].task : i \in {j \in DOMAIN queue :
     /\ status[queue[j].task] \notin Terminal
     /\ \E d \in queue[j].blocked : status[d] \in {"FAILED", "CANCELED"}}}
-------------------------------------------------------------------------------
(***************************************************************************)
(* drain.                                                                  *)
(***************************************************************************)
\* Pop the topmost entry that may run and start its coroutine, which makes it
\* ACTIVE before it first waits.
Dispatch ==
  /\ draining /\ host.at = "idle"
  /\ \E i \in Ready :
       LET t == queue[i].task IN
       /\ \A j \in Ready : j <= i
       /\ queue' = Remove(queue, i)
       /\ running' = running \cup {t}
       /\ status' = [status EXCEPT ![t] = "ACTIVE"]
       /\ stage' = [stage EXCEPT ![t] = "assemble"]
       /\ answered' = answered \ {t}
  /\ announced' = FALSE
  /\ UNCHANGED <<created, retries, requeues, succeeded, result, closing, timers, host,
                 tripVars, history, draining, disposer>>

DrainEnds ==
  /\ draining
  /\ host.at # "idle" \/ Ready = {}
  /\ draining' = FALSE
  /\ UNCHANGED <<taskVars, queueVars, runVars, waitVars, tripVars, history, disposer, announced>>
-------------------------------------------------------------------------------
(***************************************************************************)
(* The coroutine of a task's run.                                          *)
(***************************************************************************)
Goto(t, from, to) == stage[t] = from /\ stage' = [stage EXCEPT ![t] = to]
Leave(t, from) == Goto(t, from, "off") /\ result' = [result EXCEPT ![t] = "none"]
ComesTo(t, st) ==
  /\ status' = [status EXCEPT ![t] = st]
  /\ result' = [result EXCEPT ![t] = st]

Assembled(t) ==
  /\ Goto(t, "assemble", "execute")
  /\ t \notin doomed
  /\ UNCHANGED <<taskVars, queueVars, result, closing, waitVars, tripVars, history,
                 draining, disposer, announced>>

\* A root the threshold has condemned fails when its own execution is over.
FailDoomed(t) ==
  /\ t \in doomed
  /\ \E from \in {"assemble", "execute"} : Goto(t, from, "finish")
  /\ ComesTo(t, "FAILED")
  /\ doomed' = doomed \ {t}
  /\ signalled' = signalled \ {t}
  /\ UNCHANGED <<created, retries, requeues, queueVars, closing, waitVars, counter, tripped,
                 plan, history, draining, disposer, announced>>

\* disposition_for: the status a run comes to.
Disposition(t, kind) ==
  CASE kind = "success"  -> "FINISHED"
    [] kind = "fail"     -> "FAILED"
    [] kind = "continue" -> "PENDING"
    [] kind = "human"    -> "AWAITING_HUMAN"
    [] kind = "children" -> "SUSPENDED"
    [] kind = "cancel"   -> "CANCELED"
    [] kind = "crash" /\ retries[t] < MaxRetries -> "PENDING"
    [] OTHER             -> "INTERRUPTED"

Retried(t, kind) ==
  retries' = IF kind = "crash" /\ retries[t] < MaxRetries
               THEN [retries EXCEPT ![t] = @ + 1] ELSE retries

\* _handle_task_failure: an error in the assembly is retried or interrupts the task.
AssemblyFails(t, kind) ==
  /\ Goto(t, "assemble", "settle")
  /\ t \notin doomed /\ status[t] \notin Terminal
  /\ ComesTo(t, Disposition(t, kind))
  /\ Retried(t, kind)
  /\ UNCHANGED <<created, requeues, queueVars, closing, waitVars, tripVars, history,
                 draining, disposer, announced>>

\* The same for a task that was settled in the meantime: only its slot is returned.
AssemblyInVain(t) ==
  /\ Leave(t, "assemble")
  /\ status[t] \in Terminal
  /\ running' = running \ {t}
  /\ UNCHANGED <<taskVars, queue, succeeded, closing, waitVars, tripVars, history,
                 disposer, announced>>
  /\ RequestDrain

\* How a run may end: only an attended task parks for a human, a task delegates
\* its plan once, and a run is canceled only when it was told to.
MayEnd(t, kind) ==
  /\ kind \in {"continue", "human"} => budget.agains > 0 /\ budget.upsets > 0
  /\ kind = "human" => t \notin Unattended
  /\ kind = "children" => Plan[t] # <<>> /\ \A i \in DOMAIN Plan[t] : Plan[t][i] \notin Created
  /\ kind = "cancel" => t \in signalled

\* Where the coroutine goes with its result.
Onward(st) == CASE st = "SUSPENDED" -> "flush" [] st \in Terminal -> "finish" [] OTHER -> "settle"

\* apply_run_outcome.  A settled task keeps its status unless its run has completed.
RunEnds(t, kind) ==
  /\ stage[t] = "execute" /\ t \notin doomed /\ MayEnd(t, kind)
  /\ IF status[t] \in Terminal /\ kind \notin {"success", "fail", "continue"}
       THEN ComesTo(t, status[t]) /\ UNCHANGED retries
       ELSE ComesTo(t, Disposition(t, kind)) /\ Retried(t, kind)
  /\ Goto(t, "execute", Onward(result'[t]))
  /\ budget' = IF kind \in {"continue", "human"} THEN [budget EXCEPT !.agains = @ - 1, !.upsets = @ - 1] ELSE budget
  /\ signalled' = signalled \ {t}
  /\ UNCHANGED <<created, requeues, queueVars, closing, waitVars, counter, tripped, doomed,
                 plan, everTripped, draining, disposer, announced>>

\* The children a run has staged and not yet pushed, and whether they are dropped:
\* that is decided once, before the first.
Staged(t) == {i \in DOMAIN Plan[t] : Plan[t][i] \notin Created}
Dropped(t) == tripped /\ \A i \in DOMAIN Plan[t] : Plan[t][i] \notin Created

\* _flush_staged pushes the last child first, so that the first is on top.
PushChild(t) ==
  /\ stage[t] = "flush" /\ ~Dropped(t)
  /\ \E i \in Staged(t) :
       LET c == Plan[t][i] IN
       /\ \A j \in Staged(t) : j <= i
       /\ created' = Append(created, c)
       /\ status' = [status EXCEPT ![c] = "PENDING"]
       /\ queue' = Push(queue, c, Deps[c])
  /\ UNCHANGED <<retries, requeues, succeeded, running, runVars, waitVars, tripVars, history,
                 draining, disposer, announced>>

Flushed(t) ==
  /\ Goto(t, "flush", "settle")
  /\ Staged(t) = {} \/ Dropped(t)
  /\ UNCHANGED <<taskVars, queueVars, result, closing, waitVars, tripVars, history,
                 draining, disposer, announced>>
-------------------------------------------------------------------------------
(***************************************************************************)
(* _settle and on_task_finished.                                           *)
(***************************************************************************)
\* An autonomous job that is interrupted has nobody to resume it.
Autonomous(t) ==
  t \in Unattended /\ result[t] = "INTERRUPTED" /\ status[t] = "INTERRUPTED" /\ ~tripped

\* Mutated forms: no timer is set; the budget is taken for one larger.
TimersAsTheyAre(t) == timers
ExhaustedLate(t) == Autonomous(t) /\ requeues[t] > MaxRequeues

\* Its timer, unless its budget is used up.
TimersAfter(t) == IF Autonomous(t) THEN timers \cup {t} ELSE timers
Exhausted(t) == Autonomous(t) /\ requeues[t] >= MaxRequeues

\* Park: the slot is returned; an autonomous job gets a timer.
SettleParked(t) ==
  /\ Leave(t, "settle")
  /\ result[t] \in Parked
  /\ ~Exhausted(t)
  /\ running' = running \ {t}
  /\ timers' = TimersAfter(t)
  /\ closing' = closing \cup {<<t, "parked">>}
  /\ UNCHANGED <<taskVars, queue, succeeded, answered, host, tripVars, history,
                 disposer, announced>>
  /\ RequestDrain

\* Its budget is used up: it fails.
SettleExhausted(t) ==
  /\ Goto(t, "settle", "finish")
  /\ Exhausted(t)
  /\ result' = [result EXCEPT ![t] = "FAILED"]
  /\ running' = running \ {t}
  /\ UNCHANGED <<taskVars, queue, succeeded, closing, waitVars, tripVars, history,
                 draining, disposer, announced>>

\* Run again: back into the queue.
SettlePending(t) ==
  /\ Leave(t, "settle")
  /\ result[t] = "PENDING"
  /\ running' = running \ {t}
  /\ queue' = Push(queue, t, {})
  /\ UNCHANGED <<taskVars, succeeded, closing, waitVars, tripVars, history,
                 disposer, announced>>
  /\ RequestDrain

\* The bookkeeping of the end of a task; the failures are counted until the
\* threshold is reached.
Trips(t) == result[t] = "FAILED" /\ ~tripped /\ Threshold > 0 /\ counter + 1 >= Threshold
\* Mutated forms: a dependency that finished is not taken off; any end takes it off.
BookForgetful(t) ==
  /\ running' = running \ {t}
  /\ succeeded' = succeeded
  /\ status' = [status EXCEPT ![t] = result[t]]
  /\ counter' = IF result[t] = "FINISHED" THEN 0 ELSE counter + 1
BookUnblocking(t) ==
  /\ running' = running \ {t}
  /\ succeeded' = succeeded \cup {t}
  /\ status' = [status EXCEPT ![t] = result[t]]
  /\ counter' = IF result[t] = "FINISHED" THEN 0 ELSE counter + 1
Book(t) ==
  /\ running' = running \ {t}
  /\ succeeded' = IF result[t] = "FINISHED" THEN succeeded \cup {t} ELSE succeeded
  /\ status' = [status EXCEPT ![t] = result[t]]
  /\ counter' = CASE result[t] = "FINISHED" -> 0
                  [] result[t] = "FAILED" /\ ~tripped -> counter + 1
                  [] OTHER -> counter

Finish(t) ==
  /\ Goto(t, "finish", "dispose")
  /\ ~Trips(t)
  /\ Book(t)
  /\ UNCHANGED <<created, retries, requeues, queue, result, closing, waitVars, tripped, doomed,
                 plan, signalled, history, draining, disposer, announced>>

\* plan_threshold_trip: queued and suspended tasks are canceled, running ones told
\* to cancel, roots fail; a root that is running fails after its execution.
Trip(t) ==
  /\ Goto(t, "finish", "trip")
  /\ Trips(t)
  /\ Book(t)
  /\ LET open == {r \in Roots \cap Created : status'[r] \notin Terminal}
         inner == Created \ Roots
     IN  /\ plan' = [cancel |-> {u \in inner : u \in Queued \/ status'[u] = "SUSPENDED"},
                     signal |-> {u \in inner : status'[u] # "SUSPENDED"} \cap running',
                     roots  |-> open \ running']
         /\ doomed' = doomed \cup (open \cap running')
  /\ tripped' = TRUE
  /\ everTripped' = TRUE
  /\ UNCHANGED <<created, retries, requeues, queue, result, closing, waitVars, signalled,
                 budget, draining, disposer, announced>>

TripCancel(t) ==
  /\ stage[t] = "trip"
  /\ \E u \in plan.cancel :
       /\ status' = IF status[u] \in Terminal THEN status ELSE [status EXCEPT ![u] = "CANCELED"]
       /\ queue' = CancelEntry(queue, u)
       /\ plan' = [plan EXCEPT !.cancel = @ \ {u}]
  /\ UNCHANGED <<created, retries, requeues, succeeded, running, runVars, waitVars, counter,
                 tripped, doomed, signalled, history, draining, disposer, announced>>

TripEnds(t) ==
  /\ Leave(t, "trip")
  /\ plan.cancel = {}
  /\ status' = [u \in Task |-> IF u \in plan.roots THEN "FAILED" ELSE status[u]]
  /\ signalled' = signalled \cup ((plan.signal \cup doomed) \cap running)
  /\ plan' = NoPlan
  /\ closing' = closing \cup {<<t, "final">>}
  /\ UNCHANGED <<created, retries, requeues, queueVars, waitVars, counter, tripped,
                 doomed, history, draining, disposer, announced>>

\* dispose_blocked_dependents, one victim: it is canceled, and its end may wake
\* its parent.  Whoever finds another scan at work leaves it to that one.
Scanning(w) == IF w = Host THEN host.at = "disposing" ELSE stage[w] = "dispose"

DisposeOne(w) ==
  /\ Scanning(w) /\ disposer \in {None, w}
  /\ disposer' = w
  /\ \E v \in Victims :
       LET st == [status EXCEPT ![v] = "CANCELED"] IN
       /\ status' = Awoken(st, v)
       /\ queue' = WithParent(CancelEntry(queue, v), st, v)
       /\ running' = running \ {v}
       /\ closing' = closing \cup {<<v, "finished">>}
  /\ UNCHANGED <<created, retries, requeues, succeeded, stage, result, waitVars, tripVars,
                 history, announced>>
  /\ RequestDrain

DisposeEnds(t) ==
  /\ Goto(t, "dispose", "wake")
  /\ \/ disposer \in {None, t} /\ Victims = {} /\ disposer' = None
     \/ disposer \notin {None, t} /\ UNCHANGED disposer
  /\ UNCHANGED <<taskVars, queueVars, result, closing, waitVars, tripVars, history,
                 draining, announced>>

\* _try_resume_parent, and the drain at the end of on_task_finished.
Wake(t) ==
  /\ Leave(t, "wake")
  /\ status' = Awoken(status, t)
  /\ queue' = WithParent(queue, status, t)
  /\ closing' = closing \cup {<<t, "finished">>}
  /\ UNCHANGED <<created, retries, requeues, succeeded, running, waitVars, tripVars,
                 history, disposer, announced>>
  /\ RequestDrain

\* Mutated forms: a task that is in the queue, or over, is put back as well.
IdleOrQueued(t) == t \in Created \ running /\ status[t] \notin Terminal
IdleOrOver(t) == t \in Created \ (running \cup Queued)

\* resume_task and the timers put a task back unless it is there, runs or is over.
Idle(t) == t \in Created \ (running \cup Queued) /\ status[t] \notin Terminal
BackInQueue(t) ==
  /\ status' = [status EXCEPT ![t] = "PENDING"]
  /\ retries' = [retries EXCEPT ![t] = 0]
  /\ queue' = Push(queue, t, {})

\* _wake_if_already_answered, at the end of a park.  Mutated form: no such look.
Unheard(w, tail) == FALSE
AnsweredMeanwhile(w, tail) ==
  tail = "parked" /\ w \in answered /\ status[w] = "AWAITING_HUMAN" /\ Idle(w)

\* Whether a session that is over is announced.  Mutated form: not by its last task.
AnnouncedByHost(tail) == IsDone /\ ~BlockedOrInterrupted /\ tail = "final"
Announces(tail) == IsDone /\ ~BlockedOrInterrupted /\ tail # "parked"

\* After the drain: the session is idle or done if nothing is left, and a park
\* whose question was answered during the settlement is resumed now.
Close(w, tail) ==
  /\ <<w, tail>> \in closing /\ ~draining
  /\ closing' = closing \ {<<w, tail>>}
  /\ announced' = (announced \/ Announces(tail))
  /\ UNCHANGED <<created, requeues, succeeded, running, stage, result, waitVars, tripVars,
                 history, disposer>>
  /\ IF AnsweredMeanwhile(w, tail)
       THEN BackInQueue(w) /\ RequestDrain
       ELSE UNCHANGED <<status, retries, queue, draining>>

\* _requeue_autonomous_after: it looks again at what it finds when it wakes up.
TimerFires(t) ==
  /\ t \in timers
  /\ timers' = timers \ {t}
  /\ UNCHANGED <<created, succeeded, running, runVars, answered, host, tripVars, history,
                 disposer, announced>>
  /\ IF ~tripped /\ Idle(t) /\ status[t] = "INTERRUPTED"
       THEN /\ BackInQueue(t)
            /\ requeues' = [requeues EXCEPT ![t] = @ + 1]
            /\ RequestDrain
       ELSE UNCHANGED <<status, retries, queue, requeues, draining>>
-------------------------------------------------------------------------------
(***************************************************************************)
(* The host's commands, one at a time, and a crash.                        *)
(***************************************************************************)
\* push_task of a root.  Its status is ACTIVE from the start.
PushRoot(t) ==
  /\ t \in Roots \ Created
  /\ created' = Append(created, t)
  /\ status' = [status EXCEPT ![t] = "ACTIVE"]
  /\ queue' = Push(queue, t, Deps[t])
  /\ announced' = FALSE

\* A message opens a task for an agent that has none.
Submit(t) ==
  /\ host = IdleHost /\ ~tripped
  /\ \A u \in Created : Agent[u] = Agent[t] => status[u] \in Terminal
  /\ PushRoot(t)
  /\ UNCHANGED <<retries, requeues, succeeded, running, runVars, waitVars, tripVars, history, disposer>>
  /\ RequestDrain

\* resume_session: when every task is over and their coroutines have ended, the
\* same TaskManager gets a new root and is reset.
NewRound(t) ==
  /\ host = IdleHost /\ created # <<>> /\ AllOver
  /\ ~AtWork /\ closing = {}
  /\ PushRoot(t)
  /\ counter' = 0 /\ tripped' = FALSE /\ doomed' = {}
  /\ UNCHANGED <<retries, requeues, succeeded, running, runVars, waitVars, plan, signalled,
                 history, disposer>>
  /\ RequestDrain

\* The answer to a parked task's question, and /resume.
Reply(t) ==
  /\ host = IdleHost /\ status[t] = "AWAITING_HUMAN" /\ t \notin answered
  /\ answered' = answered \cup {t}
  /\ host' = [IdleHost EXCEPT !.at = "preparing", !.on = t]
  /\ UNCHANGED <<taskVars, queueVars, runVars, timers, tripVars, history, draining, disposer, announced>>

Resume ==
  /\ host = IdleHost /\ created # <<>> /\ budget.resumes > 0 /\ budget.upsets > 0
  /\ host' = [IdleHost EXCEPT !.at = "preparing"]
  /\ budget' = [budget EXCEPT !.resumes = @ - 1, !.upsets = @ - 1]
  /\ UNCHANGED <<taskVars, queueVars, runVars, timers, answered, tripVars, everTripped,
                 draining, disposer, announced>>

\* requeue_resumable: every task that is neither over, running, queued nor waiting
\* for an answer; a suspended one only when its children are over.  The others wait
\* again for the dependencies that are not over.
Resumable(t) ==
  /\ Idle(t)
  /\ status[t] = "AWAITING_HUMAN" => t \in answered
  /\ status[t] = "SUSPENDED" => \A c \in Children(t) : status[c] \in Terminal
StillOpen(t) ==
  IF status[t] = "SUSPENDED" THEN {} ELSE {d \in Deps[t] : status[d] \notin Terminal}

\* The tasks of a set in the order of their creation.
Listed(S) ==
  {s \in [1..Cardinality(S) -> S] :
     /\ \A t \in S : \E i \in DOMAIN s : s[i] = t
     /\ \A i, j \in DOMAIN s, a, b \in DOMAIN created :
          i < j /\ created[a] = s[i] /\ created[b] = s[j] => a < b}

RequeueResumable ==
  \E back \in Listed({t \in Created : Resumable(t)}) :
    /\ queue' = queue \o [i \in DOMAIN back |->
                  [task |-> back[i], blocked |-> StillOpen(back[i]) \ succeeded]]
    /\ status' = [t \in Task |-> IF Resumable(t) THEN "PENDING" ELSE status[t]]
    /\ retries' = [t \in Task |-> IF Resumable(t) THEN 0 ELSE retries[t]]

\* After what it had to confirm, the command requeues; a session rebuilt from the
\* log still has to dispose of the tasks blocked for ever.
Requeue ==
  /\ host.at = "preparing"
  /\ host' = IF host.cold THEN [host EXCEPT !.at = "disposing"] ELSE IdleHost
  /\ \/ host.on = None /\ RequeueResumable
     \/ host.on # None /\ Idle(host.on) /\ BackInQueue(host.on)
     \/ host.on # None /\ ~Idle(host.on) /\ UNCHANGED <<status, retries, queue>>
  /\ UNCHANGED <<created, requeues, succeeded, running, runVars, timers, answered, tripVars,
                 history, disposer, announced>>
  /\ RequestDrain

Recovered ==
  /\ host.at = "disposing" /\ Victims = {}
  /\ host' = IdleHost /\ disposer' = None
  /\ closing' = IF AllOver THEN closing \cup {<<Host, "final">>} ELSE closing
  /\ UNCHANGED <<taskVars, queueVars, stage, result, timers, answered, tripVars, history, announced>>
  /\ RequestDrain

\* The process stops and the session is rebuilt from its log (restore with
\* enqueue=False), which has every status and verdict: a verdict that was stored
\* but not yet counted is counted by the projection.
Crash ==
  /\ created # <<>> /\ ~tripped /\ budget.crashes > 0 /\ budget.upsets > 0
  /\ budget' = [budget EXCEPT !.crashes = @ - 1, !.upsets = @ - 1]
  /\ status' = [t \in Task |-> IF stage[t] = "finish" THEN result[t] ELSE status[t]]
  /\ LET uncounted(v) == Cardinality({t \in Task : stage[t] \in {"flush", "settle", "finish"}
                                                     /\ result[t] = v})
     IN  counter' \in IF uncounted("FINISHED") = 0 THEN {counter + uncounted("FAILED")}
                      ELSE 0..uncounted("FAILED")
  /\ queue' = <<>> /\ running' = {}
  /\ succeeded' = {t \in Task : status'[t] = "FINISHED"}
  /\ stage' = [t \in Task |-> "off"] /\ result' = [t \in Task |-> "none"]
  /\ requeues' = [t \in Task |-> 0]
  /\ timers' = {} /\ signalled' = {} /\ closing' = {}
  /\ draining' = FALSE /\ disposer' = None /\ announced' = FALSE
  /\ host' = [at |-> "preparing", on |-> None, cold |-> TRUE]
  /\ UNCHANGED <<created, retries, answered, tripped, doomed, plan, everTripped>>
-------------------------------------------------------------------------------
RunStep(t) ==
  \/ Assembled(t) \/ FailDoomed(t) \/ AssemblyInVain(t)
  \/ \E kind \in {"crash", "outage"} : AssemblyFails(t, kind)
  \/ \E kind \in {"success", "fail", "continue", "human", "children", "crash", "outage", "cancel"} :
       RunEnds(t, kind)
  \/ PushChild(t) \/ Flushed(t)
EndStep(t) ==
  \/ SettleParked(t) \/ SettleExhausted(t) \/ SettlePending(t)
  \/ Finish(t) \/ Trip(t) \/ TripCancel(t) \/ TripEnds(t)
  \/ DisposeEnds(t) \/ Wake(t) \/ TimerFires(t)
Drain == Dispatch \/ DrainEnds
Tails == \E w \in Task \cup {Host} : DisposeOne(w) \/ \E tail \in TailKind : Close(w, tail)
Command == Requeue \/ Recovered

Next ==
  \/ \E t \in Task : RunStep(t) \/ EndStep(t)
  \/ Drain \/ Tails \/ Command
  \/ \E t \in Task : Submit(t) \/ NewRound(t) \/ Reply(t)
  \/ Resume \/ Crash

Spec == Init /\ [][Next]_vars

\* What the process has begun goes on; messages, answers, /resume and crashes need
\* not come.  Nothing goes on for ever, so no step has to be fair to another.
Process == (\E t \in Task : RunStep(t) \/ EndStep(t)) \/ Drain \/ Tails \/ Command
FairSpec == Spec /\ WF_vars(Process)
-------------------------------------------------------------------------------
(***************************************************************************)
(* Properties.                                                             *)
(***************************************************************************)
Quiet == ~AtWork /\ closing = {} /\ ~draining /\ host = IdleHost

\* drain's gates (manager.py:837): two runs never share an agent, and at most one
\* attended task uses a port, whether it runs or waits for its human.
GatesHold ==
  \A t, u \in Task : t # u =>
    /\ {t, u} \subseteq running => Agent[t] # Agent[u]
    /\ (\A x \in {t, u} : x \notin Unattended /\ (x \in running \/ status[x] = "AWAITING_HUMAN"))
         => Port[t] # Port[u]

\* A task is in the queue at most once, whichever of a retry, a timer, an answer,
\* /resume and its last child puts it back.
QueuedOnce == \A i, j \in DOMAIN queue : queue[i].task = queue[j].task => i = j

Restarted == budget.crashes < MaxCrashes

\* When nothing is at work no slot is taken, and no task is left in the queue that
\* may run or can never run: each waits for a task that is not over or for a port
\* that waits for its human.  A restart while a plan is being pushed is excepted: it
\* leaves a step that waits for one that was never created.
NothingForgotten ==
  Quiet /\ ~tripped =>
    /\ running = {} /\ Victims = {}
    /\ \A i \in DOMAIN queue :
         \/ \E d \in queue[i].blocked : status[d] \notin Terminal /\ (d \in Created \/ Restarted)
         \/ Port[queue[i].task] \in HeldPorts

\* An interrupted autonomous job has a timer: nobody else would resume it.
AutonomousIsDriven ==
  Quiet /\ ~tripped => \A t \in Unattended : status[t] = "INTERRUPTED" => t \in timers

\* When every task is over and nothing is at work, the session has been announced
\* as done; a session its threshold has stopped is another matter (TerminalUntilTripped).
EndIsAnnounced == Quiet /\ created # <<>> /\ AllOver /\ ~everTripped => announced

\* A parked task whose question is answered does not stay parked, wherever in its
\* settlement the answer came.
AnswerIsHeard ==
  Quiet /\ ~tripped => \A t \in answered : status[t] # "AWAITING_HUMAN"

\* Whoever waits for a command, a timer or an answer is reached by it, once.
EveryoneIsReached ==
  AutonomousIsDriven /\ QueuedOnce /\ EndIsAnnounced /\ AnswerIsHeard

Starts(t) == stage[t] # "assemble" /\ stage'[t] = "assemble"

\* A task starts when every task it depends on is over, and all of them finished
\* unless the session was rebuilt since.
DependenciesFirst ==
  [][\A t \in Task : Starts(t) =>
       \A d \in Deps[t] : status[d] \in IF Restarted THEN Terminal ELSE {"FINISHED"}]_vars

\* A task that is over stays as it is, whoever comes late: its own run, a timer, an
\* answer, a disposal, /resume (manager.py:1862).  A session its threshold has
\* stopped is excepted: _trip_failure_threshold (manager.py:2302) works on a list of
\* tasks it made before it waited.
TerminalUntilTripped ==
  [][~everTripped => \A t \in Task : status[t] \in Terminal => status'[t] = status[t]]_vars

\* A parent whose children are over is woken.
ParentIsWoken ==
  \A p \in {Parent[t] : t \in Task} \ {None} :
    (status[p] = "SUSPENDED" /\ Children(p) # {} /\ \A c \in Children(p) : status[c] \in Terminal)
      ~> status[p] # "SUSPENDED"
===============================================================================
