------------------------------- MODULE Recovery -------------------------------
(***************************************************************************)
(* What a session is rebuilt from after a crash: the event log, folded by  *)
(* core/control/reducers.py; the snapshots SnapshotWriter puts into it     *)
(* while the session goes on; calibrate_session, which writes what the     *)
(* crash interrupted; and the rebuild and activation of the runtime, which *)
(* also repair the memory.                                                 *)
(*                                                                         *)
(* The log itself is not kept.  `truth` is the fold of all its events,     *)
(* `base` the fold of the latest snapshot's view and of the events after   *)
(* its cut, and a snapshot on its way carries the fold of what came after  *)
(* its own cut: each event is applied to all three (Log).  Recovery reads  *)
(* `base` where there is one, so whatever Prune loses, it loses.           *)
(*                                                                         *)
(* Tasks run, ask a human, delegate, end and are canceled with their agent *)
(* as far as the log shows it: which events are written, in which order    *)
(* and between which of them the process may stop.                         *)
(*                                                                         *)
(* Left out: task switches, pauses, the failure threshold, discarded       *)
(* rounds, the effects an observation has already had, two snapshots on    *)
(* their way at once, views of older versions, and what a task consists of *)
(* besides its state.                                                      *)
(***************************************************************************)
EXTENDS Naturals, Sequences, FiniteSets, SequencesExt

CONSTANTS
  Task, Agent,
  Shape,         \* how the tasks may hang together: parent, deps and agent of each
  None,
  MaxChain,      \* SnapshotWriter.MAX_CHAIN_DEPTH
  MaxCrashes,    \* bound: crashes
  MaxSnapshots,  \* bound: snapshots begun
  MaxUpsets      \* bound: questions, failures and cancellations

ASSUME RecoveryAssumption ==
  /\ Shape \subseteq [parent : [Task -> Task \cup {None}], deps : [Task -> SUBSET Task],
                      agent : [Task -> Agent]]
  /\ IsFiniteSet(Task) /\ IsFiniteSet(Agent) /\ None \notin Task \cup Agent
  /\ {MaxChain, MaxCrashes, MaxSnapshots, MaxUpsets} \subseteq Nat

VARIABLES
  shape,    \* the one this session has
  truth,    \* the view folded from the whole log
  base,     \* the latest snapshot with the events after its cut, or None
  write,    \* the snapshot on its way, or None
  up,       \* "down", "cold" (calibrated), "loaded" (not yet activated) or "up"
  at,       \* where the run of each task is
  result,   \* the status that run has come to
  current,  \* the task AgentLifecycleManager takes each agent to be on
  owed,     \* what AgentLifecycleManager has yet to make of an event already stored
  missing,  \* what the log says was said and the memory does not have
  declared, \* what of it the latest snapshot declares to be in memory
  budget

logVars == <<truth, base, write>>
recoveryVars == <<shape, logVars, up, at, result, current, owed, missing, declared, budget>>

Terminal == {"FINISHED", "FAILED", "CANCELED"}

-----------------------------------------------------------------------------
(* The view and its fold *)

\* TASK_STATUS_BY_EVENT.
StatusBy == [TaskStarted |-> "ACTIVE", TaskSuspended |-> "SUSPENDED",
             TaskAwaitingHuman |-> "AWAITING_HUMAN", TaskInterrupted |-> "INTERRUPTED",
             TaskFinished |-> "FINISHED", TaskFailed |-> "FAILED", TaskCanceled |-> "CANCELED",
             TaskResumed |-> "PENDING", TaskRequeued |-> "PENDING", TaskHumanResolved |-> "PENDING"]

\* _AGENT_STATUS_BY_EVENT.
AgentStatusBy == [AgentRunning |-> "running", AgentIdle |-> "idle", AgentTerminated |-> "terminated",
                  AgentWaitingHuman |-> "waiting_human", AgentInterrupted |-> "interrupted"]

EmptyView == [tasks |-> [t \in {} |-> None], runs |-> {}, asks |-> {}, answered |-> {}, observe |-> {},
              agents |-> [a \in Agent |-> [status |-> "idle", current |-> None]]]

\* An event about task t; of a cancellation `who` is the agent that was canceled.
Ev(type, t) == [type |-> type, task |-> t, who |-> None]
By(a, type, t) == [type |-> type, task |-> t, who |-> a]

\* A task belongs to its creator until it starts; a root is assigned at once.
Created(t) ==
  [status |-> "PENDING", parent |-> shape.parent[t], canceled |-> FALSE, finalized |-> FALSE,
   full |-> TRUE,
   owner |-> shape.agent[IF shape.parent[t] = None THEN t ELSE shape.parent[t]]]

\* _apply, the task of the event: `canceled` says that its error is a cancel_agent reason.
TaskAfter(task, e) ==
  IF e.type \in DOMAIN StatusBy
  THEN [task EXCEPT
          !.status = StatusBy[e.type],
          !.owner = IF e.type = "TaskStarted" THEN shape.agent[e.task] ELSE @,
          !.canceled = CASE e.type = "TaskCanceled" -> e.who # None
                         [] e.type = "TaskFailed" -> FALSE
                         [] OTHER -> @,
          !.finalized = @ /\ e.type # "TaskCanceled"]
  ELSE IF e.type = "TaskFinalized" THEN [task EXCEPT !.finalized = TRUE]
  ELSE IF e.type = "AgentTerminated" /\ task.status \notin Terminal
  THEN [task EXCEPT !.canceled = TRUE]
  ELSE task

\* _apply, the agents: a termination is final, a new root is its agent's current task.
AgentsAfter(v, e) ==
  LET root == e.type = "TaskCreated" /\ shape.parent[e.task] = None
      a == IF root THEN shape.agent[e.task] ELSE e.who
  IN IF ~(root \/ e.type \in DOMAIN AgentStatusBy) \/ v.agents[a].status = "terminated"
     THEN v.agents
     ELSE [v.agents EXCEPT ![a] =
             [status |-> IF root THEN @.status ELSE AgentStatusBy[e.type],
              current |-> IF e.task = None THEN @.current ELSE e.task]]

\* What is open and what is not any more, by the events that open and close it:
\* runs, questions, decisions still to be acted on, observations whose effects are
\* not complete (an observer works on what was done before the question).
Tracked(set, e, opening, closing) == IF e.type \in opening THEN set \cup {e.task}
                                     ELSE IF e.type \in closing THEN set \ {e.task} ELSE set
RunsAfter(v, e) == Tracked(v.runs, e, {"RunStarted"}, {"RunFinished"})
AsksAfter(v, e) == Tracked(v.asks, e, {"HitlOpened"}, {"HitlResolved", "HitlCancelled", "HitlClosed"})
AnsweredAfter(v, e) == Tracked(v.answered, e, {"HitlResolved"}, {"HitlClosed"})
ObserveAfter(v, e) == Tracked(v.observe, e, {"HitlOpened"}, {"ObserveApplied"})

\* _apply.  A task the view does not know is not brought back.
Apply(v, e) ==
  [tasks |-> IF e.type = "TaskCreated"
             THEN [t \in DOMAIN v.tasks \cup {e.task} |->
                     IF t = e.task THEN Created(t) ELSE v.tasks[t]]
             ELSE IF e.task \in DOMAIN v.tasks
             THEN [v.tasks EXCEPT ![e.task] = TaskAfter(@, e)] ELSE v.tasks,
   agents |-> AgentsAfter(v, e), runs |-> RunsAfter(v, e), observe |-> ObserveAfter(v, e),
   asks |-> AsksAfter(v, e), answered |-> AnsweredAfter(v, e)]

\* apply_events.
Fold(v, events) ==
  LET fold[n \in 0..Len(events)] == IF n = 0 THEN v ELSE Apply(fold[n - 1], events[n])
  IN fold[Len(events)]

Live(v) == {t \in DOMAIN v.tasks : v.tasks[t].status \notin Terminal}
ChildrenOf(v, t) == {c \in DOMAIN v.tasks : v.tasks[c].parent = t}

\* A task and the tasks above it, as far up as the view knows them.
Line(v, t) ==
  {u \in Task : \A up_ \in SUBSET Task :
     t \in up_ /\ (\A w \in up_ \cap DOMAIN v.tasks : v.tasks[w].parent \in up_ \cup {None}) => u \in up_}

\* Mutated form: canceled tasks whose cancellation is not closed yet are not kept.
KeptWholeForgetful(v) ==
  LET named == Live(v) \cup {c \in DOMAIN v.tasks : v.tasks[c].parent \in Live(v)} \cup v.observe
                 \cup {v.agents[a].current : a \in
                         {b \in Agent : v.agents[b].status \in {"terminated", "running", "interrupted"}}}
      above == (UNION {Line(v, t) : t \in named \cap DOMAIN v.tasks}) \cap DOMAIN v.tasks
  IN (named \cap DOMAIN v.tasks) \cup {t \in above : v.tasks[t].canceled}

\* prune_view_for_snapshot.
KeptWhole(v) ==
  LET named == Live(v) \cup {c \in DOMAIN v.tasks : v.tasks[c].parent \in Live(v)} \cup v.observe
                 \cup {v.agents[a].current : a \in
                         {b \in Agent : v.agents[b].status \in {"terminated", "running", "interrupted"}}}
                 \cup {t \in DOMAIN v.tasks : v.tasks[t].status = "CANCELED" /\ ~v.tasks[t].finalized}
      above == (UNION {Line(v, t) : t \in named \cap DOMAIN v.tasks}) \cap DOMAIN v.tasks
  IN (named \cap DOMAIN v.tasks) \cup {t \in above : v.tasks[t].canceled}

\* Of a task that is only depended on, the status is kept.
Slim(t, status) == [Created(t) EXCEPT !.status = status, !.parent = None, !.owner = None, !.full = FALSE]

Prune(v) ==
  LET whole == KeptWhole(v)
      deps == ((UNION {shape.deps[t] : t \in Live(v)}) \cap DOMAIN v.tasks) \ whole
  IN [v EXCEPT !.tasks = [t \in whole \cup deps |->
                            IF t \in whole THEN v.tasks[t] ELSE Slim(t, v.tasks[t].status)]]

\* startup_snapshot_blob: beside it goes a smaller view for calibrate_session alone, which
\* has the statuses of the tasks the agents are on as well.
ForStartup(v) ==
  LET slim == Prune(v).tasks
      currents == {v.agents[a].current : a \in Agent} \cap DOMAIN v.tasks
  IN [Prune(v) EXCEPT !.tasks = [t \in DOMAIN slim \cup currents |->
                                   IF t \in DOMAIN slim THEN slim[t] ELSE Slim(t, v.tasks[t].status)]]

-----------------------------------------------------------------------------
(* What is written *)

\* snapshot_is_usable.  One that is folded from again must not end a chain too long.
HasSnapshot == base # None
Usable == HasSnapshot /\ base.depth < MaxChain

\* CommitGate: the events are stored; every fold of the log gets them.
Progress(w, events) == IF w = None THEN w
                       ELSE [w EXCEPT !.view = Fold(@, events), !.startup = Fold(@, events)]
LogBeside(events, w) ==
  /\ truth' = Fold(truth, events)
  /\ base' = Progress(base, events)
  /\ write' = IF w # None /\ w.step = "head" THEN w ELSE Progress(w, events)
Log(events) == LogBeside(events, write)

\* next_agent_transition: the event with which agent a gets to a status for task t, if any.
Move(v, a, status, t) ==
  IF v.agents[a].status \in {"terminated", status} THEN <<>>
  ELSE <<By(a, CHOOSE e \in DOMAIN AgentStatusBy : AgentStatusBy[e] = status, t)>>

\* AgentLifecycleManager._INPUT_BY_EVENT, as the status each event leads to.
LeadsTo(type) ==
  CASE type \in {"TaskStarted", "TaskHumanResolved", "TaskResumed"} -> "running"
    [] type = "TaskAwaitingHuman" -> "waiting_human"
    [] type = "TaskInterrupted" -> "interrupted"
    [] OTHER -> "idle"

Owed(type, t) == [agent |-> IF type = "TaskStarted" THEN shape.agent[t] ELSE truth.tasks[t].owner,
                  to |-> LeadsTo(type), task |-> t]
\* The coroutine that emitted an event about t is still inside emit.
Told(t) == \A m \in owed : m.task # t

\* A status event is stored; the lifecycle manager is notified after it.
Announce(type, t) == Log(<<Ev(type, t)>>) /\ owed' = owed \cup {Owed(type, t)}

\* handle_event, apply_input: a settled task moves its agent only if the agent is on it.
Tell(m) ==
  /\ owed' = owed \ {m}
  /\ IF \/ truth.agents[m.agent].status = "terminated"
        \/ m.to = "idle" /\ current[m.agent] \notin {None, m.task}
     THEN UNCHANGED <<logVars, current>>
     ELSE /\ Log(Move(truth, m.agent, m.to, m.task))
          /\ current' = [current EXCEPT ![m.agent] = m.task]
  /\ UNCHANGED <<shape, up, at, result, missing, declared, budget>>

-----------------------------------------------------------------------------
(* What is read from it *)

\* rebuild_view: the latest snapshot, or the whole log.
Rebuilt == IF HasSnapshot THEN base.view ELSE truth
\* rebuild_startup_view: as above, from the smaller view.
RebuiltForStartup == IF HasSnapshot THEN base.startup ELSE truth

\* _task_tree_cancel_reason: the task, or one above it, was canceled with an agent.
Condemned(v, t) == \E u \in Line(v, t) \cap DOMAIN v.tasks : v.tasks[u].canceled

\* The live tasks in the trees the canceled agents were working on, and in the trees
\* whose cancellation is logged (recover_canceled_tasks).
Targets(v) ==
  LET roots == {v.agents[a].current : a \in {b \in Agent : v.agents[b].status = "terminated"}}
                 \cup {u \in DOMAIN v.tasks : v.tasks[u].canceled
                                                /\ v.tasks[u].status \notin {"FINISHED", "FAILED"}}
  IN {t \in Live(v) : Line(v, t) \cap roots # {}}

Unclosed(v) == {t \in DOMAIN v.tasks : v.tasks[t].status = "CANCELED" /\ ~v.tasks[t].finalized}

ChildrenOver(v, p) == \A c \in ChildrenOf(v, p) : v.tasks[c].status \in Terminal

\* requeue_resumable: what can go on, ...
Resumable(v, t) ==
  /\ t \in Live(v) \ v.asks /\ at[t] = "off"
  /\ v.tasks[t].status = "SUSPENDED" => ChildrenOver(v, t)
\* ... and whether it need not wait: a dependency that is over releases it, however it ended.
Released(v, t) == \/ v.tasks[t].status = "SUSPENDED"
                  \/ \A d \in shape.deps[t] : d \in DOMAIN v.tasks /\ v.tasks[d].status \in Terminal

\* calibrate_session.
Calibration(v) ==
  LET stopped == {t \in DOMAIN v.tasks : v.tasks[t].status \in {"PENDING", "ACTIVE"}}
      over(a) == v.agents[a].current \in DOMAIN v.tasks
                   /\ v.tasks[v.agents[a].current].status \in Terminal
      settled(a) == over(a) /\ v.agents[a].status \in {"running", "interrupted"}
      parked(a) == /\ v.agents[a].current \in DOMAIN v.tasks \ v.asks
                   /\ v.tasks[v.agents[a].current].status \in
                        {"SUSPENDED", "AWAITING_HUMAN", "INTERRUPTED"}
      affected(a) == \/ v.agents[a].status = "running" \/ settled(a) \/ parked(a)
                     \/ \E t \in stopped : v.tasks[t].owner = a
      to(a) == IF settled(a) THEN "idle"
               ELSE IF v.agents[a].current \in v.asks THEN "waiting_human" ELSE "interrupted"
      runs == {Ev("RunFinished", t) : t \in v.runs}
      tasks == {Ev(IF t \in v.asks THEN "TaskAwaitingHuman" ELSE "TaskInterrupted", t) : t \in stopped}
      agents == UNION {ToSet(Move(v, a, to(a), v.agents[a].current)) : a \in {b \in Agent : affected(b)}}
  IN SetToSeq(runs) \o SetToSeq(tasks) \o SetToSeq(agents)

-----------------------------------------------------------------------------
(* The session goes on *)

Said(kind, t) == [kind |-> kind, task |-> t]
\* What is said from now on comes after the cut of a snapshot on its way.
CutBefore(items) == IF write = None THEN write ELSE [write EXCEPT !.told = @ \ items]
Ready == up \in {"loaded", "up"}
Spend(what) == budget[what] > 0 /\ budget' = [budget EXCEPT ![what] = @ - 1]
Goto(t, from, to) == up = "up" /\ at[t] = from /\ at' = [at EXCEPT ![t] = to]

\* any_round_open: a round is open until its input is in memory.
Settled == up = "up" /\ \A t \in Task : at[t] \notin {"window", "turn", "store", "close"}

\* reply_to_hitl, send_message: an answer, a message or a new root opens a round.
Kind(t) == IF t \notin DOMAIN truth.tasks THEN "root"
           ELSE IF t \in truth.asks THEN "answer" ELSE "message"
\* _start_task_for_agent: the agent's current task is over, or there is none.
MayStart(t) ==
  LET a == shape.agent[t]
  IN /\ shape.parent[t] = None /\ truth.agents[a].status \in {"idle", "interrupted"}
     /\ current[a] \notin Live(truth)
     /\ \A u \in Task : shape.agent[u] = a => at[u] \notin {"window", "turn"}
\* _inject_user_turn: a message for a task that is stopped.
MayInject(t) == truth.tasks[t].status = "INTERRUPTED" /\ ~Condemned(truth, t)

OpenRound(t) ==
  /\ Goto(t, "off", "window") /\ Told(t)
  /\ CASE Kind(t) = "root" -> MayStart(t)
       [] Kind(t) = "answer" -> ~Condemned(truth, t)
       [] OTHER -> MayInject(t)
  /\ current' = [current EXCEPT ![shape.agent[t]] = t]
  /\ UNCHANGED <<shape, logVars, up, result, owed, missing, declared, budget>>

\* drain, busy_agents: an agent runs one task at a time; a round waits for it.
Busy(t) == \/ at[t] \notin {"off", "queued", "ready", "window"}
           \/ \E m \in owed : m.task = t /\ m.to # "running"
MayRun(t) ==
  /\ ~Condemned(truth, t)
  /\ \A u \in Task \ {t} : shape.agent[u] = shape.agent[t] => ~Busy(u)

\* The lifecycle manager hears TaskStarted although the round still holds it back.
TakeTurn(t) ==
  /\ Goto(t, "window", "turn") /\ MayRun(t)
  /\ current' = [current EXCEPT ![shape.agent[t]] = t]
  /\ UNCHANGED <<shape, logVars, up, result, owed, missing, declared, budget>>

\* What a round has held back: its opening and its answer, and what is staged for memory.
Opening(t) == CASE Kind(t) = "root" -> <<Ev("TaskCreated", t)>>
                [] Kind(t) = "answer" -> <<Ev("TaskHumanResolved", t)>>
                [] OTHER -> <<Ev("TaskRequeued", t)>>
Closing(t) == IF Kind(t) = "answer" THEN <<Ev("HitlResolved", t)>> ELSE <<>>
Staged(t) == {Said(k, t) : k \in {Kind(t)} \ {"root"}}

\* commit_round: the model speaks, and all the round has held back is one batch.
CommitRound(t) ==
  /\ Goto(t, "turn", IF Kind(t) = "root" THEN "run" ELSE "store")
  /\ LogBeside(Opening(t) \o <<Ev("TaskStarted", t)>> \o Move(truth, shape.agent[t], "running", t)
                  \o <<Ev("RunStarted", t)>> \o Closing(t),
               CutBefore(Staged(t)))
  /\ missing' = missing \cup Staged(t)
  /\ UNCHANGED <<shape, up, result, current, owed, declared, budget>>

\* _cancel_task_trees: the round of a task that has not come to run is committed first.
CommitCanceled(t) ==
  /\ t \in Targets(truth) /\ Goto(t, "window", "store")
  /\ LogBeside(Opening(t)
                  \o (IF Kind(t) = "answer" THEN Move(truth, shape.agent[t], "running", t) ELSE <<>>)
                  \o Closing(t),
               CutBefore(Staged(t)))
  /\ missing' = missing \cup Staged(t)
  /\ UNCHANGED <<shape, up, result, current, owed, declared, budget>>

\* _commit_round_writes: the staged input is written, then its answer closed.
Inputs(t) == {m \in missing : m.task = t /\ m.kind # "reply"}
Onwards(t) == IF truth.tasks[t].status = "ACTIVE" THEN "run" ELSE "off"
StoreInput(t) ==
  /\ Goto(t, "store", IF t \in truth.answered THEN "close" ELSE Onwards(t))
  /\ missing' = missing \ Inputs(t)
  /\ UNCHANGED <<shape, logVars, up, result, current, owed, declared, budget>>
CloseAnswer(t) ==
  /\ Goto(t, "close", Onwards(t))
  /\ Log(<<Ev("HitlClosed", t)>>)
  /\ UNCHANGED <<shape, up, result, current, owed, missing, declared, budget>>

\* drain: a task whose dependencies allow it, whose agent is free, is started.
Dispatch(t) ==
  /\ \/ Goto(t, "queued", "start") /\ \A d \in shape.deps[t] :
                                         d \in DOMAIN truth.tasks /\ truth.tasks[d].status = "FINISHED"
     \/ Goto(t, "ready", "start")
  /\ Told(t) /\ MayRun(t)
  /\ Announce("TaskStarted", t)
  /\ UNCHANGED <<shape, up, result, current, missing, declared, budget>>

\* The first thing a run does is to write the reply the last one could not.
StartRun(t) ==
  /\ Goto(t, "start", "run") /\ Told(t)
  /\ Log(<<Ev("RunStarted", t)>>)
  /\ missing' = missing \ {Said("reply", t)}
  /\ UNCHANGED <<shape, up, result, current, owed, declared, budget>>

\* _persist_assistant_turn: LlmResponseFinished is stored, then the reply written ...
Reply(t) ==
  /\ Goto(t, "run", "said")
  /\ missing' = missing \cup {Said("reply", t)}
  /\ write' = CutBefore({Said("reply", t)})
  /\ UNCHANGED <<shape, truth, base, up, result, current, owed, declared, budget>>
StoreReply(t) ==
  /\ Goto(t, "said", "spoken")
  /\ missing' = missing \ {Said("reply", t)}
  /\ UNCHANGED <<shape, logVars, up, result, current, owed, declared, budget>>
\* ... or not, which stops the run.
ReplyFails(t) ==
  /\ Goto(t, "said", "end")
  /\ result' = [result EXCEPT ![t] = "TaskInterrupted"]
  /\ UNCHANGED <<shape, logVars, up, current, owed, missing, declared, budget>>

\* The tasks t hands over when it first runs.
ToSpawn(t) == {c \in Task : shape.parent[c] = t} \ DOMAIN truth.tasks

\* What the run comes to.
Conclude(t, event) ==
  /\ Goto(t, "spoken", "end")
  /\ result' = [result EXCEPT ![t] = event]
  /\ IF event = "TaskAwaitingHuman" THEN Log(<<Ev("HitlOpened", t)>>) ELSE UNCHANGED logVars
  /\ IF event \in {"TaskAwaitingHuman", "TaskFailed"} THEN Spend("upsets") ELSE UNCHANGED budget
  /\ CASE Condemned(truth, t) -> event = "TaskCanceled"
       [] ToSpawn(t) # {} -> event \in {"TaskSuspended", "TaskFailed", "TaskAwaitingHuman"}
       [] OTHER -> event \in {"TaskFinished", "TaskFailed", "TaskAwaitingHuman"}
  /\ UNCHANGED <<shape, up, current, owed, missing, declared>>

\* SnapshotWriter.on_event, at the end of a run: one may be written.
BeginSnapshot(by) == [by |-> by, step |-> "head", view |-> EmptyView, startup |-> EmptyView,
                       depth |-> 0, told |-> {}]
MayBegin == write = None /\ Settled /\ Spend("snapshots")

RunEnds(t) ==
  /\ Goto(t, "end", "settle")
  /\ \/ MayBegin /\ LogBeside(<<Ev("RunFinished", t)>>, BeginSnapshot(t))
     \/ Log(<<Ev("RunFinished", t)>>) /\ UNCHANGED budget
  /\ UNCHANGED <<shape, up, result, current, owed, missing, declared>>

\* settle_run, once emit has come back: what the task has come to.
Settle(t) ==
  /\ Goto(t, "settle", IF result[t] = "TaskSuspended" THEN "spawn" ELSE "off")
  /\ ~(write # None /\ write.by = t)
  /\ Log(<<By(IF result[t] = "TaskCanceled" THEN shape.agent[t] ELSE None, result[t], t)>>)
  /\ owed' = owed \cup {Owed(result[t], t)}
  /\ UNCHANGED <<shape, up, result, current, missing, declared, budget>>

\* The staged children are created one by one, those that depend on others first.
Spawn(t, c) ==
  /\ up = "up" /\ at[t] = "spawn" /\ Told(t)
  /\ c \in ToSpawn(t) /\ \A other \in ToSpawn(t) : c \notin shape.deps[other]
  /\ Log(<<Ev("TaskCreated", c)>>)
  /\ at' = [at EXCEPT ![c] = "queued", ![t] = IF ToSpawn(t) = {c} THEN "off" ELSE @]
  /\ UNCHANGED <<shape, up, result, current, owed, missing, declared, budget>>

\* _try_resume_parent.
WakeParent(t) ==
  /\ Goto(t, "off", "ready") /\ Told(t)
  /\ t \in Live(truth) /\ truth.tasks[t].status = "SUSPENDED" /\ ~Condemned(truth, t)
  /\ ChildrenOver(truth, t)
  /\ Announce("TaskResumed", t)
  /\ UNCHANGED <<shape, up, result, current, missing, declared, budget>>

\* dispose_blocked_dependents.
Dispose(t) ==
  /\ Goto(t, "queued", "off")
  /\ \E d \in shape.deps[t] \cap DOMAIN truth.tasks : truth.tasks[d].status \in {"FAILED", "CANCELED"}
  /\ Announce("TaskCanceled", t)
  /\ UNCHANGED <<shape, up, result, current, missing, declared, budget>>

-----------------------------------------------------------------------------
(* An agent is canceled *)

\* current_task_for_agent: what it is running, or else the task it is on.
WorkOf(a) ==
  LET running == {t \in DOMAIN truth.tasks : truth.tasks[t].owner = a /\ truth.tasks[t].status = "ACTIVE"
                                              /\ at[t] # "off"}
  IN IF running # {} THEN running
     ELSE {t \in DOMAIN truth.tasks : t = current[a] /\ truth.tasks[t].owner = a}

\* cancel_agent: the fact is stored before any task is touched.
CancelAgent(a, t) ==
  /\ Ready /\ truth.agents[a].status # "terminated" /\ t \in WorkOf(a)
  /\ Spend("upsets")
  /\ Log(<<By(a, "AgentTerminated", t)>>)
  /\ current' = [current EXCEPT ![a] = t]
  /\ UNCHANGED <<shape, up, at, result, owed, missing, declared>>

\* _cancel_task_trees: the tasks that do not run, in one batch.  Those that run end by themselves.
CancelTasks ==
  LET idle == {t \in Targets(truth) : at[t] \in {"off", "queued", "ready"}}
      committing == {t \in Targets(truth) : \/ at[t] = "window"
                                            \/ at[t] \in {"store", "close"} /\ Onwards(t) = "off"}
  IN /\ Ready /\ idle # {} /\ committing = {} /\ \A t \in idle : Told(t)
     /\ Log(SetToSeq({By(shape.agent[t], "TaskCanceled", t) : t \in idle}))
     /\ owed' = owed \cup {Owed("TaskCanceled", t) : t \in idle}
     /\ at' = [t \in Task |-> IF t \in idle THEN "off" ELSE at[t]]
     /\ UNCHANGED <<shape, up, result, current, missing, declared, budget>>

\* _finalize_tree_cancellations: its questions are settled, then the task is closed.
FinalizeCanceled(t) ==
  /\ Ready /\ t \in Unclosed(truth) /\ at[t] = "off" /\ Told(t)
  /\ IF t \in truth.asks \cup truth.answered
     THEN Log(<<Ev(IF t \in truth.asks THEN "HitlCancelled" ELSE "HitlClosed", t)>>) /\ UNCHANGED owed
     ELSE Announce("TaskFinalized", t)
  /\ UNCHANGED <<shape, up, at, result, current, missing, declared, budget>>

-----------------------------------------------------------------------------
(* Snapshots *)

\* An observer's run ends, or the effects of its observation are complete.
SnapshotByObserver ==
  /\ truth.observe # {} /\ MayBegin /\ write' = BeginSnapshot(None)
  /\ UNCHANGED <<shape, truth, base, up, at, result, current, owed, missing, declared>>
ObserveApplied(t) ==
  /\ up = "up" /\ t \in truth.observe
  /\ Log(<<Ev("ObserveApplied", t)>>)
  /\ UNCHANGED <<shape, up, at, result, current, owed, missing, declared, budget>>

\* _write: the cut.  What is folded up to it declares its inputs to be in memory.
ReadHead ==
  /\ write # None /\ write.step = "head"
  /\ LET v == IF Usable THEN base.view ELSE truth
     IN write' = [write EXCEPT !.step = "check", !.told = missing,
                               !.depth = IF Usable THEN base.depth + 1 ELSE 0,
                               !.view = Prune(v), !.startup = ForStartup(v)]
  /\ UNCHANGED <<shape, truth, base, up, at, result, current, owed, missing, declared, budget>>

\* missing_assistant_memories: what was said before the cut, up to the first reply
\* that is not in memory.
Verified(told) == {m \in told : ~(m.kind = "reply" /\ m \in missing)}

\* Mutated form: whether memory is settled is not asked again once the cut is read.
RecheckNot ==
  /\ write # None /\ write.step = "check"
  /\ write' = [write EXCEPT !.step = "append", !.told = Verified(@)]
  /\ UNCHANGED <<shape, truth, base, up, at, result, current, owed, missing, declared, budget>>

\* The cut was read while others went on: is memory still settled?  And from where on
\* are replies missing?
Recheck ==
  /\ write # None /\ write.step = "check"
  /\ write' = IF ~Settled THEN None ELSE [write EXCEPT !.step = "append", !.told = Verified(@)]
  /\ UNCHANGED <<shape, truth, base, up, at, result, current, owed, missing, declared, budget>>

\* snapshot_event_payload: what the event carries.
SnapshotFacts(w) == [view |-> w.view, startup |-> w.startup, depth |-> w.depth]

Append_ ==
  /\ write # None /\ write.step = "append"
  /\ base' = SnapshotFacts(write)
  /\ declared' = missing \cap (declared \cup write.told)
  /\ write' = None
  /\ UNCHANGED <<shape, truth, up, at, result, current, owed, missing, budget>>

-----------------------------------------------------------------------------
(* Crash and recovery *)

Idle == [t \in Task |-> "off"]

Crash ==
  /\ up # "down" /\ Spend("crashes")
  /\ up' = "down" /\ at' = Idle /\ owed' = {} /\ write' = None
  /\ result' = [t \in Task |-> None] /\ current' = [a \in Agent |-> None]
  /\ UNCHANGED <<shape, truth, base, missing, declared>>

\* calibrate_session.
Calibrate ==
  /\ up = "down" /\ up' = "cold"
  /\ Log(Calibration(RebuiltForStartup))
  /\ UNCHANGED <<shape, at, result, current, owed, missing, declared, budget>>

\* _restore_appended_messages, _restore_assistant_messages: what the log says was said after
\* the snapshot is written again.
AfterFloor == missing \ declared
Appended == {m \in AfterFloor : m.kind = "message"}
Replies == {m \in AfterFloor : m.kind = "reply"}
\* AgentLifecycleManager.load.
Loaded(v) == [a \in Agent |-> v.agents[a].current]

\* _load_task_manager_view: both are restored before the session has an owner.
Restored == Appended \cup Replies

\* rebuild_session.
Rebuild ==
  /\ up = "cold" /\ up' = "loaded"
  /\ missing' = missing \ Restored
  /\ current' = Loaded(Rebuilt)
  /\ UNCHANGED <<shape, logVars, at, result, owed, declared, budget>>

\* Nothing is left to cancel.
CancellationsDone == Targets(truth) = {} /\ Unclosed(truth) = {}

\* _ingest_user_turn: the answer's id is its question's, so it is written once.
Written(kind, t) == missing' = missing \ {Said(kind, t)}

\* _inject_resolved_user_turns: the answers of tasks that go on, once all is canceled.
InjectAnswer(t) ==
  /\ up = "loaded" /\ CancellationsDone
  /\ t \in truth.answered \cap Live(truth)
  /\ Written("answer", t)
  /\ Log(<<Ev("HitlClosed", t)>>)
  /\ UNCHANGED <<shape, up, at, result, current, owed, declared, budget>>

\* requeue_resumable: what can go on is queued, without an event.
Requeued ==
  /\ owed = {} /\ up' = "up"
  /\ at' = [t \in Task |-> IF ~Resumable(truth, t) THEN at[t]
                           ELSE IF Released(truth, t) THEN "ready" ELSE "queued"]
  /\ UNCHANGED <<shape, logVars, result, current, owed, missing, declared, budget>>

\* _activate_prepared_tasks: a rebuilt session goes on.
Activate == up = "loaded" /\ CancellationsDone /\ truth.answered \cap Live(truth) = {} /\ Requeued

\* recover_agent, on a session that is up: an interrupted task is taken up again.
RecoverAgent ==
  /\ up = "up" /\ \E t \in Live(truth) : truth.tasks[t].status = "INTERRUPTED" /\ Resumable(truth, t)
  /\ Requeued

-----------------------------------------------------------------------------

RecoveryInit ==
  /\ shape \in Shape /\ truth = EmptyView /\ base = None /\ write = None
  /\ up = "up" /\ at = Idle /\ result = [t \in Task |-> None]
  /\ current = [a \in Agent |-> None] /\ owed = {} /\ missing = {} /\ declared = {}
  /\ budget = [crashes |-> MaxCrashes, snapshots |-> MaxSnapshots, upsets |-> MaxUpsets]

RecoveryNext ==
  \/ \E t \in Task :
       \/ OpenRound(t) \/ TakeTurn(t) \/ CommitRound(t) \/ CommitCanceled(t)
       \/ StoreInput(t) \/ CloseAnswer(t)
       \/ Dispatch(t) \/ StartRun(t) \/ Reply(t) \/ StoreReply(t) \/ ReplyFails(t)
       \/ \E event \in DOMAIN StatusBy : Conclude(t, event)
       \/ RunEnds(t) \/ Settle(t) \/ WakeParent(t) \/ Dispose(t)
       \/ \E c \in Task : Spawn(t, c)
       \/ FinalizeCanceled(t) \/ ObserveApplied(t) \/ InjectAnswer(t)
  \/ \E m \in owed : Tell(m)
  \/ \E a \in Agent, t \in Task : CancelAgent(a, t)
  \/ CancelTasks \/ SnapshotByObserver \/ ReadHead \/ Recheck \/ Append_
  \/ Crash \/ Calibrate \/ Rebuild \/ Activate \/ RecoverAgent

RecoverySpec == RecoveryInit /\ [][RecoveryNext]_recoveryVars

-----------------------------------------------------------------------------
(* Properties *)

Decisions(v, startup) == [
  live |-> [t \in Live(v) |-> v.tasks[t]],
  woken |-> {t \in Live(v) : ChildrenOver(v, t)},
  unmet |-> [t \in Live(v) |-> {d \in shape.deps[t] : d \in DOMAIN v.tasks => v.tasks[d].status # "FINISHED"}],
  released |-> {t \in Live(v) : Released(v, t)},
  condemned |-> {t \in Live(v) : Condemned(v, t)},
  targets |-> Targets(v),
  unclosed |-> [t \in Unclosed(v) |-> v.tasks[t]],
  observed |-> [t \in v.observe \cap DOMAIN v.tasks |-> v.tasks[t]],
  questions |-> <<v.asks, v.answered, v.observe>>,
  runs |-> v.runs, agents |-> v.agents,
  calibration |-> ToSet(Calibration(startup))]

DecidesAlike == Decisions(base.view, base.startup) = Decisions(truth, truth)

(***************************************************************************)
(* Whatever a snapshot folded from the whole log leaves out, and whenever  *)
(* it is taken, what the recovery decides from it is what it would decide  *)
(* from the whole log: which tasks go on or wait and for what, which       *)
(* parents are woken, which tasks are still to be canceled with an agent   *)
(* and which cancellations are still to be closed, which questions,        *)
(* answers, observations and runs are open, and what calibrate_session     *)
(* writes (reducers.py, prune_view_for_snapshot; snapshot_writer.py,       *)
(* _write).                                                                *)
(***************************************************************************)
RebuildAgrees == (HasSnapshot /\ base.depth = 0) => DecidesAlike


(***************************************************************************)
(* What was said is not lost to the model unless its task was canceled:    *)
(* no snapshot declares a message, an answer or a reply to be in memory    *)
(* that is not (nothing would then write it again), and an answer that is  *)
(* logged but not yet in memory is among those a recovery still delivers   *)
(* (runtime.py, _memory_settled, _commit_round_writes).                    *)
(***************************************************************************)
MemoryIsKept ==
  \A m \in missing : truth.tasks[m.task].status # "CANCELED" =>
    m \notin declared /\ (m.kind = "answer" => m.task \in Rebuilt.answered)

=============================================================================
