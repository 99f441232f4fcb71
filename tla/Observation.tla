------------------------------ MODULE Observation ------------------------------
(***************************************************************************)
(* The review of a task's turns, and everything that decides when the task *)
(* is over.  A turn of the actor either yields to the user (a bubble opens *)
(* and a background observation is requested in the same event), or is     *)
(* reviewed in the foreground.  An observation asks the model, records its *)
(* decision (ObserveCompleted), carries it out (a summary instead of the   *)
(* raw turns, or the finish pair and the end of the task) and says so      *)
(* (ObserveApplied).  Until then it survives a crash, and a restarted      *)
(* session carries it on from its record.                                  *)
(*                                                                         *)
(* The user may answer while the turn before is still being judged, the    *)
(* agent may be cancelled at any time, and the process may crash between   *)
(* two writes.                                                             *)
(*                                                                         *)
(* Left out: replaced tasks (REVIEWING), the historical close boundaries,  *)
(* parents and children, runs that fail, observers without a recap in the  *)
(* foreground; the answer's round (module Round) is taken as committed.    *)
(* The finish pair, what it archives and TaskFinalized are one step.       *)
(***************************************************************************)
EXTENDS Naturals, FiniteSets

CONSTANTS
  MaxTurns, MaxCrashes, MaxCancels,   \* bounds
  Short,    \* the turns that are not worth a summary by themselves
  Early,    \* may commands meet decisions that a restart has not carried out yet?
  Late,     \* may a turn begin before it is recorded that the review before was applied?
  Between   \* may an answer come between the check of a verdict and its landing?

Turn == 1..MaxTurns
Obs == Turn \X {"fg", "bg"}
Closing == <<0, "cancel">>      \* the finish pair of a cancelled task
Terminal == {"FINISHED", "CANCELED"}

ASSUME ObservationAssumption ==
  /\ MaxTurns \in Nat \ {0} /\ MaxCrashes \in Nat /\ MaxCancels \in Nat
  /\ Short \subseteq Turn /\ {Early, Late, Between} \subseteq BOOLEAN

VARIABLES
  obs,        \* log: of each observation how far it is and what it decided
  logged,     \* log: the task's status
  gone,       \* log: AgentTerminated
  bubble,     \* log: the question each turn left to the user
  body,       \* memory: each turn is raw, told by a summary or archived at the end
  summary,    \* memory: the turns each observation's summary stands for
  endings,    \* memory: whose finish pairs there are
  status, condemned,   \* task.status; a cancellation in task.error
  signal,     \* the cancel token of the live run
  turn, pc,   \* the last turn dispatched, where its run is
  work,       \* of each observation, where its execution is
  guard,      \* who holds the task's observe guard
  revived,    \* the observations a restart took up
  queued, prepared, stopping,   \* in the queue; loaded, not resumed; where a cancellation is
  budget

durable == <<obs, logged, gone, bubble, body, summary, endings>>
task == <<status, condemned>>
run == <<signal, turn, pc>>
observers == <<work, guard, revived>>
owner == <<queued, prepared, stopping>>
vars == <<durable, task, run, observers, owner, budget>>

Blank == [stage |-> "none", judging |-> FALSE, seen |-> {}, action |-> "none",
          verdict |-> "none", reported |-> FALSE, short |-> FALSE, settled |-> FALSE, finalized |-> FALSE]

\* ExecutionRegistry: an execution is registered until it is done.
NoExecution == [o \in Obs |-> "none"]
Live(o) == work[o] # "none"

\* TaskManager._lock: a verdict holds it from its check to its landing.  What
\* takes the lock waits; an answer and the wake after a settlement do not take it.
Landing == \E o \in Obs : work[o] = "land"

\* _register_run_tokens, _deregister_run_tokens: a run begins with a token of its own.
NewToken == signal' = FALSE

Init ==
  /\ obs = [o \in Obs |-> Blank] /\ logged = "PENDING" /\ gone = FALSE
  /\ bubble = [k \in Turn |-> "none"] /\ body = [k \in Turn |-> "none"]
  /\ summary = [o \in Obs |-> {}] /\ endings = {}
  /\ status = "PENDING" /\ condemned = FALSE /\ signal = FALSE /\ turn = 0 /\ pc = "off"
  /\ work = NoExecution /\ guard = {} /\ revived = {}
  /\ queued = TRUE /\ prepared = FALSE /\ stopping = "none"
  /\ budget = [crashes |-> MaxCrashes, cancels |-> MaxCancels]
-------------------------------------------------------------------------------
\* The segment of a turn begins after the last message of the user before it.
SegmentStart(k) ==
  CHOOSE i \in 1..k : /\ (i = 1 \/ bubble[i - 1] = "answered")
                      /\ \A j \in i..(k - 1) : bubble[j] # "answered"
Raw(turns) == {k \in turns : body[k] = "raw"}
Segment(k) == Raw(SegmentStart(k)..k)

\* A segment, or a task, that is kept as it is because it is short.
IsShort(turns) == turns \subseteq Short

\* _is_short_leaf: the whole task.
ShortLeaf == IsShort(1..turn)

IsTreeCanceled == status = "CANCELED" \/ (condemned /\ status # "FINISHED")

\* A decision that was accepted before a restart and is not carried out yet.
Unresumed == \E o \in Obs : /\ obs[o].stage = "completed"
                            /\ obs[o].action \in {"close", "foreground"}
                            /\ prepared \/ o \in revived

\* ObserveRequested; what the observation may speak of is fixed now.
Requested(judging, seen) ==
  [Blank EXCEPT !.stage = "requested", !.judging = judging, !.seen = seen]
\* ObserveCompleted, with what a close must not archive fixed before it begins.
Completed(o, action, verdict, reported) ==
  [obs[o] EXCEPT !.stage = "completed", !.action = action, !.verdict = verdict,
                 !.reported = reported, !.short = verdict = "done" /\ ShortLeaf]

CloseBubbles == bubble' = [k \in Turn |-> IF bubble[k] = "open" THEN "closed" ELSE bubble[k]]
-------------------------------------------------------------------------------
\* The run of a turn.

\* drain and _run_task: a turn the crash cut short is taken again.  The task is
\* queued before its review is recorded as applied (_settle, finish_observe).
Dispatch ==
  /\ queued /\ ~prepared /\ pc = "off" /\ ~IsTreeCanceled /\ status # "AWAITING_HUMAN" /\ ~Landing
  /\ Late \/ \A k \in Turn : work[<<k, "fg">>] # "apply"
  /\ LET fresh == turn = 0 \/ \E k \in {"fg", "bg"} : obs[<<turn, k>>].stage # "none"
     IN  turn' = IF fresh THEN turn + 1 ELSE turn
  /\ turn' <= MaxTurns
  /\ queued' = FALSE /\ status' = "ACTIVE" /\ logged' = "ACTIVE" /\ pc' = "act" /\ NewToken
  /\ UNCHANGED <<obs, gone, bubble, body, summary, endings, condemned, observers, prepared,
                 stopping, budget>>

\* _cold_park: the bubble and the request are one event.
Park(judging) ==
  /\ pc = "act"
  /\ body' = [body EXCEPT ![turn] = "raw"]
  /\ bubble' = [bubble EXCEPT ![turn] = "open"]
  /\ obs' = [obs EXCEPT ![<<turn, "bg">>] = Requested(judging, Segment(turn) \cup {turn})]
  /\ work' = [work EXCEPT ![<<turn, "bg">>] = "ready"]
  /\ pc' = "park"
  /\ UNCHANGED <<logged, gone, summary, endings, task, signal, turn, guard, revived, owner, budget>>

ParkAwaitUser == Park(TRUE)
ParkForInterrupt == Park(FALSE)

\* apply_run_outcome of a parked run: what is over stays over.
AwaitHuman ==
  /\ pc = "park" /\ pc' = "settle" /\ ~Landing
  /\ IF status \in Terminal THEN UNCHANGED <<status, logged>>
     ELSE status' = "AWAITING_HUMAN" /\ logged' = "AWAITING_HUMAN"
  /\ UNCHANGED <<obs, gone, bubble, body, summary, endings, condemned, signal, turn, observers,
                 owner, budget>>

\* Mutated form: an answer during the settlement is forgotten.
NoWake == UNCHANGED <<status, logged, queued>>

\* _wake_if_already_answered: the reply could not queue a running task.
Wake ==
  IF bubble[turn] = "answered" /\ status \notin Terminal
  THEN status' = "PENDING" /\ logged' = "PENDING" /\ queued' = TRUE
  ELSE UNCHANGED <<status, logged, queued>>

SettlePark ==
  /\ pc = "settle" /\ pc' = "off" /\ Wake /\ (Between \/ ~Landing)
  /\ UNCHANGED <<obs, gone, bubble, body, summary, endings, condemned, signal, turn, observers,
                 prepared, stopping, budget>>

\* The actor stops by itself: its turn is reviewed in the foreground.
RequestForeground ==
  /\ pc = "act" /\ pc' = "observe"
  /\ body' = [body EXCEPT ![turn] = "raw"]
  /\ obs' = [obs EXCEPT ![<<turn, "fg">>] = Requested(TRUE, Segment(turn) \cup {turn})]
  /\ work' = [work EXCEPT ![<<turn, "fg">>] = "judge"]
  /\ UNCHANGED <<logged, gone, bubble, summary, endings, task, signal, turn, guard, revived,
                 owner, budget>>

\* A cooperative stop: the run ends CANCELED, a review it was in is abandoned.
CancelRun ==
  /\ signal /\ pc \in {"act", "observe"} /\ ~Landing
  /\ LET o == <<turn, "fg">> IN
       \/ pc = "act" /\ UNCHANGED <<obs, work, guard>>
       \/ /\ pc = "observe" /\ work[o] = "judge"
          /\ obs' = [obs EXCEPT ![o] = [Completed(o, "keep_raw", "none", FALSE)
                                          EXCEPT !.stage = "applied"]]
          /\ work' = [work EXCEPT ![o] = "none"]
          /\ guard' = guard \ {o}
  /\ revived' = revived \ {<<turn, "fg">>}
  /\ pc' = "off" /\ signal' = FALSE /\ queued' = FALSE
  /\ status' = "CANCELED" /\ logged' = "CANCELED" /\ stopping' = "closure"
  /\ UNCHANGED <<gone, bubble, body, summary, endings, condemned, turn, prepared, budget>>
-------------------------------------------------------------------------------
\* The observation in the foreground.
Goes(o, to) == work' = [work EXCEPT ![o] = to]

\* task_guard.
Leaves(o) == guard' = guard \ {o}

\* What the decision of a review makes of the task.
Settled(o) == IF obs[o].verdict = "done" THEN "FINISHED" ELSE "PENDING"

\* A task that is over by another decision has nothing left to carry out.
Overruled(o) == status = "CANCELED" \/ (obs[o].stage = "completed" /\ status \in Terminal \ {Settled(o)})

\* _resume_observe_finalization: a review the restart found takes the guard
\* and goes on from what it had decided.
ResumeReview(o) ==
  /\ o[2] = "fg" /\ work[o] = "ready"
  /\ \/ Overruled(o) /\ Goes(o, "apply") /\ UNCHANGED guard
        /\ obs' = [obs EXCEPT ![o] = IF @.stage = "completed" THEN @
                                     ELSE Completed(o, "keep_raw", "none", FALSE)]
     \/ ~Overruled(o) /\ guard = {} /\ guard' = {o} /\ UNCHANGED obs
        /\ Goes(o, IF obs[o].stage = "requested" THEN "judge"
                   ELSE IF obs[o].settled THEN "settle" ELSE "fold")
  /\ UNCHANGED <<logged, gone, bubble, body, summary, endings, task, run, revived, owner, budget>>

\* The user interrupts the review: the old observation ends, the bubble opens
\* and the new one begins in one transaction.
InterruptReview ==
  LET fg == <<turn, "fg">>
      bg == <<turn, "bg">>
  IN
  /\ pc = "observe" /\ work[fg] = "judge"
  /\ obs' = [obs EXCEPT ![fg] = [Completed(fg, "keep_raw", "none", FALSE)
                                   EXCEPT !.stage = "applied"],
                        ![bg] = Requested(FALSE, Segment(turn))]
  /\ bubble' = [bubble EXCEPT ![turn] = "open"]
  /\ work' = [work EXCEPT ![fg] = "none", ![bg] = "ready"]
  /\ Leaves(fg) /\ revived' = revived \ {fg} /\ pc' = "park"
  /\ UNCHANGED <<logged, gone, body, summary, endings, task, signal, turn, owner, budget>>

\* The model says done or continue, with a report; whatever cannot be used, or
\* no answer at all, counts as done without a report.
Verdicts == {"done", "continue"}
Submitted(verdict, reported) == verdict \in Verdicts /\ reported
Answers(verdict, reported) == Submitted(verdict, reported) \/ (verdict = "done" /\ ~reported)

Judged(o) ==
  /\ o[2] = "fg" /\ work[o] = "judge" /\ Goes(o, "fold")
  /\ \E verdict \in Verdicts, reported \in BOOLEAN :
       /\ Answers(verdict, reported)
       /\ obs' = [obs EXCEPT ![o] = Completed(o, "foreground", verdict, reported)]
  /\ UNCHANGED <<logged, gone, bubble, body, summary, endings, task, run, guard, revived, owner,
                 budget>>

\* _fold_retry_segment.
FoldRetry(o) ==
  /\ o[2] = "fg" /\ work[o] = "fold" /\ Goes(o, "finalize")
  /\ LET pool == Segment(o[1]) IN
       IF obs[o].verdict = "continue" /\ summary[o] = {} /\ ~IsShort(pool)
       THEN /\ summary' = [summary EXCEPT ![o] = pool]
            /\ body' = [k \in Turn |-> IF k \in pool THEN "told" ELSE body[k]]
       ELSE UNCHANGED <<summary, body>>
  /\ UNCHANGED <<obs, logged, gone, bubble, endings, task, run, guard, revived, owner, budget>>

\* apply_task_close and TaskFinalized, each once: the finish pair, and the raw
\* turns of the last segment archived.
ArchiveLast ==
  LET from == CHOOSE i \in 1..(turn + 1) : /\ (i = 1 \/ bubble[i - 1] = "answered")
                                           /\ \A j \in i..turn : bubble[j] # "answered"
  IN  body' = [k \in Turn |-> IF k \in from..turn /\ body[k] = "raw" THEN "archived" ELSE body[k]]

\* Mutated form: a placeholder report is good enough to discard the turns.
KeepIfShort(o) == obs[o].short

\* A short task is kept, and what no report describes.
KeepRaw(o) == obs[o].short \/ ~obs[o].reported

Finalize(o) ==
  IF obs[o].finalized \/ obs[o].verdict = "continue"
  THEN UNCHANGED <<endings, body>> /\ obs' = [obs EXCEPT ![o].finalized = TRUE]
  ELSE /\ endings' = endings \cup {o}
       /\ IF KeepRaw(o) THEN UNCHANGED body ELSE ArchiveLast
       /\ obs' = [obs EXCEPT ![o].finalized = TRUE]

FinalizeStep(o) ==
  /\ o[2] = "fg" /\ work[o] = "finalize" /\ Goes(o, "settle") /\ Finalize(o)
  /\ UNCHANGED <<logged, gone, bubble, summary, task, run, guard, revived, owner,
                 budget>>

\* apply_run_outcome and _settle; a decision that a restart finds settled is
\* only queued again.
Dispose(o) ==
  /\ o[2] = "fg" /\ work[o] = "settle" /\ Goes(o, "apply") /\ Leaves(o) /\ ~Landing
  /\ IF obs[o].settled THEN UNCHANGED <<status, logged, obs>>
     ELSE /\ status' = Settled(o) /\ logged' = Settled(o)
          /\ obs' = [obs EXCEPT ![o].settled = TRUE]
  /\ queued' = (queued \/ obs[o].verdict = "continue")
  /\ pc' = (IF o \in revived THEN pc ELSE "off") /\ NewToken
  /\ UNCHANGED <<gone, bubble, body, summary, endings, condemned, turn, revived,
                 prepared, stopping, budget>>
-------------------------------------------------------------------------------
\* The observation in the background.

\* A cancelled task is not reviewed; what was decided is carried out.  The
\* bodies of a task's observations exclude one another.
Begin(o) ==
  /\ o[2] = "bg" /\ work[o] = "ready"
  /\ \/ /\ status = "CANCELED" /\ Goes(o, "apply")
        /\ obs' = [obs EXCEPT ![o] = IF @.stage = "completed" THEN @
                                     ELSE Completed(o, "keep_raw", "none", FALSE)]
        /\ UNCHANGED <<status, guard>>
     \/ /\ status # "CANCELED" /\ guard = {} /\ guard' = {o}
        /\ IF obs[o].action = "close" /\ ~IsTreeCanceled
           THEN Goes(o, "finalize") /\ status' = "FINISHED"
           ELSE Goes(o, IF obs[o].stage = "requested" THEN "judge" ELSE "fold") /\ UNCHANGED status
        /\ UNCHANGED obs
  /\ UNCHANGED <<logged, gone, bubble, body, summary, endings, condemned, run, revived, owner,
                 budget>>

\* An interrupted segment is only told, if it is still there, not short, and
\* the model has something to say.
Recap(o) ==
  /\ o[2] = "bg" /\ work[o] = "judge" /\ ~obs[o].judging /\ Goes(o, "fold")
  /\ \E action \in {"recap", "keep_raw"} :
       /\ action = "recap" => ~IsShort(obs[o].seen) /\ Raw(Turn) # {}
       /\ obs' = [obs EXCEPT ![o] = Completed(o, action, "none", FALSE)]
  /\ UNCHANGED <<logged, gone, bubble, body, summary, endings, task, run, guard, revived, owner,
                 budget>>

\* apply_out_of_band_verdict: only a parked task can be ended from outside.
Accepts == status = "AWAITING_HUMAN" /\ ~IsTreeCanceled

Verdict(o) ==
  /\ o[2] = "bg" /\ work[o] = "judge" /\ obs[o].judging /\ ~Landing
  /\ \E verdict \in Verdicts, reported \in BOOLEAN :
       /\ Answers(verdict, reported)
       /\ IF verdict = "done" /\ Accepts
          THEN /\ obs' = [obs EXCEPT ![o] = Completed(o, "close", "done", reported)]
               /\ Goes(o, "land")
          ELSE /\ obs' = [obs EXCEPT ![o] = Completed(o, IF reported THEN "recap" ELSE "keep_raw",
                                                      "none", FALSE)]
               /\ Goes(o, "fold")
  /\ UNCHANGED <<logged, gone, bubble, body, summary, endings, task, run, guard, revived, owner,
                 budget>>

\* _decide_and_write, after the record of the verdict was awaited: whatever the
\* status has become.
Land(o) ==
  /\ work[o] = "land" /\ Goes(o, "finalize") /\ status' = "FINISHED"
  /\ UNCHANGED <<obs, logged, gone, bubble, body, summary, endings, condemned, run, guard, revived,
                 owner, budget>>

\* segment_fold replaces all the turns it was given, or none.
StillThere(turns) == turns # {} /\ Raw(turns) = turns

FoldSegment(o) ==
  /\ o[2] = "bg" /\ work[o] = "fold" /\ Goes(o, "apply") /\ Leaves(o)
  /\ IF obs[o].action = "recap" /\ ~IsShort(obs[o].seen) /\ ~IsTreeCanceled
        /\ StillThere(obs[o].seen)
     THEN /\ summary' = [summary EXCEPT ![o] = obs[o].seen]
          /\ body' = [k \in Turn |-> IF k \in obs[o].seen THEN "told" ELSE body[k]]
     ELSE UNCHANGED <<summary, body>>
  /\ UNCHANGED <<obs, logged, gone, bubble, endings, task, run, revived, owner, budget>>

FinalizeOutOfBand(o) ==
  /\ o[2] = "bg" /\ work[o] = "finalize" /\ Goes(o, "close") /\ Finalize(o)
  /\ UNCHANGED <<logged, gone, bubble, summary, task, run, guard, revived, owner, budget>>

ClosePark(o) ==
  /\ work[o] = "close" /\ CloseBubbles /\ Goes(o, "settle")
  /\ UNCHANGED <<obs, logged, gone, body, summary, endings, task, run, guard, revived, owner,
                 budget>>

Announce(o) ==
  /\ o[2] = "bg" /\ work[o] = "settle" /\ Goes(o, "apply") /\ Leaves(o)
  /\ status' = "FINISHED"
  /\ IF obs[o].settled THEN UNCHANGED <<logged, obs>>
     ELSE logged' = "FINISHED" /\ obs' = [obs EXCEPT ![o].settled = TRUE]
  /\ UNCHANGED <<gone, bubble, body, summary, endings, condemned, run, revived, owner, budget>>

\* ObserveApplied: of a cancelled task only after its closure.
Applied(o) ==
  /\ work[o] = "apply" /\ Goes(o, "none") /\ revived' = revived \ {o}
  /\ obs' = [obs EXCEPT ![o].stage = "applied"]
  /\ IF status = "CANCELED" THEN endings' = endings \cup {Closing} /\ CloseBubbles
     ELSE UNCHANGED <<endings, bubble>>
  /\ UNCHANGED <<logged, gone, body, summary, task, run, guard, owner, budget>>
-------------------------------------------------------------------------------
\* The user, the host and the machine.

Reply(k) ==
  /\ bubble[k] = "open" /\ turn < MaxTurns /\ (Early \/ ~Unresumed) /\ (Between \/ ~Landing)
  /\ bubble' = [bubble EXCEPT ![k] = "answered"]
  /\ IF status \in Terminal THEN UNCHANGED <<status, logged, queued>>
     ELSE /\ status' = "PENDING" /\ logged' = "PENDING"
          /\ queued' = (pc = "off" \/ queued)
  /\ UNCHANGED <<obs, gone, body, summary, endings, condemned, run, observers, prepared,
                 stopping, budget>>

\* _cancel_task_trees: AgentTerminated first; a live run is told to stop, any
\* other task is cancelled in the next step.
Cancel ==
  /\ budget.cancels > 0 /\ stopping = "none" /\ (Early \/ ~Unresumed) /\ ~Landing
  /\ budget' = [budget EXCEPT !.cancels = @ - 1]
  /\ gone' = TRUE /\ condemned' = (condemned \/ status \notin Terminal)
  /\ IF pc # "off" /\ status = "ACTIVE" THEN signal' = TRUE /\ UNCHANGED stopping
     ELSE stopping' = "commit" /\ UNCHANGED signal
  /\ UNCHANGED <<obs, logged, bubble, body, summary, endings, status, turn, pc, observers, queued,
                 prepared>>

CommitCancel ==
  /\ stopping = "commit" /\ ~Landing
  /\ IF status \in Terminal THEN stopping' = "none" /\ UNCHANGED <<status, logged, queued>>
     ELSE /\ stopping' = "closure" /\ queued' = FALSE
          /\ status' = "CANCELED" /\ logged' = "CANCELED"
  /\ UNCHANGED <<obs, gone, bubble, body, summary, endings, condemned, run, observers, prepared,
                 budget>>

\* The cancelled finish pair, the open questions, TaskFinalized.
Closure ==
  /\ stopping = "closure" /\ stopping' = "none"
  /\ endings' = endings \cup {Closing} /\ CloseBubbles
  /\ UNCHANGED <<obs, logged, gone, body, summary, task, run, observers, queued, prepared, budget>>

Crash ==
  /\ budget.crashes > 0 /\ ~prepared
  /\ budget' = [budget EXCEPT !.crashes = @ - 1]
  /\ status' = logged /\ condemned' = FALSE /\ signal' = FALSE /\ pc' = "off"
  /\ work' = NoExecution /\ guard' = {} /\ revived' = {}
  /\ queued' = FALSE /\ prepared' = TRUE /\ stopping' = "none"
  /\ UNCHANGED <<durable, turn>>

\* Mutated form: a decision that was recorded is taken for carried out.
Undecided(o) == obs[o].stage = "requested"

\* fold of the observe events: what is not applied is pending.
Pending(o) == obs[o].stage \in {"requested", "completed"}

\* Mutated form: a cancellation is settled before the accepted verdicts are.
Restored == status

\* restore_observe_decisions: an accepted verdict comes before a cancellation.
Restore ==
  IF status \notin Terminal /\ \E o \in Obs : Pending(o) /\ obs[o].action = "close"
  THEN "FINISHED" ELSE status

\* start_foreground_recovery: a review that had not decided yet is run again.
Again == {o \in Obs : Pending(o) /\ o[2] = "fg" /\ obs[o].action = "none"}

\* The first command after a restart: handoffs, verdicts, cancellations, the
\* queue, and every observation that is not applied.
Activate ==
  /\ prepared /\ prepared' = FALSE /\ stopping = "none"
  /\ LET open == \E k \in Turn : bubble[k] = "open"
         cancel == Restore = "CANCELED" \/ (Restore # "FINISHED" /\ gone)
         blocked == open \/ \E o \in Obs : Pending(o) /\ (o[2] = "fg" \/ obs[o].action = "close")
         now == IF cancel THEN "CANCELED"
                ELSE IF Restore \in Terminal THEN Restore
                ELSE IF Again # {} THEN "ACTIVE"
                ELSE IF open THEN "AWAITING_HUMAN"
                ELSE IF blocked THEN status ELSE "PENDING"
     IN
     /\ status' = now
     /\ logged' = IF cancel \/ (Again # {} /\ now = "ACTIVE") \/ (open /\ now = "AWAITING_HUMAN")
                  THEN now ELSE logged
     /\ queued' = (~cancel /\ Again = {} /\ (queued \/ (~blocked /\ now # "FINISHED")))
     /\ pc' = (IF Again # {} /\ now = "ACTIVE" THEN "observe" ELSE "off")
     /\ IF cancel THEN endings' = endings \cup {Closing} /\ CloseBubbles
        ELSE UNCHANGED <<endings, bubble>>
     /\ revived' = {o \in Obs : Pending(o)} \ Again
     /\ work' = [o \in Obs |-> IF Pending(o) THEN "ready" ELSE "none"]
  /\ UNCHANGED <<obs, gone, body, summary, condemned, signal, turn, guard, stopping, budget>>
-------------------------------------------------------------------------------
Foreground(o) == ResumeReview(o) \/ Judged(o) \/ FoldRetry(o) \/ FinalizeStep(o) \/ Dispose(o)
Background(o) == \/ Begin(o) \/ Recap(o) \/ Verdict(o) \/ Land(o) \/ FoldSegment(o)
                 \/ FinalizeOutOfBand(o) \/ ClosePark(o) \/ Announce(o)
Observer(o) == Foreground(o) \/ Background(o) \/ Applied(o)
RunOnly == AwaitHuman \/ SettlePark \/ CancelRun
Choices == Dispatch \/ ParkAwaitUser \/ ParkForInterrupt \/ RequestForeground \/ InterruptReview
Commands == (\E k \in Turn : Reply(k)) \/ Cancel \/ CommitCancel \/ Closure \/ Activate

Next == (\E o \in Obs : Observer(o)) \/ RunOnly \/ Choices \/ Commands \/ Crash

\* Every turn is told once: raw, or by the summary of one observation, or by
\* the report the task ended with (segment_fold, _supersede_final_raw_segment:
\* "the raw last segment and a true report, at least one of them").
TurnsAreTold ==
  \A k \in Turn :
    /\ Cardinality({o \in Obs : k \in summary[o]}) = IF body[k] = "told" THEN 1 ELSE 0
    /\ body[k] = "archived" => \E o \in endings \ {Closing} : obs[o].reported

\* When nothing is under way the task is over, or it waits for an answer that
\* can still be given: no park is left without its question, no answer
\* without its turn.
AtRest ==
  pc = "off" /\ ~queued /\ ~prepared /\ stopping = "none" /\ (\A o \in Obs : ~Live(o))
    => \/ status \in Terminal /\ logged = status
       \/ status = "AWAITING_HUMAN" /\ logged = status /\ bubble[turn] = "open"

\* ObserveApplied means that all is done: an accepted verdict has ended the
\* task with its report and closed its bubble, a cancelled task has its
\* closure.  What has ended stays so, and an accepted verdict wins.
Whole(o) ==
  /\ obs[o].action = "close" =>
       /\ logged' = "FINISHED" /\ o \in endings' /\ Closing \notin endings'
       /\ obs[o].finalized /\ bubble'[o[1]] # "open"
  /\ logged' = "CANCELED" => Closing \in endings' /\ \A k \in Turn : bubble'[k] # "open"
EndsWhole == [][/\ \A o \in Obs : obs[o].stage = "completed" /\ obs'[o].stage = "applied" => Whole(o)
                /\ logged \in Terminal => logged' = logged]_vars

\* Whatever was asked of an observation comes to an end, as long as the
\* session is not down (execute, _relaunch_observe).
ObservationsEnd ==
  \A o \in Obs :
    obs[o].stage \in {"requested", "completed"} ~> obs[o].stage = "applied" \/ prepared

\* A started observation, a run that has stopped and a cancellation go on; the
\* model answers, the user and the host need not.
Spec == /\ Init /\ [][Next]_vars
        /\ \A o \in Obs : WF_vars(Observer(o))
        /\ WF_vars(RunOnly) /\ WF_vars(CommitCancel) /\ WF_vars(Closure)
================================================================================
