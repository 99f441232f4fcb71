--------------------------------- MODULE Round ---------------------------------
(***************************************************************************)
(* One task of one agent and the rounds of its conversation.  A message or *)
(* an answer of the human opens a round (TaskManager.begin_round): until   *)
(* the model's first chunk arrives it has not happened, so its events stay *)
(* in the bus's window, the memory it writes stays staged in the round,    *)
(* and the answered question is only claimed.  The commit stores the       *)
(* events, resolves the questions and writes the memory; a pause before it *)
(* takes all of it back.                                                   *)
(*                                                                         *)
(* Four parties interleave: the run of the task, the command of the host   *)
(* (serialised by the session guard, which the run does not take), the     *)
(* tail of the run before it, and crashes.  The event log is what it says: *)
(* the questions opened, the inputs decided, the task finished.            *)
(***************************************************************************)
EXTENDS Naturals, FiniteSets

CONSTANTS
  Questions,   \* the questions the task may ask
  Turns,       \* those answered by a user turn; the others wait in a tool call
  Msg,         \* the message that creates the task
  NoQ,         \* no question
  Races,       \* which of "closing" and "stale" the host may run into
  MaxSaid,     \* bound: inputs given per question (and messages sent)
  MaxStops, MaxFails, MaxCrashes   \* bounds: pauses, failed writes, crashes

ASSUME RoundAssumption ==
  /\ Turns \subseteq Questions
  /\ Msg \notin Questions /\ NoQ \notin Questions
  /\ Races \subseteq {"closing", "stale"}
  /\ {MaxSaid, MaxStops, MaxFails, MaxCrashes} \subseteq Nat

VARIABLES
  opened,     \* log: the questions with an HitlOpened
  decided,    \* log: the inputs with a TaskCreated or HitlResolved
  finished,   \* log: the task has its TaskFinished
  memory,     \* memory provider: the inputs the model can see
  moot,       \* tool questions whose call got an "interrupted" result instead
  task,       \* TaskManager: "absent", "live" or "done"
  queued,     \* the task is in the TaskQueue
  running,    \* the task is in _running_tasks
  pc,         \* where the coroutine of its run is
  then,       \* where it goes after the commit in progress
  ask,        \* the question it waits for or parked on
  tail,       \* the question the finished run still checks, or NoQ
  slot,       \* the question with a live wait slot, or NoQ
  q,          \* registry: the status of each question
  round,      \* TaskManager._rounds and the bus window of the task
  host,       \* the reply command in progress
  said,       \* history: how many inputs were given for each question
  retracted,  \* history: the inputs taken back
  budget      \* what is left of the bounds

logVars == <<opened, decided, finished>>
taskVars == <<task, queued, running>>
runVars == <<pc, then, ask, tail, slot>>
history == <<said, retracted, budget>>
vars == <<logVars, memory, moot, taskVars, runVars, q, round, host, history>>

Input == (Questions \cup {Msg}) \X (1..MaxSaid)
Binding == {"unbound", "new", "hot"}
Round == [open : BOOLEAN, owns : BOOLEAN, hitl : Questions \cup {NoQ},
          run : Binding, staged : SUBSET Input, batch : SUBSET Input,
          copy : SUBSET Input, frozen : BOOLEAN, flushed : BOOLEAN]
Host == [at : {"idle", "normalize", "resume"}, on : Questions \cup {NoQ}, mine : BOOLEAN]
PC == {"off", "start", "think", "act", "opened", "wait", "revert", "close",
       "stage", "store", "resolve", "write", "park", "settle", "done",
       "halted", "recovered"}

NoRound ==
  [open |-> FALSE, owns |-> FALSE, hitl |-> NoQ, run |-> "unbound", staged |-> {},
   batch |-> {}, copy |-> {}, frozen |-> FALSE, flushed |-> FALSE]

TypeOK ==
  /\ opened \subseteq Questions /\ moot \subseteq Questions \ Turns
  /\ decided \subseteq Input /\ memory \subseteq Input /\ retracted \subseteq Input
  /\ finished \in BOOLEAN
  /\ task \in {"absent", "live", "done"}
  /\ queued \in BOOLEAN /\ running \in BOOLEAN
  /\ pc \in PC /\ then \in PC
  /\ {ask, tail, slot} \subseteq Questions \cup {NoQ}
  /\ q \in [Questions -> {"none", "open", "claimed", "resolved"}]
  /\ round \in Round /\ (round.open \/ round = NoRound)
  /\ host \in Host
  /\ said \in [Questions \cup {Msg} -> 0..MaxSaid]
  /\ budget \in [stops : 0..MaxStops, fails : 0..MaxFails, crashes : 0..MaxCrashes]

\* begin_round: a round that is open already is left as it is.
Begin(owns, hitl) ==
  IF round.open THEN round
  ELSE [NoRound EXCEPT !.open = TRUE, !.owns = owns, !.hitl = hitl]

IdleHost == [at |-> "idle", on |-> NoQ, mine |-> FALSE]

Init ==
  /\ opened = {} /\ decided = {} /\ finished = FALSE /\ memory = {} /\ moot = {}
  /\ task = "absent" /\ queued = FALSE /\ running = FALSE
  /\ pc = "off" /\ then = "off" /\ ask = NoQ /\ tail = NoQ /\ slot = NoQ
  /\ q = [h \in Questions |-> "none"]
  /\ round = NoRound
  /\ host = IdleHost
  /\ said = [i \in Questions \cup {Msg} |-> 0]
  /\ retracted = {}
  /\ budget = [stops |-> MaxStops, fails |-> MaxFails, crashes |-> MaxCrashes]
-------------------------------------------------------------------------------
\* Vocabulary.
Answer(h) == <<h, said[h]>>
Claims == {Answer(h) : h \in {x \in Questions : q[x] = "claimed"}}
Spend(what) == budget[what] > 0 /\ budget' = [budget EXCEPT ![what] = @ - 1]
Goto(from, to) == pc = from /\ pc' = to

\* _round_commit_started: the batch may be in the log, so it cannot be undone.
CommitStarted == round.flushed \/ round.frozen

\* The round is being committed or taken back.
Closing ==
  round.open /\ pc \in {"revert", "close", "stage", "store", "resolve", "write",
                        "halted", "recovered"}

\* ingest_or_stage: with a round open, memory is written through the round.
Ingest(r, inputs) ==
  \/ /\ r.open
     /\ round' = [r EXCEPT !.staged = @ \cup inputs]
     /\ UNCHANGED memory
  \/ /\ ~r.open
     /\ memory' = memory \cup inputs
     /\ round' = r

\* resume_task: put the task into the queue unless it is there, runs, or is over.
Requeue == queued' = (queued \/ (task = "live" /\ ~running))
-------------------------------------------------------------------------------
(***************************************************************************)
(* The host's commands.                                                    *)
(***************************************************************************)
\* send_message for an agent without a task: the round owns the new task.
Send ==
  /\ host = IdleHost /\ task = "absent" /\ pc = "off" /\ said[Msg] < MaxSaid
  /\ said' = [said EXCEPT ![Msg] = @ + 1]
  /\ round' = Begin(TRUE, NoQ)
  /\ task' = "live" /\ queued' = TRUE
  /\ UNCHANGED <<logVars, memory, moot, running, runVars, q, host, retracted, budget>>

\* reply_to_hitl opens the round first.  The answer is for a question on the
\* list of pending ones; without "stale" it is the one the task waits for, and
\* without "closing" the host waits for RoundCommitted / RoundDiscarded.
Reply(h) ==
  /\ host = IdleHost /\ task = "live" /\ q[h] = "open" /\ said[h] < MaxSaid
  /\ "stale" \in Races \/ ask = h
  /\ "closing" \in Races \/ ~Closing
  /\ pc \notin {"halted", "recovered"}
  /\ host' = [at |-> "normalize", on |-> h, mine |-> ~round.open]
  /\ round' = Begin(FALSE, h)
  /\ UNCHANGED <<logVars, memory, moot, taskVars, runVars, q, history>>

\* An answer that is a user turn is written to the conversation; the result of
\* a call is left to the run.
UserTurn(h, answer) ==
  IF h \in Turns THEN Ingest(round, {answer}) ELSE UNCHANGED <<memory, round>>

\* A task that is over has no further round: the answer is final at once.
ReplyToFinished(h) ==
  /\ host = IdleHost /\ task = "done" /\ q[h] = "open" /\ said[h] < MaxSaid
  /\ said' = [said EXCEPT ![h] = @ + 1]
  /\ q' = [q EXCEPT ![h] = "resolved"]
  /\ decided' = decided \cup {Answer(h)'}
  /\ UserTurn(h, Answer(h)')
  /\ UNCHANGED <<opened, finished, moot, taskVars, runVars, host, retracted, budget>>

\* The content is refused: the round this call opened is dropped again.
Refuse ==
  /\ host.at = "normalize"
  /\ round' = IF host.mine THEN NoRound ELSE round
  /\ host' = IdleHost
  /\ UNCHANGED <<logVars, memory, moot, taskVars, runVars, q, history>>

\* Mutated form: an answer that woke the waiting run resumes the task as well.
ClaimDrivesTwice ==
  /\ host.at = "normalize"
  /\ LET h == host.on IN
     /\ said' = [said EXCEPT ![h] = @ + 1]
     /\ q' = [q EXCEPT ![h] = "claimed"]
     /\ slot' = NoQ
     /\ host' = IdleHost
     /\ queued' = TRUE
  /\ UNCHANGED <<logVars, memory, moot, task, running, pc, then, ask, tail,
                 round, retracted, budget>>

\* HitlService.resolve(defer=True): the question is claimed and its wait slot
\* taken in one step; a live slot gets the answer, otherwise the task is resumed.
Claim ==
  /\ host.at = "normalize"
  /\ LET h == host.on IN
     /\ said' = [said EXCEPT ![h] = @ + 1]
     /\ q' = [q EXCEPT ![h] = "claimed"]
     /\ slot' = IF slot = h THEN NoQ ELSE slot
     /\ host' = IF slot = h THEN IdleHost ELSE [host EXCEPT !.at = "resume"]
  /\ UNCHANGED <<logVars, memory, moot, taskVars, pc, then, ask, tail, round,
                 retracted, budget>>

\* _resume_in_existing_tm: a user turn goes into the conversation, the task
\* back into the queue.  Nothing is dispatched before (recovery_pending).
Resume ==
  /\ host.at = "resume" /\ pc \notin {"halted", "recovered"} /\ then # "recovered"
  /\ UserTurn(host.on, Answer(host.on))
  /\ Requeue
  /\ host' = IdleHost
  /\ UNCHANGED <<logVars, moot, task, running, runVars, q, history>>

\* /resume (or the next reply) after a failed write: reconcile_stopped_tasks
\* finishes the round the stopped run left behind ...
Recover ==
  /\ host.at # "normalize"
  /\ Goto("halted", IF ~round.open THEN "recovered"
                    ELSE IF round.flushed THEN "resolve" ELSE "stage")
  /\ then' = "recovered"
  /\ UNCHANGED <<logVars, memory, moot, taskVars, ask, tail, slot, q, round, host, history>>

\* ... frees its slot, and queues the task unless a question is pending.
Recovered ==
  /\ Goto("recovered", "off")
  /\ running' = FALSE
  /\ queued' = \A h \in Questions : q[h] # "open"
  /\ then' = "off"
  /\ UNCHANGED <<logVars, memory, moot, task, ask, tail, slot, q, round, host, history>>
-------------------------------------------------------------------------------
(***************************************************************************)
(* The run.                                                                *)
(***************************************************************************)
\* drain: one run per task; none while a recovery prepares the task.
Dispatch ==
  /\ queued /\ ~running /\ pc = "off" /\ host.at # "resume"
  /\ queued' = FALSE /\ running' = TRUE
  /\ pc' = "start"
  /\ UNCHANGED <<logVars, memory, moot, task, then, ask, tail, slot, q, round, host, history>>

\* What the conversation still lacks: the prompt of the task, and the results
\* of the tool calls whose question has an answer (reconcile).
Owed ==
  ({<<Msg, said[Msg]>>} \cup
   {Answer(h) : h \in {x \in Questions \ (Turns \cup moot) : q[x] \in {"claimed", "resolved"}}})
  \ memory

\* Mutated form: the conversation is written past the open round.
PrepareUnstaged ==
  /\ Goto("start", "think")
  /\ memory' = memory \cup Owed
  /\ round' = IF round.open THEN [round EXCEPT !.run = "new"] ELSE round
  /\ UNCHANGED <<logVars, moot, taskVars, then, ask, tail, slot, q, host, history>>

\* _run_loop binds the round to this run; reconcile and prepare write.
Prepare ==
  /\ Goto("start", "think")
  /\ Ingest(IF round.open THEN [round EXCEPT !.run = "new"] ELSE round, Owed)
  /\ UNCHANGED <<logVars, moot, taskVars, then, ask, tail, slot, q, host, history>>

\* The first chunk (or a tool call) commits the round.
FirstChunk ==
  /\ Goto("think", IF round.open THEN "stage" ELSE "act")
  /\ then' = "act"
  /\ UNCHANGED <<logVars, memory, moot, taskVars, ask, tail, slot, q, round, host, history>>

\* ask_user, or a plain-text turn, or the bubble of a pause.
Open(h) ==
  /\ h \notin opened
  /\ opened' = opened \cup {h}
  /\ q' = [q EXCEPT ![h] = "open"]
  /\ ask' = h
  /\ pc' = IF h \in Turns THEN "park" ELSE "opened"
  /\ UNCHANGED <<decided, finished>>

Ask(h) ==
  /\ pc = "act"
  /\ Open(h)
  /\ UNCHANGED <<memory, moot, taskVars, then, tail, slot, round, host, history>>

\* Mutated form: a question somebody has answered meanwhile gets a slot.
WaitRegardless ==
  /\ Goto("opened", "wait")
  /\ slot' = ask
  /\ UNCHANGED <<logVars, memory, moot, taskVars, then, ask, tail, q, round, host, history>>

\* HitlWaiter.wait: a question answered before the slot is attached counts as
\* evicted, because the answer already drives the cold path.
Wait ==
  /\ \/ Goto("opened", "wait") /\ q[ask] = "open" /\ slot' = ask
     \/ Goto("opened", "park") /\ q[ask] # "open" /\ UNCHANGED slot
  /\ UNCHANGED <<logVars, memory, moot, taskVars, then, ask, tail, q, round, host, history>>

\* The hot window ends unanswered.
Evict ==
  /\ slot = ask /\ Goto("wait", "park")
  /\ slot' = NoQ
  /\ UNCHANGED <<logVars, memory, moot, taskVars, then, ask, tail, q, round, host, history>>

\* The delivered answer wakes the run; rearm_after_hot_reply re-arms the commit
\* of the round that the answer opened.
Awake ==
  /\ slot # ask
  /\ Goto("wait", IF round.hitl = ask THEN "think" ELSE "act")
  /\ Ingest(IF round.hitl = ask THEN [round EXCEPT !.run = "hot"] ELSE round, {Answer(ask)})
  /\ UNCHANGED <<logVars, moot, taskVars, then, ask, tail, slot, q, host, history>>

\* A pause during the wait: the call gets an "interrupted" result, the question
\* stays open, and the run parks on a bubble.  With "stale" the pause may come
\* while an answer is under way, or delivered to a run not yet awake.
PauseWait(h) ==
  /\ pc = "wait" /\ h \in Turns
  /\ "stale" \in Races \/ (slot = ask /\ host.on # ask)
  /\ Spend("stops")
  /\ moot' = moot \cup {ask}
  /\ slot' = NoQ
  /\ Open(h)
  /\ UNCHANGED <<memory, taskVars, then, tail, round, host, said, retracted>>

\* A pause before the first chunk of a run without a round parks on a bubble.
PauseUncovered(h) ==
  /\ pc = "think" /\ ~round.open /\ h \in Turns
  /\ Spend("stops")
  /\ Open(h)
  /\ UNCHANGED <<memory, moot, taskVars, then, tail, slot, round, host, said, retracted>>

\* A pause before the first chunk: discard_uncommitted_round.
PauseRound ==
  /\ round.open /\ Goto("think", "revert")
  /\ Spend("stops")
  /\ UNCHANGED <<logVars, memory, moot, taskVars, then, ask, tail, slot, q, round,
                 host, said, retracted>>

\* A pause during a tool call cancels the commit it had begun after a hot
\* answer; a write in flight ends with an unknown outcome.
PauseCommit ==
  /\ round.run = "hot" /\ pc \in {"stage", "store", "resolve", "write"} /\ then = "act"
  /\ pc' = "revert"
  /\ Spend("stops")
  /\ \/ /\ pc = "store"
        /\ round' = [round EXCEPT !.frozen = TRUE]
        /\ decided' \in {decided, decided \cup round.batch}
     \/ pc # "store" /\ UNCHANGED <<round, decided>>
  /\ UNCHANGED <<opened, finished, memory, moot, taskVars, then, ask, tail, slot, q, host,
                 said, retracted>>
-------------------------------------------------------------------------------
(***************************************************************************)
(* The end of a round.                                                     *)
(***************************************************************************)
\* stage_commits: HitlResolved joins the batch of the round's events.
StageBatch ==
  /\ Goto("stage", "store")
  /\ round' = [round EXCEPT
       !.batch = @ \cup Claims \cup (IF round.owns THEN {<<Msg, said[Msg]>>} ELSE {})]
  /\ UNCHANGED <<logVars, memory, moot, taskVars, then, ask, tail, slot, q, host, history>>

\* bus.commit_provisional.
StoreBatch ==
  /\ Goto("store", "resolve")
  /\ decided' = decided \cup round.batch
  /\ round' = [round EXCEPT !.flushed = TRUE]
  /\ UNCHANGED <<opened, finished, memory, moot, taskVars, then, ask, tail, slot, q, host,
                 history>>

\* The write fails, perhaps after it took effect: the run halts, the round stays.
StoreFails ==
  /\ Goto("store", "halted")
  /\ Spend("fails")
  /\ decided' \in {decided, decided \cup round.batch}
  /\ round' = [round EXCEPT !.frozen = TRUE]
  /\ UNCHANGED <<opened, finished, memory, moot, taskVars, then, ask, tail, slot, q, host,
                 said, retracted>>

\* _commit_round_writes: the claims become final (one the batch does not hold
\* is logged now), and the staged memory is taken.
Resolve ==
  /\ Goto("resolve", "write")
  /\ decided' = decided \cup Claims
  /\ q' = [h \in Questions |-> IF q[h] = "claimed" THEN "resolved" ELSE q[h]]
  /\ round' = [round EXCEPT !.copy = round.staged]
  /\ UNCHANGED <<opened, finished, memory, moot, taskVars, then, ask, tail, slot, host, history>>

\* Mutated form: the window closes with what it holds.
WriteKeepsContents ==
  /\ pc = "write" /\ pc' = then
  /\ memory' = memory \cup round.copy
  /\ round' = [round EXCEPT !.open = FALSE]
  /\ UNCHANGED <<logVars, moot, taskVars, then, ask, tail, slot, q, host, history>>

\* ... and written; only then the round is closed.
Write ==
  /\ pc = "write" /\ pc' = then
  /\ memory' = memory \cup round.copy
  /\ round' = NoRound
  /\ UNCHANGED <<logVars, moot, taskVars, then, ask, tail, slot, q, host, history>>

\* Mutated form: the round is forgotten although its memory is not written.
WriteFailsForgets ==
  /\ Goto("write", "halted")
  /\ Spend("fails")
  /\ round' = NoRound
  /\ UNCHANGED <<logVars, memory, moot, taskVars, then, ask, tail, slot, q, host, said, retracted>>

WriteFails ==
  /\ Goto("write", "halted")
  /\ Spend("fails")
  /\ UNCHANGED <<logVars, memory, moot, taskVars, then, ask, tail, slot, q, round, host,
                 said, retracted>>

\* Mutated form: a batch that may be in the log is taken back.
RevertUncertain ==
  /\ Goto("revert", "close")
  /\ retracted' = retracted \cup Claims
  /\ q' = [h \in Questions |-> IF q[h] = "claimed" THEN "open" ELSE q[h]]
  /\ UNCHANGED <<logVars, memory, moot, taskVars, then, ask, tail, slot, round, host, said, budget>>

\* abandon_round / discard_round: a started commit is finished, not undone;
\* otherwise every claim of the task is released.
Revert ==
  \/ /\ CommitStarted
     /\ Goto("revert", IF round.flushed THEN "resolve" ELSE "stage")
     /\ then' = "park"
     /\ UNCHANGED <<logVars, memory, moot, taskVars, ask, tail, slot, q, round, host, history>>
  \/ /\ ~CommitStarted
     /\ Goto("revert", "close")
     /\ retracted' = retracted \cup Claims \cup (IF round.owns THEN {<<Msg, said[Msg]>>} ELSE {})
     /\ q' = [h \in Questions |-> IF q[h] = "claimed" THEN "open" ELSE q[h]]
     /\ UNCHANGED <<logVars, memory, moot, taskVars, then, ask, tail, slot, round, host,
                    said, budget>>

\* Mutated form: the staged memory survives the round.
CloseKeepsMemory ==
  /\ Goto("close", IF round.run = "hot" THEN "park" ELSE "off")
  /\ round' = NoRound
  /\ memory' = memory \cup round.staged
  /\ IF round.run = "hot" THEN UNCHANGED <<task, queued, running>>
     ELSE /\ queued' = FALSE /\ running' = FALSE
          /\ task' = IF round.owns THEN "absent" ELSE task
  /\ UNCHANGED <<logVars, moot, then, ask, tail, slot, q, host, history>>

\* ... then the round goes with all it holds.  A run that was there before the
\* answer parks on the question again; one the round started leaves no trace,
\* and its task is removed if the round owns it.
Close ==
  /\ round' = NoRound
  /\ \/ /\ round.run = "hot" /\ Goto("close", "park")
        /\ UNCHANGED taskVars
     \/ /\ round.run # "hot" /\ Goto("close", "off")
        /\ queued' = FALSE /\ running' = FALSE
        /\ task' = IF round.owns THEN "absent" ELSE task
  /\ UNCHANGED <<logVars, memory, moot, then, ask, tail, slot, q, host, history>>

\* _commit_round_or_halt: a round another input has opened meanwhile is not
\* this run's to commit.
Ending(next) ==
  /\ pc' = IF round.open /\ round.run # "unbound" THEN "stage" ELSE next
  /\ then' = next

Park ==
  /\ pc = "park" /\ Ending("settle")
  /\ UNCHANGED <<logVars, memory, moot, taskVars, ask, tail, slot, q, round, host, history>>

\* TaskAwaitingHuman is out and the slot is free.
Settle ==
  /\ Goto("settle", "off") /\ tail = NoQ
  /\ running' = FALSE
  /\ tail' = ask
  /\ UNCHANGED <<logVars, memory, moot, task, queued, then, ask, slot, q, round, host, history>>

\* Mutated form: no check after the run has settled.
WakeNever ==
  /\ tail # NoQ /\ tail' = NoQ
  /\ UNCHANGED <<logVars, memory, moot, taskVars, pc, then, ask, slot, q, round, host, history>>

\* _wake_if_already_answered: the answer came while the run was settling and
\* its own wake-up was refused.
Wake ==
  /\ tail # NoQ /\ tail' = NoQ
  /\ IF q[tail] \in {"claimed", "resolved"} THEN Requeue ELSE UNCHANGED queued
  /\ UNCHANGED <<logVars, memory, moot, task, running, pc, then, ask, slot, q, round, host, history>>

Finish ==
  /\ pc = "act" /\ Ending("done")
  /\ UNCHANGED <<logVars, memory, moot, taskVars, ask, tail, slot, q, round, host, history>>

Done ==
  /\ Goto("done", "off")
  /\ finished' = TRUE /\ task' = "done" /\ running' = FALSE
  /\ UNCHANGED <<opened, decided, memory, moot, queued, then, ask, tail, slot, q, round, host, history>>
-------------------------------------------------------------------------------
(***************************************************************************)
(* The process dies and is started again: the task and its questions come  *)
(* back from the log, decided user turns missing in memory are written     *)
(* (_inject_resolved_user_turns), and the task is queued unless a question *)
(* is pending.                                                             *)
(***************************************************************************)
Crash ==
  /\ Spend("crashes")
  /\ LET created == \E i \in decided : i[1] = Msg
         answered(h) == \E i \in decided : i[1] = h
         status(h) == IF h \notin opened THEN "none"
                      ELSE IF answered(h) THEN "resolved" ELSE "open"
     IN /\ task' = IF ~created THEN "absent" ELSE IF finished THEN "done" ELSE "live"
        /\ q' = [h \in Questions |-> status(h)]
        /\ queued' = (created /\ ~finished /\ \A h \in Questions : status(h) # "open")
        /\ \/ \E h \in Questions : status(h) = "open" /\ ask' = h
           \/ (\A h \in Questions : status(h) # "open") /\ ask' = NoQ
        /\ memory' = memory \cup {i \in decided : i[1] \in Turns}
  /\ running' = FALSE /\ pc' = "off" /\ then' = "off" /\ tail' = NoQ /\ slot' = NoQ
  /\ round' = NoRound /\ host' = IdleHost
  /\ UNCHANGED <<logVars, moot, said, retracted>>

HostStep == \/ Claim \/ Resume \/ Recover \/ Recovered

RunStep ==
  \/ Dispatch \/ Prepare \/ FirstChunk \/ Wait \/ Evict \/ Awake
  \/ StageBatch \/ StoreBatch \/ Resolve \/ Write
  \/ Revert \/ Close \/ Park \/ Settle \/ Wake \/ Finish \/ Done

Next ==
  \/ Send \/ Refuse \/ HostStep \/ RunStep
  \/ \E h \in Questions : Reply(h) \/ ReplyToFinished(h) \/ Ask(h) \/ PauseWait(h) \/ PauseUncovered(h)
  \/ PauseRound \/ PauseCommit \/ StoreFails \/ WriteFails \/ Crash

Spec == Init /\ [][Next]_vars

\* Every coroutine goes on, the model answers, a command that got its answer
\* through completes, and somebody resumes a halted session.
FairSpec ==
  Spec /\ WF_vars(Resume) /\ WF_vars(Claim \/ Refuse) /\ WF_vars(Recover) /\ WF_vars(Recovered)
       /\ WF_vars(RunStep \/ \E h \in Questions : Ask(h))
-------------------------------------------------------------------------------
(***************************************************************************)
(* Safety                                                                  *)
(***************************************************************************)
\* The model never sees an input the log does not hold: an answer is final
\* before it is in memory, through failures, retries and crashes.
MemoryFollowsLog == memory \subseteq decided

\* An input that was taken back never happened: not in the log, not in memory.
RetractedLeavesNoTrace == retracted \cap (decided \cup memory) = {}

\* Memory tells of the inputs that were accepted and of no other.
MemoryIsTrue == MemoryFollowsLog /\ RetractedLeavesNoTrace

\* A question has one final answer, however often it was answered and taken back.
OneAnswer == \A i, j \in decided : i[1] = j[1] => i = j

\* Nobody leaves a round open: an open round has a command, a queued task or a
\* run that closes it.  In an orphaned one the task's events would pile up.
RoundIsOwned == round.open => queued \/ running \/ host.at # "idle" \/ tail # NoQ

\* An answer is driven once: what a run is awake for is not queued again.
DrivenOnce == ~(queued /\ running)

\* No run waits for an answer that has been given to the cold path.
NoDeafWait == pc = "wait" /\ slot = ask => q[ask] = "open"

\* An answer is taken once and wakes one run, on the hot path or the cold one, and
\* there is always somebody to close the round it has opened.
AnswerActsOnce == OneAnswer /\ DrivenOnce /\ NoDeafWait /\ RoundIsOwned
-------------------------------------------------------------------------------
(***************************************************************************)
(* Liveness                                                                *)
(***************************************************************************)
\* What was decided and is not yet in the conversation, though its tool call has no
\* other result.
Undelivered == {i \in decided \ memory : i[1] \notin moot}

\* An accepted answer is made final or given back.
AnswerIsDecided == \A h \in Questions : q[h] = "claimed" ~> q[h] # "claimed"

\* A final answer reaches the conversation, unless its tool call was given an
\* "interrupted" result or the task is over.
AnswerReachesModel == Undelivered # {} ~> Undelivered = {} \/ task = "done"

\* Somebody decides every accepted answer, and what was decided is not lost.
AnswerArrives == AnswerIsDecided /\ AnswerReachesModel
===============================================================================
