------------------------------- MODULE StepLoop -------------------------------
(* One run of a task through the step driver: prepare, act, compact, and what   *)
(* it ends with (core/loop/driver.py, steps/prepare.py, steps/act.py,           *)
(* steps/compact.py, core/loop/commit.py, llm_gateway.py, llm_stream.py,        *)
(* steps/recognize_intent.py).                                                  *)
(*                                                                              *)
(* A run prepares a prompt from memory, asks the model turn by turn, writes     *)
(* every turn and every tool result to memory and to the live conversation it   *)
(* sends next, and leaves act for compaction and back, for the observer, or to  *)
(* wait for the user.  A request is attempted again when the model's service    *)
(* breaks off; the user may pause, and the task may be cancelled, at any time.  *)
(* Until the model first speaks the round is open: what it would write is       *)
(* staged and may still be withdrawn.  A response is a sequence of chunks, text *)
(* and calls, each named by the turn, attempt and place it came from.  What     *)
(* happens inside a call is the matter of ToolCalls; how large a prompt is, and *)
(* whether that is too large, is left open.                                     *)
(*                                                                              *)
(* Delegations (delegate_task, delegate_plan) are told in two ways.  The live   *)
(* conversation has the call and its result; the task's memory has neither: the *)
(* record of the turn leaves the call out, and the gateway writes no result of  *)
(* it.  The frame and the ack of a plan, which the gateway writes for the agent *)
(* instead, are left out, as is the frame of a child, which the child writes.   *)
EXTENDS Naturals, Sequences, FiniteSets, SequencesExt

CONSTANTS
  MaxTurns,        \* loop_config.max_turns_per_act
  MaxRecoveries,   \* loop_config.max_context_recoveries
  MaxAttempts,     \* llm_self_heal_max_attempts
  MaxChunks,       \* chunks of one attempt (bound of the model)
  Kinds,           \* chunk kinds in use: "text", and calls by what they ask for
  Tasks            \* the tasks tried: attended, untitled, asked in an open round

ASSUME RunAssumption ==
  /\ MaxTurns \in Nat \ {0} /\ MaxAttempts \in Nat \ {0}
  /\ MaxRecoveries \in Nat /\ MaxChunks \in Nat
  /\ Kinds \subseteq {"text", "plain", "delegate", "switch"}
  /\ Tasks \subseteq [attended : BOOLEAN, untitled : BOOLEAN, open : BOOLEAN]

VARIABLES
  conf,       \* the task: attended, untitled; does the run start in an open round
  step, pc,   \* the driver's step, and the place inside act
  count,      \* turns used, context recoveries used
  noop,       \* the last compaction of the run folded nothing
  after,      \* this prepare follows a compaction
  committed,  \* ROUND_COMMITTED_KEY: the round counts
  turn,       \* the turn in hand and its calls, in order
  pending,    \* turn is a pending_act_turn: its tools wait for a compaction
  flag,       \* what the tools of this run requested: suspend, switch
  base, tail, \* the compiled prompt and the messages appended to it in act
  results,    \* tool_results of the loop over the calls
  memory, staged,
  attempt, response, \* the stream: the attempt, and what was accepted of it so far
  shown,      \* what a reader of the streamed events displays for the turn
  withdrawn,  \* (history) the attempts whose response was discarded
  ran,        \* (history) the calls of the turn that were invoked, in order
  intent,     \* recognize_intent: due, started, has the task got its title
  launched,   \* (history) how often recognize_intent was started, and ended
  outcome

act    == <<turn, pending, flag, base, tail, results>>
stream == <<attempt, response, shown, withdrawn>>
store  == <<memory, staged, committed>>
meta   == <<intent, launched>>
vars == <<conf, step, pc, count, noop, after, committed, turn, pending, flag,
          base, tail, results, memory, staged, attempt, response, shown, withdrawn, ran,
          intent, launched, outcome>>

Turns    == 1 .. MaxTurns
Chunk    == [turn : Turns, attempt : 1 .. MaxAttempts, at : 1 .. MaxChunks, kind : Kinds]
NoTurn   == [no |-> 0, calls |-> <<>>]
Silence  == [text |-> <<>>, calls |-> <<>>]

(* A message: its text, and the calls a turn makes or the one a result answers.   *)
(* The place of a call in its turn is part of its name.                           *)
Record(kind, no, text, calls) == [kind |-> kind, turn |-> no, text |-> text, calls |-> calls]
Prompt   == Record("user", 0, <<>>, {})
Digest   == Record("digest", 0, <<>>, {})

IsText(c)      == c.kind = "text"
IsDelegated(c) == c.kind = "delegate"      \* DISPATCH_TOOLS

(* What of a message memory keeps: not its delegations.                           *)
Stored(m) == [m EXCEPT !.calls = {c \in @ : ~IsDelegated(c)}]

(* The question is staged when the run opens the round, and in memory when it    *)
(* was asked before.                                                            *)
Init ==
  /\ conf \in Tasks
  /\ step = "prepare" /\ pc = "none" /\ after = FALSE /\ noop = FALSE
  /\ count = [turns |-> 0, recoveries |-> 0]
  /\ committed = ~conf.open
  /\ memory = IF conf.open THEN <<>> ELSE <<Prompt>>
  /\ staged = IF conf.open THEN <<Prompt>> ELSE <<>>
  /\ turn = NoTurn /\ pending = FALSE /\ flag = {} /\ base = <<>> /\ tail = <<>>
  /\ results = <<>> /\ attempt = 0 /\ response = Silence /\ shown = <<>> /\ withdrawn = {} /\ ran = <<>>
  /\ outcome = "none"
  /\ intent = [due |-> FALSE, started |-> FALSE, titled |-> ~conf.untitled]
  /\ launched = [began |-> 0, ended |-> 0]

(* ------------------------------ the round ----------------------------------- *)

(* recognize_intent starts once, and only when the round can no longer be taken  *)
(* back; before that it is noted as due.                                         *)
Recognize(due, counts) ==
  IF due /\ ~intent.started
    THEN /\ intent' = [intent EXCEPT !.due = ~counts, !.started = counts]
         /\ launched' = [launched EXCEPT !.began = IF counts THEN @ + 1 ELSE @]
    ELSE UNCHANGED meta

(* commit_round with the records of this step added: staged records reach       *)
(* memory in their order, then the intent that was due starts.                  *)
CommitWith(new) ==
  /\ memory' = memory \o staged \o new
  /\ staged' = <<>>
  /\ committed' = TRUE
  /\ Recognize(intent.due, TRUE)

Commit == CommitWith(<<>>)

(* ingest_or_stage: an open round keeps its writes to itself.                    *)
Ingest(new) ==
  /\ IF committed THEN memory' = memory \o new /\ UNCHANGED staged
                  ELSE staged' = staged \o new /\ UNCHANGED memory
  /\ UNCHANGED <<committed, meta>>

End(how) == outcome' = how /\ step' = "ended" /\ pc' = "none"

(* A step that has done its part names the next one; the driver goes there.      *)
LeaveFor(next) == step' = next /\ pc' = "none" /\ UNCHANGED outcome

Discard ==
  /\ ~committed
  /\ staged' = <<>>
  /\ End("discarded")
  /\ UNCHANGED <<memory, committed, meta>>

Park(new) == CommitWith(new) /\ End("parked")

(* Paused before the model spoke: nothing happened.  Later: park for the user,   *)
(* with what is given written first.                                             *)
Interrupt(new) == Discard \/ (committed /\ Park(new))

Cancelled == End("broken") /\ UNCHANGED <<store, meta>>

(* The cooperative stop of act, when the user has paused or the task has been    *)
(* cancelled.  A stop may come at any time; where it is looked at is what counts *)
(* here, and it is looked at first.                                              *)
StopsHere == Interrupt(<<>>) \/ Cancelled

(* ----------------------------- prepare, compact ----------------------------- *)

AtBoundary == step \in {"prepare", "compact", "observe", "suspend"} \/ (step = "act" /\ pc = "enter")

Boundary ==
  /\ AtBoundary
  /\ Cancelled
  /\ UNCHANGED <<conf, count, noop, after, act, stream, ran>>

PrepareCompacts ==
  /\ step = "prepare"
  /\ ~after
  /\ Commit
  /\ step' = "compact" /\ base' = <<>> /\ tail' = <<>>
  /\ UNCHANGED <<conf, pc, count, noop, after, turn, pending, flag, results, stream, ran, outcome>>

AssembledMemory == memory
Assembled == memory \o staged

PrepareAssembles ==
  /\ step = "prepare"
  /\ base' = Assembled /\ tail' = <<>>
  /\ Recognize(~intent.titled, committed)
  /\ step' = "act" /\ pc' = "enter" /\ after' = FALSE
  /\ UNCHANGED <<conf, count, noop, turn, pending, flag, results, store, stream, ran, outcome>>

(* A fold takes a prefix of memory, never a turn without the results that are      *)
(* there of its calls, and never the turn whose tools still wait.                 *)
HalfFolded(k) ==
  \E i \in 1 .. k, j \in k + 1 .. Len(memory) :
    /\ memory[i].kind = "turn" /\ memory[j].kind = "result"
    /\ memory[j].calls \subseteq memory[i].calls

MayFold(k) ==
  /\ ~HalfFolded(k)
  /\ \A i \in 1 .. k : ~(pending /\ memory[i].kind = "turn" /\ memory[i].turn = turn.no)

Folded(k) ==
  IF k = 0 THEN memory ELSE <<Digest>> \o SubSeq(memory, k + 1, Len(memory))

(* What prepare is told of the compaction it follows.                            *)
FollowsNothing == FALSE
Follows == TRUE

Compact ==
  /\ step = "compact"
  /\ \E k \in {0} \cup 2 .. Len(memory) :
       /\ MayFold(k)
       /\ memory' = Folded(k)
       /\ noop' = (k = 0)
  /\ step' = "prepare" /\ after' = Follows
  /\ UNCHANGED <<conf, pc, count, committed, staged, meta, act, stream, ran, outcome>>

(* ----------------------------------- act ------------------------------------ *)

Enter ==
  /\ step = "act" /\ pc = "enter"
  /\ pc' = "top"
  /\ UNCHANGED <<conf, step, count, noop, after, store, act, stream, ran, meta, outcome>>

(* What the model is sent: the compiled prompt, and what act has appended to it.  *)
Request == base \o tail
Appended(new) == tail' = tail \o new

(* One attempt at a request: announced, and bound to a stream of its own.         *)
Begin(n) == pc' = "stream" /\ attempt' = n

(* The reader of a stream owns nothing but the stream it is bound to: whoever     *)
(* detaches it has no result.                                                    *)
NoResult == response' = Silence /\ shown' = <<>>

(* The top of the loop: the turn is counted before the checkpoint is passed.     *)
CountsTurn == ~pending /\ count.turns < MaxTurns

Checkpoint ==
  /\ pc = "top" /\ (pending \/ CountsTurn)
  /\ StopsHere
  /\ count' = IF pending THEN count ELSE [count EXCEPT !.turns = @ + 1]
  /\ UNCHANGED <<conf, noop, after, act, stream, ran>>

(* A turn whose tools waited for a compaction is already in the rebuilt prompt.  *)
ResumeTurn ==
  /\ pc = "top" /\ pending
  /\ pc' = "tools"
  /\ UNCHANGED <<conf, step, count, noop, after, store, act, stream, ran, meta, outcome>>

Ask ==
  /\ pc = "top" /\ CountsTurn
  /\ count' = [count EXCEPT !.turns = @ + 1]
  /\ turn' = [NoTurn EXCEPT !.no = count.turns + 1]
  /\ Begin(1)
  /\ NoResult /\ withdrawn' = {} /\ ran' = <<>>
  /\ UNCHANGED <<conf, step, noop, after, store, pending, flag, base, tail, results, meta, outcome>>

(* Back to prepare while recoveries last and the last compaction still folded     *)
(* something; the first recovery is always tried.                                *)
CanRecover ==
  /\ count.recoveries < MaxRecoveries
  /\ ~(count.recoveries > 0 /\ noop)

MaxTurnsReached ==
  /\ pc = "top" /\ ~pending /\ count.turns = MaxTurns
  /\ Commit
  /\ LeaveFor("observe")
  /\ UNCHANGED <<conf, count, noop, after, act, stream, ran>>

(* -------------------------------- the stream -------------------------------- *)

Received == Len(response.text) + Len(response.calls)

Deliver(kind) ==
  [turn |-> turn.no, attempt |-> attempt, at |-> Received + 1, kind |-> kind]

Show(c) == IF IsText(c) THEN Append(shown, c) ELSE shown

(* A chunk is streamed to the readers first and accepted after; what counts as    *)
(* said is what was accepted.                                                    *)
Accept(c) ==
  /\ shown' = Show(c)
  /\ response' = IF IsText(c) THEN [response EXCEPT !.text = Append(@, c)]
                              ELSE [response EXCEPT !.calls = Append(@, c)]
PartialResult == response.text

(* A stop closes the stream before its last chunk is accepted.                    *)
ClosedEarly ==
  pc = "stream" /\ Received < MaxChunks /\ "text" \in Kinds /\ shown' = Show(Deliver("text"))

(* Any first chunk commits the round.                                             *)
ReceiveChunk ==
  /\ pc = "stream" /\ Received < MaxChunks
  /\ \E kind \in Kinds : Accept(Deliver(kind))
  /\ IF committed THEN UNCHANGED <<store, meta>> ELSE Commit
  /\ UNCHANGED <<conf, step, pc, count, noop, after, act, attempt, withdrawn, ran, outcome>>

(* A stop while the model is asked or a retry is awaited.  The last chunk may    *)
(* have been streamed to readers without being accepted; text accepted so far    *)
(* is kept as an interrupted turn.                                               *)
Kept == IF PartialResult = <<>> THEN <<>> ELSE <<Record("partial", turn.no, PartialResult, {})>>

StopStream ==
  /\ pc \in {"stream", "backoff"}
  /\ Interrupt(Kept) \/ Cancelled
  /\ UNCHANGED shown \/ ClosedEarly
  /\ UNCHANGED <<conf, count, noop, after, act, attempt, response, withdrawn, ran>>

(* A broken stream takes back what it streamed.                                  *)
WithdrawShown ==
  /\ withdrawn' = IF response = Silence THEN withdrawn ELSE withdrawn \cup {attempt}
  /\ shown' = <<>> /\ UNCHANGED response

Withdraw ==
  /\ withdrawn' = IF response = Silence THEN withdrawn ELSE withdrawn \cup {attempt}
  /\ NoResult

MayRetry == attempt < MaxAttempts

(* An outage: retried while attempts last and the recovery window is open.       *)
Outage ==
  /\ pc = "stream"
  /\ Withdraw
  /\ \/ MayRetry /\ pc' = "backoff" /\ UNCHANGED <<step, outcome>>
     \/ End("broken")
  /\ UNCHANGED <<conf, count, noop, after, store, act, attempt, ran, meta>>

Retry ==
  /\ pc = "backoff"
  /\ Begin(attempt + 1)
  /\ UNCHANGED <<conf, step, count, noop, after, store, act, response, shown,
                 withdrawn, ran, meta, outcome>>

(* The window closes before a chunk came, or the error is no outage.             *)
AskFails ==
  /\ pc \in {"stream", "backoff"}
  /\ End("broken")
  /\ UNCHANGED <<conf, count, noop, after, store, act, stream, ran, meta>>

(* The turn as the model is sent it next, which is also what it said.            *)
Whole == Record("turn", turn.no, response.text, ToSet(response.calls))

StreamEnds == pc = "stream"

(* Prose alone ends the run's work: it yields to the user when there is one,     *)
(* and is the task's output otherwise.                                           *)
FinishInProse == IF conf.attended THEN End("parked") ELSE LeaveFor("observe")

AnswerInProse ==
  /\ StreamEnds /\ response.calls = <<>>
  /\ CommitWith(<<Stored(Whole)>>)
  /\ FinishInProse
  /\ Appended(<<Whole>>)
  /\ UNCHANGED <<conf, count, noop, after, turn, pending, flag, base, results, stream, ran>>

(* The turn in hand is kept over a compaction, written and counted as it is.      *)
KeepTurn == pending' = TRUE /\ base' = <<>> /\ LeaveFor("compact")

(* A turn with calls is written before any of them runs.  A delegation may have  *)
(* the context compacted first; the tools of its turn then wait.                 *)
AnswerWithCalls ==
  /\ StreamEnds /\ response.calls # <<>>
  /\ turn' = [turn EXCEPT !.calls = response.calls]
  /\ Appended(<<Whole>>)
  /\ \/ /\ Ingest(<<Stored(Whole)>>)
        /\ pc' = "tools" /\ UNCHANGED <<step, pending, base, outcome>>
     \/ /\ \E c \in ToSet(response.calls) : IsDelegated(c)
        /\ CommitWith(<<Stored(Whole)>>)
        /\ KeepTurn
  /\ UNCHANGED <<conf, count, noop, after, flag, results, stream, ran>>

(* --------------------------------- the tools -------------------------------- *)

Result(c) == Record("result", turn.no, <<>>, {c})
ResultsOf(s) == [i \in DOMAIN s |-> Result(s[i])]

(* The loop goes through the calls from the first, and keeps what each returned.  *)
Left == SubSeq(turn.calls, Len(results) + 1, Len(turn.calls))
Answers(c) == results' = Append(results, Result(c))

(* A switch among other calls.                                                    *)
Misused == Len(turn.calls) # 1 /\ \E c \in ToSet(turn.calls) : c.kind = "switch"

InTools == pc = "tools"

(* A misused switch refuses every call of the turn, delegations too, and says so  *)
(* in memory.                                                                     *)
RefuseSwitch ==
  /\ InTools /\ Misused /\ Left # <<>>
  /\ Ingest(<<Result(Head(Left))>>)
  /\ Answers(Head(Left))
  /\ UNCHANGED <<conf, step, pc, count, noop, after, turn, pending, flag, base, tail, stream,
                 ran, outcome>>

(* One call after the other; a delegation or a switch that is accepted is a      *)
(* request to leave.  The gateway writes the result, but not of a delegation.     *)
RunCall ==
  /\ InTools /\ ~Misused /\ Left # <<>>
  /\ LET c == Head(Left) IN
       /\ IF IsDelegated(c) THEN UNCHANGED <<store, meta>> ELSE Ingest(<<Result(c)>>)
       /\ Answers(c)
       /\ ran' = Append(ran, c)
       /\ \/ UNCHANGED flag
          \/ c.kind # "plain" /\ flag' = flag \cup {c.kind}
  /\ UNCHANGED <<conf, step, pc, count, noop, after, turn, pending, base, tail, stream, outcome>>

(* A call that needs an answer first parks the run; it did not run.              *)
CallParks ==
  /\ InTools /\ ~Misused /\ Left # <<>>
  /\ End("parked")
  /\ UNCHANGED <<conf, count, noop, after, store, act, stream, ran, meta>>

(* Paused between or during calls: the calls left get a result that says so, the *)
(* one under way among them, and delegations like any other.                     *)
StopTools ==
  /\ InTools /\ ~Misused /\ Left # <<>>
  /\ Interrupt(ResultsOf(Left)) \/ Cancelled
  /\ \/ UNCHANGED ran
     \/ ran' = Append(ran, Head(Left))
  /\ UNCHANGED <<conf, count, noop, after, act, stream>>

(* Leaving act commits the round.  A switch or a suspension is followed up first; *)
(* a turn over the stop line goes back to prepare or, if that does not help, to   *)
(* the observer.                                                                  *)
Exit ==
  CASE "switch" \in flag -> End("switched") /\ UNCHANGED count
    [] flag = {"delegate"} -> LeaveFor("suspend") /\ UNCHANGED count
    [] flag = {} /\ CanRecover ->
         LeaveFor("prepare") /\ count' = [count EXCEPT !.recoveries = @ + 1]
    [] OTHER -> LeaveFor("observe") /\ UNCHANGED count

(* Mutated form: a turn whose tools have run still counts as waiting.            *)
StillPending == UNCHANGED pending

TurnIsDone == pending' = FALSE

(* The results go into the live conversation once all calls have theirs.         *)
ToolsDone ==
  /\ InTools /\ Left = <<>>
  /\ Appended(results) /\ results' = <<>>
  /\ TurnIsDone
  /\ \/ flag = {} /\ pc' = "top" /\ UNCHANGED <<step, count, store, meta, outcome>>
     \/ Exit /\ Commit
  /\ UNCHANGED <<conf, noop, after, turn, flag, base, stream, ran>>

(* --------------------------- the ends of the run ---------------------------- *)

(* The driver's checkpoint before the foreground observer, then the observer.    *)
Observe ==
  /\ step = "observe"
  /\ \/ StopsHere
     \/ End("observed") /\ UNCHANGED <<store, meta>>
  /\ UNCHANGED <<conf, count, noop, after, act, stream, ran>>

Suspend ==
  /\ step = "suspend"
  /\ End("suspended")
  /\ UNCHANGED <<conf, count, noop, after, store, act, stream, ran, meta>>

(* The metadata step ends by itself, with or without a title; its failures stay  *)
(* with it.                                                                      *)
RecognizeEnds ==
  /\ launched.ended < launched.began
  /\ launched' = [launched EXCEPT !.ended = @ + 1]
  /\ \E titled \in {intent.titled, TRUE} : intent' = [intent EXCEPT !.titled = titled]
  /\ UNCHANGED <<conf, step, pc, count, noop, after, store, act, stream, ran, outcome>>

Run ==
  \/ Boundary \/ PrepareCompacts \/ PrepareAssembles \/ Compact
  \/ Enter \/ Checkpoint \/ ResumeTurn \/ Ask \/ MaxTurnsReached
  \/ ReceiveChunk \/ StopStream \/ Outage \/ Retry \/ AskFails
  \/ AnswerInProse \/ AnswerWithCalls
  \/ RefuseSwitch \/ RunCall \/ CallParks \/ StopTools \/ ToolsDone
  \/ Observe \/ Suspend

Next == Run \/ RecognizeEnds

(* The run's coroutine and the metadata task are scheduled; the user and the     *)
(* cancellation owe nothing.                                                     *)
Spec == Init /\ [][Next]_vars /\ WF_vars(Run) /\ WF_vars(RecognizeEnds)

(* ------------------------------- properties --------------------------------- *)


Conversation == memory \o staged
Records == ToSet(Conversation)

(* The messages that memory and the live conversation share: all but the results  *)
(* of delegations.  Dialogue lists them by their place, each as memory keeps it.  *)
Told(m) == ~(m.kind = "result" /\ \E c \in m.calls : IsDelegated(c))
Place(s, i) == Cardinality({j \in 1 .. i : Told(s[j])})
Dialogue(s) == {<<Place(s, i), Stored(s[i])>> : i \in {j \in DOMAIN s : Told(s[j])}}

(* What the model is asked next is the conversation as memory has it, delegations  *)
(* apart: every record once, in order, whether it came by way of the assembled    *)
(* prompt, of the appended messages, or of a compaction in the middle of a turn.  *)
PromptIsMemory ==
  pc \in {"top", "stream", "backoff"} => Dialogue(Request) = Dialogue(Conversation)

(* Nothing of a withdrawn attempt is kept as what the model said, a reader of the *)
(* streamed events has seen what is kept, a discarded round leaves no record and  *)
(* no request for metadata, and the metadata step runs for a round that counts,   *)
(* once.                                                                          *)
OnlyWhatCounts ==
  /\ \A r \in Records : r.turn = turn.no /\ r.kind \in {"turn", "partial"} =>
       /\ \A c \in ToSet(r.text) \cup r.calls : c.attempt \notin withdrawn
       /\ IF r.kind = "turn" THEN r.text = shown ELSE IsPrefix(r.text, shown)
  /\ outcome = "discarded" => Conversation = <<>> /\ launched.began = 0
  /\ launched.began <= (IF committed THEN 1 ELSE 0)

(* Some turn in s makes the call that r is the result of.                         *)
Called(r, s) == \E t \in ToSet(s) : t.kind = "turn" /\ t.turn = r.turn /\ r.calls \subseteq t.calls

(* A call is invoked at most once, whatever was compacted between its turn and    *)
(* its run; in memory the result of a call that is no delegation never stands     *)
(* without the turn that made the call; and where act was left by itself, every   *)
(* call in memory has its result.                                                 *)
CallsRunOnce ==
  /\ IsInjective(ran)
  /\ \A r \in Records : r.kind = "result" /\ Told(r) => Called(r, Conversation)
  /\ outcome \in {"observed", "suspended", "switched"} =>
       \A t \in Records : t.kind = "turn" =>
         \A c \in t.calls : Record("result", t.turn, <<>>, {c}) \in Records

(* "tool_call and result correspond one to one, nothing dangles"                   *)
(* (_ingest_synthetic_tool_result): what is written to memory as the result of a  *)
(* call has its call there.  This is what the code says, delegations included.    *)
ResultsMatchCalls ==
  \A r \in Records : r.kind = "result" => Called(r, Conversation)

(* "tool_call and result correspond one to one" (ActStep.execute, where it runs    *)
(* the calls): what the model is sent as a result answers a call it is sent.      *)
AnswersMatchCalls ==
  pc = "stream" => \A r \in ToSet(Request) : r.kind = "result" => Called(r, Request)

(* The run ends: neither compaction and turn, nor attempts of a request, go round *)
(* for ever, and the metadata step ends too.                                      *)
RunEnds == <>(outcome # "none") /\ [](launched.began > 0 => <>(launched.ended = launched.began))
=============================================================================
