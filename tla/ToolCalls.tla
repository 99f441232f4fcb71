------------------------------- MODULE ToolCalls -------------------------------
(***************************************************************************)
(* The tool calls of one assistant turn, from the turn's record in memory  *)
(* to the next request to the model.  Each call passes the gateway: may it *)
(* run again (only on re-entry), may it run, its CapabilityInvoked, the    *)
(* provider, its CapabilityFinished, its result in memory.  Each of the    *)
(* three gates may ask a human: the run waits, and either the answer finds *)
(* it waiting or it has parked and a new run reconciles the turn, that is, *)
(* takes every call without a result through the gateway again.            *)
(*                                                                         *)
(* An answer that becomes a tool result (ask_user) can be taken back until *)
(* the model speaks: it opens a round whose events and memory records are  *)
(* held back.  A verdict on an operation is final at once, but its write   *)
(* may fail, or succeed without anybody knowing.                           *)
(*                                                                         *)
(* Left out: bare wire ids, silent and dispatch tools, providers that      *)
(* resume after a question, unattended tasks, questions cancelled by a     *)
(* message, an ask_user that needs an approval itself.                     *)
(***************************************************************************)
EXTENDS Naturals, Sequences

CONSTANTS
  Order,        \* the calls of the turn, in its order
  Asks,         \* the calls of ask_user
  Gated,        \* the calls whose authorizer asks a human
  Rerunnable,   \* the calls with a rerun authorizer
  Idempotent,   \* the calls whose recovery_policy is idempotent
  Malformed,    \* the calls whose arguments or provider are not there
  Truncated,    \* the calls whose result the event holds only in part
  MaxStops, MaxFails, MaxCrashes   \* bounds: pauses, failed writes of a verdict, crashes

Call == {Order[i] : i \in DOMAIN Order}

ASSUME ToolCallsAssumption ==
  /\ Order \in Seq(Call) /\ \A i, j \in DOMAIN Order : Order[i] = Order[j] => i = j
  /\ Asks \subseteq Idempotent /\ Idempotent \cup Gated \cup Rerunnable \subseteq Call
  /\ Malformed \cup Truncated \subseteq Call /\ Malformed \cap (Asks \cup Idempotent) = {}
  /\ Asks \cap (Gated \cup Truncated) = {}
  /\ {MaxStops, MaxFails, MaxCrashes} \subseteq Nat

Stage == {"authz", "rerun", "tool"}
Question == Call \X Stage
Said == {"none", "yes", "no"}
Result == Said \cup {"real", "refused", "unverified", "interrupted", "cancelled"}

VARIABLES
  ops,      \* log: of each call, how often invoked and the result it finished with
  asks,     \* log, folded: each question none, open, or decided (none again once closed)
  memory,   \* the result of each call in the conversation
  round,    \* no round, one that is open, or one whose events are out
  ahead,    \* ops and memory as the open round will leave them
  desk,     \* HitlRegistry: each question none, open, claimed or final, and what was said
  unsure,   \* _pending_resolutions: a verdict whose write has not been confirmed
  pc, mode, todo,     \* where the run is; in act or in reconcile; the calls still to do
  stage, result,      \* what it asks about; what the call has come to
  ran, opened,        \* history: executions by the provider, questions shown
  budget

log == <<ops, asks>>
run == <<pc, mode, todo, stage, result>>
history == <<ran, opened>>
vars == <<log, memory, round, ahead, desk, unsure, run, history, budget>>

PC == {"off", "call", "review", "authorize", "refuse", "enter", "spent", "run",
       "open", "attach", "wait", "finish", "record", "close", "over"}

\* A record of the registry: not there, and as a question opens.
Untouched == [at |-> "none", said |-> "none"]
Shown == [at |-> "open", said |-> "none"]

\* OperationFacts: what the log says of a call, after each of its two events.
Fresh == [starts |-> 0, result |-> "none"]
AfterInvoked(facts) == [facts EXCEPT !.starts = @ + 1]
AfterFinished(facts, r) == [facts EXCEPT !.result = r]

\* A round starts from what is there.
Snapshot == [ops |-> ops, memory |-> memory]

Init ==
  /\ ops = [c \in Call |-> Fresh] /\ asks = [q \in Question |-> "none"]
  /\ memory = [c \in Call |-> "none"]
  /\ round = "none" /\ ahead = Snapshot
  /\ desk = [q \in Question |-> Untouched] /\ unsure = [q \in Question |-> "none"]
  /\ pc = "call" /\ mode = "act" /\ todo = Call
  /\ stage = "authz" /\ result = "none"
  /\ ran = [c \in Call |-> 0] /\ opened = [q \in Question |-> 0]
  /\ budget = [stops |-> MaxStops, fails |-> MaxFails, crashes |-> MaxCrashes]
-------------------------------------------------------------------------------
\* The call at hand: the first of the turn that is still to do.
Place(c) == CHOOSE i \in DOMAIN Order : Order[i] = c
Here == CHOOSE c \in todo : \A d \in todo : Place(c) <= Place(d)

\* effective_decision of the question of this call at a stage.
Found(s) == desk[<<Here, s>>]
Cached(s) == Found(s).said

\* The answer of a person, as the result of the call: yes, or declined.
HumanReply == Cached("tool")

\* What _validate_args and the lookup of the provider let through.
Executable == Here \notin Malformed

\* An event and a memory record are held back while a round is open; a record
\* whose id is there already stays as it is.
HeldBack(now, after) == IF round = "open" THEN now ELSE after
Emit(c, o) ==
  /\ ahead' = [ahead EXCEPT !.ops[c] = o]
  /\ ops' = HeldBack(ops, [ops EXCEPT ![c] = o])
Recorded(records, c, r) == IF records[c] = "none" THEN [records EXCEPT ![c] = r] ELSE records
Ingest(c, r) ==
  /\ ahead' = [ahead EXCEPT !.memory = Recorded(@, c, r)]
  /\ memory' = HeldBack(memory, Recorded(memory, c, r))

\* HitlClosed for the final decisions of this call at some stages.
CloseAt(stages) ==
  asks' = [q \in Question |->
             IF q[1] = Here /\ q[2] \in stages /\ desk[q].at = "final" THEN "none" ELSE asks[q]]
-------------------------------------------------------------------------------
\* The gateway, one call at a time.
At(label) == pc = label /\ round # "committing"
Goto(label) == pc' = label /\ UNCHANGED <<mode, todo, stage, result>>
ComeTo(r) == pc' = "finish" /\ result' = r /\ UNCHANGED <<mode, todo, stage>>
AskAt(s) == pc' = "open" /\ stage' = s /\ UNCHANGED <<mode, todo, result>>

\* The answer of a person is regenerated from the decision, never taken
\* from the event; nor is a result the event cut off.
EventDone == /\ mode = "reconcile" /\ ops[Here].result # "none"
             /\ Here \notin Truncated /\ Found("tool").at = "none"

Backfill ==
  /\ At("call") /\ todo # {} /\ EventDone
  /\ Ingest(Here, ops[Here].result)
  /\ todo' = todo \ {Here}
  /\ UNCHANGED <<pc, mode, stage, result, log, round, desk, unsure, history, budget>>

\* Invoked and not finished: the effect may have happened.
InDoubt == /\ mode = "reconcile" /\ Here \notin Idempotent
           /\ ops[Here].starts > 0 /\ ops[Here].result = "none"

Enter ==
  /\ At("call") /\ todo # {} /\ ~EventDone
  /\ Goto(IF InDoubt THEN "review" ELSE "authorize")
  /\ UNCHANGED <<log, memory, round, ahead, desk, unsure, history, budget>>

\* May it run again?  Nobody to ask, or no as the answer, concludes the call.
Review ==
  /\ At("review")
  /\ \/ Here \notin Rerunnable /\ ComeTo("unverified")
     \/ Here \in Rerunnable /\ Cached("rerun") = "yes" /\ Goto("authorize")
     \/ Here \in Rerunnable /\ Cached("rerun") = "no" /\ ComeTo("unverified")
     \/ Here \in Rerunnable /\ Cached("rerun") = "none" /\ AskAt("rerun")
  /\ UNCHANGED <<log, memory, round, ahead, desk, unsure, history, budget>>

\* May it run, and can it?
Authorize ==
  /\ At("authorize")
  /\ \/ /\ Here \in Gated => Cached("authz") = "yes"
        /\ Goto(IF Executable THEN "enter" ELSE "refuse")
     \/ Here \in Gated /\ Cached("authz") = "no" /\ Goto("refuse")
     \/ Here \in Gated /\ Cached("authz") = "none" /\ AskAt("authz")
  /\ UNCHANGED <<log, memory, round, ahead, desk, unsure, history, budget>>

\* A refusal or a bad call leaves no capability event, only its result.
Refuse ==
  /\ At("refuse") /\ Ingest(Here, "refused") /\ Goto("close")
  /\ UNCHANGED <<log, round, desk, unsure, history, budget>>

\* A tool that may have an effect ends the round first; ask_user does not.
Invoke ==
  /\ At("enter") /\ (Here \in Asks \/ round = "none")
  /\ Emit(Here, AfterInvoked(ahead.ops[Here]))
  /\ Goto("spent")
  /\ UNCHANGED <<asks, memory, round, desk, unsure, history, budget>>

\* Mutated form: the verdict lasts until there is a result.
SpentHereNone == {}

\* The approval and the verdict are spent.
SpentHere == {"authz", "rerun"}

Spend ==
  /\ At("spent") /\ CloseAt(SpentHere) /\ Goto("run")
  /\ UNCHANGED <<ops, memory, round, ahead, desk, unsure, history, budget>>

Execute ==
  /\ At("run") /\ Here \notin Asks
  /\ ran' = [ran EXCEPT ![Here] = @ + 1]
  /\ ComeTo("real")
  /\ UNCHANGED <<log, memory, round, ahead, desk, unsure, opened, budget>>

\* The provider of ask_user only says that it wants an answer.
ExecuteAsk ==
  /\ At("run") /\ Here \in Asks
  /\ IF HumanReply = "none" THEN AskAt("tool") ELSE ComeTo(HumanReply)
  /\ UNCHANGED <<log, memory, round, ahead, desk, unsure, history, budget>>

Finish ==
  /\ At("finish") /\ Emit(Here, AfterFinished(ahead.ops[Here], result)) /\ Goto("record")
  /\ UNCHANGED <<asks, memory, round, desk, unsure, history, budget>>

Record ==
  /\ At("record") /\ Ingest(Here, result) /\ Goto("close")
  /\ UNCHANGED <<log, round, desk, unsure, history, budget>>

Close ==
  /\ At("close") /\ CloseAt(Stage)
  /\ pc' = "call" /\ todo' = todo \ {Here}
  /\ UNCHANGED <<mode, stage, result, ops, memory, round, ahead, desk, unsure, history, budget>>

\* The next request to the model: prepare, and act's first chunk.
Speak ==
  /\ At("call") /\ todo = {} /\ round = "none"
  /\ Goto("over")
  /\ UNCHANGED <<log, memory, round, ahead, desk, unsure, history, budget>>
-------------------------------------------------------------------------------
\* Questions.
OpenQuestion ==
  /\ At("open") /\ round = "none"
  /\ asks' = [asks EXCEPT ![<<Here, stage>>] = "open"]
  /\ desk' = [desk EXCEPT ![<<Here, stage>>] = Shown]
  /\ opened' = [opened EXCEPT ![<<Here, stage>>] = @ + 1]
  /\ Goto("attach")
  /\ UNCHANGED <<ops, memory, round, ahead, unsure, ran, budget>>

\* Mutated form: whoever asked waits.
ListeningAlways == TRUE

\* An answer that came before the slot belongs to the cold path.
Listening == Found(stage).at = "open"

Attach ==
  /\ At("attach") /\ Goto(IF Listening THEN "wait" ELSE "off")
  /\ UNCHANGED <<log, memory, round, ahead, desk, unsure, history, budget>>

\* The hot window closes.
Evict ==
  /\ At("wait") /\ Goto("off")
  /\ UNCHANGED <<log, memory, round, ahead, desk, unsure, history, budget>>

\* The answer wakes the run that waits for it, which goes on where it asked.
Deliver(q) ==
  IF pc = "wait" /\ q = <<Here, stage>>
    THEN Goto(CASE stage = "rerun" -> "review" [] stage = "authz" -> "authorize" [] OTHER -> "run")
    ELSE UNCHANGED run

\* Mutated form: the verdict submitted last is published.
VerdictLatest(q, v) == v

\* A verdict is final at once.  The first one submitted is the one that counts,
\* whether or not its write is known to have succeeded.
Verdict(q, v) == IF unsure[q] = "none" THEN v ELSE unsure[q]

Decide(q, v) ==
  /\ q[2] # "tool" /\ desk[q].at = "open" /\ pc # "over"
  /\ asks' = [asks EXCEPT ![q] = IF asks[q] = "open" THEN Verdict(q, v) ELSE asks[q]]
  /\ desk' = [desk EXCEPT ![q] = [at |-> "final", said |-> Verdict(q, v)]]
  /\ unsure' = [unsure EXCEPT ![q] = "none"]
  /\ Deliver(q)
  /\ UNCHANGED <<ops, memory, round, ahead, history, budget>>

DecideUnconfirmed(q, v, written) ==
  /\ q[2] # "tool" /\ desk[q].at = "open" /\ pc # "over" /\ budget.fails > 0
  /\ unsure' = [unsure EXCEPT ![q] = Verdict(q, v)]
  /\ asks' = IF written /\ asks[q] = "open" THEN [asks EXCEPT ![q] = Verdict(q, v)] ELSE asks
  /\ budget' = [budget EXCEPT !.fails = @ - 1]
  /\ UNCHANGED <<ops, memory, round, ahead, desk, run, history>>

\* An answer for ask_user opens a round and is only claimed.
Answer(q, v) ==
  /\ q[2] = "tool" /\ desk[q].at = "open" /\ pc # "over"
  /\ round' = "open"
  /\ desk' = [desk EXCEPT ![q] = [at |-> "claimed", said |-> v]]
  /\ Deliver(q)
  /\ UNCHANGED <<log, memory, ahead, unsure, history, budget>>
-------------------------------------------------------------------------------
\* The round.
Claimed(q) == desk[q].at = "claimed"

\* Before a tool with an effect, before a new question, and when the model speaks.
MustCommit == \/ pc = "enter" /\ Here \notin Asks
              \/ pc = "open"
              \/ pc = "call" /\ todo = {}

\* First the held events with the answers' HitlResolved, in one batch ...
CommitEvents ==
  /\ round = "open" /\ MustCommit
  /\ round' = "committing"
  /\ ops' = ahead.ops
  /\ asks' = [q \in Question |-> IF Claimed(q) THEN desk[q].said ELSE asks[q]]
  /\ UNCHANGED <<memory, ahead, desk, unsure, run, history, budget>>

\* ... then what the round wrote to memory, and the answers are closed.
CommitMemory ==
  /\ round = "committing"
  /\ round' = "none"
  /\ memory' = ahead.memory
  /\ desk' = [q \in Question |-> IF Claimed(q) THEN [desk[q] EXCEPT !.at = "final"] ELSE desk[q]]
  /\ asks' = [q \in Question |-> IF Claimed(q) THEN "none" ELSE asks[q]]
  /\ UNCHANGED <<ops, ahead, unsure, run, history, budget>>

\* A pause before the round's commit takes the answer back; reconcile only looks
\* for one when it has done its calls.  (A pause between a question and its slot
\* is module Round's.)
Forget == ahead' = Snapshot

Retract ==
  /\ round = "open" /\ pc \notin {"off", "attach", "over"} /\ budget.stops > 0
  /\ mode = "act" \/ (pc = "call" /\ todo = {})
  /\ round' = "none"
  /\ Forget
  /\ desk' = [q \in Question |-> IF Claimed(q) THEN Shown ELSE desk[q]]
  /\ Goto("off")
  /\ budget' = [budget EXCEPT !.stops = @ - 1]
  /\ UNCHANGED <<log, memory, unsure, history>>

\* A pause with no round open: the rest of the turn gets its results.
Cut(c) == IF c = Here /\ pc # "call" THEN "interrupted" ELSE "cancelled"

Interrupt ==
  /\ round = "none" /\ mode = "act" /\ pc \notin {"off", "over"} /\ todo # {}
  /\ budget.stops > 0
  /\ memory' = [c \in Call |->
                  IF memory[c] = "none" /\ c \in todo THEN Cut(c) ELSE memory[c]]
  /\ ahead' = [ahead EXCEPT !.memory = memory']
  /\ Goto("over")
  /\ budget' = [budget EXCEPT !.stops = @ - 1]
  /\ UNCHANGED <<log, round, desk, unsure, history>>
-------------------------------------------------------------------------------
\* Mutated form: a call is done when the log says so.
DanglingByLog == {c \in Call : ops[c].result = "none" /\ memory[c] = "none"}

\* A task that waits for nobody is run again, and its turn reconciled.
Dangling == {c \in Call : memory[c] = "none"}

Start ==
  /\ pc = "off" /\ round # "committing"
  /\ \A q \in Question : desk[q].at # "open"
  /\ pc' = "call" /\ mode' = "reconcile"
  /\ todo' = Dangling
  /\ UNCHANGED <<stage, result, log, memory, round, ahead, desk, unsure, history, budget>>

\* What the registry holds after a restart: fold_hitl_snapshot and load_snapshot.
Reloaded(q) ==
  CASE asks[q] = "none" -> Untouched
    [] asks[q] = "open" -> Shown
    [] OTHER -> [at |-> "final", said |-> asks[q]]

Crash ==
  /\ pc # "over" /\ budget.crashes > 0
  /\ desk' = [q \in Question |-> Reloaded(q)]
  /\ unsure' = [q \in Question |-> "none"]
  /\ round' = "none" /\ ahead' = Snapshot
  /\ Goto("off")
  /\ budget' = [budget EXCEPT !.crashes = @ - 1]
  /\ UNCHANGED <<log, memory, history>>

Step ==
  \/ Backfill \/ Enter \/ Review \/ Authorize \/ Refuse \/ Invoke \/ Spend
  \/ Execute \/ ExecuteAsk \/ Finish \/ Record \/ Close \/ Speak
  \/ OpenQuestion \/ Attach \/ CommitEvents \/ CommitMemory \/ Start

Human == \E q \in Question, v \in {"yes", "no"} : Decide(q, v) \/ Answer(q, v)

Next ==
  \/ Step \/ Human \/ Evict \/ Retract \/ Interrupt \/ Crash
  \/ \E q \in Question, v \in {"yes", "no"}, written \in BOOLEAN : DecideUnconfirmed(q, v, written)

Spec == Init /\ [][Next]_vars

\* The run goes on, and whoever is asked answers; no window closes, no pause
\* and no crash is owed to anybody.
FairSpec == Spec /\ WF_vars(Step) /\ WF_vars(Human)
-------------------------------------------------------------------------------
\* Properties.

\* A result that comes into the conversation is in the log already, and an answer
\* of a human is there with the question decided that way: a crash in between
\* leaves a decision without its result, never a result that is asked for again.
ResultIsLogged ==
  [][\A c \in Call :
       memory'[c] # memory[c] /\ memory'[c] \notin {"refused", "interrupted", "cancelled"} =>
         /\ ops[c].result = memory'[c]
         /\ c \in Asks => asks[<<c, "tool">>] = memory'[c]]_vars

\* A call that needs an approval is invoked only while the approval stands in the
\* log; whichever write of a verdict failed or got lost, no invocation follows a
\* refusal that is there.
InvokedUnderApproval ==
  [][\A c \in Gated : ops'[c].starts > ops[c].starts => asks[<<c, "authz">>] = "yes"]_vars

\* After a crash that may have cut an execution short, the provider runs the call
\* again only with the verdict of a human, unless that is harmless.
NoUnreviewedRerun ==
  [][\A c \in Call \ Idempotent :
       ran'[c] > ran[c] /\ ran[c] > 0 =>
         \/ desk[<<c, "rerun">>].said = "yes"
         \/ c \in Truncated /\ ops[c].result # "none"]_vars

\* A verdict is good for one execution: it is spent before the provider runs.
VerdictIsSpent ==
  \A c \in Call \ (Idempotent \cup Truncated) : ran[c] <= 1 + opened[<<c, "rerun">>]

\* Nobody is asked again what was decided: an approval or a verdict lasts until
\* the invocation it was for, an answer until it is the result, across restarts.
AskedOnce ==
  \A c \in Call : /\ opened[<<c, "tool">>] <= 1
                  /\ opened[<<c, "authz">>] <= 1 + ops[c].starts
                  /\ opened[<<c, "rerun">>] <= ops[c].starts

\* What a human decided is neither asked for again nor used twice.
DecisionsSpentOnce == AskedOnce /\ VerdictIsSpent

\* Nothing with an effect runs without the decision it needs (the approval for its
\* invocation, the verdict for another execution), and what came of it is in the
\* log before the conversation has it.
GuardedExecution == InvokedUnderApproval /\ NoUnreviewedRerun /\ ResultIsLogged

\* When the model is asked again, every call of the turn has its result: the
\* conversation it is shown has no dangling call.
NoDangling == pc = "over" => \A c \in Call : memory[c] # "none"

\* The turn comes to its end, if questions are answered.
TurnEnds == <>(pc = "over")
================================================================================
