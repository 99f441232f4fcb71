------------------------------ MODULE RoundProofs ------------------------------
(***************************************************************************)
(* The conversation of one task, for any number of questions, inputs,      *)
(* pauses, failed writes and crashes: what the model sees was decided in   *)
(* the log, what was taken back left no trace, and an answer acts once.    *)
(*                                                                         *)
(* The theorems assume Races = {}: the host answers the question the task  *)
(* waits for and waits for RoundCommitted or RoundDiscarded.  With either  *)
(* of the two races TLC shows MemoryIsTrue or AnswerActsOnce violated, so  *)
(* they cannot be stated without it.                                       *)
(*                                                                         *)
(* The invariant says, for each point of the run's coroutine, which round  *)
(* may be open and what it holds, what the host's command still relies on, *)
(* and which entries of the log, the registry and memory go together.  No  *)
(* part of it is inductive alone.                                          *)
(***************************************************************************)
EXTENDS Round, TLAPS

MsgInput == <<Msg, said[Msg]>>

\* What the open round may still decide: the answers it claims, the task it owns.
Pending == Claims \cup (IF round.open /\ round.owns THEN {MsgInput} ELSE {})

\* The task is in the queue or runs, never both, and only while it lives.
RunShape ==
  /\ running = (pc # "off")
  /\ ~(queued /\ running)
  /\ queued \/ running => task = "live"
  /\ task # "live" => ~round.open
  /\ pc \in {"opened", "wait"} => ask \in Questions \ Turns
  /\ pc \in {"park", "settle"} => ask \in Questions
  /\ pc \in {"stage", "store", "resolve", "write"} => then \in {"act", "park", "recovered"}
  /\ pc \in {"stage", "store", "resolve", "write"} /\ then = "park" => ask \in Questions
  /\ slot # NoQ => pc = "wait" /\ slot = ask
  /\ queued /\ ask # NoQ => q[ask] # "open"
  /\ pc \in {"start", "think", "act", "stage", "store", "resolve", "write", "revert",
             "halted", "recovered", "done"} /\ ask # NoQ => q[ask] # "open"

\* What a round may hold at each point of the run.
RoundShape ==
  /\ pc \in {"act", "done", "recovered"} => ~round.open
  /\ pc \in {"revert", "close", "stage", "store", "resolve", "write", "halted"} => round.open
  /\ round.open =>
       (round.run = "unbound" <=> pc \in {"off", "start", "opened", "wait", "park", "settle"})
  /\ round.run = "unbound" => round.batch = {} /\ ~CommitStarted
  /\ pc = "think" => ~CommitStarted
  /\ pc \in {"resolve", "write"} => round.flushed
  /\ pc = "revert" /\ CommitStarted => round.run = "hot"
  /\ pc = "close" => ~CommitStarted
  /\ round.run = "hot" => ~round.owns
  /\ pc \in {"stage", "store"} => ~round.flushed
  /\ pc = "halted" => CommitStarted

\* The command of the host: whom it waits for and what cannot have happened yet.
HostShape ==
  /\ host.at # "idle" =>
       /\ round.open /\ ~round.owns /\ host.on = ask /\ ask \in Questions
       /\ pc \in {"off", "opened", "wait", "park", "settle"}
  /\ host.at = "idle" => host = IdleHost
  /\ host.at = "normalize" =>
       /\ q[ask] = "open" /\ said[ask] < MaxSaid /\ host.mine /\ round.staged = {}
       /\ pc = "wait" => slot = ask
  /\ host.at = "resume" => q[ask] = "claimed" /\ pc # "wait"

\* An open round belongs to the question its run is about, or to the new task.
Questioned ==
  /\ {ask, tail} \subseteq opened \cup {NoQ}
  /\ \A h \in Questions : q[h] = "none" <=> h \notin opened
  /\ \A h \in Questions : q[h] = "claimed" =>
       h = ask /\ round.open /\ ~round.owns /\ said[h] > 0 /\ pc \notin {"close", "write"}
  /\ round.open /\ ~round.owns => round.hitl = ask /\ ask \in Questions
  /\ round.open /\ ~round.owns /\ host.at # "normalize" /\ pc # "close" =>
       q[ask] \in {"claimed", "resolved"}
  /\ pc = "wait" /\ slot # ask => q[ask] = "claimed" /\ host.at = "idle"
  /\ slot # NoQ => q[slot] = "open"
  /\ round.open /\ round.owns => opened = {} /\ said[Msg] > 0

\* The settled run checks the question the task waits for.
TailShape ==
  /\ tail # NoQ /\ round.open /\ (pc \in {"off", "start"} \/ round.run = "new") => tail = ask
  /\ tail # NoQ /\ pc = "off" /\ ask # NoQ /\ q[ask] = "open" => tail = ask

\* The log holds the last input of each question, once it is decided.
LogShape ==
  /\ \A i \in decided : i[2] = said[i[1]]
  /\ \A i \in decided : i[1] # Msg => q[i[1]] \in {"claimed", "resolved"}
  /\ \A h \in Questions : q[h] = "claimed" /\ Answer(h) \in decided => CommitStarted
  /\ \A h \in Questions : q[h] = "resolved" => Answer(h) \in decided
  /\ MsgInput \in decided => task # "absent"
  /\ MsgInput \in decided /\ round.open /\ round.owns => CommitStarted
  /\ task # "absent" => MsgInput \in decided \/ (round.open /\ round.owns)
  /\ opened # {} => MsgInput \in decided

\* What the round holds back is what it may decide.
WindowShape ==
  /\ pc # "close" => round.staged \subseteq decided \cup Pending
  /\ pc # "close" => round.batch \subseteq decided \cup Pending
  /\ round.flushed /\ round.owns => MsgInput \in decided
  /\ pc = "store" /\ round.owns => MsgInput \in round.batch
  /\ pc = "write" => round.copy \subseteq decided
  /\ memory \subseteq decided

\* What was taken back stays so.
RetractedShape ==
  \A i \in retracted :
    /\ i \notin decided /\ i[2] <= said[i[1]]
    /\ i[1] # Msg /\ i[2] = said[i[1]] => q[i[1]] \notin {"claimed", "resolved"}
    /\ i = MsgInput => task = "absent" \/ (pc = "close" /\ round.owns)

Inductive ==
  /\ RunShape /\ RoundShape /\ HostShape /\ Questioned /\ TailShape
  /\ LogShape /\ WindowShape /\ RetractedShape /\ RoundIsOwned

\* Memory written while a round is open stays in the round.
LEMMA IngestOpen ==
  ASSUME NEW r \in Round, r.open, NEW inputs \in SUBSET Input, Ingest(r, inputs)
  PROVE  /\ memory' = memory /\ round' \in Round /\ round'.open
         /\ round'.owns = r.owns /\ round'.hitl = r.hitl /\ round'.run = r.run
         /\ round'.batch = r.batch /\ round'.copy = r.copy
         /\ round'.frozen = r.frozen /\ round'.flushed = r.flushed
         /\ round'.staged = r.staged \cup inputs
BY DEF Ingest, Round

\* Without one it is there at once.
LEMMA IngestClosed ==
  ASSUME NEW r, NEW inputs, ~r.open, Ingest(r, inputs)
  PROVE  memory' = memory \cup inputs /\ round' = r
BY DEF Ingest

--------------------------------------------------------------------------------
(***************************************************************************)
(* The commands of the host                                                *)
(***************************************************************************)
\* A message opens the round that owns the new task.
LEMMA SendKeeps ==
  ASSUME Races = {}, TypeOK, Inductive, Send
  PROVE  TypeOK' /\ Inductive'
<1> USE RoundAssumption DEF Inductive
<1>1. /\ host = IdleHost /\ task = "absent" /\ pc = "off" /\ said[Msg] < MaxSaid
      /\ said' = [said EXCEPT ![Msg] = @ + 1]
      /\ round' = [NoRound EXCEPT !.open = TRUE, !.owns = TRUE, !.hitl = NoQ]
      /\ task' = "live" /\ queued' = TRUE
      /\ UNCHANGED <<opened, decided, finished, memory, moot, running, pc, then, ask, tail, slot,
                     q, host, retracted, budget>>
  BY DEF Send, Begin, RunShape, logVars, runVars
<1>2. /\ ~round.open /\ round = NoRound /\ opened = {} /\ ask = NoQ /\ tail = NoQ
      /\ MsgInput \notin decided /\ \A h \in Questions : q[h] = "none"
  BY <1>1 DEF TypeOK, RunShape, Questioned, LogShape
<1>3. /\ \A h \in Questions : said'[h] = said[h]
      /\ said[Msg] \in Nat /\ said'[Msg] = said[Msg] + 1 /\ said'[Msg] \in 0..MaxSaid
      /\ said' \in [Questions \cup {Msg} -> 0..MaxSaid]
  BY <1>1 DEF TypeOK
<1>4. /\ round' \in Round /\ round'.open /\ round'.owns /\ round'.run = "unbound"
      /\ round'.staged = {} /\ round'.batch = {} /\ ~round'.frozen /\ ~round'.flushed
  BY <1>1 DEF NoRound, Round, Binding
<1>5. TypeOK'
  BY <1>1, <1>4 DEF TypeOK
<1>6. RunShape'
  BY <1>1, <1>2 DEF RunShape
<1>7. RoundShape'
  BY <1>1, <1>4 DEF RoundShape, CommitStarted
<1>8. HostShape'
  BY <1>1 DEF HostShape, IdleHost
<1>9. Questioned'
  BY <1>1, <1>2, <1>3 DEF Questioned
<1>10. TailShape'
  BY <1>1, <1>2 DEF TailShape
<1>11. LogShape'
  BY <1>1, <1>2 DEF TypeOK, LogShape, MsgInput, Input
<1>12. WindowShape'
  BY <1>1, <1>4 DEF WindowShape
<1>13. RetractedShape'
  BY <1>1 DEF TypeOK, RetractedShape, MsgInput, Input
<1>14. RoundIsOwned'
  BY <1>1 DEF RoundIsOwned
<1> QED
  BY <1>5, <1>6, <1>7, <1>8, <1>9, <1>10, <1>11, <1>12, <1>13, <1>14

\* A claimed answer puts the task back into the queue, or wakes its run.
LEMMA ResumeKeeps ==
  ASSUME Races = {}, TypeOK, Inductive, Resume
  PROVE  TypeOK' /\ Inductive'
<1> USE RoundAssumption DEF Inductive
<1>1. /\ host.at = "resume" /\ UserTurn(host.on, Answer(host.on)) /\ Requeue
      /\ host' = IdleHost
      /\ UNCHANGED <<opened, decided, finished, moot, task, running, pc, then, ask, tail, slot,
                     q, said, retracted, budget>>
  BY DEF Resume, logVars, runVars, history
<1>2. /\ ask \in Questions /\ host.on = ask /\ round \in Round /\ round.open /\ ~round.owns
      /\ q[ask] = "claimed" /\ Answer(ask) \in Claims
      /\ Claims \subseteq Input /\ Claims' = Claims /\ MsgInput' = MsgInput
  BY <1>1 DEF TypeOK, HostShape, Questioned, Claims, Answer, Input, MsgInput
<1>3. /\ memory' = memory /\ round' \in Round /\ round'.open
      /\ round'.owns = round.owns /\ round'.hitl = round.hitl /\ round'.run = round.run
      /\ round'.batch = round.batch /\ round'.copy = round.copy
      /\ round'.frozen = round.frozen /\ round'.flushed = round.flushed
      /\ round'.staged \subseteq round.staged \cup {Answer(ask)}
  BY <1>1, <1>2, IngestOpen DEF UserTurn
<1>4. queued' \in BOOLEAN /\ queued' = (queued \/ (task = "live" /\ ~running))
  BY <1>1 DEF Requeue
<1>5. pc \in {"off", "opened", "park", "settle"} /\ task = "live"
  BY <1>1 DEF HostShape, RunShape
<1>6. host' \in Host
  BY <1>1 DEF IdleHost, Host
<1>7. TypeOK'
  BY <1>1, <1>3, <1>4, <1>6 DEF TypeOK
<1>8. RunShape'
  BY <1>1, <1>2, <1>4 DEF RunShape
<1>9. RoundShape'
  BY <1>1, <1>2, <1>3 DEF RoundShape, CommitStarted
<1>10. HostShape'
  BY <1>1 DEF HostShape, IdleHost
<1>11. Questioned'
  BY <1>1, <1>2, <1>3 DEF Questioned
<1>12. TailShape'
  BY <1>1, <1>2, <1>3 DEF TailShape
<1>13. LogShape'
  BY <1>1, <1>2, <1>3 DEF LogShape, CommitStarted, Answer
<1>14. WindowShape'
  BY <1>1, <1>2, <1>3 DEF WindowShape, Pending
<1>15. RetractedShape'
  BY <1>1, <1>2 DEF RetractedShape
<1>16. RoundIsOwned'
  BY <1>1, <1>4, <1>5 DEF RoundIsOwned
<1> QED
  BY <1>7, <1>8, <1>9, <1>10, <1>11, <1>12, <1>13, <1>14, <1>15, <1>16

\* The task leaves the queue and runs.
LEMMA DispatchKeeps ==
  ASSUME Races = {}, TypeOK, Inductive, Dispatch
  PROVE  TypeOK' /\ Inductive'
<1> USE RoundAssumption DEF Inductive, Dispatch, logVars, taskVars, runVars, history
<1>1. host.at = "idle"
  BY DEF TypeOK, Host, RunShape, HostShape
<1>2. TypeOK'
  BY DEF TypeOK, PC
<1>3. RunShape'
  BY DEF RunShape
<1>4. RoundShape'
  BY DEF RoundShape, CommitStarted
<1>5. HostShape'
  BY <1>1 DEF HostShape
<1>6. Questioned'
  BY DEF Questioned
<1>7. TailShape'
  BY DEF TailShape
<1>8. LogShape'
  BY DEF LogShape, CommitStarted, Answer, MsgInput
<1>9. WindowShape'
  BY DEF WindowShape, Claims, Pending, Answer, MsgInput
<1>10. RetractedShape'
  BY DEF RetractedShape, MsgInput
<1>11. RoundIsOwned'
  BY DEF RoundIsOwned
<1> QED
  BY <1>2, <1>3, <1>4, <1>5, <1>6, <1>7, <1>8, <1>9, <1>10, <1>11

\* An answer opens a round, or joins the open one.
LEMMA ReplyKeeps ==
  ASSUME NEW h \in Questions, Races = {}, TypeOK, Inductive, Reply(h)
  PROVE  TypeOK' /\ Inductive'
<1> USE RoundAssumption DEF Inductive
<1>1. /\ host = IdleHost /\ task = "live" /\ q[h] = "open" /\ said[h] < MaxSaid
      /\ ask = h /\ ~Closing /\ pc \notin {"halted", "recovered"}
      /\ host' = [at |-> "normalize", on |-> h, mine |-> ~round.open]
      /\ round' = Begin(FALSE, h)
      /\ UNCHANGED <<opened, decided, finished, memory, moot, task, queued, running, pc, then, ask,
                     tail, slot, q, said, retracted, budget>>
  BY DEF Reply, logVars, taskVars, runVars, history
<1>2. h # NoQ /\ h # Msg /\ h \in opened
  BY <1>1 DEF Questioned
<1>3. ~round.open /\ round = NoRound
  BY <1>1 DEF TypeOK, Questioned, Closing, IdleHost
<1>4. /\ round' = [NoRound EXCEPT !.open = TRUE, !.owns = FALSE, !.hitl = h]
      /\ host' \in Host /\ host'.at = "normalize" /\ host'.on = h /\ host'.mine
  BY <1>1, <1>3 DEF Begin, Host
<1>5. /\ round' \in Round /\ round'.open /\ ~round'.owns /\ round'.hitl = h
      /\ round'.run = "unbound" /\ round'.staged = {} /\ round'.batch = {}
      /\ ~round'.frozen /\ ~round'.flushed
  BY <1>4 DEF NoRound, Round, Binding
<1>6. pc \in {"off", "opened", "wait", "park", "settle"}
  BY <1>1, <1>3 DEF TypeOK, PC, RunShape, RoundShape
<1>7. TypeOK'
  BY <1>1, <1>4, <1>5 DEF TypeOK
<1>8. RunShape'
  BY <1>1 DEF RunShape
<1>9. RoundShape'
  BY <1>1, <1>5, <1>6 DEF RoundShape, CommitStarted
<1>10. HostShape'
  BY <1>1, <1>4, <1>5, <1>6 DEF HostShape, Questioned
<1>11. Questioned'
  BY <1>1, <1>2, <1>3, <1>4, <1>5, <1>6, <1>7 DEF TypeOK, RunShape, RoundShape, HostShape,
     Questioned
<1>12. TailShape'
  BY <1>1, <1>5, <1>6 DEF TailShape
<1>13. LogShape'
  BY <1>1, <1>2, <1>3, <1>4, <1>5, <1>6, <1>7 DEF TypeOK, RunShape, RoundShape, Questioned,
     LogShape, CommitStarted, Answer, MsgInput
<1>14. WindowShape'
  BY <1>1, <1>5, <1>6 DEF WindowShape
<1>15. RetractedShape'
  BY <1>1, <1>6 DEF RoundShape, RetractedShape, MsgInput
<1>16. RoundIsOwned'
  BY <1>4 DEF RoundIsOwned
<1> QED
  BY <1>7, <1>8, <1>9, <1>10, <1>11, <1>12, <1>13, <1>14, <1>15, <1>16

\* An answer to a task that has finished is not taken.
LEMMA ReplyToFinishedKeeps ==
  ASSUME NEW h \in Questions, Races = {}, TypeOK, Inductive, ReplyToFinished(h)
  PROVE  TypeOK' /\ Inductive'
<1> USE RoundAssumption DEF Inductive
<1>1. /\ host = IdleHost /\ task = "done" /\ q[h] = "open" /\ said[h] < MaxSaid
      /\ said' = [said EXCEPT ![h] = @ + 1]
      /\ q' = [q EXCEPT ![h] = "resolved"]
      /\ decided' = decided \cup {Answer(h)'}
      /\ UserTurn(h, Answer(h)')
      /\ UNCHANGED <<opened, finished, moot, task, queued, running, pc, then, ask, tail, slot,
                     host, retracted, budget>>
  BY DEF ReplyToFinished, taskVars, runVars
<1>2. ~round.open /\ round = NoRound /\ pc = "off" /\ ~queued /\ h \in opened /\ h # Msg
    /\ slot = NoQ
  BY <1>1 DEF TypeOK, RunShape, Questioned
<1>3. /\ said' \in [Questions \cup {Msg} -> 0..MaxSaid] /\ said[h] \in Nat
      /\ said'[h] = said[h] + 1 /\ said'[h] \in 1..MaxSaid
      /\ \A i \in (Questions \cup {Msg}) \ {h} : said'[i] = said[i]
  BY <1>1 DEF TypeOK
<1>4. /\ q'[h] = "resolved" /\ \A g \in Questions \ {h} : q'[g] = q[g]
      /\ q' \in [Questions -> {"none", "open", "claimed", "resolved"}]
  BY <1>1 DEF TypeOK
<1>5. Answer(h)' = <<h, said'[h]>> /\ Answer(h)' \in Input /\ MsgInput' = MsgInput
  BY <1>3 DEF Answer, Input, MsgInput
<1>6. round' = round /\ memory' \in {memory, memory \cup {Answer(h)'}}
  BY <1>1, <1>2, IngestClosed DEF UserTurn
<1>7. \A i \in decided : i \in Input /\ i[1] # h
  BY <1>1 DEF TypeOK, LogShape
<1>8. TypeOK'
  BY <1>1, <1>5, <1>6 DEF TypeOK
<1>9. RunShape'
  BY <1>1, <1>6 DEF RunShape
<1>10. RoundShape'
  BY <1>1, <1>6 DEF RoundShape, CommitStarted
<1>11. HostShape'
  BY <1>1, <1>2 DEF HostShape
<1>12. Questioned'
  BY <1>1, <1>2, <1>6 DEF Questioned
<1>13. TailShape'
  BY <1>1, <1>6 DEF TailShape
<1>14. LogShape'
  BY <1>1, <1>2, <1>4, <1>5, <1>6 DEF LogShape, CommitStarted, Answer
<1>15. WindowShape'
  BY <1>1, <1>5, <1>6 DEF WindowShape, Claims, Pending, Answer
<1>16. RetractedShape'
  BY <1>1, <1>5, <1>6 DEF TypeOK, RetractedShape, Input
<1>17. RoundIsOwned'
  BY <1>2, <1>6 DEF RoundIsOwned
<1> QED
  BY <1>8, <1>9, <1>10, <1>11, <1>12, <1>13, <1>14, <1>15, <1>16, <1>17

\* The command fails before its answer was claimed.
LEMMA RefuseKeeps ==
  ASSUME Races = {}, TypeOK, Inductive, Refuse
  PROVE  TypeOK' /\ Inductive'
<1> USE RoundAssumption
    DEF Inductive, Refuse, NoRound, IdleHost, logVars, taskVars, runVars, history
<1>1. TypeOK'
  <2>1. host' \in Host /\ round' \in {NoRound, round} /\ NoRound \in Round
    BY DEF Host, Round, Binding
  <2> QED
    BY <2>1 DEF TypeOK
<1>2. RunShape'
  BY DEF RunShape
<1>3. RoundShape'
  BY DEF RoundShape, HostShape, CommitStarted
<1>4. HostShape'
  BY DEF HostShape
<1>5. Questioned'
  BY DEF HostShape, Questioned
<1>6. TailShape'
  BY DEF TailShape
<1>7. LogShape'
  BY DEF Questioned, LogShape, Answer, MsgInput, HostShape
<1>8. WindowShape'
  BY DEF WindowShape, Claims, Pending, Answer, MsgInput
<1>9. RetractedShape'
  BY DEF RetractedShape, MsgInput, HostShape
<1>10. RoundIsOwned'
  BY DEF HostShape, RoundIsOwned
<1> QED
  BY <1>1, <1>2, <1>3, <1>4, <1>5, <1>6, <1>7, <1>8, <1>9, <1>10

\* The answer is claimed, and staged.
LEMMA ClaimKeeps ==
  ASSUME Races = {}, TypeOK, Inductive, Claim
  PROVE  TypeOK' /\ Inductive'
<1> USE RoundAssumption DEF Inductive, Claim, IdleHost, logVars, taskVars, runVars, history
<1>1. TypeOK'
  BY DEF TypeOK, Host, HostShape
<1>2. RunShape'
  BY DEF RunShape
<1>3. RoundShape'
  BY DEF RoundShape, CommitStarted
<1>4. HostShape'
  BY DEF TypeOK, HostShape
<1>5. Questioned'
  BY DEF TypeOK, HostShape, Questioned
<1>6. TailShape'
  BY DEF TailShape
<1>7. LogShape'
  BY DEF LogShape, CommitStarted, Answer, MsgInput, HostShape
<1>8. WindowShape'
  BY DEF WindowShape, Claims, Pending, Answer, HostShape
<1>9. RetractedShape'
  BY DEF TypeOK, RetractedShape, MsgInput, Input
<1>10. RoundIsOwned'
  <2>1. slot = host.on => running
    BY DEF RunShape, HostShape
  <2>2. slot # host.on => host'.at = "resume"
    OBVIOUS
  <2> QED
    BY <2>1 DEF RoundIsOwned
<1> QED
  BY <1>1, <1>2, <1>3, <1>4, <1>5, <1>6, <1>7, <1>8, <1>9, <1>10

\* A round that a crash left behind is decided first.
LEMMA RecoverKeeps ==
  ASSUME Races = {}, TypeOK, Inductive, Recover
  PROVE  TypeOK' /\ Inductive'
<1> USE RoundAssumption DEF Inductive, Recover, Goto, logVars, taskVars, runVars, history
<1>1. TypeOK'
  BY DEF TypeOK, PC
<1>2. RunShape'
  BY DEF RunShape
<1>3. RoundShape'
  BY DEF RoundShape
<1>4. HostShape'
  BY DEF HostShape
<1>5. Questioned'
  BY DEF Questioned
<1>6. TailShape'
  BY DEF TailShape
<1>7. LogShape'
  BY DEF LogShape, CommitStarted, Answer, MsgInput
<1>8. WindowShape'
  BY DEF WindowShape, Claims, Pending, Answer, MsgInput
<1>9. RetractedShape'
  BY DEF RetractedShape, MsgInput
<1>10. RoundIsOwned'
  BY DEF RoundIsOwned
<1> QED
  BY <1>1, <1>2, <1>3, <1>4, <1>5, <1>6, <1>7, <1>8, <1>9, <1>10

\* ... and the command goes on.
LEMMA RecoveredKeeps ==
  ASSUME Races = {}, TypeOK, Inductive, Recovered
  PROVE  TypeOK' /\ Inductive'
<1> USE RoundAssumption DEF Inductive, Recovered, Goto, NoRound, logVars, taskVars, runVars, history
<1>1. TypeOK'
  <2>1. queued' \in BOOLEAN
    BY Zenon
  <2> QED
    BY DEF TypeOK, PC
<1>2. RunShape'
  BY DEF RunShape
<1>3. RoundShape'
  BY DEF RoundShape, CommitStarted
<1>4. HostShape'
  BY DEF HostShape
<1>5. Questioned'
  BY DEF Questioned
<1>6. TailShape'
  BY DEF RunShape, RoundShape, TailShape
<1>7. LogShape'
  BY DEF LogShape, CommitStarted, Answer, MsgInput
<1>8. WindowShape'
  BY DEF WindowShape, Claims, Pending, Answer, MsgInput
<1>9. RetractedShape'
  BY DEF RetractedShape, MsgInput
<1>10. RoundIsOwned'
  BY DEF RoundShape, RoundIsOwned
<1> QED
  BY <1>1, <1>2, <1>3, <1>4, <1>5, <1>6, <1>7, <1>8, <1>9, <1>10

--------------------------------------------------------------------------------
(***************************************************************************)
(* The steps of the run                                                    *)
(***************************************************************************)
\* The run prepares the model's call.
LEMMA PrepareKeeps ==
  ASSUME Races = {}, TypeOK, Inductive, Prepare
  PROVE  TypeOK' /\ Inductive'
<1> USE RoundAssumption DEF Inductive
<1>1. /\ pc = "start" /\ pc' = "think"
      /\ Ingest(IF round.open THEN [round EXCEPT !.run = "new"] ELSE round, Owed)
      /\ UNCHANGED <<opened, decided, finished, moot, task, queued, running, then, ask, tail,
                     slot, q, host, said, retracted, budget>>
  BY DEF Prepare, Goto, logVars, taskVars, history
<1>2. round.run = "unbound"
  BY <1>1 DEF TypeOK, NoRound, RoundShape
<1>3. host.at = "idle" /\ task = "live"
  BY <1>1 DEF RunShape, HostShape
<1>4. /\ host.at = "idle" /\ task = "live" /\ round \in Round /\ said[Msg] \in 0..MaxSaid
      /\ round.run = "unbound" /\ round.batch = {} /\ ~round.frozen /\ ~round.flushed
  BY <1>2, <1>3 DEF TypeOK, RoundShape, CommitStarted
<1>5. /\ Claims \subseteq Input /\ Claims' = Claims /\ MsgInput' = MsgInput
      /\ Owed \subseteq decided \cup Claims \cup {MsgInput}
  BY <1>1 DEF TypeOK, Questioned, Claims, Answer, Input, MsgInput, Owed, LogShape
<1>6. MsgInput \in decided \/ (round.open /\ round.owns /\ MsgInput \in Input)
  BY <1>4 DEF LogShape, Questioned, MsgInput, Input
<1>7. Owed \subseteq Input /\ Owed \subseteq decided \cup Pending
  BY <1>5, <1>6 DEF TypeOK, Pending
<1>8. /\ round' \in Round /\ round'.open = round.open /\ round'.owns = round.owns
      /\ round'.hitl = round.hitl /\ round'.batch = {} /\ round'.copy = round.copy
      /\ ~round'.frozen /\ ~round'.flushed /\ memory' \subseteq decided
      /\ round'.staged \subseteq round.staged \cup Owed
      /\ round.open => round'.run = "new"
      /\ ~round.open => round' = round
  <2>1. CASE round.open
    <3> DEFINE r == [round EXCEPT !.run = "new"]
    <3>1. /\ r \in Round /\ r.open /\ r.owns = round.owns /\ r.hitl = round.hitl
          /\ r.run = "new" /\ r.batch = round.batch /\ r.copy = round.copy
          /\ r.frozen = round.frozen /\ r.flushed = round.flushed /\ r.staged = round.staged
      BY <1>4, <2>1 DEF Round, Binding
    <3>2. Ingest(r, Owed)
      BY <1>1, <2>1
    <3> HIDE DEF r
    <3>3. /\ memory' = memory /\ round' \in Round /\ round'.open
          /\ round'.owns = r.owns /\ round'.hitl = r.hitl /\ round'.run = r.run
          /\ round'.batch = r.batch /\ round'.copy = r.copy
          /\ round'.frozen = r.frozen /\ round'.flushed = r.flushed
          /\ round'.staged = r.staged \cup Owed
      BY <1>7, <3>1, <3>2, IngestOpen
    <3> QED
      BY <1>4, <2>1, <3>1, <3>3 DEF WindowShape
  <2>2. CASE ~round.open
    <3>1. memory' = memory \cup Owed /\ round' = round
      BY <1>1, <2>2, IngestClosed
    <3>2. Pending = {}
      BY <2>2 DEF Pending, Claims, Questioned
    <3> QED
      BY <1>4, <1>7, <2>2, <3>1, <3>2 DEF WindowShape
  <2> QED
    BY <2>1, <2>2
<1>9. TypeOK'
  BY <1>1, <1>8 DEF TypeOK, PC
<1>10. RunShape'
  BY <1>1 DEF RunShape
<1>11. RoundShape'
  BY <1>1, <1>8 DEF RoundShape, CommitStarted
<1>12. HostShape'
  BY <1>1 DEF HostShape
<1>13. Questioned'
  BY <1>1, <1>8 DEF Questioned
<1>14. TailShape'
  BY <1>1, <1>8 DEF TailShape
<1>15. LogShape'
  BY <1>1, <1>4, <1>5, <1>8 DEF LogShape, CommitStarted, Answer
<1>16. WindowShape'
  BY <1>1, <1>5, <1>7, <1>8 DEF WindowShape, Pending
<1>17. RetractedShape'
  BY <1>1, <1>5 DEF RetractedShape
<1>18. RoundIsOwned'
  BY <1>1, <1>8 DEF RoundIsOwned
<1> QED
  BY <1>9, <1>10, <1>11, <1>12, <1>13, <1>14, <1>15, <1>16, <1>17, <1>18

\* The model speaks: the commit starts.
LEMMA FirstChunkKeeps ==
  ASSUME Races = {}, TypeOK, Inductive, FirstChunk
  PROVE  TypeOK' /\ Inductive'
<1> USE RoundAssumption DEF Inductive, FirstChunk, Goto, logVars, taskVars, runVars, history
<1>1. TypeOK'
  BY DEF TypeOK, PC
<1>2. RunShape'
  BY DEF RunShape
<1>3. RoundShape'
  BY DEF RoundShape, CommitStarted
<1>4. HostShape'
  BY DEF HostShape
<1>5. Questioned'
  BY DEF Questioned
<1>6. TailShape'
  BY DEF TailShape
<1>7. LogShape'
  BY DEF LogShape, CommitStarted, Answer, MsgInput
<1>8. WindowShape'
  BY DEF WindowShape, Claims, Pending, Answer, MsgInput
<1>9. RetractedShape'
  BY DEF RetractedShape, MsgInput
<1>10. RoundIsOwned'
  BY DEF RoundIsOwned
<1> QED
  BY <1>1, <1>2, <1>3, <1>4, <1>5, <1>6, <1>7, <1>8, <1>9, <1>10

\* A question is opened.
LEMMA AskKeeps ==
  ASSUME NEW h \in Questions, Races = {}, TypeOK, Inductive, Ask(h)
  PROVE  TypeOK' /\ Inductive'
<1> USE RoundAssumption DEF Inductive, Ask, Open, NoRound, logVars, taskVars, runVars, history
<1>1. TypeOK'
  BY DEF TypeOK, PC
<1>2. RunShape'
  BY DEF RunShape
<1>3. RoundShape'
  BY DEF RoundShape, CommitStarted
<1>4. HostShape'
  BY DEF HostShape
<1>5. Questioned'
  BY DEF TypeOK, RoundShape, Questioned
<1>6. TailShape'
  BY DEF RoundShape, TailShape
<1>7. LogShape'
  <2>1. /\ pc = "act" /\ h \notin opened /\ opened' = opened \cup {h}
        /\ q' = [q EXCEPT ![h] = "open"]
        /\ UNCHANGED <<decided, said, task, round>>
    OBVIOUS
  <2>2. ~round.open /\ MsgInput \in decided
    BY DEF RunShape, RoundShape, LogShape
  <2>3. q[h] = "none"
    BY DEF Questioned
  <2>4. \A i \in decided : i \in Input /\ (i[1] # Msg => i[1] \in Questions /\ i[1] # h)
    BY <2>3 DEF TypeOK, Input, LogShape
  <2>5. \A g \in Questions : q'[g] = IF g = h THEN "open" ELSE q[g]
    BY DEF TypeOK
  <2> QED
    BY <2>2, <2>4 DEF LogShape, CommitStarted, Answer, MsgInput
<1>8. WindowShape'
  BY DEF Questioned, WindowShape, Claims, Pending, Answer, MsgInput
<1>9. RetractedShape'
  BY DEF RetractedShape, MsgInput
<1>10. RoundIsOwned'
  BY DEF RoundIsOwned
<1> QED
  BY <1>1, <1>2, <1>3, <1>4, <1>5, <1>6, <1>7, <1>8, <1>9, <1>10

\* The run waits for the answer of a tool call.
LEMMA WaitKeeps ==
  ASSUME Races = {}, TypeOK, Inductive, Wait
  PROVE  TypeOK' /\ Inductive'
<1> USE RoundAssumption DEF Inductive, Wait, Goto, logVars, taskVars, runVars, history
<1>1. TypeOK'
  BY DEF TypeOK, PC
<1>2. RunShape'
  BY DEF RunShape
<1>3. RoundShape'
  BY DEF RoundShape, CommitStarted
<1>4. HostShape'
  BY DEF HostShape
<1>5. Questioned'
  BY DEF Questioned
<1>6. TailShape'
  BY DEF TailShape
<1>7. LogShape'
  BY DEF LogShape, CommitStarted, Answer, MsgInput
<1>8. WindowShape'
  BY DEF WindowShape, Claims, Pending, Answer, MsgInput
<1>9. RetractedShape'
  BY DEF RetractedShape, MsgInput
<1>10. RoundIsOwned'
  BY DEF RoundIsOwned
<1> QED
  BY <1>1, <1>2, <1>3, <1>4, <1>5, <1>6, <1>7, <1>8, <1>9, <1>10

\* The wait ends without an answer, and the run parks.
LEMMA EvictKeeps ==
  ASSUME Races = {}, TypeOK, Inductive, Evict
  PROVE  TypeOK' /\ Inductive'
<1> USE RoundAssumption DEF Inductive, Evict, Goto, logVars, taskVars, runVars, history
<1>1. TypeOK'
  BY DEF TypeOK, PC
<1>2. RunShape'
  BY DEF RunShape
<1>3. RoundShape'
  BY DEF RoundShape, CommitStarted
<1>4. HostShape'
  BY DEF HostShape
<1>5. Questioned'
  BY DEF Questioned
<1>6. TailShape'
  BY DEF TailShape
<1>7. LogShape'
  BY DEF LogShape, CommitStarted, Answer, MsgInput
<1>8. WindowShape'
  BY DEF WindowShape, Claims, Pending, Answer, MsgInput
<1>9. RetractedShape'
  BY DEF RetractedShape, MsgInput
<1>10. RoundIsOwned'
  BY DEF RoundIsOwned
<1> QED
  BY <1>1, <1>2, <1>3, <1>4, <1>5, <1>6, <1>7, <1>8, <1>9, <1>10

\* The answer wakes the run.
LEMMA AwakeKeeps ==
  ASSUME Races = {}, TypeOK, Inductive, Awake
  PROVE  TypeOK' /\ Inductive'
<1> USE RoundAssumption DEF Inductive
<1>1. /\ pc = "wait" /\ slot # ask
      /\ pc' = IF round.hitl = ask THEN "think" ELSE "act"
      /\ Ingest(IF round.hitl = ask THEN [round EXCEPT !.run = "hot"] ELSE round, {Answer(ask)})
      /\ UNCHANGED <<opened, decided, finished, moot, task, queued, running, then, ask, tail,
                     slot, q, host, said, retracted, budget>>
  BY DEF Awake, Goto, logVars, taskVars, history
<1>2. /\ ask \in Questions /\ host.at = "idle" /\ task = "live" /\ running
      /\ q[ask] = "claimed" /\ round \in Round /\ round.open /\ ~round.owns /\ round.hitl = ask
      /\ round.run = "unbound" /\ round.batch = {} /\ ~round.frozen /\ ~round.flushed
  BY <1>1 DEF TypeOK, RunShape, RoundShape, Questioned, CommitStarted
<1>3. /\ Claims' = Claims /\ MsgInput' = MsgInput
      /\ Answer(ask) \in Claims /\ Claims \subseteq Input
  BY <1>1, <1>2 DEF TypeOK, Questioned, Claims, Answer, MsgInput, Input
<1> DEFINE r == [round EXCEPT !.run = "hot"]
<1>4. /\ r \in Round /\ r.open /\ r.owns = round.owns /\ r.hitl = round.hitl
      /\ r.run = "hot" /\ r.batch = round.batch /\ r.copy = round.copy
      /\ r.frozen = round.frozen /\ r.flushed = round.flushed /\ r.staged = round.staged
  BY <1>2 DEF Round, Binding
<1>5. Ingest(r, {Answer(ask)}) /\ pc' = "think"
  BY <1>1, <1>2
<1> HIDE DEF r
<1>6. /\ memory' = memory /\ round' \in Round /\ round'.open
      /\ ~round'.owns /\ round'.hitl = round.hitl /\ round'.run = "hot"
      /\ round'.batch = {} /\ round'.copy = round.copy /\ ~round'.frozen /\ ~round'.flushed
      /\ round'.staged = round.staged \cup {Answer(ask)}
  BY <1>2, <1>4, <1>5, <1>3, IngestOpen
<1>7. TypeOK'
  BY <1>1, <1>6 DEF TypeOK, PC
<1>8. RunShape'
  BY <1>1, <1>2 DEF RunShape
<1>9. RoundShape'
  BY <1>5, <1>6 DEF RoundShape, CommitStarted
<1>10. HostShape'
  BY <1>1, <1>2 DEF HostShape
<1>11. Questioned'
  BY <1>1, <1>2, <1>6 DEF Questioned
<1>12. TailShape'
  BY <1>5, <1>6 DEF TailShape
<1>13. LogShape'
  BY <1>1, <1>2, <1>6, <1>3 DEF LogShape, CommitStarted, Answer
<1>14. WindowShape'
  BY <1>1, <1>2, <1>6, <1>3 DEF WindowShape, Pending
<1>15. RetractedShape'
  BY <1>1, <1>3 DEF RetractedShape
<1>16. RoundIsOwned'
  BY <1>1, <1>2 DEF RoundIsOwned
<1> QED
  BY <1>7, <1>8, <1>9, <1>10, <1>11, <1>12, <1>13, <1>14, <1>15, <1>16

--------------------------------------------------------------------------------
(***************************************************************************)
(* Pauses and the commit                                                   *)
(***************************************************************************)
\* A pause while the run waits.
LEMMA PauseWaitKeeps ==
  ASSUME NEW h \in Questions, Races = {}, TypeOK, Inductive, PauseWait(h)
  PROVE  TypeOK' /\ Inductive'
<1> USE RoundAssumption DEF Inductive, PauseWait, Spend, Open, logVars, taskVars, runVars, history
<1>1. TypeOK'
  <2>1. ask \in Questions \ Turns
    BY DEF RunShape
  <2>2. /\ pc' \in PC /\ q' \in [Questions -> {"none", "open", "claimed", "resolved"}]
        /\ budget' \in [stops : 0..MaxStops, fails : 0..MaxFails, crashes : 0..MaxCrashes]
    BY DEF TypeOK, PC
  <2> QED
    BY <2>1, <2>2 DEF TypeOK
<1>2. RunShape'
  BY DEF RunShape
<1>3. RoundShape'
  BY DEF RoundShape, CommitStarted
<1>4. HostShape'
  BY DEF HostShape
<1>5. Questioned'
  BY <1>1 DEF TypeOK, HostShape, Questioned
<1>6. TailShape'
  BY DEF RoundShape, TailShape
<1>7. LogShape'
  BY DEF RunShape, Questioned, LogShape, Answer, MsgInput
<1>8. WindowShape'
  BY DEF Questioned, WindowShape, Claims, Pending, MsgInput
<1>9. RetractedShape'
  BY DEF RetractedShape, MsgInput
<1>10. RoundIsOwned'
  BY DEF RoundIsOwned
<1> QED
  BY <1>1, <1>2, <1>3, <1>4, <1>5, <1>6, <1>7, <1>8, <1>9, <1>10

\* A pause where no round is open.
LEMMA PauseUncoveredKeeps ==
  ASSUME NEW h \in Questions, Races = {}, TypeOK, Inductive, PauseUncovered(h)
  PROVE  TypeOK' /\ Inductive'
<1> USE RoundAssumption
    DEF Inductive, PauseUncovered, Spend, Open, NoRound, logVars, taskVars, runVars, history
<1>1. TypeOK'
  BY DEF TypeOK, PC
<1>2. RunShape'
  BY DEF RunShape
<1>3. RoundShape'
  BY DEF RoundShape, CommitStarted
<1>4. HostShape'
  BY DEF HostShape
<1>5. Questioned'
  BY DEF TypeOK, Questioned
<1>6. TailShape'
  BY DEF TailShape
<1>7. LogShape'
  <2>1. /\ pc = "think" /\ ~round.open /\ h \notin opened /\ opened' = opened \cup {h}
        /\ q' = [q EXCEPT ![h] = "open"]
        /\ UNCHANGED <<decided, said, task, round>>
    OBVIOUS
  <2>2. MsgInput \in decided
    BY DEF RunShape, LogShape
  <2>3. q[h] = "none"
    BY DEF Questioned
  <2>4. \A i \in decided : i \in Input /\ (i[1] # Msg => i[1] \in Questions /\ i[1] # h)
    BY <2>3 DEF TypeOK, Input, LogShape
  <2>5. \A g \in Questions : q'[g] = IF g = h THEN "open" ELSE q[g]
    BY DEF TypeOK
  <2> QED
    BY <2>2, <2>4 DEF LogShape, CommitStarted, Answer, MsgInput
<1>8. WindowShape'
  BY DEF Questioned, WindowShape, Claims, Pending, MsgInput
<1>9. RetractedShape'
  BY DEF RetractedShape, MsgInput
<1>10. RoundIsOwned'
  BY DEF RoundIsOwned
<1> QED
  BY <1>1, <1>2, <1>3, <1>4, <1>5, <1>6, <1>7, <1>8, <1>9, <1>10

\* A pause before the commit takes the round back.
LEMMA PauseRoundKeeps ==
  ASSUME Races = {}, TypeOK, Inductive, PauseRound
  PROVE  TypeOK' /\ Inductive'
<1> USE RoundAssumption DEF Inductive, PauseRound, Goto, Spend, logVars, taskVars, runVars, history
<1>1. TypeOK'
  BY DEF TypeOK, PC
<1>2. RunShape'
  BY DEF RunShape
<1>3. RoundShape'
  BY DEF RoundShape, CommitStarted
<1>4. HostShape'
  BY DEF HostShape
<1>5. Questioned'
  BY DEF Questioned
<1>6. TailShape'
  BY DEF TailShape
<1>7. LogShape'
  BY DEF LogShape, CommitStarted, Answer, MsgInput
<1>8. WindowShape'
  BY DEF WindowShape, Claims, Pending, Answer, MsgInput
<1>9. RetractedShape'
  BY DEF RetractedShape, MsgInput
<1>10. RoundIsOwned'
  BY DEF RoundIsOwned
<1> QED
  BY <1>1, <1>2, <1>3, <1>4, <1>5, <1>6, <1>7, <1>8, <1>9, <1>10

\* A pause while the commit writes.
LEMMA PauseCommitKeeps ==
  ASSUME Races = {}, TypeOK, Inductive, PauseCommit
  PROVE  TypeOK' /\ Inductive'
<1> USE RoundAssumption DEF Inductive
<1>1. /\ round.run = "hot" /\ pc \in {"stage", "store", "resolve", "write"} /\ then = "act"
      /\ pc' = "revert" /\ Spend("stops")
      /\ UNCHANGED <<opened, finished, memory, moot, task, queued, running, then, ask, tail,
                     slot, q, host, said, retracted>>
  BY DEF PauseCommit, taskVars
<1>2. /\ host.at = "idle" /\ task = "live" /\ running /\ round \in Round /\ round.open
           /\ ~round.owns
  BY <1>1 DEF TypeOK, RunShape, HostShape, RoundShape
<1>3. Claims' = Claims /\ MsgInput' = MsgInput
  BY <1>1 DEF Claims, Answer, MsgInput
<1>4. /\ round' \in Round /\ round'.open /\ ~round'.owns /\ round'.hitl = round.hitl
      /\ round'.run = "hot" /\ round'.staged = round.staged /\ round'.batch = round.batch
      /\ round'.copy = round.copy /\ round'.flushed = round.flushed
      /\ round.frozen => round'.frozen
      /\ decided' # decided => round'.frozen
  BY <1>1, <1>2 DEF PauseCommit, Round
<1>5. decided' \in {decided, decided \cup round.batch}
  BY DEF PauseCommit
<1>6. round.batch \subseteq decided \cup Claims
  BY <1>1, <1>2 DEF WindowShape, Pending
<1>7. Claims \subseteq Input /\ \A i \in Claims : i[1] \in Questions /\ q[i[1]] = "claimed"
    /\ i[2] = said[i[1]] /\ i = Answer(i[1])
  BY DEF TypeOK, Claims, Answer, Questioned, Input
<1>8. TypeOK'
  BY <1>1, <1>4, <1>5 DEF TypeOK, PC, Spend, Round
<1>9. RunShape'
  BY <1>1 DEF RunShape
<1>10. RoundShape'
  BY <1>1, <1>4 DEF RoundShape
<1>11. HostShape'
  BY <1>1 DEF HostShape
<1>12. Questioned'
  BY <1>1, <1>2, <1>4 DEF Questioned
<1>13. TailShape'
  BY <1>1, <1>4 DEF TailShape
<1>14. LogShape'
  BY <1>1, <1>2, <1>4, <1>5, <1>6, <1>7, <1>3 DEF LogShape, CommitStarted, Answer
<1>15. WindowShape'
  BY <1>1, <1>2, <1>4, <1>5, <1>3 DEF WindowShape, Pending
<1>16. RetractedShape'
  BY <1>1, <1>5, <1>6, <1>7, <1>3 DEF RetractedShape
<1>17. RoundIsOwned'
  BY <1>1, <1>2 DEF RoundIsOwned
<1> QED
  BY <1>8, <1>9, <1>10, <1>11, <1>12, <1>13, <1>14, <1>15, <1>16, <1>17

\* The window's events become the batch.
LEMMA StageBatchKeeps ==
  ASSUME Races = {}, TypeOK, Inductive, StageBatch
  PROVE  TypeOK' /\ Inductive'
<1> USE RoundAssumption DEF Inductive
<1>1. /\ pc = "stage" /\ pc' = "store"
      /\ round' = [round EXCEPT
           !.batch = @ \cup Claims \cup (IF round.owns THEN {<<Msg, said[Msg]>>} ELSE {})]
      /\ UNCHANGED <<opened, decided, finished, memory, moot, task, queued, running, then, ask,
                     tail, slot, q, host, said, retracted, budget>>
  BY DEF StageBatch, Goto, logVars, taskVars, history
<1>2. /\ host.at = "idle" /\ task = "live" /\ running /\ round \in Round /\ round.open
      /\ ~round.flushed
  BY <1>1 DEF TypeOK, RunShape, HostShape, RoundShape
<1>3. Claims' = Claims /\ MsgInput' = MsgInput
  BY <1>1 DEF Claims, Answer, MsgInput
<1>4. Pending \subseteq Input
  BY DEF TypeOK, Pending, Claims, Questioned, Answer, MsgInput, Input
<1>5. /\ round' \in Round /\ round'.open /\ round'.owns = round.owns /\ round'.hitl = round.hitl
      /\ round'.run = round.run /\ round'.staged = round.staged /\ round'.copy = round.copy
      /\ round'.batch = round.batch \cup Pending
      /\ round'.frozen = round.frozen /\ ~round'.flushed
  BY <1>1, <1>2, <1>4 DEF Round, Pending, MsgInput
<1>6. round.run # "unbound"
  BY <1>1 DEF RoundShape
<1>7. TypeOK'
  BY <1>1, <1>5 DEF TypeOK, PC
<1>8. RunShape'
  BY <1>1 DEF RunShape
<1>9. RoundShape'
  BY <1>1 DEF RoundShape
<1>10. HostShape'
  BY <1>1 DEF HostShape
<1>11. Questioned'
  BY <1>1 DEF Questioned
<1>12. TailShape'
  BY <1>1 DEF TailShape
<1>13. LogShape'
  BY <1>1, <1>3 DEF LogShape, CommitStarted, Answer
<1>14. WindowShape'
  BY <1>1, <1>5, <1>3 DEF WindowShape, Pending
<1>15. RetractedShape'
  BY <1>1, <1>3 DEF RetractedShape
<1>16. RoundIsOwned'
  BY <1>1 DEF RoundIsOwned
<1> QED
  BY <1>7, <1>8, <1>9, <1>10, <1>11, <1>12, <1>13, <1>14, <1>15, <1>16

\* The store has the batch: its inputs are decided.
LEMMA StoreBatchKeeps ==
  ASSUME Races = {}, TypeOK, Inductive, StoreBatch
  PROVE  TypeOK' /\ Inductive'
<1> USE RoundAssumption DEF Inductive
<1>1. /\ pc = "store" /\ pc' = "resolve"
      /\ decided' = decided \cup round.batch
      /\ round' = [round EXCEPT !.flushed = TRUE]
      /\ UNCHANGED <<opened, finished, memory, moot, task, queued, running, then, ask,
                     tail, slot, q, host, said, retracted, budget>>
  BY DEF StoreBatch, Goto, taskVars, history
<1>2. /\ host.at = "idle" /\ task = "live" /\ running /\ round \in Round /\ round.open
      /\ round.run # "unbound"
  BY <1>1 DEF TypeOK, RunShape, HostShape, RoundShape
<1>3. Claims' = Claims /\ MsgInput' = MsgInput
  BY <1>1 DEF Claims, Answer, MsgInput
<1>4. /\ round' \in Round /\ round'.open /\ round'.owns = round.owns /\ round'.hitl = round.hitl
      /\ round'.run = round.run /\ round'.staged = round.staged /\ round'.copy = round.copy
      /\ round'.batch = round.batch /\ round'.flushed
  BY <1>1, <1>2 DEF Round
<1>5. round.batch \subseteq decided \cup Pending
  BY <1>1 DEF WindowShape
<1>6. TypeOK'
  BY <1>1, <1>4 DEF TypeOK, PC, Round
<1>15. RunShape'
  BY <1>1 DEF RunShape
<1>7. RoundShape'
  BY <1>1 DEF RoundShape
<1>8. HostShape'
  BY <1>1 DEF HostShape
<1>9. Questioned'
  BY <1>1 DEF Questioned
<1>10. TailShape'
  BY <1>1 DEF TailShape
<1>11. LogShape'
  BY <1>1, <1>2, <1>5 DEF LogShape, CommitStarted, Answer, MsgInput, Pending, Claims
<1>12. WindowShape'
  BY <1>1 DEF WindowShape, Claims, Pending, Answer, MsgInput
<1>13. RetractedShape'
  BY <1>1, <1>2, <1>5 DEF RetractedShape, Claims, Pending, Answer, MsgInput
<1>14. RoundIsOwned'
  BY <1>1 DEF RoundIsOwned
<1> QED
  BY <1>6, <1>15, <1>7, <1>8, <1>9, <1>10, <1>11, <1>12, <1>13, <1>14

\* The store does not confirm the batch.
LEMMA StoreFailsKeeps ==
  ASSUME Races = {}, TypeOK, Inductive, StoreFails
  PROVE  TypeOK' /\ Inductive'
<1> USE RoundAssumption DEF Inductive
<1>1. /\ pc = "store" /\ pc' = "halted" /\ Spend("fails")
      /\ decided' \in {decided, decided \cup round.batch}
      /\ round' = [round EXCEPT !.frozen = TRUE]
      /\ UNCHANGED <<opened, finished, memory, moot, task, queued, running, then, ask,
                     tail, slot, q, host, said, retracted>>
  BY DEF StoreFails, Goto, taskVars
<1>2. /\ host.at = "idle" /\ task = "live" /\ running /\ round \in Round /\ round.open
      /\ round.run # "unbound"
  BY <1>1 DEF TypeOK, RunShape, HostShape, RoundShape
<1>3. Claims' = Claims /\ MsgInput' = MsgInput
  BY <1>1 DEF Claims, Answer, MsgInput
<1>4. /\ round' \in Round /\ round'.open /\ round'.owns = round.owns /\ round'.hitl = round.hitl
      /\ round'.run = round.run /\ round'.staged = round.staged /\ round'.copy = round.copy
      /\ round'.batch = round.batch /\ round'.frozen /\ round'.flushed = round.flushed
  BY <1>1, <1>2 DEF Round
<1>5. round.batch \subseteq decided \cup Pending
  BY <1>1 DEF WindowShape
<1>6. TypeOK'
  BY <1>1, <1>4 DEF TypeOK, PC, Round, Spend
<1>15. RunShape'
  BY <1>1 DEF RunShape
<1>7. RoundShape'
  BY <1>1 DEF RoundShape, CommitStarted
<1>8. HostShape'
  BY <1>1 DEF HostShape
<1>9. Questioned'
  BY <1>1 DEF Questioned
<1>10. TailShape'
  BY <1>1 DEF TailShape
<1>11. LogShape'
  BY <1>1, <1>2, <1>5 DEF LogShape, CommitStarted, Answer, MsgInput, Pending, Claims
<1>12. WindowShape'
  BY <1>1 DEF WindowShape, Claims, Pending, Answer, MsgInput
<1>13. RetractedShape'
  BY <1>1, <1>2, <1>5 DEF RetractedShape, Claims, Pending, Answer, MsgInput
<1>14. RoundIsOwned'
  BY <1>1 DEF RoundIsOwned
<1> QED
  BY <1>6, <1>15, <1>7, <1>8, <1>9, <1>10, <1>11, <1>12, <1>13, <1>14

\* The claimed question is resolved.
LEMMA ResolveKeeps ==
  ASSUME Races = {}, TypeOK, Inductive, Resolve
  PROVE  TypeOK' /\ Inductive'
<1> USE RoundAssumption DEF Inductive, Resolve, Goto, logVars, taskVars, runVars, history
<1>1. TypeOK'
  <2>1. round' \in Round /\ round.open /\ round'.open
    BY DEF TypeOK, Round, RoundShape
  <2>2. Claims \subseteq Input
    BY DEF TypeOK, Questioned, Claims, Answer, Input
  <2> QED
    BY <2>1, <2>2 DEF TypeOK, PC
<1>2. RunShape'
  BY DEF RunShape, RoundShape, Questioned
<1>3. RoundShape'
  BY DEF RoundShape
<1>4. HostShape'
  BY DEF HostShape
<1>5. Questioned'
  BY DEF RunShape, Questioned
<1>6. TailShape'
  BY DEF TailShape
<1>7. LogShape'
  BY DEF TypeOK, LogShape, CommitStarted, Answer, MsgInput, Claims, Input
<1>8. WindowShape'
  BY DEF RoundShape, WindowShape, Pending, MsgInput
<1>9. RetractedShape'
  BY DEF TypeOK, RetractedShape, Claims, Answer, MsgInput, Input
<1>10. RoundIsOwned'
  BY DEF RoundIsOwned
<1> QED
  BY <1>1, <1>2, <1>3, <1>4, <1>5, <1>6, <1>7, <1>8, <1>9, <1>10

\* The staged memory is written.
LEMMA WriteKeeps ==
  ASSUME Races = {}, TypeOK, Inductive, Write
  PROVE  TypeOK' /\ Inductive'
<1> USE RoundAssumption DEF Inductive, Write, NoRound, logVars, taskVars, runVars, history
<1>1. TypeOK'
  BY DEF TypeOK, Round, Binding
<1>2. RunShape'
  BY DEF RunShape
<1>3. RoundShape'
  BY DEF RunShape, RoundShape, CommitStarted
<1>4. HostShape'
  BY DEF HostShape
<1>5. Questioned'
  BY DEF RunShape, Questioned
<1>6. TailShape'
  BY DEF RunShape, TailShape
<1>7. LogShape'
  BY DEF RoundShape, Questioned, LogShape, Answer, MsgInput, WindowShape
<1>8. WindowShape'
  BY DEF WindowShape
<1>9. RetractedShape'
  BY DEF RetractedShape, MsgInput
<1>10. RoundIsOwned'
  BY DEF RoundIsOwned
<1> QED
  BY <1>1, <1>2, <1>3, <1>4, <1>5, <1>6, <1>7, <1>8, <1>9, <1>10

\* It is not, and the commit stays open.
LEMMA WriteFailsKeeps ==
  ASSUME Races = {}, TypeOK, Inductive, WriteFails
  PROVE  TypeOK' /\ Inductive'
<1> USE RoundAssumption DEF Inductive, WriteFails, Goto, Spend, logVars, taskVars, runVars, history
<1>1. TypeOK'
  BY DEF TypeOK, PC
<1>2. RunShape'
  BY DEF RunShape
<1>3. RoundShape'
  BY DEF RoundShape, CommitStarted
<1>4. HostShape'
  BY DEF HostShape
<1>5. Questioned'
  BY DEF Questioned
<1>6. TailShape'
  BY DEF TailShape
<1>7. LogShape'
  BY DEF LogShape, CommitStarted, Answer, MsgInput
<1>8. WindowShape'
  BY DEF WindowShape, Claims, Pending, Answer, MsgInput
<1>9. RetractedShape'
  BY DEF RetractedShape, MsgInput
<1>10. RoundIsOwned'
  BY DEF RoundIsOwned
<1> QED
  BY <1>1, <1>2, <1>3, <1>4, <1>5, <1>6, <1>7, <1>8, <1>9, <1>10

\* The claim is given back.
LEMMA RevertKeeps ==
  ASSUME Races = {}, TypeOK, Inductive, Revert
  PROVE  TypeOK' /\ Inductive'
<1> USE RoundAssumption DEF Inductive, Revert, Goto, logVars, taskVars, runVars, history
<1>1. TypeOK'
  <2>1. Claims \subseteq Input
    BY DEF TypeOK, Questioned, Claims, Answer, Input
  <2>2. round.open /\ (round.owns => MsgInput \in Input)
    BY DEF TypeOK, RoundShape, Questioned, MsgInput, Input
  <2>3. retracted' \subseteq Input
    BY <2>1, <2>2 DEF TypeOK, MsgInput
  <2>4. q' \in [Questions -> {"none", "open", "claimed", "resolved"}]
    BY DEF TypeOK
  <2> QED
    BY <2>3 DEF TypeOK, PC
<1>2. RunShape'
  BY DEF TypeOK, RunShape, RoundShape, Questioned
<1>3. RoundShape'
  BY DEF RoundShape, CommitStarted
<1>4. HostShape'
  BY DEF HostShape
<1>5. Questioned'
  BY DEF RunShape, Questioned
<1>6. TailShape'
  BY DEF TailShape
<1>7. LogShape'
  BY DEF TypeOK, LogShape, CommitStarted, Answer, MsgInput, Input
<1>8. WindowShape'
  BY DEF WindowShape, Claims, Pending, Answer, MsgInput
<1>9. RetractedShape'
  BY DEF TypeOK, RoundShape, LogShape, RetractedShape, Claims, Answer, MsgInput, Input
<1>10. RoundIsOwned'
  BY DEF RoundIsOwned
<1> QED
  BY <1>1, <1>2, <1>3, <1>4, <1>5, <1>6, <1>7, <1>8, <1>9, <1>10

\* The round is dropped.
LEMMA CloseKeeps ==
  ASSUME Races = {}, TypeOK, Inductive, Close
  PROVE  TypeOK' /\ Inductive'
<1> USE RoundAssumption DEF Inductive, Close, Goto, NoRound, logVars, taskVars, runVars, history
<1>1. TypeOK'
  <2>1. NoRound \in Round
    BY DEF Round, Binding
  <2>2. /\ task' \in {"absent", "live", "done"} /\ queued' \in BOOLEAN /\ running' \in BOOLEAN
        /\ round' = NoRound /\ pc' \in PC
        /\ UNCHANGED <<opened, decided, finished, memory, moot, then, ask, tail, slot, q, host,
                       said, retracted, budget>>
    BY DEF TypeOK, PC
  <2> HIDE DEF Close
  <2> QED
    BY <2>1, <2>2 DEF TypeOK
<1>2. RunShape'
  BY <1>1 DEF TypeOK, RunShape, RoundShape, Questioned
<1>3. RoundShape'
  BY DEF RoundShape, CommitStarted
<1>4. HostShape'
  BY DEF HostShape
<1>5. Questioned'
  BY DEF Questioned
<1>6. TailShape'
  BY DEF TypeOK, RoundShape, TailShape, Round, Binding
<1>7. LogShape'
  BY DEF RoundShape, LogShape, Answer, MsgInput
<1>8. WindowShape'
  BY DEF WindowShape
<1>9. RetractedShape'
  BY DEF RoundShape, RetractedShape, MsgInput
<1>10. RoundIsOwned'
  BY DEF RoundIsOwned
<1> QED
  BY <1>1, <1>2, <1>3, <1>4, <1>5, <1>6, <1>7, <1>8, <1>9, <1>10

--------------------------------------------------------------------------------
(***************************************************************************)
(* The end of a run, crashes                                               *)
(***************************************************************************)
\* The run parks on its question.
LEMMA ParkKeeps ==
  ASSUME Races = {}, TypeOK, Inductive, Park
  PROVE  TypeOK' /\ Inductive'
<1> USE RoundAssumption DEF Inductive, Park, Ending, logVars, taskVars, runVars, history
<1>1. TypeOK'
  BY DEF TypeOK, PC
<1>2. RunShape'
  BY DEF RunShape, RoundShape
<1>3. RoundShape'
  BY DEF RoundShape, CommitStarted
<1>4. HostShape'
  BY DEF HostShape, RoundShape
<1>5. Questioned'
  BY DEF Questioned
<1>6. TailShape'
  BY DEF TailShape
<1>7. LogShape'
  BY DEF LogShape, CommitStarted, Answer, MsgInput
<1>8. WindowShape'
  BY DEF WindowShape, Claims, Pending, Answer, MsgInput
<1>9. RetractedShape'
  BY DEF RetractedShape, MsgInput
<1>10. RoundIsOwned'
  BY DEF RoundIsOwned
<1> QED
  BY <1>1, <1>2, <1>3, <1>4, <1>5, <1>6, <1>7, <1>8, <1>9, <1>10

\* The parked run is settled.
LEMMA SettleKeeps ==
  ASSUME Races = {}, TypeOK, Inductive, Settle
  PROVE  TypeOK' /\ Inductive'
<1> USE RoundAssumption DEF Inductive, Settle, Goto, logVars, taskVars, runVars, history
<1>1. TypeOK'
  BY DEF TypeOK, PC
<1>2. RunShape'
  BY DEF RunShape
<1>3. RoundShape'
  BY DEF RoundShape, CommitStarted
<1>4. HostShape'
  BY DEF HostShape
<1>5. Questioned'
  BY DEF Questioned
<1>6. TailShape'
  BY DEF TailShape
<1>7. LogShape'
  BY DEF LogShape, CommitStarted, Answer, MsgInput
<1>8. WindowShape'
  BY DEF WindowShape, Claims, Pending, Answer, MsgInput
<1>9. RetractedShape'
  BY DEF RetractedShape, MsgInput
<1>10. RoundIsOwned'
  BY DEF RunShape, RoundIsOwned
<1> QED
  BY <1>1, <1>2, <1>3, <1>4, <1>5, <1>6, <1>7, <1>8, <1>9, <1>10

\* A task whose question was answered meanwhile goes back into the queue.
LEMMA WakeKeeps ==
  ASSUME Races = {}, TypeOK, Inductive, Wake
  PROVE  TypeOK' /\ Inductive'
<1> USE RoundAssumption DEF Inductive, Wake, Requeue, logVars, taskVars, runVars, history
<1>1. TypeOK'
  <2>1. queued' \in BOOLEAN
    BY DEF TypeOK
  <2>2. /\ tail' = NoQ
        /\ UNCHANGED <<opened, decided, finished, memory, moot, task, running, pc, then, ask, slot,
                       q, round, host, said, retracted, budget>>
    OBVIOUS
  <2> HIDE DEF Wake
  <2> QED
    BY <2>1, <2>2 DEF TypeOK
<1>2. RunShape'
  BY DEF RunShape, TailShape
<1>3. RoundShape'
  BY DEF RoundShape, CommitStarted
<1>4. HostShape'
  BY DEF HostShape
<1>5. Questioned'
  BY DEF Questioned
<1>6. TailShape'
  BY DEF TailShape
<1>7. LogShape'
  BY DEF LogShape, CommitStarted, Answer, MsgInput
<1>8. WindowShape'
  BY DEF WindowShape, Claims, Pending, Answer, MsgInput
<1>9. RetractedShape'
  BY DEF RetractedShape, MsgInput
<1>10. RoundIsOwned'
  BY DEF RunShape, Questioned, TailShape, RoundIsOwned
<1> QED
  BY <1>1, <1>2, <1>3, <1>4, <1>5, <1>6, <1>7, <1>8, <1>9, <1>10

\* The task finishes.
LEMMA FinishKeeps ==
  ASSUME Races = {}, TypeOK, Inductive, Finish
  PROVE  TypeOK' /\ Inductive'
<1> USE RoundAssumption DEF Inductive, Finish, Ending, logVars, taskVars, runVars, history
<1>1. TypeOK'
  BY DEF TypeOK, PC
<1>2. RunShape'
  BY DEF RunShape, RoundShape
<1>3. RoundShape'
  BY DEF RoundShape, CommitStarted
<1>4. HostShape'
  BY DEF HostShape
<1>5. Questioned'
  BY DEF Questioned
<1>6. TailShape'
  BY DEF TailShape
<1>7. LogShape'
  BY DEF LogShape, CommitStarted, Answer, MsgInput
<1>8. WindowShape'
  BY DEF WindowShape, Claims, Pending, Answer, MsgInput
<1>9. RetractedShape'
  BY DEF RetractedShape, MsgInput
<1>10. RoundIsOwned'
  BY DEF RoundIsOwned
<1> QED
  BY <1>1, <1>2, <1>3, <1>4, <1>5, <1>6, <1>7, <1>8, <1>9, <1>10

\* The run of a finished task ends.
LEMMA DoneKeeps ==
  ASSUME Races = {}, TypeOK, Inductive, Done
  PROVE  TypeOK' /\ Inductive'
<1> USE RoundAssumption DEF Inductive, Done, Goto, logVars, taskVars, runVars, history
<1>1. TypeOK'
  BY DEF TypeOK, PC
<1>2. RunShape'
  BY DEF RunShape, RoundShape
<1>3. RoundShape'
  BY DEF RoundShape, CommitStarted
<1>4. HostShape'
  BY DEF HostShape
<1>5. Questioned'
  BY DEF Questioned
<1>6. TailShape'
  BY DEF RunShape, RoundShape, TailShape
<1>7. LogShape'
  BY DEF RunShape, LogShape, CommitStarted, Answer, MsgInput
<1>8. WindowShape'
  BY DEF WindowShape, Claims, Pending, Answer, MsgInput
<1>9. RetractedShape'
  BY DEF RunShape, RetractedShape, MsgInput
<1>10. RoundIsOwned'
  BY DEF RoundShape, RoundIsOwned
<1> QED
  BY <1>1, <1>2, <1>3, <1>4, <1>5, <1>6, <1>7, <1>8, <1>9, <1>10

\* A crash leaves the log and memory; the rest is rebuilt from them.
LEMMA CrashKeeps ==
  ASSUME Races = {}, TypeOK, Inductive, Crash
  PROVE  TypeOK' /\ Inductive'
<1> USE RoundAssumption DEF Inductive
<1> DEFINE created == \E i \in decided : i[1] = Msg
           answered(g) == \E i \in decided : i[1] = g
           status(g) == IF g \notin opened THEN "none"
                        ELSE IF answered(g) THEN "resolved" ELSE "open"
<1>1. /\ task' = IF ~created THEN "absent" ELSE IF finished THEN "done" ELSE "live"
      /\ q' = [g \in Questions |-> status(g)]
      /\ queued' = (created /\ ~finished /\ \A g \in Questions : status(g) # "open")
      /\ \/ \E g \in Questions : status(g) = "open" /\ ask' = g
         \/ (\A g \in Questions : status(g) # "open") /\ ask' = NoQ
      /\ memory' = memory \cup {i \in decided : i[1] \in Turns}
  BY DEF Crash
<1>2. /\ running' = FALSE /\ pc' = "off" /\ then' = "off" /\ tail' = NoQ /\ slot' = NoQ
      /\ round' = NoRound /\ host' = IdleHost
      /\ UNCHANGED <<opened, decided, finished, moot, said, retracted>>
      /\ budget' \in [stops : 0..MaxStops, fails : 0..MaxFails, crashes : 0..MaxCrashes]
  BY DEF Crash, logVars, Spend, TypeOK
<1>3. \A i \in decided : /\ i[1] \in Questions \cup {Msg} /\ i = <<i[1], said[i[1]]>>
                         /\ i[1] # Msg => i[1] \in opened
  BY DEF TypeOK, Input, LogShape, Questioned
<1>4. MsgInput' = MsgInput /\ (created <=> MsgInput \in decided)
  BY <1>2, <1>3 DEF MsgInput
<1>5. \A g \in Questions : Answer(g)' = Answer(g) /\ (answered(g) <=> Answer(g) \in decided)
  BY <1>2, <1>3 DEF Answer
<1>6. /\ task' \in {"absent", "live", "done"} /\ (task' = "absent" <=> MsgInput \notin decided)
      /\ queued' => task' = "live"
  BY <1>1, <1>4
<1>7. queued' \in BOOLEAN
  BY <1>1, Zenon
<1>8. \A g \in Questions : /\ q'[g] \in {"none", "open", "resolved"}
                           /\ q'[g] = "none" <=> g \notin opened
                           /\ q'[g] = "resolved" <=> g \in opened /\ Answer(g) \in decided
  <2> TAKE g \in Questions
  <2>1. q'[g] = status(g)
    BY <1>1
  <2> QED
    BY <1>5, <2>1
<1>9. q' \in [Questions -> {"none", "open", "claimed", "resolved"}]
  BY <1>1
<1>10. /\ ask' \in opened \cup {NoQ}
       /\ queued' => ask' = NoQ
       /\ ask' # NoQ => ask' \in Questions
  BY <1>1
<1> HIDE DEF created, answered, status
<1>11. /\ ~round'.open /\ round'.run = "unbound" /\ round'.batch = {} /\ round'.staged = {}
       /\ ~round'.frozen /\ ~round'.flushed /\ round' \in Round /\ host' \in Host
            /\ host'.at = "idle"
  BY <1>2 DEF NoRound, IdleHost, Round, Host, Binding
<1>12. TypeOK'
  BY <1>1, <1>2, <1>9, <1>10, <1>11 DEF TypeOK, PC
<1>13. RunShape'
  BY <1>2, <1>6, <1>10, <1>11 DEF RunShape
<1>14. RoundShape'
  BY <1>2, <1>11 DEF RoundShape, CommitStarted
<1>15. HostShape'
  BY <1>2, <1>11 DEF HostShape
<1>16. Questioned'
  BY <1>2, <1>8, <1>10, <1>11 DEF Questioned
<1>17. TailShape'
  BY <1>2 DEF TailShape
<1>18. LogShape'
  <2>1. \A i \in decided : i[2] = said[i[1]]
    BY DEF LogShape
  <2>2. \A i \in decided : i[1] # Msg => q'[i[1]] = "resolved"
    BY <1>3, <1>8 DEF Answer
  <2>3. opened # {} => MsgInput \in decided
    BY DEF LogShape
  <2>4. \A g \in Questions : q'[g] = "resolved" => Answer(g)' \in decided
    BY <1>5, <1>8
  <2>5. \A g \in Questions : q'[g] # "claimed"
    BY <1>8
  <2> QED
    BY <1>2, <1>4, <1>6, <1>11, <2>2, <2>4, <2>5 DEF LogShape
<1>19. WindowShape'
  BY <1>1, <1>2, <1>11 DEF WindowShape
<1>20. RetractedShape'
  <2>1. \A i \in retracted : i \notin decided /\ i[2] <= said[i[1]]
    BY DEF RetractedShape
  <2>2. \A i \in retracted : i[1] # Msg /\ i[2] = said[i[1]] => i = Answer(i[1])
      /\ i[1] \in Questions
    BY DEF TypeOK, Input, Answer
  <2>3. \A i \in retracted : i[1] # Msg /\ i[2] = said[i[1]] =>
      q'[i[1]] \notin {"claimed", "resolved"}
    BY <1>8, <2>1, <2>2
  <2>4. MsgInput \in retracted => task' = "absent"
    BY <1>6, <2>1
  <2> QED
    BY <1>2, <1>4, <2>3, <2>4 DEF RetractedShape
<1>21. RoundIsOwned'
  BY <1>11 DEF RoundIsOwned
<1> QED
  BY <1>12, <1>13, <1>14, <1>15, <1>16, <1>17, <1>18, <1>19, <1>20, <1>21

--------------------------------------------------------------------------------
(***************************************************************************)
(* The theorems                                                            *)
(***************************************************************************)
\* The initial state.
LEMMA InitInductive == Init => TypeOK /\ Inductive
<1> SUFFICES ASSUME Init
             PROVE  TypeOK /\ Inductive
  OBVIOUS
<1> USE RoundAssumption
<1>1. /\ round = NoRound /\ host = IdleHost /\ ~round.open /\ round.run = "unbound"
      /\ round.batch = {} /\ round.staged = {} /\ ~round.frozen /\ ~round.flushed
      /\ round \in Round /\ host \in Host /\ host.at = "idle"
  BY DEF Init, NoRound, IdleHost, Round, Host, Binding
<1>2. TypeOK
  <2>1. said \in [Questions \cup {Msg} -> 0..MaxSaid]
    BY DEF Init
  <2>2. budget \in [stops : 0..MaxStops, fails : 0..MaxFails, crashes : 0..MaxCrashes]
    BY DEF Init
  <2>3. /\ opened = {} /\ decided = {} /\ memory = {} /\ retracted = {} /\ moot = {}
        /\ finished = FALSE /\ task = "absent" /\ queued = FALSE /\ running = FALSE
        /\ pc = "off" /\ then = "off" /\ ask = NoQ /\ tail = NoQ /\ slot = NoQ
        /\ q \in [Questions -> {"none", "open", "claimed", "resolved"}]
    BY DEF Init
  <2> QED
    BY <1>1, <2>1, <2>2, <2>3 DEF TypeOK, PC
<1>3. RunShape /\ RoundShape /\ HostShape /\ Questioned /\ TailShape
  BY <1>1 DEF Init, RunShape, RoundShape, HostShape, Questioned, TailShape, CommitStarted
<1>4. LogShape /\ WindowShape /\ RetractedShape /\ RoundIsOwned
  BY <1>1 DEF Init, LogShape, WindowShape, RetractedShape, RoundIsOwned
<1> QED
  BY <1>2, <1>3, <1>4 DEF Inductive

\* A step that changes nothing.
LEMMA StutterKeeps ==
  ASSUME TypeOK, Inductive, UNCHANGED vars
  PROVE  TypeOK' /\ Inductive'
<1> USE DEF vars, logVars, taskVars, runVars, history
<1>1. TypeOK'
  BY DEF TypeOK
<1>2. RunShape' /\ RoundShape' /\ HostShape' /\ TailShape' /\ RoundIsOwned'
  BY DEF Inductive, RunShape, RoundShape, HostShape, TailShape, RoundIsOwned, CommitStarted
<1>3. Questioned' /\ LogShape' /\ WindowShape' /\ RetractedShape'
  BY DEF Inductive, Questioned, LogShape, WindowShape, RetractedShape, CommitStarted, Answer,
     Claims, Pending, MsgInput
<1> QED
  BY <1>1, <1>2, <1>3 DEF Inductive

\* The inductive invariant holds of every instance without the two races.
THEOREM InductiveInvariant ==
  ASSUME Races = {}
  PROVE  Spec => [](TypeOK /\ Inductive)
<1>1. Init => TypeOK /\ Inductive
  BY InitInductive
<1>2. TypeOK /\ Inductive /\ [Next]_vars => TypeOK' /\ Inductive'
  <2> SUFFICES ASSUME TypeOK, Inductive, [Next]_vars
               PROVE  TypeOK' /\ Inductive'
    OBVIOUS
  <2>1. CASE Send \/ Refuse
    BY <2>1, SendKeeps, RefuseKeeps
  <2>2. CASE HostStep
    BY <2>2, ClaimKeeps, ResumeKeeps, RecoverKeeps, RecoveredKeeps DEF HostStep
  <2>3. CASE Dispatch \/ Prepare \/ FirstChunk \/ Wait \/ Evict \/ Awake
    BY <2>3, DispatchKeeps, PrepareKeeps, FirstChunkKeeps, WaitKeeps, EvictKeeps, AwakeKeeps
  <2>4. CASE StageBatch \/ StoreBatch \/ Resolve \/ Write \/ Revert \/ Close
    BY <2>4, StageBatchKeeps, StoreBatchKeeps, ResolveKeeps, WriteKeeps, RevertKeeps, CloseKeeps
  <2>5. CASE Park \/ Settle \/ Wake \/ Finish \/ Done
    BY <2>5, ParkKeeps, SettleKeeps, WakeKeeps, FinishKeeps, DoneKeeps
  <2>6. ASSUME NEW h \in Questions,
               Reply(h) \/ ReplyToFinished(h) \/ Ask(h) \/ PauseWait(h) \/ PauseUncovered(h)
        PROVE  TypeOK' /\ Inductive'
    BY <2>6, ReplyKeeps, ReplyToFinishedKeeps, AskKeeps, PauseWaitKeeps, PauseUncoveredKeeps
  <2>7. CASE PauseRound \/ PauseCommit \/ StoreFails \/ WriteFails \/ Crash
    BY <2>7, PauseRoundKeeps, PauseCommitKeeps, StoreFailsKeeps, WriteFailsKeeps, CrashKeeps
  <2>8. CASE UNCHANGED vars
    BY <2>8, StutterKeeps
  <2> QED
    BY <2>1, <2>2, <2>3, <2>4, <2>5, <2>6, <2>7, <2>8 DEF Next, RunStep
<1> QED
  BY <1>1, <1>2, PTL DEF Spec

\* Every variable of a conversation keeps its type.
THEOREM TypeCorrect ==
  ASSUME Races = {}
  PROVE  Spec => []TypeOK
BY InductiveInvariant, PTL

\* The invariant says what the model sees ...
LEMMA MemoryIsTrueHolds ==
  ASSUME TypeOK, Inductive
  PROVE  MemoryIsTrue
BY DEF Inductive, WindowShape, RetractedShape, MemoryIsTrue, MemoryFollowsLog,
   RetractedLeavesNoTrace

\* ... and that an answer acts once.
LEMMA AnswerActsOnceHolds ==
  ASSUME TypeOK, Inductive
  PROVE  AnswerActsOnce
<1>1. OneAnswer
  BY DEF Inductive, TypeOK, Input, LogShape, OneAnswer
<1>2. DrivenOnce /\ RoundIsOwned
  BY DEF Inductive, RunShape, DrivenOnce
<1>3. NoDeafWait
  BY RoundAssumption DEF Inductive, RunShape, Questioned, NoDeafWait
<1> QED
  BY <1>1, <1>2, <1>3 DEF AnswerActsOnce

\* What the model sees was decided in the log, and what was taken back left no trace there
\* or in memory: through pauses, failed writes and crashes at any point of a round.
THEOREM MemoryStaysTrue ==
  ASSUME Races = {}
  PROVE  Spec => []MemoryIsTrue
BY InductiveInvariant, MemoryIsTrueHolds, PTL

\* An answer is taken once, drives the task once, no run waits for one already taken, and
\* every open round has somebody to close it.
THEOREM AnswersActOnce ==
  ASSUME Races = {}
  PROVE  Spec => []AnswerActsOnce
BY InductiveInvariant, AnswerActsOnceHolds, PTL
================================================================================
