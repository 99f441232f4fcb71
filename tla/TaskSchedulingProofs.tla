------------------------- MODULE TaskSchedulingProofs -------------------------
(***************************************************************************)
(* What the scheduler keeps, for every set of tasks, every plan, every     *)
(* limit and every number of crashes and commands: the types, the gates of *)
(* drain, that nobody who waits for a timer, an answer, an announcement, a *)
(* dependency or a slot is forgotten, that no task starts before what it   *)
(* depends on is over, and that a task which is over stays so.             *)
(*                                                                         *)
(* Inductive relates the four places a task is recorded in: its status,    *)
(* the queue, its slot and the stage of its coroutine.  A run that has a   *)
(* slot is never in the queue, except while its children have already      *)
(* woken it and its own settlement is still on the way; what its           *)
(* settlement will write is what its status says unless somebody else has  *)
(* written meanwhile.  An interrupted autonomous job has a timer from its  *)
(* settlement on, an answered question is either in the command's hands or *)
(* will be looked at again when the park is closed.                        *)
(*                                                                         *)
(* Calm adds what holds until the threshold stops the session: nobody      *)
(* writes the status of a run but the run itself.  It needs ResumesApart:  *)
(* an autonomous job whose budget is used up gives its slot back before    *)
(* its failure is booked, and a /resume in between finds it idle and puts  *)
(* it into the queue again; TLC shows such a behaviour when both are       *)
(* allowed and one failure does not stop the session.                      *)
(*                                                                         *)
(* One lemma per action shows that it keeps Inductive, Calm and what its   *)
(* neighbours rely on (Kept).                                              *)
(*                                                                         *)
(* Ordered is about waiting.  A task that has started, or that would be    *)
(* put back without its dependencies, has none in its way; an entry of the *)
(* queue names all that are; the steps of a plan appear from the last to   *)
(* the first; whoever can never run is still to be found by a scan, and    *)
(* whoever may run by a drain.  A second lemma per action shows that it    *)
(* keeps this, on top of Inductive and Calm.                               *)
(***************************************************************************)
EXTENDS TaskScheduling, FiniteSetTheorems, SequenceTheorems, TLAPS

\* What a queue holds, apart from its order.
Entries(q) == {q[i] : i \in DOMAIN q}
Tasks(q) == {q[i].task : i \in DOMAIN q}
Once(q) == \A i, j \in DOMAIN q : q[i].task = q[j].task => i = j

\* TypeOK in parts.
ArrayTypes ==
  /\ status \in [Task -> Status] /\ stage \in [Task -> Stage]
  /\ result \in [Task -> Status \cup {"none"}]
  /\ retries \in [Task -> 0..MaxRetries] /\ requeues \in [Task -> 0..MaxRequeues]

SetTypes ==
  /\ succeeded \subseteq Task /\ running \subseteq Task
  /\ timers \subseteq Unattended /\ answered \subseteq Task \ Unattended
  /\ signalled \subseteq Task /\ doomed \subseteq Roots
  /\ closing \subseteq (Task \cup {Host}) \X TailKind

ListTypes ==
  /\ created \in Seq(Task) /\ IsFiniteSet(Created) /\ Len(created) = Cardinality(Created)
  /\ queue \in Seq(Entry)

HostType == [at : {"idle", "preparing", "disposing"}, on : Task \cup {None}, cold : BOOLEAN]
PlanType == [cancel : SUBSET Task, signal : SUBSET Task, roots : SUBSET Roots]
BudgetType == [agains : 0..MaxAgain, resumes : 0..MaxResumes, crashes : 0..MaxCrashes,
               upsets : 0..MaxUpsets]

FlagTypes ==
  /\ draining \in BOOLEAN /\ disposer \in Task \cup {None, Host}
  /\ host \in HostType /\ counter \in Nat /\ tripped \in BOOLEAN
  /\ plan \in PlanType /\ announced \in BOOLEAN
  /\ budget \in BudgetType /\ everTripped \in BOOLEAN

\* Created and the queue hold the same tasks as the statuses say.
TaskShape ==
  /\ \A t \in Task : status[t] = "new" <=> t \notin Created
  /\ \A t \in Task : stage[t] # "off" => t \in Created
  /\ \A t \in Task : status[t] = "AWAITING_HUMAN" => t \notin Unattended
  /\ running \cup plan.cancel \cup plan.roots \subseteq Created

\* Where a run is, who has a slot, what it has come to.
RunOf(t) ==
  /\ t \in running => stage[t] \in {"assemble", "execute", "flush", "settle", "finish"}
  /\ stage[t] \in {"assemble", "execute"} => t \in running /\ status[t] \in {"ACTIVE"} \cup Terminal
  /\ stage[t] = "flush" => t \in running /\ result[t] = "SUSPENDED"
  /\ stage[t] = "settle" => t \in running /\ result[t] \in Parked \cup {"PENDING"}
  /\ stage[t] \in {"flush", "settle"} =>
       \/ status[t] = result[t] \/ status[t] \in Terminal
       \/ result[t] = "SUSPENDED" /\ status[t] = "PENDING" /\ t \in Queued
  /\ stage[t] \in {"finish", "dispose", "wake", "trip"} => result[t] \in Terminal
  /\ stage[t] = "finish" /\ t \in running => status[t] \in Terminal
  /\ stage[t] = "finish" /\ t \notin running =>
       /\ t \in Unattended /\ result[t] = "FAILED" /\ t \notin timers
       /\ status[t] \in {"INTERRUPTED", "PENDING"} \cup Terminal
       /\ status[t] = "PENDING" => t \in Queued
  /\ stage[t] \in {"dispose", "wake", "trip"} => status[t] \in Terminal

RunShape == \A t \in Task : RunOf(t)

\* A queued task may start, unless it has been settled meanwhile; if it has a slot, its
\* children have woken it before its run had parked.
QueuedOf(t) ==
  t \in Queued =>
    /\ status[t] \in {"PENDING", "ACTIVE"} \cup Terminal
    /\ t \in running => /\ stage[t] \in {"flush", "settle"} /\ result[t] = "SUSPENDED"
                        /\ status[t] \in {"PENDING"} \cup Terminal

QueueShape ==
  /\ Once(queue)
  /\ Queued \subseteq Created
  /\ \A t \in Task : QueuedOf(t)
  /\ \A e \in Entries(queue) : e.blocked # {} => e.task \notin running

HostShape ==
  /\ host.at = "idle" => host = IdleHost
  /\ host.at = "disposing" => host.cold /\ host.on = None
  /\ host.cold => host.on = None
  /\ host.on # None => host.on \notin Unattended
  /\ host.at = "preparing" /\ host.cold =>
       /\ \A t \in Task : stage[t] = "off"
       /\ queue = <<>> /\ running = {} /\ closing = {} /\ timers = {} /\ ~draining

TimerOf(t) ==
  /\ t \in timers => requeues[t] < MaxRequeues
  /\ t \in Unattended /\ status[t] = "INTERRUPTED" /\ ~tripped =>
       t \in timers \/ stage[t] \in {"settle", "finish"} \/ (host.at = "preparing" /\ host.cold)

TimerShape == \A t \in Task : TimerOf(t)

AnswerOf(t) ==
  t \in answered /\ status[t] = "AWAITING_HUMAN" =>
    \/ host.at = "preparing" /\ (host.on = t \/ host.cold)
    \/ stage[t] = "settle" \/ <<t, "parked">> \in closing

AnswerShape == \A t \in Task : AnswerOf(t)

Inductive ==
  /\ ArrayTypes /\ SetTypes /\ ListTypes /\ FlagTypes
  /\ TaskShape /\ RunShape /\ QueueShape /\ HostShape /\ TimerShape /\ AnswerShape

\* Until the threshold.  An exhausted job that gives up its slot before its failure is
\* booked (stage "finish") can be found idle by /resume; apart from that a queued task is
\* never in the middle of an end.
ResumesApart == Unattended = {} \/ MaxResumes = 0

GapOf(t) == t \in Queued => stage[t] \in {"off", "flush", "settle"}

GapShape ==
  /\ \A t \in Task : GapOf(t)
  /\ host.at = "preparing" /\ host.on = None /\ ~host.cold => MaxResumes > 0

CalmOf(t) ==
  /\ stage[t] # "trip"
  /\ stage[t] \in {"assemble", "execute"} => status[t] = "ACTIVE"
  /\ stage[t] \in {"flush", "settle"} => status[t] \notin Terminal
  /\ stage[t] = "finish" => status[t] = (IF t \in running THEN result[t] ELSE "INTERRUPTED")
  /\ t \in Queued => status[t] \notin Terminal

\* When all is over, somebody still has to say so.
Heralded ==
  created # <<>> /\ AllOver /\ ~announced =>
    \/ \E t \in Task : stage[t] \in {"finish", "dispose", "wake"}
    \/ \E w \in Task \cup {Host}, tail \in {"finished", "final"} : <<w, tail>> \in closing
    \/ host.cold

CalmShape ==
  /\ ~tripped /\ doomed = {} /\ plan = NoPlan /\ signalled = {}
  /\ \A t \in Task : CalmOf(t)
  /\ Heralded

Calm == ResumesApart => GapShape /\ (~everTripped => CalmShape)

\* What a step keeps besides: whoever is over stays so until the threshold, and only a
\* dispatch takes an agent or a port.
Steady == \A t \in Task : status[t] \in Terminal => status'[t] = status[t]

StaysCalm ==
  /\ everTripped => everTripped'
  /\ ResumesApart /\ GapShape => GapShape'
  /\ ResumesApart /\ GapShape /\ CalmShape => Steady /\ (everTripped' \/ CalmShape')

Sheltered ==
  /\ running' \subseteq running
  /\ \A t \in Task \ Unattended :
       status'[t] = "AWAITING_HUMAN" => t \in running \/ status[t] = "AWAITING_HUMAN"

\* What the proofs need of the constants.
LEMMA Constants ==
  /\ None \notin Task /\ Host \notin Task /\ Unattended \subseteq Task
  /\ MaxRetries \in Nat /\ MaxRequeues \in Nat /\ Threshold \in Nat /\ MaxAgain \in Nat
  /\ MaxResumes \in Nat /\ MaxCrashes \in Nat /\ MaxUpsets \in Nat
  /\ Parent \in [Task -> Task \cup {None}] /\ Deps \in [Task -> SUBSET Task]
  /\ Plan \in [Task -> Seq(Task \ Roots)]
BY SchedulingAssumption

\* A bound is used up by one.
LEMMA BudgetFacts ==
  ASSUME NEW b \in BudgetType
  PROVE  /\ b.agains > 0 /\ b.upsets > 0 =>
              [b EXCEPT !.agains = @ - 1, !.upsets = @ - 1] \in BudgetType
         /\ b.resumes > 0 /\ b.upsets > 0 =>
              [b EXCEPT !.resumes = @ - 1, !.upsets = @ - 1] \in BudgetType
         /\ b.crashes > 0 /\ b.upsets > 0 =>
              [b EXCEPT !.crashes = @ - 1, !.upsets = @ - 1] \in BudgetType
<1>1. /\ b.agains \in 0..MaxAgain /\ b.resumes \in 0..MaxResumes
      /\ b.crashes \in 0..MaxCrashes /\ b.upsets \in 0..MaxUpsets
  BY DEF BudgetType
<1>2. \A n \in Nat : \A k \in 0..n : k > 0 => k - 1 \in 0..n
  OBVIOUS
<1>3. /\ b.agains > 0 => b.agains - 1 \in 0..MaxAgain
      /\ b.resumes > 0 => b.resumes - 1 \in 0..MaxResumes
      /\ b.crashes > 0 => b.crashes - 1 \in 0..MaxCrashes
      /\ b.upsets > 0 => b.upsets - 1 \in 0..MaxUpsets
  BY <1>1, <1>2, Constants
<1> QED
  BY <1>3 DEF BudgetType

\* Only tasks are created.
LEMMA CreatedIsTask ==
  ASSUME ListTypes
  PROVE  Created \subseteq Task
BY DEF ListTypes, Created

--------------------------------------------------------------------------------
(***************************************************************************)
(* The queue                                                               *)
(***************************************************************************)
\* A queue holds the tasks of its entries.
LEMMA TasksOfEntries ==
  ASSUME NEW q \in Seq(Entry)
  PROVE  /\ Tasks(q) = {e.task : e \in Entries(q)}
         /\ Entries(q) \subseteq Entry /\ Tasks(q) \subseteq Task
<1>1. \A i \in DOMAIN q : q[i] \in Entry
  OBVIOUS
<1> QED
  BY <1>1 DEF Tasks, Entries, Entry

\* push puts one entry on top.
LEMMA PushFacts ==
  ASSUME NEW q \in Seq(Entry), NEW t \in Task, NEW b \in SUBSET Task
  PROVE  /\ Push(q, t, b) \in Seq(Entry)
         /\ Entries(Push(q, t, b)) = Entries(q) \cup {[task |-> t, blocked |-> b \ succeeded]}
         /\ Tasks(Push(q, t, b)) = Tasks(q) \cup {t}
         /\ Once(q) /\ t \notin Tasks(q) => Once(Push(q, t, b))
<1> DEFINE e == [task |-> t, blocked |-> b \ succeeded]
           p == Push(q, t, b)
<1>1. e \in Entry /\ e.task = t
  BY DEF Entry
<1>2. /\ p \in Seq(Entry) /\ Len(p) = Len(q) + 1
      /\ \A i \in 1..Len(q) : p[i] = q[i]
      /\ p[Len(q) + 1] = e
  BY <1>1 DEF Push
<1>3. /\ DOMAIN q = 1..Len(q) /\ DOMAIN p = 1..(Len(q) + 1) /\ Len(q) \in Nat
  BY <1>2
<1> HIDE DEF e, p
<1>4. Entries(p) = Entries(q) \cup {e}
  BY <1>2, <1>3 DEF Entries
<1>5. Tasks(p) = Tasks(q) \cup {t}
  BY <1>1, <1>2, <1>3 DEF Tasks
<1>6. Once(q) /\ t \notin Tasks(q) => Once(p)
  BY <1>1, <1>2, <1>3 DEF Tasks, Once
<1> QED
  BY <1>2, <1>4, <1>5, <1>6 DEF e, p

\* Taking out one entry leaves the others.
LEMMA RemoveFacts ==
  ASSUME NEW q \in Seq(Entry), Once(q), NEW i \in DOMAIN q
  PROVE  /\ Remove(q, i) \in Seq(Entry)
         /\ Entries(Remove(q, i)) = Entries(q) \ {q[i]}
         /\ Tasks(Remove(q, i)) = Tasks(q) \ {q[i].task}
         /\ Once(Remove(q, i))
<1> DEFINE p == Remove(q, i)
<1>1. /\ DOMAIN q = 1..Len(q) /\ Len(q) \in Nat /\ i \in 1..Len(q)
      /\ \A j \in 1..Len(q) : q[j] \in Entry
  OBVIOUS
<1> DEFINE a == SubSeq(q, 1, i - 1)
           b == SubSeq(q, i + 1, Len(q))
<1>2. /\ a \in Seq(Entry) /\ Len(a) = i - 1
      /\ \A j \in 1..(i - 1) : a[j] = q[j]
  BY <1>1, SubSeqProperties
<1>3. /\ b \in Seq(Entry) /\ Len(b) = Len(q) - i
      /\ \A j \in 1..(Len(q) - i) : b[j] = q[i + j]
  BY <1>1, SubSeqProperties
<1>4. p = a \o b
  BY DEF Remove
<1> HIDE DEF a, b, p
<1>5. /\ p \in Seq(Entry) /\ Len(p) = Len(q) - 1 /\ DOMAIN p = 1..(Len(q) - 1)
      /\ \A j \in 1..(Len(q) - 1) : p[j] = IF j < i THEN q[j] ELSE q[j + 1]
  <2>4. /\ p \in Seq(Entry) /\ Len(p) = Len(a) + Len(b)
        /\ \A j \in 1..Len(p) : p[j] = IF j <= Len(a) THEN a[j] ELSE b[j - Len(a)]
    <3>1. /\ a \o b \in Seq(Entry) /\ Len(a \o b) = Len(a) + Len(b)
          /\ \A j \in 1..(Len(a) + Len(b)) :
               (a \o b)[j] = IF j <= Len(a) THEN a[j] ELSE b[j - Len(a)]
      BY <1>2, <1>3, ConcatProperties, Zenon
    <3> QED
      BY <1>4, <3>1, Zenon
  <2>1. /\ p \in Seq(Entry) /\ Len(p) = Len(q) - 1
        /\ \A j \in 1..(Len(q) - 1) : j <= i - 1 => p[j] = a[j]
        /\ \A j \in 1..(Len(q) - 1) : ~(j <= i - 1) => p[j] = b[j - (i - 1)]
    BY <1>1, <1>2, <1>3, <2>4
  <2>2. ASSUME NEW j \in 1..(Len(q) - 1), j < i PROVE p[j] = q[j]
    <3>1. j \in 1..(i - 1)
      BY <1>1, <2>2
    <3>2. p[j] = a[j]
      BY <1>1, <2>1, <2>2
    <3> QED
      BY <1>2, <3>1, <3>2
  <2>3. ASSUME NEW j \in 1..(Len(q) - 1), ~(j < i) PROVE p[j] = q[j + 1]
    <3>1. j - (i - 1) \in 1..(Len(q) - i) /\ i + (j - (i - 1)) = j + 1
      BY <1>1, <2>3
    <3>2. p[j] = b[j - (i - 1)]
      BY <1>1, <2>1, <2>3
    <3> QED
      BY <1>3, <3>1, <3>2
  <2> QED
    BY <1>1, <2>1, <2>2, <2>3
<1>6. \A j \in 1..Len(q) : j # i => \E k \in 1..(Len(q) - 1) : p[k] = q[j]
  <2>1. ASSUME NEW j \in 1..Len(q), j < i PROVE j \in 1..(Len(q) - 1) /\ p[j] = q[j]
    BY <1>1, <1>5, <2>1
  <2>2. ASSUME NEW j \in 1..Len(q), j > i
        PROVE  j - 1 \in 1..(Len(q) - 1) /\ p[j - 1] = q[j]
    BY <1>1, <1>5, <2>2
  <2> QED
    BY <1>1, <2>1, <2>2
<1>7. \A j \in 1..(Len(q) - 1) : \E k \in 1..Len(q) : k # i /\ p[j] = q[k]
  <2>1. ASSUME NEW j \in 1..(Len(q) - 1), j < i PROVE j \in 1..Len(q) /\ j # i /\ p[j] = q[j]
    BY <1>1, <1>5, <2>1
  <2>2. ASSUME NEW j \in 1..(Len(q) - 1), ~(j < i)
        PROVE  j + 1 \in 1..Len(q) /\ j + 1 # i /\ p[j] = q[j + 1]
    BY <1>1, <1>5, <2>2
  <2> QED
    BY <1>1, <2>1, <2>2
<1>8. \A j \in 1..Len(q) : q[j].task = q[i].task => j = i
  BY <1>1 DEF Once
<1>9. /\ \A j \in DOMAIN q : j # i => \E k \in DOMAIN p : p[k] = q[j]
      /\ \A j \in DOMAIN p : \E k \in DOMAIN q : k # i /\ p[j] = q[k]
      /\ \A j \in DOMAIN q : q[j].task = q[i].task => j = i
  BY <1>1, <1>5, <1>6, <1>7, <1>8
<1>10. Entries(p) = Entries(q) \ {q[i]}
  <2>1. ASSUME NEW e \in Entries(p) PROVE e \in Entries(q) /\ e # q[i]
    <3>1. PICK j \in DOMAIN p : e = p[j]
      BY DEF Entries
    <3>2. PICK k \in DOMAIN q : k # i /\ p[j] = q[k]
      BY <1>9
    <3>3. q[k].task # q[i].task
      BY <1>9, <3>2
    <3> QED
      BY <3>1, <3>2, <3>3 DEF Entries
  <2>2. ASSUME NEW e \in Entries(q), e # q[i] PROVE e \in Entries(p)
    <3>1. PICK j \in DOMAIN q : e = q[j]
      BY DEF Entries
    <3>2. PICK k \in DOMAIN p : p[k] = q[j]
      BY <1>9, <2>2, <3>1
    <3> QED
      BY <3>1, <3>2 DEF Entries
  <2> QED
    BY <2>1, <2>2
<1>11. Tasks(p) = Tasks(q) \ {q[i].task}
  <2>1. ASSUME NEW e \in Tasks(p) PROVE e \in Tasks(q) /\ e # q[i].task
    <3>1. PICK j \in DOMAIN p : e = p[j].task
      BY DEF Tasks
    <3>2. PICK k \in DOMAIN q : k # i /\ p[j] = q[k]
      BY <1>9
    <3>3. q[k].task # q[i].task
      BY <1>9, <3>2
    <3> QED
      BY <3>1, <3>2, <3>3 DEF Tasks
  <2>2. ASSUME NEW e \in Tasks(q), e # q[i].task PROVE e \in Tasks(p)
    <3>1. PICK j \in DOMAIN q : e = q[j].task
      BY DEF Tasks
    <3>2. PICK k \in DOMAIN p : p[k] = q[j]
      BY <1>9, <2>2, <3>1
    <3> QED
      BY <3>1, <3>2 DEF Tasks
  <2> QED
    BY <2>1, <2>2
<1>12. Once(p)
  <2>1. ASSUME NEW j \in 1..(Len(q) - 1), NEW k \in 1..(Len(q) - 1), p[j].task = p[k].task
        PROVE  j = k
    <3> DEFINE f(n) == IF n < i THEN n ELSE n + 1
    <3>1. f(j) \in 1..Len(q) /\ f(k) \in 1..Len(q) /\ p[j] = q[f(j)] /\ p[k] = q[f(k)]
      BY <1>1, <1>5
    <3>2. f(j) = f(k)
      BY <1>1, <2>1, <3>1 DEF Once
    <3> QED
      BY <1>1, <3>2
  <2> QED
    BY <1>5, <2>1 DEF Once
<1> QED
  BY <1>5, <1>10, <1>11, <1>12 DEF p

\* cancel takes out the entry of a task, if there is one.
LEMMA CancelFacts ==
  ASSUME NEW q \in Seq(Entry), Once(q), NEW t \in Task
  PROVE  /\ CancelEntry(q, t) \in Seq(Entry)
         /\ Entries(CancelEntry(q, t)) = {e \in Entries(q) : e.task # t}
         /\ Tasks(CancelEntry(q, t)) = Tasks(q) \ {t}
         /\ Once(CancelEntry(q, t))
<1>1. CASE \E i \in DOMAIN q : q[i].task = t
  <2> DEFINE c == CHOOSE i \in DOMAIN q : q[i].task = t /\ \A j \in 1..(i - 1) : q[j].task # t
  <2>1. \E i \in DOMAIN q : q[i].task = t /\ \A j \in 1..(i - 1) : q[j].task # t
    BY <1>1 DEF Once
  <2>2. c \in DOMAIN q /\ q[c].task = t
    BY <2>1
  <2>3. CancelEntry(q, t) = Remove(q, c)
    BY <1>1 DEF CancelEntry
  <2> HIDE DEF c
  <2>4. \A i \in DOMAIN q : q[i].task = t => q[i] = q[c]
    BY <2>2 DEF Once
  <2>5. Entries(q) \ {q[c]} = {e \in Entries(q) : e.task # t}
    BY <2>2, <2>4 DEF Entries
  <2> QED
    BY <2>2, <2>3, <2>5, RemoveFacts
<1>2. CASE ~ \E i \in DOMAIN q : q[i].task = t
  BY <1>2 DEF CancelEntry, Entries, Tasks
<1> QED
  BY <1>1, <1>2

\* A row of entries of distinct tasks that are not in the queue may be appended.
LEMMA ConcatFacts ==
  ASSUME NEW q \in Seq(Entry), NEW p \in Seq(Entry), Once(q), Once(p),
         Tasks(q) \cap Tasks(p) = {}
  PROVE  /\ q \o p \in Seq(Entry)
         /\ Entries(q \o p) = Entries(q) \cup Entries(p)
         /\ Tasks(q \o p) = Tasks(q) \cup Tasks(p)
         /\ Once(q \o p)
<1> DEFINE r == q \o p
<1>1. /\ r \in Seq(Entry) /\ Len(r) = Len(q) + Len(p)
      /\ DOMAIN r = 1..(Len(q) + Len(p)) /\ DOMAIN q = 1..Len(q) /\ DOMAIN p = 1..Len(p)
      /\ Len(q) \in Nat /\ Len(p) \in Nat
      /\ \A i \in 1..(Len(q) + Len(p)) : r[i] = IF i <= Len(q) THEN q[i] ELSE p[i - Len(q)]
  OBVIOUS
<1> HIDE DEF r
<1>2. \A i \in 1..Len(q) : i \in DOMAIN r /\ r[i] = q[i]
  BY <1>1
<1>3. ASSUME NEW i \in 1..Len(p) PROVE i + Len(q) \in DOMAIN r /\ r[i + Len(q)] = p[i]
  <2>1. i + Len(q) \in 1..(Len(q) + Len(p)) /\ ~(i + Len(q) <= Len(q)) /\ (i + Len(q)) - Len(q) = i
    BY <1>1
  <2> QED
    BY <1>1, <2>1
<1>4. \A i \in DOMAIN r :
        \/ i \in 1..Len(q) /\ r[i] = q[i]
        \/ i - Len(q) \in 1..Len(p) /\ r[i] = p[i - Len(q)]
  BY <1>1
<1>5. /\ \A i \in DOMAIN q : \E k \in DOMAIN r : r[k] = q[i]
      /\ \A i \in DOMAIN p : \E k \in DOMAIN r : r[k] = p[i]
      /\ \A k \in DOMAIN r : (\E i \in DOMAIN q : r[k] = q[i]) \/ (\E i \in DOMAIN p : r[k] = p[i])
  BY <1>1, <1>2, <1>3, <1>4
<1>6. Entries(r) = Entries(q) \cup Entries(p)
  BY <1>5 DEF Entries
<1>7. Tasks(r) = Tasks(q) \cup Tasks(p)
  BY <1>5 DEF Tasks
<1>8. Once(r)
  <2>1. ASSUME NEW i \in DOMAIN r, NEW j \in DOMAIN r, r[i].task = r[j].task PROVE i = j
    <3>1. CASE i \in 1..Len(q) /\ r[i] = q[i]
      <4>1. r[i].task \in Tasks(q)
        BY <1>1, <3>1 DEF Tasks
      <4>2. j \in 1..Len(q) /\ r[j] = q[j]
        <5>1. ~(j - Len(q) \in 1..Len(p) /\ r[j] = p[j - Len(q)])
          BY <1>1, <2>1, <4>1 DEF Tasks
        <5> QED
          BY <1>4, <5>1
      <4> QED
        BY <1>1, <2>1, <3>1, <4>2 DEF Once
    <3>2. CASE i - Len(q) \in 1..Len(p) /\ r[i] = p[i - Len(q)]
      <4>1. r[i].task \in Tasks(p)
        BY <1>1, <3>2 DEF Tasks
      <4>2. j - Len(q) \in 1..Len(p) /\ r[j] = p[j - Len(q)]
        <5>1. ~(j \in 1..Len(q) /\ r[j] = q[j])
          BY <1>1, <2>1, <4>1 DEF Tasks
        <5> QED
          BY <1>4, <5>1
      <4>3. i - Len(q) = j - Len(q)
        BY <1>1, <2>1, <3>2, <4>2 DEF Once
      <4> QED
        BY <1>1, <4>3
    <3> QED
      BY <1>4, <3>1, <3>2
  <2> QED
    BY <2>1 DEF Once
<1> QED
  BY <1>1, <1>6, <1>7, <1>8 DEF r

\* The queue of TaskManager is such a queue.
LEMMA QueueIs ==
  ASSUME ListTypes, QueueShape
  PROVE  queue \in Seq(Entry) /\ Once(queue) /\ Queued = Tasks(queue)
BY DEF ListTypes, QueueShape, Queued, Tasks

\* The end of a task wakes its parent at most, which goes on top of the queue.
LEMMA WithParentFacts ==
  ASSUME NEW q \in Seq(Entry), Once(q), NEW st, NEW t \in Task, ListTypes,
         Woken(st, t) \cap Tasks(q) = {}
  PROVE  /\ WithParent(q, st, t) \in Seq(Entry) /\ Once(WithParent(q, st, t))
         /\ Tasks(WithParent(q, st, t)) = Tasks(q) \cup Woken(st, t)
         /\ \A e \in Entries(WithParent(q, st, t)) : e \in Entries(q) \/ e.blocked = {}
<1>1. CASE Woken(st, t) = {}
  BY <1>1 DEF WithParent
<1>2. CASE Woken(st, t) # {}
  <2> DEFINE p == Parent[t]
  <2>1. Woken(st, t) = {p} /\ p \in Created
    BY <1>2 DEF Woken
  <2>2. p \in Task /\ p \notin Tasks(q)
    BY <2>1, CreatedIsTask
  <2>3. WithParent(q, st, t) = Push(q, p, {})
    BY <1>2 DEF WithParent
  <2>4. [task |-> p, blocked |-> {} \ succeeded].blocked = {}
    OBVIOUS
  <2> HIDE DEF p
  <2> QED
    BY <2>1, <2>2, <2>3, <2>4, PushFacts
<1> QED
  BY <1>1, <1>2

\* Where the run of a suspended task can be, and that of a task without a slot.
LEMMA StageFacts ==
  ASSUME Inductive, NEW u \in Task
  PROVE  /\ status[u] = "SUSPENDED" => stage[u] \in {"off", "flush", "settle"}
         /\ u \notin running /\ status[u] \notin Terminal =>
              stage[u] = "off" \/ (stage[u] = "finish" /\ u \in Unattended /\ u \notin timers)
<1>1. stage[u] \in Stage
  BY DEF Inductive, ArrayTypes
<1>2. RunOf(u)
  BY DEF Inductive, RunShape
<1> QED
  BY <1>1, <1>2 DEF RunOf, Stage, Terminal

\* The drain loop ends.
LEMMA DrainEndsKeeps ==
  ASSUME Inductive, DrainEnds
  PROVE  Inductive' /\ StaysCalm /\ Sheltered
<1> USE DEF Inductive
<1>1. /\ draining' = FALSE
  BY DEF DrainEnds, taskVars, queueVars, runVars, waitVars, tripVars, history
<1>2. UNCHANGED <<status, created, retries, requeues, queue, succeeded, running, stage,
                  result, closing, timers, answered, host, counter, tripped, doomed,
                  plan, signalled, budget, everTripped, disposer, announced>>
  BY DEF DrainEnds, taskVars, queueVars, runVars, waitVars, tripVars, history
<1>3. Created' = Created /\ Queued' = Queued
  BY <1>2 DEF Created, Queued
<1>4. /\ draining' \in BOOLEAN
  BY <1>1, <1>2, Constants DEF ArrayTypes
<1>5. ArrayTypes'
  BY <1>2, <1>3, <1>4 DEF ArrayTypes
<1>6. SetTypes'
  BY <1>2, <1>3, <1>4 DEF SetTypes
<1>7. ListTypes'
  BY <1>2, <1>3, <1>4 DEF ListTypes
<1>8. FlagTypes'
  BY <1>2, <1>3, <1>4 DEF FlagTypes
<1>9. TaskShape'
  BY <1>1, <1>2, <1>3, <1>4 DEF TaskShape
<1>10. RunShape'
  BY <1>1, <1>2, <1>3, <1>4 DEF RunShape, RunOf
<1>11. QueueShape'
  BY <1>1, <1>2, <1>3, <1>4 DEF QueueShape, QueuedOf
<1>12. HostShape'
  BY <1>1, <1>2, <1>3, <1>4 DEF HostShape
<1>13. TimerShape'
  BY <1>1, <1>2, <1>3, <1>4 DEF TimerShape, TimerOf
<1>14. AnswerShape'
  BY <1>1, <1>2, <1>3, <1>4 DEF AnswerShape, AnswerOf
<1>15. ASSUME GapShape PROVE GapShape'
  <2>1. ASSUME NEW u \in Task PROVE GapOf(u)'
    BY <1>1, <1>2, <1>3, <1>4, <1>15, <2>1 DEF GapShape, GapOf, RunShape, RunOf, QueueShape,
        QueuedOf, Terminal
  <2>2. host'.at = "preparing" /\ host'.on = None /\ ~host'.cold => MaxResumes > 0
    BY <1>1, <1>2, <1>3, <1>4, <1>15, Constants DEF GapShape
  <2> QED
    BY <2>1, <2>2 DEF GapShape
<1>16. ASSUME GapShape, CalmShape PROVE Steady /\ (everTripped' \/ CalmShape')
  <2>1. ASSUME NEW u \in Task
       PROVE  CalmOf(u)' /\ (status[u] \in Terminal => status'[u] = status[u])
    BY <1>1, <1>2, <1>3, <1>4, <1>16, <2>1 DEF GapShape, GapOf, CalmShape, CalmOf, RunShape,
        RunOf, QueueShape, QueuedOf, Terminal
  <2>2. ~tripped' /\ doomed' = {} /\ plan' = NoPlan /\ signalled' = {}
    BY <1>1, <1>2, <1>3, <1>4, <1>16 DEF CalmShape
  <2>3. Heralded'
    BY <1>1, <1>2, <1>3, <1>4, <1>16 DEF CalmShape, CalmOf, Heralded, AllOver, RunShape, RunOf,
        QueueShape, QueuedOf, Terminal
  <2> QED
    BY <2>1, <2>2, <2>3 DEF Steady, CalmShape
<1>17. StaysCalm
  BY <1>2, <1>4, <1>15, <1>16 DEF StaysCalm
<1>18. Sheltered
  BY <1>1, <1>2, <1>3, <1>4 DEF Sheltered, RunShape, RunOf, QueueShape, QueuedOf, Terminal
<1> QED
  BY <1>9, <1>10, <1>11, <1>12, <1>13, <1>14, <1>5, <1>6, <1>7, <1>8, <1>17, <1>18

\* A run has its context.
LEMMA AssembledKeeps ==
  ASSUME Inductive, NEW t \in Task, Assembled(t)
  PROVE  Inductive' /\ StaysCalm /\ Sheltered
<1> USE DEF Inductive
<1>1. /\ stage[t] = "assemble"
      /\ stage' = [stage EXCEPT ![t] = "execute"]
  BY DEF Assembled, Goto, taskVars, queueVars, waitVars, tripVars, history
<1>2. UNCHANGED <<status, created, retries, requeues, queue, succeeded, running,
                  result, closing, timers, answered, host, counter, tripped, doomed,
                  plan, signalled, budget, everTripped, draining, disposer, announced>>
  BY DEF Assembled, Goto, taskVars, queueVars, waitVars, tripVars, history
<1>3. Created' = Created /\ Queued' = Queued
  BY <1>2 DEF Created, Queued
<1>4. /\ stage' \in [Task -> Stage]
      /\ stage'[t] = "execute"
      /\ \A u \in Task : u # t => stage'[u] = stage[u]
  BY <1>1 DEF ArrayTypes, Stage
<1>5. ArrayTypes'
  BY <1>2, <1>3, <1>4 DEF ArrayTypes
<1>6. SetTypes'
  BY <1>2, <1>3, <1>4 DEF SetTypes
<1>7. ListTypes'
  BY <1>2, <1>3, <1>4 DEF ListTypes
<1>8. FlagTypes'
  BY <1>2, <1>3, <1>4 DEF FlagTypes
<1>9. TaskShape'
  BY <1>1, <1>2, <1>3, <1>4 DEF TaskShape
<1>10. RunShape'
  <2>1. ASSUME NEW u \in Task, u # t PROVE RunOf(u)'
    BY <1>1, <1>2, <1>3, <1>4, <2>1 DEF RunShape, RunOf
  <2>2. RunOf(t)'
    BY <1>1, <1>2, <1>3, <1>4 DEF RunShape, RunOf
  <2> QED
    BY <2>1, <2>2 DEF RunShape
<1>11. QueueShape'
  BY <1>1, <1>2, <1>3, <1>4 DEF QueueShape, QueuedOf
<1>12. HostShape'
  BY <1>1, <1>2, <1>3, <1>4 DEF HostShape
<1>13. TimerShape'
  BY <1>1, <1>2, <1>3, <1>4 DEF TimerShape, TimerOf
<1>14. AnswerShape'
  BY <1>1, <1>2, <1>3, <1>4 DEF AnswerShape, AnswerOf
<1>15. ASSUME GapShape PROVE GapShape'
  <2>1. ASSUME NEW u \in Task, u # t PROVE GapOf(u)'
    BY <1>1, <1>2, <1>3, <1>4, <1>15, <2>1 DEF GapShape, GapOf, RunShape, RunOf, QueueShape,
        QueuedOf, Terminal
  <2>2. ASSUME NEW u \in Task, u = t PROVE GapOf(u)'
    BY <1>1, <1>2, <1>3, <1>4, <1>15, <2>2 DEF GapShape, GapOf, RunShape, RunOf, QueueShape,
        QueuedOf, Terminal
  <2>3. host'.at = "preparing" /\ host'.on = None /\ ~host'.cold => MaxResumes > 0
    BY <1>1, <1>2, <1>3, <1>4, <1>15, Constants DEF GapShape
  <2> QED
    BY <2>1, <2>2, <2>3 DEF GapShape
<1>16. ASSUME GapShape, CalmShape PROVE Steady /\ (everTripped' \/ CalmShape')
  <2>1. ASSUME NEW u \in Task, u # t
       PROVE  CalmOf(u)' /\ (status[u] \in Terminal => status'[u] = status[u])
    BY <1>1, <1>2, <1>3, <1>4, <1>16, <2>1 DEF GapShape, GapOf, CalmShape, CalmOf, RunShape,
        RunOf, QueueShape, QueuedOf, Terminal
  <2>2. ASSUME NEW u \in Task, u = t
       PROVE  CalmOf(u)' /\ (status[u] \in Terminal => status'[u] = status[u])
    BY <1>1, <1>2, <1>3, <1>4, <1>16, <2>2 DEF GapShape, GapOf, CalmShape, CalmOf, RunShape,
        RunOf, QueueShape, QueuedOf, Terminal
  <2>3. ~tripped' /\ doomed' = {} /\ plan' = NoPlan /\ signalled' = {}
    BY <1>1, <1>2, <1>3, <1>4, <1>16 DEF CalmShape
  <2>4. Heralded'
    BY <1>1, <1>2, <1>3, <1>4, <1>16 DEF CalmShape, CalmOf, Heralded, AllOver, RunShape, RunOf,
        QueueShape, QueuedOf, Terminal
  <2> QED
    BY <2>1, <2>2, <2>3, <2>4 DEF Steady, CalmShape
<1>17. StaysCalm
  BY <1>2, <1>4, <1>15, <1>16 DEF StaysCalm
<1>18. Sheltered
  BY <1>1, <1>2, <1>3, <1>4 DEF Sheltered, RunShape, RunOf, QueueShape, QueuedOf, Terminal
<1> QED
  BY <1>9, <1>10, <1>11, <1>12, <1>13, <1>14, <1>5, <1>6, <1>7, <1>8, <1>17, <1>18

\* A condemned root fails.
LEMMA FailDoomedKeeps ==
  ASSUME Inductive, NEW t \in Task, FailDoomed(t)
  PROVE  Inductive' /\ StaysCalm /\ Sheltered
<1> USE DEF Inductive
<1>1. /\ stage[t] \in {"assemble", "execute"}
      /\ doomed' = doomed \ {t} /\ signalled' = signalled \ {t}
      /\ stage' = [stage EXCEPT ![t] = "finish"]
      /\ status' = [status EXCEPT ![t] = "FAILED"]
      /\ result' = [result EXCEPT ![t] = "FAILED"]
  BY DEF FailDoomed, Goto, ComesTo, queueVars, waitVars, history
<1>2. UNCHANGED <<created, retries, requeues, queue, succeeded, running, closing,
                  timers, answered, host, counter, tripped, plan, budget, everTripped,
                  draining, disposer, announced>>
  BY DEF FailDoomed, Goto, ComesTo, queueVars, waitVars, history
<1>3. Created' = Created /\ Queued' = Queued
  BY <1>2 DEF Created, Queued
<1>4. /\ doomed' \subseteq Roots /\ signalled' \subseteq Task
  BY <1>1, <1>2, Constants DEF ArrayTypes, SetTypes, FlagTypes, Status, Terminal
<1>5. /\ stage' \in [Task -> Stage]
      /\ stage'[t] = "finish"
      /\ \A u \in Task : u # t => stage'[u] = stage[u]
  BY <1>4, <1>1 DEF ArrayTypes, Stage
<1>6. /\ status' \in [Task -> Status]
      /\ status'[t] = "FAILED"
      /\ \A u \in Task : u # t => status'[u] = status[u]
  BY <1>4, <1>1 DEF ArrayTypes, Status, Terminal, Parked
<1>7. /\ result' \in [Task -> Status \cup {"none"}]
      /\ result'[t] = "FAILED"
      /\ \A u \in Task : u # t => result'[u] = result[u]
  BY <1>4, <1>1 DEF ArrayTypes, Status, Terminal, Parked
<1>8. ArrayTypes'
  BY <1>2, <1>3, <1>4, <1>5, <1>6, <1>7 DEF ArrayTypes
<1>9. SetTypes'
  BY <1>2, <1>3, <1>4, <1>5, <1>6, <1>7 DEF SetTypes
<1>10. ListTypes'
  BY <1>2, <1>3, <1>4, <1>5, <1>6, <1>7 DEF ListTypes
<1>11. FlagTypes'
  BY <1>2, <1>3, <1>4, <1>5, <1>6, <1>7 DEF FlagTypes
<1>12. TaskShape'
  BY <1>1, <1>2, <1>3, <1>4, <1>5, <1>6, <1>7 DEF TaskShape
<1>13. RunShape'
  <2>1. ASSUME NEW u \in Task, u # t PROVE RunOf(u)'
    BY <1>1, <1>2, <1>3, <1>4, <1>5, <1>6, <1>7, <2>1 DEF RunShape, RunOf, Terminal
  <2>2. RunOf(t)'
    BY <1>1, <1>2, <1>3, <1>4, <1>5, <1>6, <1>7 DEF RunShape, RunOf, Terminal
  <2> QED
    BY <2>1, <2>2 DEF RunShape
<1>14. QueueShape'
  BY <1>1, <1>2, <1>3, <1>4, <1>5, <1>6, <1>7 DEF QueueShape, QueuedOf, Terminal
<1>15. HostShape'
  BY <1>1, <1>2, <1>3, <1>4, <1>5, <1>6, <1>7 DEF HostShape
<1>16. TimerShape'
  BY <1>1, <1>2, <1>3, <1>4, <1>5, <1>6, <1>7 DEF TimerShape, TimerOf
<1>17. AnswerShape'
  BY <1>1, <1>2, <1>3, <1>4, <1>5, <1>6, <1>7 DEF AnswerShape, AnswerOf
<1>18. ASSUME GapShape PROVE GapShape'
  <2>1. ASSUME NEW u \in Task, u # t PROVE GapOf(u)'
    BY <1>1, <1>2, <1>3, <1>4, <1>5, <1>6, <1>7, <1>18, <2>1 DEF GapShape, GapOf, RunShape, RunOf,
        QueueShape, QueuedOf, Terminal
  <2>2. ASSUME NEW u \in Task, u = t PROVE GapOf(u)'
    BY <1>1, <1>2, <1>3, <1>4, <1>5, <1>6, <1>7, <1>18, <2>2 DEF GapShape, GapOf, RunShape, RunOf,
        QueueShape, QueuedOf, Terminal
  <2>3. host'.at = "preparing" /\ host'.on = None /\ ~host'.cold => MaxResumes > 0
    BY <1>1, <1>2, <1>3, <1>4, <1>5, <1>6, <1>7, <1>18, Constants DEF GapShape
  <2> QED
    BY <2>1, <2>2, <2>3 DEF GapShape
<1>19. ASSUME GapShape, CalmShape PROVE Steady /\ (everTripped' \/ CalmShape')
  <2>1. ASSUME NEW u \in Task, u # t
       PROVE  CalmOf(u)' /\ (status[u] \in Terminal => status'[u] = status[u])
    BY <1>1, <1>2, <1>3, <1>4, <1>5, <1>6, <1>7, <1>19, <2>1 DEF GapShape, GapOf, CalmShape,
        CalmOf, RunShape, RunOf, QueueShape, QueuedOf, Terminal
  <2>2. ASSUME NEW u \in Task, u = t
       PROVE  CalmOf(u)' /\ (status[u] \in Terminal => status'[u] = status[u])
    BY <1>1, <1>2, <1>3, <1>4, <1>5, <1>6, <1>7, <1>19, <2>2 DEF GapShape, GapOf, CalmShape,
        CalmOf, RunShape, RunOf, QueueShape, QueuedOf, Terminal
  <2>3. ~tripped' /\ doomed' = {} /\ plan' = NoPlan /\ signalled' = {}
    BY <1>1, <1>2, <1>3, <1>4, <1>5, <1>6, <1>7, <1>19 DEF CalmShape
  <2>4. Heralded'
    BY <1>1, <1>2, <1>3, <1>4, <1>5, <1>6, <1>7, <1>19 DEF CalmShape, CalmOf, Heralded, AllOver,
        RunShape, RunOf, QueueShape, QueuedOf, Terminal
  <2> QED
    BY <2>1, <2>2, <2>3, <2>4 DEF Steady, CalmShape
<1>20. StaysCalm
  BY <1>2, <1>4, <1>5, <1>6, <1>7, <1>18, <1>19 DEF StaysCalm
<1>21. Sheltered
  BY <1>1, <1>2, <1>3, <1>4, <1>5, <1>6, <1>7 DEF Sheltered, RunShape, RunOf, QueueShape,
      QueuedOf, Terminal
<1> QED
  BY <1>12, <1>13, <1>14, <1>15, <1>16, <1>17, <1>8, <1>9, <1>10, <1>11, <1>20, <1>21

\* A run that comes too late returns its slot.
LEMMA AssemblyInVainKeeps ==
  ASSUME Inductive, NEW t \in Task, AssemblyInVain(t)
  PROVE  Inductive' /\ StaysCalm /\ Sheltered
<1> USE DEF Inductive
<1>1. /\ stage[t] = "assemble"
      /\ status[t] \in Terminal
      /\ running' = running \ {t}
      /\ stage' = [stage EXCEPT ![t] = "off"]
      /\ result' = [result EXCEPT ![t] = "none"]
  BY DEF AssemblyInVain, Leave, Goto, taskVars, waitVars, tripVars, history
<1>2. UNCHANGED <<status, created, retries, requeues, queue, succeeded, closing,
                  timers, answered, host, counter, tripped, doomed, plan, signalled,
                  budget, everTripped, disposer, announced>>
  BY DEF AssemblyInVain, Leave, Goto, taskVars, waitVars, tripVars, history
<1>3. Created' = Created /\ Queued' = Queued
  BY <1>2 DEF Created, Queued
<1>4. /\ draining' \in BOOLEAN /\ running' \subseteq Task
  BY <1>1, <1>2, Constants DEF ArrayTypes, SetTypes, FlagTypes, Stage, AssemblyInVain, RequestDrain
<1>5. /\ stage' \in [Task -> Stage]
      /\ stage'[t] = "off"
      /\ \A u \in Task : u # t => stage'[u] = stage[u]
  BY <1>4, <1>1 DEF ArrayTypes, Stage
<1>6. /\ result' \in [Task -> Status \cup {"none"}]
      /\ result'[t] = "none"
      /\ \A u \in Task : u # t => result'[u] = result[u]
  BY <1>4, <1>1 DEF ArrayTypes, Status, Terminal, Parked
<1>7. ArrayTypes'
  BY <1>2, <1>3, <1>4, <1>5, <1>6 DEF ArrayTypes
<1>8. SetTypes'
  BY <1>2, <1>3, <1>4, <1>5, <1>6 DEF SetTypes
<1>9. ListTypes'
  BY <1>2, <1>3, <1>4, <1>5, <1>6 DEF ListTypes
<1>10. FlagTypes'
  BY <1>2, <1>3, <1>4, <1>5, <1>6 DEF FlagTypes
<1>11. TaskShape'
  BY <1>1, <1>2, <1>3, <1>4, <1>5, <1>6 DEF TaskShape
<1>12. RunShape'
  <2>1. ASSUME NEW u \in Task, u # t PROVE RunOf(u)'
    BY <1>1, <1>2, <1>3, <1>4, <1>5, <1>6, <2>1 DEF RunShape, RunOf
  <2>2. RunOf(t)'
    BY <1>1, <1>2, <1>3, <1>4, <1>5, <1>6 DEF RunShape, RunOf
  <2> QED
    BY <2>1, <2>2 DEF RunShape
<1>13. QueueShape'
  BY <1>1, <1>2, <1>3, <1>4, <1>5, <1>6 DEF QueueShape, QueuedOf
<1>14. HostShape'
  BY <1>1, <1>2, <1>3, <1>4, <1>5, <1>6 DEF HostShape
<1>15. TimerShape'
  BY <1>1, <1>2, <1>3, <1>4, <1>5, <1>6 DEF TimerShape, TimerOf
<1>16. AnswerShape'
  BY <1>1, <1>2, <1>3, <1>4, <1>5, <1>6 DEF AnswerShape, AnswerOf
<1>17. ASSUME GapShape PROVE GapShape'
  <2>1. ASSUME NEW u \in Task, u # t PROVE GapOf(u)'
    BY <1>1, <1>2, <1>3, <1>4, <1>5, <1>6, <1>17, <2>1 DEF GapShape, GapOf, RunShape, RunOf,
        QueueShape, QueuedOf, Terminal
  <2>2. ASSUME NEW u \in Task, u = t PROVE GapOf(u)'
    BY <1>1, <1>2, <1>3, <1>4, <1>5, <1>6, <1>17, <2>2 DEF GapShape, GapOf, RunShape, RunOf,
        QueueShape, QueuedOf, Terminal
  <2>3. host'.at = "preparing" /\ host'.on = None /\ ~host'.cold => MaxResumes > 0
    BY <1>1, <1>2, <1>3, <1>4, <1>5, <1>6, <1>17, Constants DEF GapShape
  <2> QED
    BY <2>1, <2>2, <2>3 DEF GapShape
<1>18. ASSUME GapShape, CalmShape PROVE Steady /\ (everTripped' \/ CalmShape')
  <2>1. ASSUME NEW u \in Task, u # t
       PROVE  CalmOf(u)' /\ (status[u] \in Terminal => status'[u] = status[u])
    BY <1>1, <1>2, <1>3, <1>4, <1>5, <1>6, <1>18, <2>1 DEF GapShape, GapOf, CalmShape, CalmOf,
        RunShape, RunOf, QueueShape, QueuedOf, Terminal
  <2>2. ASSUME NEW u \in Task, u = t
       PROVE  CalmOf(u)' /\ (status[u] \in Terminal => status'[u] = status[u])
    BY <1>1, <1>2, <1>3, <1>4, <1>5, <1>6, <1>18, <2>2 DEF GapShape, GapOf, CalmShape, CalmOf,
        RunShape, RunOf, QueueShape, QueuedOf, Terminal
  <2>3. ~tripped' /\ doomed' = {} /\ plan' = NoPlan /\ signalled' = {}
    BY <1>1, <1>2, <1>3, <1>4, <1>5, <1>6, <1>18 DEF CalmShape
  <2>4. Heralded'
    BY <1>1, <1>2, <1>3, <1>4, <1>5, <1>6, <1>18 DEF CalmShape, CalmOf, Heralded, AllOver,
        RunShape, RunOf, QueueShape, QueuedOf, Terminal
  <2> QED
    BY <2>1, <2>2, <2>3, <2>4 DEF Steady, CalmShape
<1>19. StaysCalm
  BY <1>2, <1>4, <1>5, <1>6, <1>17, <1>18 DEF StaysCalm
<1>20. Sheltered
  BY <1>1, <1>2, <1>3, <1>4, <1>5, <1>6 DEF Sheltered, RunShape, RunOf, QueueShape, QueuedOf,
      Terminal
<1> QED
  BY <1>11, <1>12, <1>13, <1>14, <1>15, <1>16, <1>7, <1>8, <1>9, <1>10, <1>19, <1>20

\* All children are in the queue.
LEMMA FlushedKeeps ==
  ASSUME Inductive, NEW t \in Task, Flushed(t)
  PROVE  Inductive' /\ StaysCalm /\ Sheltered
<1> USE DEF Inductive
<1>1. /\ stage[t] = "flush"
      /\ stage' = [stage EXCEPT ![t] = "settle"]
  BY DEF Flushed, Goto, taskVars, queueVars, waitVars, tripVars, history
<1>2. UNCHANGED <<status, created, retries, requeues, queue, succeeded, running,
                  result, closing, timers, answered, host, counter, tripped, doomed,
                  plan, signalled, budget, everTripped, draining, disposer, announced>>
  BY DEF Flushed, Goto, taskVars, queueVars, waitVars, tripVars, history
<1>3. Created' = Created /\ Queued' = Queued
  BY <1>2 DEF Created, Queued
<1>4. /\ stage' \in [Task -> Stage]
      /\ stage'[t] = "settle"
      /\ \A u \in Task : u # t => stage'[u] = stage[u]
  BY <1>1 DEF ArrayTypes, Stage
<1>5. ArrayTypes'
  BY <1>2, <1>3, <1>4 DEF ArrayTypes
<1>6. SetTypes'
  BY <1>2, <1>3, <1>4 DEF SetTypes
<1>7. ListTypes'
  BY <1>2, <1>3, <1>4 DEF ListTypes
<1>8. FlagTypes'
  BY <1>2, <1>3, <1>4 DEF FlagTypes
<1>9. TaskShape'
  BY <1>1, <1>2, <1>3, <1>4 DEF TaskShape
<1>10. RunShape'
  <2>1. ASSUME NEW u \in Task, u # t PROVE RunOf(u)'
    BY <1>1, <1>2, <1>3, <1>4, <2>1 DEF RunShape, RunOf, Parked
  <2>2. RunOf(t)'
    BY <1>1, <1>2, <1>3, <1>4 DEF RunShape, RunOf, Parked
  <2> QED
    BY <2>1, <2>2 DEF RunShape
<1>11. QueueShape'
  BY <1>1, <1>2, <1>3, <1>4 DEF QueueShape, QueuedOf
<1>12. HostShape'
  BY <1>1, <1>2, <1>3, <1>4 DEF HostShape
<1>13. TimerShape'
  BY <1>1, <1>2, <1>3, <1>4 DEF TimerShape, TimerOf
<1>14. AnswerShape'
  BY <1>1, <1>2, <1>3, <1>4 DEF AnswerShape, AnswerOf
<1>15. ASSUME GapShape PROVE GapShape'
  <2>1. ASSUME NEW u \in Task, u # t PROVE GapOf(u)'
    BY <1>1, <1>2, <1>3, <1>4, <1>15, <2>1 DEF GapShape, GapOf, RunShape, RunOf, QueueShape,
        QueuedOf, Terminal
  <2>2. ASSUME NEW u \in Task, u = t PROVE GapOf(u)'
    BY <1>1, <1>2, <1>3, <1>4, <1>15, <2>2 DEF GapShape, GapOf, RunShape, RunOf, QueueShape,
        QueuedOf, Terminal
  <2>3. host'.at = "preparing" /\ host'.on = None /\ ~host'.cold => MaxResumes > 0
    BY <1>1, <1>2, <1>3, <1>4, <1>15, Constants DEF GapShape
  <2> QED
    BY <2>1, <2>2, <2>3 DEF GapShape
<1>16. ASSUME GapShape, CalmShape PROVE Steady /\ (everTripped' \/ CalmShape')
  <2>1. ASSUME NEW u \in Task, u # t
       PROVE  CalmOf(u)' /\ (status[u] \in Terminal => status'[u] = status[u])
    BY <1>1, <1>2, <1>3, <1>4, <1>16, <2>1 DEF GapShape, GapOf, CalmShape, CalmOf, RunShape,
        RunOf, QueueShape, QueuedOf, Terminal
  <2>2. ASSUME NEW u \in Task, u = t
       PROVE  CalmOf(u)' /\ (status[u] \in Terminal => status'[u] = status[u])
    BY <1>1, <1>2, <1>3, <1>4, <1>16, <2>2 DEF GapShape, GapOf, CalmShape, CalmOf, RunShape,
        RunOf, QueueShape, QueuedOf, Terminal
  <2>3. ~tripped' /\ doomed' = {} /\ plan' = NoPlan /\ signalled' = {}
    BY <1>1, <1>2, <1>3, <1>4, <1>16 DEF CalmShape
  <2>4. Heralded'
    BY <1>1, <1>2, <1>3, <1>4, <1>16 DEF CalmShape, CalmOf, Heralded, AllOver, RunShape, RunOf,
        QueueShape, QueuedOf, Terminal
  <2> QED
    BY <2>1, <2>2, <2>3, <2>4 DEF Steady, CalmShape
<1>17. StaysCalm
  BY <1>2, <1>4, <1>15, <1>16 DEF StaysCalm
<1>18. Sheltered
  BY <1>1, <1>2, <1>3, <1>4 DEF Sheltered, RunShape, RunOf, QueueShape, QueuedOf, Terminal
<1> QED
  BY <1>9, <1>10, <1>11, <1>12, <1>13, <1>14, <1>5, <1>6, <1>7, <1>8, <1>17, <1>18

\* A parked run returns its slot.
LEMMA SettleParkedKeeps ==
  ASSUME Inductive, NEW t \in Task, SettleParked(t)
  PROVE  Inductive' /\ StaysCalm /\ Sheltered
<1> USE DEF Inductive
<1>1. /\ stage[t] = "settle"
      /\ result[t] \in Parked /\ ~Exhausted(t)
      /\ running' = running \ {t} /\ timers' = TimersAfter(t)
      /\ closing' = closing \cup {<<t, "parked">>}
      /\ stage' = [stage EXCEPT ![t] = "off"]
      /\ result' = [result EXCEPT ![t] = "none"]
  BY DEF SettleParked, Leave, Goto, taskVars, tripVars, history
<1>2. UNCHANGED <<status, created, retries, requeues, queue, succeeded, answered, host,
                  counter, tripped, doomed, plan, signalled, budget, everTripped,
                  disposer, announced>>
  BY DEF SettleParked, Leave, Goto, taskVars, tripVars, history
<1>3. Created' = Created /\ Queued' = Queued
  BY <1>2 DEF Created, Queued
<1>4. /\ draining' \in BOOLEAN /\ running' \subseteq Task
      /\ closing' \subseteq (Task \cup {Host}) \X TailKind
  BY <1>1, <1>2, Constants DEF SetTypes, FlagTypes, SettleParked, RequestDrain, TailKind
<1>5. /\ timers' \subseteq Unattended
      /\ t \in timers' => requeues[t] < MaxRequeues
      /\ \A u \in Task : u # t => (u \in timers' <=> u \in timers)
  BY <1>1, <1>2, <1>4, Constants DEF ArrayTypes, SetTypes, TimersAfter, Autonomous, Exhausted,
      TimerShape, TimerOf
<1>6. /\ t \in Unattended /\ status[t] = "INTERRUPTED" /\ ~tripped => t \in timers'
  BY <1>1, <1>2, <1>4, <1>5, Constants DEF TimersAfter, Autonomous, RunShape, RunOf, Terminal
<1>7. /\ stage' \in [Task -> Stage]
      /\ stage'[t] = "off"
      /\ \A u \in Task : u # t => stage'[u] = stage[u]
  BY <1>4, <1>5, <1>6, <1>1 DEF ArrayTypes, Stage
<1>8. /\ result' \in [Task -> Status \cup {"none"}]
      /\ result'[t] = "none"
      /\ \A u \in Task : u # t => result'[u] = result[u]
  BY <1>4, <1>5, <1>6, <1>1 DEF ArrayTypes, Status, Terminal, Parked
<1>9. ArrayTypes'
  BY <1>2, <1>3, <1>4, <1>5, <1>6, <1>7, <1>8 DEF ArrayTypes
<1>10. SetTypes'
  BY <1>2, <1>3, <1>4, <1>5, <1>6, <1>7, <1>8 DEF SetTypes
<1>11. ListTypes'
  BY <1>2, <1>3, <1>4, <1>5, <1>6, <1>7, <1>8 DEF ListTypes
<1>12. FlagTypes'
  BY <1>2, <1>3, <1>4, <1>5, <1>6, <1>7, <1>8 DEF FlagTypes
<1>13. TaskShape'
  BY <1>1, <1>2, <1>3, <1>4, <1>5, <1>6, <1>7, <1>8 DEF TaskShape
<1>14. RunShape'
  <2>1. ASSUME NEW u \in Task, u # t PROVE RunOf(u)'
    BY <1>1, <1>2, <1>3, <1>4, <1>5, <1>6, <1>7, <1>8, <2>1 DEF RunShape, RunOf, Parked,
        TimersAfter, Autonomous
  <2>2. RunOf(t)'
    BY <1>1, <1>2, <1>3, <1>4, <1>5, <1>6, <1>7, <1>8 DEF RunShape, RunOf, Parked, TimersAfter,
        Autonomous
  <2> QED
    BY <2>1, <2>2 DEF RunShape
<1>15. QueueShape'
  BY <1>1, <1>2, <1>3, <1>4, <1>5, <1>6, <1>7, <1>8 DEF QueueShape, QueuedOf
<1>16. HostShape'
  BY <1>1, <1>2, <1>3, <1>4, <1>5, <1>6, <1>7, <1>8 DEF HostShape
<1>17. TimerShape'
  <2>1. ASSUME NEW u \in Task, u # t PROVE TimerOf(u)'
    BY <1>1, <1>2, <1>3, <1>4, <1>5, <1>6, <1>7, <1>8, <2>1 DEF TimerShape, TimerOf
  <2>2. TimerOf(t)'
    BY <1>1, <1>2, <1>3, <1>4, <1>5, <1>6, <1>7, <1>8 DEF TimerShape, TimerOf
  <2> QED
    BY <2>1, <2>2 DEF TimerShape
<1>18. AnswerShape'
  <2>1. ASSUME NEW u \in Task, u # t PROVE AnswerOf(u)'
    BY <1>1, <1>2, <1>3, <1>4, <1>5, <1>6, <1>7, <1>8, <2>1 DEF AnswerShape, AnswerOf, RunShape,
        RunOf, Parked, Terminal
  <2>2. AnswerOf(t)'
    BY <1>1, <1>2, <1>3, <1>4, <1>5, <1>6, <1>7, <1>8 DEF AnswerShape, AnswerOf, RunShape, RunOf,
        Parked, Terminal
  <2> QED
    BY <2>1, <2>2 DEF AnswerShape
<1>19. ASSUME GapShape PROVE GapShape'
  <2>1. ASSUME NEW u \in Task, u # t PROVE GapOf(u)'
    BY <1>1, <1>2, <1>3, <1>4, <1>5, <1>6, <1>7, <1>8, <1>19, <2>1 DEF GapShape, GapOf, RunShape,
        RunOf, QueueShape, QueuedOf, Terminal
  <2>2. ASSUME NEW u \in Task, u = t PROVE GapOf(u)'
    BY <1>1, <1>2, <1>3, <1>4, <1>5, <1>6, <1>7, <1>8, <1>19, <2>2 DEF GapShape, GapOf, RunShape,
        RunOf, QueueShape, QueuedOf, Terminal
  <2>3. host'.at = "preparing" /\ host'.on = None /\ ~host'.cold => MaxResumes > 0
    BY <1>1, <1>2, <1>3, <1>4, <1>5, <1>6, <1>7, <1>8, <1>19, Constants DEF GapShape
  <2> QED
    BY <2>1, <2>2, <2>3 DEF GapShape
<1>20. ASSUME GapShape, CalmShape PROVE Steady /\ (everTripped' \/ CalmShape')
  <2>1. ASSUME NEW u \in Task, u # t
       PROVE  CalmOf(u)' /\ (status[u] \in Terminal => status'[u] = status[u])
    BY <1>1, <1>2, <1>3, <1>4, <1>5, <1>6, <1>7, <1>8, <1>20, <2>1 DEF GapShape, GapOf, CalmShape,
        CalmOf, RunShape, RunOf, QueueShape, QueuedOf, Terminal
  <2>2. ASSUME NEW u \in Task, u = t
       PROVE  CalmOf(u)' /\ (status[u] \in Terminal => status'[u] = status[u])
    BY <1>1, <1>2, <1>3, <1>4, <1>5, <1>6, <1>7, <1>8, <1>20, <2>2 DEF GapShape, GapOf, CalmShape,
        CalmOf, RunShape, RunOf, QueueShape, QueuedOf, Terminal
  <2>3. ~tripped' /\ doomed' = {} /\ plan' = NoPlan /\ signalled' = {}
    BY <1>1, <1>2, <1>3, <1>4, <1>5, <1>6, <1>7, <1>8, <1>20 DEF CalmShape
  <2>4. Heralded'
    BY <1>1, <1>2, <1>3, <1>4, <1>5, <1>6, <1>7, <1>8, <1>20 DEF CalmShape, CalmOf, Heralded,
        AllOver, RunShape, RunOf, QueueShape, QueuedOf, Terminal, TaskShape
  <2> QED
    BY <2>1, <2>2, <2>3, <2>4 DEF Steady, CalmShape
<1>21. StaysCalm
  BY <1>2, <1>4, <1>5, <1>6, <1>7, <1>8, <1>19, <1>20 DEF StaysCalm
<1>22. Sheltered
  BY <1>1, <1>2, <1>3, <1>4, <1>5, <1>6, <1>7, <1>8 DEF Sheltered, RunShape, RunOf, QueueShape,
      QueuedOf, Terminal
<1> QED
  BY <1>13, <1>14, <1>15, <1>16, <1>17, <1>18, <1>9, <1>10, <1>11, <1>12, <1>21, <1>22

\* A job whose budget is used up fails.
LEMMA SettleExhaustedKeeps ==
  ASSUME Inductive, NEW t \in Task, SettleExhausted(t)
  PROVE  Inductive' /\ StaysCalm /\ Sheltered
<1> USE DEF Inductive
<1>1. /\ stage[t] = "settle"
      /\ Exhausted(t)
      /\ running' = running \ {t}
      /\ stage' = [stage EXCEPT ![t] = "finish"]
      /\ result' = [result EXCEPT ![t] = "FAILED"]
  BY DEF SettleExhausted, Goto, taskVars, waitVars, tripVars, history
<1>2. UNCHANGED <<status, created, retries, requeues, queue, succeeded, closing,
                  timers, answered, host, counter, tripped, doomed, plan, signalled,
                  budget, everTripped, draining, disposer, announced>>
  BY DEF SettleExhausted, Goto, taskVars, waitVars, tripVars, history
<1>3. Created' = Created /\ Queued' = Queued
  BY <1>2 DEF Created, Queued
<1>4. /\ running' \subseteq Task
      /\ t \notin timers /\ t \in Unattended /\ status[t] = "INTERRUPTED"
  BY <1>1, <1>2, Constants DEF Exhausted, Autonomous, TimerShape, TimerOf, ArrayTypes, SetTypes,
      FlagTypes, Status, Terminal
<1>5. /\ stage' \in [Task -> Stage]
      /\ stage'[t] = "finish"
      /\ \A u \in Task : u # t => stage'[u] = stage[u]
  BY <1>4, <1>1 DEF ArrayTypes, Stage
<1>6. /\ result' \in [Task -> Status \cup {"none"}]
      /\ result'[t] = "FAILED"
      /\ \A u \in Task : u # t => result'[u] = result[u]
  BY <1>4, <1>1 DEF ArrayTypes, Status, Terminal, Parked
<1>7. ArrayTypes'
  BY <1>2, <1>3, <1>4, <1>5, <1>6 DEF ArrayTypes
<1>8. SetTypes'
  BY <1>2, <1>3, <1>4, <1>5, <1>6 DEF SetTypes
<1>9. ListTypes'
  BY <1>2, <1>3, <1>4, <1>5, <1>6 DEF ListTypes
<1>10. FlagTypes'
  BY <1>2, <1>3, <1>4, <1>5, <1>6 DEF FlagTypes
<1>11. TaskShape'
  BY <1>1, <1>2, <1>3, <1>4, <1>5, <1>6 DEF TaskShape
<1>12. RunShape'
  <2>1. ASSUME NEW u \in Task, u # t PROVE RunOf(u)'
    BY <1>1, <1>2, <1>3, <1>4, <1>5, <1>6, <2>1 DEF RunShape, RunOf, Terminal
  <2>2. RunOf(t)'
    BY <1>1, <1>2, <1>3, <1>4, <1>5, <1>6 DEF RunShape, RunOf, Terminal
  <2> QED
    BY <2>1, <2>2 DEF RunShape
<1>13. QueueShape'
  <2>1. ASSUME NEW u \in Task, u # t PROVE QueuedOf(u)'
    BY <1>1, <1>2, <1>3, <1>4, <1>5, <1>6, <2>1 DEF QueueShape, QueuedOf, Exhausted, Autonomous,
        Terminal
  <2>2. QueuedOf(t)'
    BY <1>1, <1>2, <1>3, <1>4, <1>5, <1>6 DEF QueueShape, QueuedOf, Exhausted, Autonomous, Terminal
  <2> QED
    BY <2>1, <2>2, <1>1, <1>2, <1>3, <1>4, <1>5, <1>6 DEF QueueShape
<1>14. HostShape'
  BY <1>1, <1>2, <1>3, <1>4, <1>5, <1>6 DEF HostShape
<1>15. TimerShape'
  BY <1>1, <1>2, <1>3, <1>4, <1>5, <1>6 DEF TimerShape, TimerOf
<1>16. AnswerShape'
  <2>1. ASSUME NEW u \in Task, u # t PROVE AnswerOf(u)'
    BY <1>1, <1>2, <1>3, <1>4, <1>5, <1>6, <2>1 DEF AnswerShape, AnswerOf, Exhausted, Autonomous
  <2>2. AnswerOf(t)'
    BY <1>1, <1>2, <1>3, <1>4, <1>5, <1>6 DEF AnswerShape, AnswerOf, Exhausted, Autonomous
  <2> QED
    BY <2>1, <2>2 DEF AnswerShape
<1>17. ASSUME GapShape PROVE GapShape'
  <2>1. ASSUME NEW u \in Task, u # t PROVE GapOf(u)'
    BY <1>1, <1>2, <1>3, <1>4, <1>5, <1>6, <1>17, <2>1 DEF GapShape, GapOf, RunShape, RunOf,
        QueueShape, QueuedOf, Terminal
  <2>2. ASSUME NEW u \in Task, u = t PROVE GapOf(u)'
    BY <1>1, <1>2, <1>3, <1>4, <1>5, <1>6, <1>17, <2>2 DEF GapShape, GapOf, RunShape, RunOf,
        QueueShape, QueuedOf, Terminal
  <2>3. host'.at = "preparing" /\ host'.on = None /\ ~host'.cold => MaxResumes > 0
    BY <1>1, <1>2, <1>3, <1>4, <1>5, <1>6, <1>17, Constants DEF GapShape
  <2> QED
    BY <2>1, <2>2, <2>3 DEF GapShape
<1>18. ASSUME GapShape, CalmShape PROVE Steady /\ (everTripped' \/ CalmShape')
  <2>1. ASSUME NEW u \in Task, u # t
       PROVE  CalmOf(u)' /\ (status[u] \in Terminal => status'[u] = status[u])
    BY <1>1, <1>2, <1>3, <1>4, <1>5, <1>6, <1>18, <2>1 DEF GapShape, GapOf, CalmShape, CalmOf,
        RunShape, RunOf, QueueShape, QueuedOf, Terminal
  <2>2. ASSUME NEW u \in Task, u = t
       PROVE  CalmOf(u)' /\ (status[u] \in Terminal => status'[u] = status[u])
    BY <1>1, <1>2, <1>3, <1>4, <1>5, <1>6, <1>18, <2>2 DEF GapShape, GapOf, CalmShape, CalmOf,
        RunShape, RunOf, QueueShape, QueuedOf, Terminal
  <2>3. ~tripped' /\ doomed' = {} /\ plan' = NoPlan /\ signalled' = {}
    BY <1>1, <1>2, <1>3, <1>4, <1>5, <1>6, <1>18 DEF CalmShape
  <2>4. Heralded'
    BY <1>1, <1>2, <1>3, <1>4, <1>5, <1>6, <1>18 DEF CalmShape, CalmOf, Heralded, AllOver,
        RunShape, RunOf, QueueShape, QueuedOf, Terminal
  <2> QED
    BY <2>1, <2>2, <2>3, <2>4 DEF Steady, CalmShape
<1>19. StaysCalm
  BY <1>2, <1>4, <1>5, <1>6, <1>17, <1>18 DEF StaysCalm
<1>20. Sheltered
  BY <1>1, <1>2, <1>3, <1>4, <1>5, <1>6 DEF Sheltered, RunShape, RunOf, QueueShape, QueuedOf,
      Terminal
<1> QED
  BY <1>11, <1>12, <1>13, <1>14, <1>15, <1>16, <1>7, <1>8, <1>9, <1>10, <1>19, <1>20

\* The end of a task is booked.
LEMMA FinishKeeps ==
  ASSUME Inductive, NEW t \in Task, Finish(t)
  PROVE  Inductive' /\ StaysCalm /\ Sheltered
<1> USE DEF Inductive
<1>1. /\ stage[t] = "finish"
      /\ running' = running \ {t}
      /\ stage' = [stage EXCEPT ![t] = "dispose"]
      /\ status' = [status EXCEPT ![t] = result[t]]
  BY DEF Finish, Goto, Book, waitVars, history
<1>2. UNCHANGED <<created, retries, requeues, queue, result, closing, timers, answered,
                  host, tripped, doomed, plan, signalled, budget, everTripped,
                  draining, disposer, announced>>
  BY DEF Finish, Goto, Book, waitVars, history
<1>3. Created' = Created /\ Queued' = Queued
  BY <1>2 DEF Created, Queued
<1>4. /\ running' \subseteq Task
      /\ result[t] \in Terminal
      /\ succeeded' \subseteq Task /\ counter' \in Nat
  BY <1>1, <1>2, Constants DEF ArrayTypes, SetTypes, FlagTypes, Status, Terminal, RunShape, RunOf,
      Finish, Book
<1>5. /\ stage' \in [Task -> Stage]
      /\ stage'[t] = "dispose"
      /\ \A u \in Task : u # t => stage'[u] = stage[u]
  BY <1>4, <1>1 DEF ArrayTypes, Stage
<1>6. /\ status' \in [Task -> Status]
      /\ status'[t] = result[t]
      /\ \A u \in Task : u # t => status'[u] = status[u]
  BY <1>4, <1>1 DEF ArrayTypes, Status, Terminal, Parked
<1>7. ArrayTypes'
  BY <1>2, <1>3, <1>4, <1>5, <1>6 DEF ArrayTypes
<1>8. SetTypes'
  BY <1>2, <1>3, <1>4, <1>5, <1>6 DEF SetTypes
<1>9. ListTypes'
  BY <1>2, <1>3, <1>4, <1>5, <1>6 DEF ListTypes
<1>10. FlagTypes'
  BY <1>2, <1>3, <1>4, <1>5, <1>6 DEF FlagTypes
<1>11. TaskShape'
  BY <1>1, <1>2, <1>3, <1>4, <1>5, <1>6 DEF TaskShape, Terminal
<1>12. RunShape'
  <2>1. ASSUME NEW u \in Task, u # t PROVE RunOf(u)'
    BY <1>1, <1>2, <1>3, <1>4, <1>5, <1>6, <2>1 DEF RunShape, RunOf, Terminal
  <2>2. RunOf(t)'
    BY <1>1, <1>2, <1>3, <1>4, <1>5, <1>6 DEF RunShape, RunOf, Terminal
  <2> QED
    BY <2>1, <2>2 DEF RunShape
<1>13. QueueShape'
  <2>1. ASSUME NEW u \in Task, u # t PROVE QueuedOf(u)'
    BY <1>1, <1>2, <1>3, <1>4, <1>5, <1>6, <2>1 DEF QueueShape, QueuedOf, Terminal
  <2>2. QueuedOf(t)'
    BY <1>1, <1>2, <1>3, <1>4, <1>5, <1>6 DEF QueueShape, QueuedOf, Terminal
  <2> QED
    BY <2>1, <2>2, <1>1, <1>2, <1>3, <1>4, <1>5, <1>6 DEF QueueShape
<1>14. HostShape'
  BY <1>1, <1>2, <1>3, <1>4, <1>5, <1>6 DEF HostShape
<1>15. TimerShape'
  <2>1. ASSUME NEW u \in Task, u # t PROVE TimerOf(u)'
    BY <1>1, <1>2, <1>3, <1>4, <1>5, <1>6, <2>1 DEF TimerShape, TimerOf, Terminal
  <2>2. TimerOf(t)'
    BY <1>1, <1>2, <1>3, <1>4, <1>5, <1>6 DEF TimerShape, TimerOf, Terminal
  <2> QED
    BY <2>1, <2>2 DEF TimerShape
<1>16. AnswerShape'
  <2>1. ASSUME NEW u \in Task, u # t PROVE AnswerOf(u)'
    BY <1>1, <1>2, <1>3, <1>4, <1>5, <1>6, <2>1 DEF AnswerShape, AnswerOf, Terminal
  <2>2. AnswerOf(t)'
    BY <1>1, <1>2, <1>3, <1>4, <1>5, <1>6 DEF AnswerShape, AnswerOf, Terminal
  <2> QED
    BY <2>1, <2>2 DEF AnswerShape
<1>17. ASSUME GapShape PROVE GapShape'
  <2>1. ASSUME NEW u \in Task, u # t PROVE GapOf(u)'
    BY <1>1, <1>2, <1>3, <1>4, <1>5, <1>6, <1>17, <2>1 DEF GapShape, GapOf, RunShape, RunOf,
        QueueShape, QueuedOf, Terminal
  <2>2. ASSUME NEW u \in Task, u = t PROVE GapOf(u)'
    BY <1>1, <1>2, <1>3, <1>4, <1>5, <1>6, <1>17, <2>2 DEF GapShape, GapOf, RunShape, RunOf,
        QueueShape, QueuedOf, Terminal
  <2>3. host'.at = "preparing" /\ host'.on = None /\ ~host'.cold => MaxResumes > 0
    BY <1>1, <1>2, <1>3, <1>4, <1>5, <1>6, <1>17, Constants DEF GapShape
  <2> QED
    BY <2>1, <2>2, <2>3 DEF GapShape
<1>18. ASSUME GapShape, CalmShape PROVE Steady /\ (everTripped' \/ CalmShape')
  <2>1. ASSUME NEW u \in Task, u # t
       PROVE  CalmOf(u)' /\ (status[u] \in Terminal => status'[u] = status[u])
    BY <1>1, <1>2, <1>3, <1>4, <1>5, <1>6, <1>18, <2>1 DEF GapShape, GapOf, CalmShape, CalmOf,
        RunShape, RunOf, QueueShape, QueuedOf, Terminal
  <2>2. ASSUME NEW u \in Task, u = t
       PROVE  CalmOf(u)' /\ (status[u] \in Terminal => status'[u] = status[u])
    BY <1>1, <1>2, <1>3, <1>4, <1>5, <1>6, <1>18, <2>2 DEF GapShape, GapOf, CalmShape, CalmOf,
        RunShape, RunOf, QueueShape, QueuedOf, Terminal
  <2>3. ~tripped' /\ doomed' = {} /\ plan' = NoPlan /\ signalled' = {}
    BY <1>1, <1>2, <1>3, <1>4, <1>5, <1>6, <1>18 DEF CalmShape
  <2>4. Heralded'
    BY <1>1, <1>2, <1>3, <1>4, <1>5, <1>6, <1>18 DEF CalmShape, CalmOf, Heralded, AllOver,
        RunShape, RunOf, QueueShape, QueuedOf, Terminal
  <2> QED
    BY <2>1, <2>2, <2>3, <2>4 DEF Steady, CalmShape
<1>19. StaysCalm
  BY <1>2, <1>4, <1>5, <1>6, <1>17, <1>18 DEF StaysCalm
<1>20. Sheltered
  BY <1>1, <1>2, <1>3, <1>4, <1>5, <1>6 DEF Sheltered, RunShape, RunOf, QueueShape, QueuedOf,
      Terminal
<1> QED
  BY <1>11, <1>12, <1>13, <1>14, <1>15, <1>16, <1>7, <1>8, <1>9, <1>10, <1>19, <1>20

\* The scan for blocked tasks ends.
LEMMA DisposeEndsKeeps ==
  ASSUME Inductive, NEW t \in Task, DisposeEnds(t)
  PROVE  Inductive' /\ StaysCalm /\ Sheltered
<1> USE DEF Inductive
<1>1. /\ stage[t] = "dispose"
      /\ disposer' \in {disposer, None}
      /\ stage' = [stage EXCEPT ![t] = "wake"]
  BY DEF DisposeEnds, Goto, taskVars, queueVars, waitVars, tripVars, history
<1>2. UNCHANGED <<status, created, retries, requeues, queue, succeeded, running,
                  result, closing, timers, answered, host, counter, tripped, doomed,
                  plan, signalled, budget, everTripped, draining, announced>>
  BY DEF DisposeEnds, Goto, taskVars, queueVars, waitVars, tripVars, history
<1>3. Created' = Created /\ Queued' = Queued
  BY <1>2 DEF Created, Queued
<1>4. /\ disposer' \in Task \cup {None, Host}
  BY <1>1, <1>2, Constants DEF ArrayTypes, SetTypes, FlagTypes, Stage
<1>5. /\ stage' \in [Task -> Stage]
      /\ stage'[t] = "wake"
      /\ \A u \in Task : u # t => stage'[u] = stage[u]
  BY <1>4, <1>1 DEF ArrayTypes, Stage
<1>6. ArrayTypes'
  BY <1>2, <1>3, <1>4, <1>5 DEF ArrayTypes
<1>7. SetTypes'
  BY <1>2, <1>3, <1>4, <1>5 DEF SetTypes
<1>8. ListTypes'
  BY <1>2, <1>3, <1>4, <1>5 DEF ListTypes
<1>9. FlagTypes'
  BY <1>2, <1>3, <1>4, <1>5 DEF FlagTypes
<1>10. TaskShape'
  BY <1>1, <1>2, <1>3, <1>4, <1>5 DEF TaskShape
<1>11. RunShape'
  <2>1. ASSUME NEW u \in Task, u # t PROVE RunOf(u)'
    BY <1>1, <1>2, <1>3, <1>4, <1>5, <2>1 DEF RunShape, RunOf
  <2>2. RunOf(t)'
    BY <1>1, <1>2, <1>3, <1>4, <1>5 DEF RunShape, RunOf
  <2> QED
    BY <2>1, <2>2 DEF RunShape
<1>12. QueueShape'
  BY <1>1, <1>2, <1>3, <1>4, <1>5 DEF QueueShape, QueuedOf
<1>13. HostShape'
  BY <1>1, <1>2, <1>3, <1>4, <1>5 DEF HostShape
<1>14. TimerShape'
  BY <1>1, <1>2, <1>3, <1>4, <1>5 DEF TimerShape, TimerOf
<1>15. AnswerShape'
  BY <1>1, <1>2, <1>3, <1>4, <1>5 DEF AnswerShape, AnswerOf
<1>16. ASSUME GapShape PROVE GapShape'
  <2>1. ASSUME NEW u \in Task, u # t PROVE GapOf(u)'
    BY <1>1, <1>2, <1>3, <1>4, <1>5, <1>16, <2>1 DEF GapShape, GapOf, RunShape, RunOf, QueueShape,
        QueuedOf, Terminal
  <2>2. ASSUME NEW u \in Task, u = t PROVE GapOf(u)'
    BY <1>1, <1>2, <1>3, <1>4, <1>5, <1>16, <2>2 DEF GapShape, GapOf, RunShape, RunOf, QueueShape,
        QueuedOf, Terminal
  <2>3. host'.at = "preparing" /\ host'.on = None /\ ~host'.cold => MaxResumes > 0
    BY <1>1, <1>2, <1>3, <1>4, <1>5, <1>16, Constants DEF GapShape
  <2> QED
    BY <2>1, <2>2, <2>3 DEF GapShape
<1>17. ASSUME GapShape, CalmShape PROVE Steady /\ (everTripped' \/ CalmShape')
  <2>1. ASSUME NEW u \in Task, u # t
       PROVE  CalmOf(u)' /\ (status[u] \in Terminal => status'[u] = status[u])
    BY <1>1, <1>2, <1>3, <1>4, <1>5, <1>17, <2>1 DEF GapShape, GapOf, CalmShape, CalmOf, RunShape,
        RunOf, QueueShape, QueuedOf, Terminal
  <2>2. ASSUME NEW u \in Task, u = t
       PROVE  CalmOf(u)' /\ (status[u] \in Terminal => status'[u] = status[u])
    BY <1>1, <1>2, <1>3, <1>4, <1>5, <1>17, <2>2 DEF GapShape, GapOf, CalmShape, CalmOf, RunShape,
        RunOf, QueueShape, QueuedOf, Terminal
  <2>3. ~tripped' /\ doomed' = {} /\ plan' = NoPlan /\ signalled' = {}
    BY <1>1, <1>2, <1>3, <1>4, <1>5, <1>17 DEF CalmShape
  <2>4. Heralded'
    BY <1>1, <1>2, <1>3, <1>4, <1>5, <1>17 DEF CalmShape, CalmOf, Heralded, AllOver, RunShape,
        RunOf, QueueShape, QueuedOf, Terminal
  <2> QED
    BY <2>1, <2>2, <2>3, <2>4 DEF Steady, CalmShape
<1>18. StaysCalm
  BY <1>2, <1>4, <1>5, <1>16, <1>17 DEF StaysCalm
<1>19. Sheltered
  BY <1>1, <1>2, <1>3, <1>4, <1>5 DEF Sheltered, RunShape, RunOf, QueueShape, QueuedOf, Terminal
<1> QED
  BY <1>10, <1>11, <1>12, <1>13, <1>14, <1>15, <1>6, <1>7, <1>8, <1>9, <1>18, <1>19

\* A recovery is over.
LEMMA RecoveredKeeps ==
  ASSUME Inductive, Recovered
  PROVE  Inductive' /\ StaysCalm /\ Sheltered
<1> USE DEF Inductive
<1>1. /\ host.at = "disposing"
      /\ host' = IdleHost /\ disposer' = None
      /\ closing' \in {closing, closing \cup {<<Host, "final">>}}
  BY DEF Recovered, taskVars, queueVars, tripVars, history
<1>2. UNCHANGED <<status, created, retries, requeues, queue, succeeded, running, stage,
                  result, timers, answered, counter, tripped, doomed, plan, signalled,
                  budget, everTripped, announced>>
  BY DEF Recovered, taskVars, queueVars, tripVars, history
<1>3. Created' = Created /\ Queued' = Queued
  BY <1>2 DEF Created, Queued
<1>4. /\ host' \in HostType
      /\ disposer' \in Task \cup {None, Host}
      /\ draining' \in BOOLEAN
      /\ closing' \subseteq (Task \cup {Host}) \X TailKind
  BY <1>1, <1>2, Constants DEF ArrayTypes, SetTypes, FlagTypes, IdleHost, HostType, TailKind,
      Recovered, RequestDrain
<1>5. ArrayTypes'
  BY <1>2, <1>3, <1>4 DEF ArrayTypes
<1>6. SetTypes'
  BY <1>2, <1>3, <1>4 DEF SetTypes
<1>7. ListTypes'
  BY <1>2, <1>3, <1>4 DEF ListTypes
<1>8. FlagTypes'
  BY <1>2, <1>3, <1>4 DEF FlagTypes
<1>9. TaskShape'
  BY <1>1, <1>2, <1>3, <1>4 DEF TaskShape
<1>10. RunShape'
  BY <1>1, <1>2, <1>3, <1>4 DEF RunShape, RunOf
<1>11. QueueShape'
  BY <1>1, <1>2, <1>3, <1>4 DEF QueueShape, QueuedOf
<1>12. HostShape'
  BY <1>1, <1>2, <1>3, <1>4 DEF HostShape, IdleHost
<1>13. TimerShape'
  BY <1>1, <1>2, <1>3, <1>4 DEF TimerShape, TimerOf, IdleHost
<1>14. AnswerShape'
  BY <1>1, <1>2, <1>3, <1>4 DEF AnswerShape, AnswerOf, IdleHost
<1>15. ASSUME GapShape PROVE GapShape'
  <2>1. ASSUME NEW u \in Task PROVE GapOf(u)'
    BY <1>1, <1>2, <1>3, <1>4, <1>15, <2>1 DEF GapShape, GapOf, RunShape, RunOf, QueueShape,
        QueuedOf, Terminal
  <2>2. host'.at = "preparing" /\ host'.on = None /\ ~host'.cold => MaxResumes > 0
    BY <1>1, <1>2, <1>3, <1>4, <1>15, Constants DEF GapShape, IdleHost
  <2> QED
    BY <2>1, <2>2 DEF GapShape
<1>16. ASSUME GapShape, CalmShape PROVE Steady /\ (everTripped' \/ CalmShape')
  <2>1. ASSUME NEW u \in Task
       PROVE  CalmOf(u)' /\ (status[u] \in Terminal => status'[u] = status[u])
    BY <1>1, <1>2, <1>3, <1>4, <1>16, <2>1 DEF GapShape, GapOf, CalmShape, CalmOf, RunShape,
        RunOf, QueueShape, QueuedOf, Terminal
  <2>2. ~tripped' /\ doomed' = {} /\ plan' = NoPlan /\ signalled' = {}
    BY <1>1, <1>2, <1>3, <1>4, <1>16 DEF CalmShape
  <2>3. Heralded'
    <3>1. AllOver' => AllOver /\ <<Host, "final">> \in closing'
      BY <1>2, <1>3 DEF AllOver, Recovered
    <3> QED
      BY <3>1 DEF Heralded
  <2> QED
    BY <2>1, <2>2, <2>3 DEF Steady, CalmShape
<1>17. StaysCalm
  BY <1>2, <1>4, <1>15, <1>16 DEF StaysCalm
<1>18. Sheltered
  BY <1>1, <1>2, <1>3, <1>4 DEF Sheltered, RunShape, RunOf, QueueShape, QueuedOf, Terminal
<1> QED
  BY <1>9, <1>10, <1>11, <1>12, <1>13, <1>14, <1>5, <1>6, <1>7, <1>8, <1>17, <1>18

\* A question is answered.
LEMMA ReplyKeeps ==
  ASSUME Inductive, NEW t \in Task, Reply(t)
  PROVE  Inductive' /\ StaysCalm /\ Sheltered
<1> USE DEF Inductive
<1>1. /\ host = IdleHost /\ status[t] = "AWAITING_HUMAN"
      /\ answered' = answered \cup {t}
      /\ host' = [IdleHost EXCEPT !.at = "preparing", !.on = t]
  BY DEF Reply, taskVars, queueVars, runVars, tripVars, history
<1>2. UNCHANGED <<status, created, retries, requeues, queue, succeeded, running, stage,
                  result, closing, timers, counter, tripped, doomed, plan, signalled,
                  budget, everTripped, draining, disposer, announced>>
  BY DEF Reply, taskVars, queueVars, runVars, tripVars, history
<1>3. Created' = Created /\ Queued' = Queued
  BY <1>2 DEF Created, Queued
<1>4. /\ host' \in HostType
      /\ answered' \subseteq Task \ Unattended
      /\ host' = [at |-> "preparing", on |-> t, cold |-> FALSE]
  BY <1>1, <1>2, Constants DEF ArrayTypes, SetTypes, FlagTypes, IdleHost, HostType, TaskShape
<1>5. ArrayTypes'
  BY <1>2, <1>3, <1>4 DEF ArrayTypes
<1>6. SetTypes'
  BY <1>2, <1>3, <1>4 DEF SetTypes
<1>7. ListTypes'
  BY <1>2, <1>3, <1>4 DEF ListTypes
<1>8. FlagTypes'
  BY <1>2, <1>3, <1>4 DEF FlagTypes
<1>9. TaskShape'
  BY <1>1, <1>2, <1>3, <1>4 DEF TaskShape
<1>10. RunShape'
  BY <1>1, <1>2, <1>3, <1>4 DEF RunShape, RunOf
<1>11. QueueShape'
  BY <1>1, <1>2, <1>3, <1>4 DEF QueueShape, QueuedOf
<1>12. HostShape'
  BY <1>1, <1>2, <1>3, <1>4 DEF HostShape, IdleHost, TaskShape
<1>13. TimerShape'
  BY <1>1, <1>2, <1>3, <1>4 DEF TimerShape, TimerOf, IdleHost
<1>14. AnswerShape'
  BY <1>1, <1>2, <1>3, <1>4 DEF AnswerShape, AnswerOf, IdleHost
<1>15. ASSUME GapShape PROVE GapShape'
  <2>1. ASSUME NEW u \in Task, u # t PROVE GapOf(u)'
    BY <1>1, <1>2, <1>3, <1>4, <1>15, <2>1 DEF GapShape, GapOf, RunShape, RunOf, QueueShape,
        QueuedOf, Terminal
  <2>2. ASSUME NEW u \in Task, u = t PROVE GapOf(u)'
    BY <1>1, <1>2, <1>3, <1>4, <1>15, <2>2 DEF GapShape, GapOf, RunShape, RunOf, QueueShape,
        QueuedOf, Terminal
  <2>3. host'.at = "preparing" /\ host'.on = None /\ ~host'.cold => MaxResumes > 0
    BY <1>1, <1>2, <1>3, <1>4, <1>15, Constants DEF GapShape
  <2> QED
    BY <2>1, <2>2, <2>3 DEF GapShape
<1>16. ASSUME GapShape, CalmShape PROVE Steady /\ (everTripped' \/ CalmShape')
  <2>1. ASSUME NEW u \in Task, u # t
       PROVE  CalmOf(u)' /\ (status[u] \in Terminal => status'[u] = status[u])
    BY <1>1, <1>2, <1>3, <1>4, <1>16, <2>1 DEF GapShape, GapOf, CalmShape, CalmOf, RunShape,
        RunOf, QueueShape, QueuedOf, Terminal
  <2>2. ASSUME NEW u \in Task, u = t
       PROVE  CalmOf(u)' /\ (status[u] \in Terminal => status'[u] = status[u])
    BY <1>1, <1>2, <1>3, <1>4, <1>16, <2>2 DEF GapShape, GapOf, CalmShape, CalmOf, RunShape,
        RunOf, QueueShape, QueuedOf, Terminal
  <2>3. ~tripped' /\ doomed' = {} /\ plan' = NoPlan /\ signalled' = {}
    BY <1>1, <1>2, <1>3, <1>4, <1>16 DEF CalmShape
  <2>4. Heralded'
    BY <1>1, <1>2, <1>3, <1>4, <1>16 DEF CalmShape, CalmOf, Heralded, AllOver, RunShape, RunOf,
        QueueShape, QueuedOf, Terminal
  <2> QED
    BY <2>1, <2>2, <2>3, <2>4 DEF Steady, CalmShape
<1>17. StaysCalm
  BY <1>2, <1>4, <1>15, <1>16 DEF StaysCalm
<1>18. Sheltered
  BY <1>1, <1>2, <1>3, <1>4 DEF Sheltered, RunShape, RunOf, QueueShape, QueuedOf, Terminal
<1> QED
  BY <1>9, <1>10, <1>11, <1>12, <1>13, <1>14, <1>5, <1>6, <1>7, <1>8, <1>17, <1>18

\* /resume begins.
LEMMA ResumeKeeps ==
  ASSUME Inductive, Resume
  PROVE  Inductive' /\ StaysCalm /\ Sheltered
<1> USE DEF Inductive
<1>1. /\ host = IdleHost
      /\ host' = [IdleHost EXCEPT !.at = "preparing"]
      /\ budget.resumes > 0 /\ budget.upsets > 0
      /\ budget' = [budget EXCEPT !.resumes = @ - 1, !.upsets = @ - 1]
  BY DEF Resume, taskVars, queueVars, runVars, tripVars
<1>2. UNCHANGED <<status, created, retries, requeues, queue, succeeded, running, stage,
                  result, closing, timers, answered, counter, tripped, doomed, plan,
                  signalled, everTripped, draining, disposer, announced>>
  BY DEF Resume, taskVars, queueVars, runVars, tripVars
<1>3. Created' = Created /\ Queued' = Queued
  BY <1>2 DEF Created, Queued
<1>4. /\ host' \in HostType
      /\ budget' \in BudgetType
      /\ host' = [at |-> "preparing", on |-> None, cold |-> FALSE]
  BY <1>1, <1>2, Constants, BudgetFacts DEF ArrayTypes, SetTypes, FlagTypes, IdleHost, HostType
<1>5. ArrayTypes'
  BY <1>2, <1>3, <1>4 DEF ArrayTypes
<1>6. SetTypes'
  BY <1>2, <1>3, <1>4 DEF SetTypes
<1>7. ListTypes'
  BY <1>2, <1>3, <1>4 DEF ListTypes
<1>8. FlagTypes'
  BY <1>2, <1>3, <1>4 DEF FlagTypes
<1>9. TaskShape'
  BY <1>1, <1>2, <1>3, <1>4 DEF TaskShape
<1>10. RunShape'
  BY <1>1, <1>2, <1>3, <1>4 DEF RunShape, RunOf
<1>11. QueueShape'
  BY <1>1, <1>2, <1>3, <1>4 DEF QueueShape, QueuedOf
<1>12. HostShape'
  BY <1>1, <1>2, <1>3, <1>4 DEF HostShape, IdleHost
<1>13. TimerShape'
  BY <1>1, <1>2, <1>3, <1>4 DEF TimerShape, TimerOf, IdleHost
<1>14. AnswerShape'
  BY <1>1, <1>2, <1>3, <1>4 DEF AnswerShape, AnswerOf, IdleHost
<1>15. ASSUME GapShape PROVE GapShape'
  <2>1. ASSUME NEW u \in Task PROVE GapOf(u)'
    BY <1>1, <1>2, <1>3, <1>4, <1>15, <2>1 DEF GapShape, GapOf, RunShape, RunOf, QueueShape,
        QueuedOf, Terminal
  <2>2. host'.at = "preparing" /\ host'.on = None /\ ~host'.cold => MaxResumes > 0
    BY <1>1, <1>2, <1>3, <1>4, <1>15, Constants DEF GapShape, FlagTypes, BudgetType
  <2> QED
    BY <2>1, <2>2 DEF GapShape
<1>16. ASSUME GapShape, CalmShape PROVE Steady /\ (everTripped' \/ CalmShape')
  <2>1. ASSUME NEW u \in Task
       PROVE  CalmOf(u)' /\ (status[u] \in Terminal => status'[u] = status[u])
    BY <1>1, <1>2, <1>3, <1>4, <1>16, <2>1 DEF GapShape, GapOf, CalmShape, CalmOf, RunShape,
        RunOf, QueueShape, QueuedOf, Terminal
  <2>2. ~tripped' /\ doomed' = {} /\ plan' = NoPlan /\ signalled' = {}
    BY <1>1, <1>2, <1>3, <1>4, <1>16 DEF CalmShape
  <2>3. Heralded'
    BY <1>1, <1>2, <1>3, <1>4, <1>16 DEF CalmShape, CalmOf, Heralded, AllOver, RunShape, RunOf,
        QueueShape, QueuedOf, Terminal
  <2> QED
    BY <2>1, <2>2, <2>3 DEF Steady, CalmShape
<1>17. StaysCalm
  BY <1>2, <1>4, <1>15, <1>16 DEF StaysCalm
<1>18. Sheltered
  BY <1>1, <1>2, <1>3, <1>4 DEF Sheltered, RunShape, RunOf, QueueShape, QueuedOf, Terminal
<1> QED
  BY <1>9, <1>10, <1>11, <1>12, <1>13, <1>14, <1>5, <1>6, <1>7, <1>8, <1>17, <1>18

\* A retry is counted.
LEMMA RetriedFacts ==
  ASSUME ArrayTypes, NEW t \in Task, NEW kind, Retried(t, kind)
  PROVE  retries' \in [Task -> 0..MaxRetries]
<1>1. \A k \in 0..MaxRetries : k < MaxRetries => k + 1 \in 0..MaxRetries
  BY Constants
<1> QED
  BY <1>1 DEF ArrayTypes, Retried

\* A run comes to the status st: what AssemblyFails and RunEnds have in common.
CameTo(t, st) ==
  /\ stage[t] \in {"assemble", "execute"}
  /\ st \in Terminal \cup Parked \cup {"PENDING"}
  /\ st = "AWAITING_HUMAN" => t \notin Unattended
  /\ signalled' \subseteq signalled
  /\ retries' \in [Task -> 0..MaxRetries]
  /\ budget' \in BudgetType /\ budget'.crashes = budget.crashes
  /\ stage' = [stage EXCEPT ![t] = Onward(st)]
  /\ status' = [status EXCEPT ![t] = st]
  /\ result' = [result EXCEPT ![t] = st]
  /\ UNCHANGED <<created, requeues, queue, succeeded, running, closing, timers,
                  answered, host, counter, tripped, doomed, plan, everTripped,
                  draining, disposer, announced>>

\* A run comes to a status.
LEMMA CameToKeeps ==
  ASSUME Inductive, NEW t \in Task, NEW st, CameTo(t, st)
  PROVE  Inductive' /\ StaysCalm /\ Sheltered
<1> USE DEF Inductive
<1>1. /\ stage[t] \in {"assemble", "execute"}
      /\ st \in Terminal \cup Parked \cup {"PENDING"}
      /\ st = "AWAITING_HUMAN" => t \notin Unattended
      /\ signalled' \subseteq signalled
      /\ retries' \in [Task -> 0..MaxRetries]
      /\ budget' \in BudgetType
      /\ stage' = [stage EXCEPT ![t] = Onward(st)]
      /\ status' = [status EXCEPT ![t] = st]
      /\ result' = [result EXCEPT ![t] = st]
  BY DEF CameTo
<1>2. UNCHANGED <<created, requeues, queue, succeeded, running, closing, timers,
                  answered, host, counter, tripped, doomed, plan, everTripped,
                  draining, disposer, announced>>
  BY DEF CameTo
<1>3. Created' = Created /\ Queued' = Queued
  BY <1>2 DEF Created, Queued
<1>4. /\ signalled' \subseteq Task
      /\ retries' \in [Task -> 0..MaxRetries] /\ budget' \in BudgetType
  BY <1>1, <1>2, Constants DEF SetTypes
<1>5. /\ stage' \in [Task -> Stage]
      /\ stage'[t] = Onward(st)
      /\ \A u \in Task : u # t => stage'[u] = stage[u]
  BY <1>4, <1>1 DEF ArrayTypes, Stage, Onward
<1>6. /\ status' \in [Task -> Status]
      /\ status'[t] = st
      /\ \A u \in Task : u # t => status'[u] = status[u]
  BY <1>4, <1>1 DEF ArrayTypes, Status, Terminal, Parked
<1>7. /\ result' \in [Task -> Status \cup {"none"}]
      /\ result'[t] = st
      /\ \A u \in Task : u # t => result'[u] = result[u]
  BY <1>4, <1>1 DEF ArrayTypes, Status, Terminal, Parked
<1>8. ArrayTypes'
  BY <1>2, <1>3, <1>4, <1>5, <1>6, <1>7 DEF ArrayTypes
<1>9. SetTypes'
  BY <1>2, <1>3, <1>4, <1>5, <1>6, <1>7 DEF SetTypes
<1>10. ListTypes'
  BY <1>2, <1>3, <1>4, <1>5, <1>6, <1>7 DEF ListTypes
<1>11. FlagTypes'
  BY <1>2, <1>3, <1>4, <1>5, <1>6, <1>7 DEF FlagTypes
<1>12. TaskShape'
  BY <1>1, <1>2, <1>3, <1>4, <1>5, <1>6, <1>7 DEF TaskShape, Terminal, Parked
<1>13. RunShape'
  <2>1. ASSUME NEW u \in Task, u # t PROVE RunOf(u)'
    BY <1>1, <1>2, <1>3, <1>4, <1>5, <1>6, <1>7, <2>1 DEF RunShape, RunOf, Terminal, Parked, Onward
  <2>2. RunOf(t)'
    BY <1>1, <1>2, <1>3, <1>4, <1>5, <1>6, <1>7 DEF RunShape, RunOf, Terminal, Parked, Onward
  <2> QED
    BY <2>1, <2>2 DEF RunShape
<1>14. QueueShape'
  <2>1. ASSUME NEW u \in Task, u # t PROVE QueuedOf(u)'
    BY <1>1, <1>2, <1>3, <1>4, <1>5, <1>6, <1>7, <2>1 DEF QueueShape, QueuedOf, Terminal, Parked,
        RunShape, RunOf
  <2>2. QueuedOf(t)'
    BY <1>1, <1>2, <1>3, <1>4, <1>5, <1>6, <1>7 DEF QueueShape, QueuedOf, Terminal, Parked,
        RunShape, RunOf
  <2> QED
    BY <2>1, <2>2, <1>1, <1>2, <1>3, <1>4, <1>5, <1>6, <1>7 DEF QueueShape
<1>15. HostShape'
  BY <1>1, <1>2, <1>3, <1>4, <1>5, <1>6, <1>7 DEF HostShape
<1>16. TimerShape'
  <2>1. ASSUME NEW u \in Task, u # t PROVE TimerOf(u)'
    BY <1>1, <1>2, <1>3, <1>4, <1>5, <1>6, <1>7, <2>1 DEF TimerShape, TimerOf, Terminal, Parked,
        Onward
  <2>2. TimerOf(t)'
    BY <1>1, <1>2, <1>3, <1>4, <1>5, <1>6, <1>7 DEF TimerShape, TimerOf, Terminal, Parked, Onward
  <2> QED
    BY <2>1, <2>2 DEF TimerShape
<1>17. AnswerShape'
  <2>1. ASSUME NEW u \in Task, u # t PROVE AnswerOf(u)'
    BY <1>1, <1>2, <1>3, <1>4, <1>5, <1>6, <1>7, <2>1 DEF AnswerShape, AnswerOf, Terminal, Parked,
        Onward
  <2>2. AnswerOf(t)'
    BY <1>1, <1>2, <1>3, <1>4, <1>5, <1>6, <1>7 DEF AnswerShape, AnswerOf, Terminal, Parked, Onward
  <2> QED
    BY <2>1, <2>2 DEF AnswerShape
<1>18. ASSUME GapShape PROVE GapShape'
  <2>1. ASSUME NEW u \in Task, u # t PROVE GapOf(u)'
    BY <1>1, <1>2, <1>3, <1>4, <1>5, <1>6, <1>7, <1>18, <2>1 DEF GapShape, GapOf, RunShape, RunOf,
        QueueShape, QueuedOf, Terminal, Onward
  <2>2. ASSUME NEW u \in Task, u = t PROVE GapOf(u)'
    BY <1>1, <1>2, <1>3, <1>4, <1>5, <1>6, <1>7, <1>18, <2>2 DEF GapShape, GapOf, RunShape, RunOf,
        QueueShape, QueuedOf, Terminal, Onward
  <2>3. host'.at = "preparing" /\ host'.on = None /\ ~host'.cold => MaxResumes > 0
    BY <1>1, <1>2, <1>3, <1>4, <1>5, <1>6, <1>7, <1>18, Constants DEF GapShape
  <2> QED
    BY <2>1, <2>2, <2>3 DEF GapShape
<1>19. ASSUME GapShape, CalmShape PROVE Steady /\ (everTripped' \/ CalmShape')
  <2>1. ASSUME NEW u \in Task, u # t
       PROVE  CalmOf(u)' /\ (status[u] \in Terminal => status'[u] = status[u])
    BY <1>1, <1>2, <1>3, <1>4, <1>5, <1>6, <1>7, <1>19, <2>1 DEF GapShape, GapOf, CalmShape,
        CalmOf, RunShape, RunOf, QueueShape, QueuedOf, Terminal, Onward
  <2>2. ASSUME NEW u \in Task, u = t
       PROVE  CalmOf(u)' /\ (status[u] \in Terminal => status'[u] = status[u])
    BY <1>1, <1>2, <1>3, <1>4, <1>5, <1>6, <1>7, <1>19, <2>2 DEF GapShape, GapOf, CalmShape,
        CalmOf, RunShape, RunOf, QueueShape, QueuedOf, Terminal, Onward
  <2>3. ~tripped' /\ doomed' = {} /\ plan' = NoPlan /\ signalled' = {}
    BY <1>1, <1>2, <1>3, <1>4, <1>5, <1>6, <1>7, <1>19 DEF CalmShape
  <2>4. Heralded'
    BY <1>1, <1>2, <1>3, <1>4, <1>5, <1>6, <1>7, <1>19 DEF CalmShape, CalmOf, Heralded, AllOver,
        RunShape, RunOf, QueueShape, QueuedOf, Terminal, Onward, TaskShape
  <2> QED
    BY <2>1, <2>2, <2>3, <2>4 DEF Steady, CalmShape
<1>20. StaysCalm
  BY <1>2, <1>4, <1>5, <1>6, <1>7, <1>18, <1>19 DEF StaysCalm
<1>21. Sheltered
  BY <1>1, <1>2, <1>3, <1>4, <1>5, <1>6, <1>7 DEF Sheltered, RunShape, RunOf, QueueShape,
      QueuedOf, Terminal
<1> QED
  BY <1>12, <1>13, <1>14, <1>15, <1>16, <1>17, <1>8, <1>9, <1>10, <1>11, <1>20, <1>21

\* An error of the assembly is retried or interrupts the task.
LEMMA AssemblyFailsComes ==
  ASSUME Inductive, NEW t \in Task, NEW kind \in {"crash", "outage"}, AssemblyFails(t, kind)
  PROVE  \E st : CameTo(t, st)
<1> DEFINE st == Disposition(t, kind)
<1>1. st \in {"PENDING", "INTERRUPTED"}
  BY DEF Disposition
<1>2. Onward(st) = "settle"
  BY <1>1 DEF Onward, Terminal
<1>3. /\ stage[t] = "assemble" /\ stage' = [stage EXCEPT ![t] = Onward(st)]
      /\ status' = [status EXCEPT ![t] = st] /\ result' = [result EXCEPT ![t] = st]
      /\ Retried(t, kind)
  BY <1>2 DEF AssemblyFails, Goto, ComesTo
<1>4. UNCHANGED <<created, requeues, queue, succeeded, running, closing, timers, answered,
                  host, counter, tripped, doomed, plan, signalled, budget, everTripped,
                  draining, disposer, announced>>
  BY DEF AssemblyFails, queueVars, waitVars, tripVars, history
<1>5. retries' \in [Task -> 0..MaxRetries]
  BY <1>3, RetriedFacts DEF Inductive
<1>6. budget' \in BudgetType /\ budget'.crashes = budget.crashes
  BY <1>4 DEF Inductive, FlagTypes
<1> HIDE DEF st
<1>7. CameTo(t, st)
  BY <1>1, <1>3, <1>4, <1>5, <1>6 DEF CameTo, Parked
<1> QED
  BY <1>7

\* A run comes to its end.
LEMMA RunEndsComes ==
  ASSUME Inductive, NEW t \in Task,
         NEW kind \in {"success", "fail", "continue", "human", "children", "crash", "outage",
                       "cancel"},
         RunEnds(t, kind)
  PROVE  \E st : CameTo(t, st)
<1> DEFINE kept == status[t] \in Terminal /\ kind \notin {"success", "fail", "continue"}
           st == IF kept THEN status[t] ELSE Disposition(t, kind)
<1>1. /\ Disposition(t, kind) \in Terminal \cup Parked \cup {"PENDING"}
      /\ Disposition(t, kind) = "AWAITING_HUMAN" => kind = "human"
  BY DEF Disposition, Terminal, Parked
<1>2. /\ stage[t] = "execute" /\ (kind = "human" => t \notin Unattended)
      /\ status' = [status EXCEPT ![t] = st] /\ result' = [result EXCEPT ![t] = st]
      /\ retries' = retries \/ Retried(t, kind)
      /\ signalled' = signalled \ {t}
  BY DEF RunEnds, MayEnd, ComesTo
<1>3. UNCHANGED <<created, requeues, queue, succeeded, running, closing, timers, answered,
                  host, counter, tripped, doomed, plan, everTripped, draining, disposer,
                  announced>>
  BY DEF RunEnds, queueVars, waitVars
<1>4. st \in Terminal \cup Parked \cup {"PENDING"} /\ (st = "AWAITING_HUMAN" => t \notin Unattended)
  BY <1>1, <1>2 DEF Terminal
<1>5. stage' = [stage EXCEPT ![t] = Onward(st)]
  <2>1. stage' = [stage EXCEPT ![t] = Onward(result'[t])]
    BY DEF RunEnds, Goto
  <2>2. result'[t] = st
    BY <1>2 DEF Inductive, ArrayTypes
  <2> QED
    BY <2>1, <2>2
<1>6. retries' \in [Task -> 0..MaxRetries]
  BY <1>2, RetriedFacts DEF Inductive, ArrayTypes
<1>7. budget' \in BudgetType /\ budget'.crashes = budget.crashes
  <2>1. \/ budget' = budget
        \/ /\ budget.agains > 0 /\ budget.upsets > 0
           /\ budget' = [budget EXCEPT !.agains = @ - 1, !.upsets = @ - 1]
    BY DEF RunEnds, MayEnd
  <2>2. budget' \in BudgetType
    BY <2>1, BudgetFacts DEF Inductive, FlagTypes
  <2> QED
    BY <2>1, <2>2 DEF Inductive, FlagTypes, BudgetType
<1> HIDE DEF st
<1>8. CameTo(t, st)
  BY <1>2, <1>3, <1>4, <1>5, <1>6, <1>7 DEF CameTo
<1> QED
  BY <1>8

\* The failure that reaches the threshold.
LEMMA TripKeeps ==
  ASSUME Inductive, NEW t \in Task, Trip(t)
  PROVE  Inductive' /\ StaysCalm /\ Sheltered
<1> USE DEF Inductive
<1>1. /\ stage[t] = "finish"
      /\ running' = running \ {t}
      /\ stage' = [stage EXCEPT ![t] = "trip"]
      /\ status' = [status EXCEPT ![t] = result[t]]
  BY DEF Trip, Goto, Book, waitVars
<1>2. UNCHANGED <<created, retries, requeues, queue, result, closing, timers, answered,
                  host, signalled, budget, draining, disposer, announced>>
  BY DEF Trip, Goto, Book, waitVars
<1>3. Created' = Created /\ Queued' = Queued
  BY <1>2 DEF Created, Queued
<1>4. /\ running' \subseteq Task /\ succeeded' \subseteq Task
  BY <1>1, <1>2, Constants DEF SetTypes, Trip, Book
<1>5. /\ result[t] \in Terminal
  BY <1>1, <1>2, <1>4, Constants DEF RunShape, RunOf
<1>6. /\ counter' \in Nat
  BY <1>1, <1>2, <1>4, <1>5, Constants DEF FlagTypes, Trip, Book
<1>7. /\ plan' = [cancel |-> {u \in Created \ Roots : u \in Queued \/ status'[u] = "SUSPENDED"},
                signal |-> {u \in Created \ Roots : status'[u] # "SUSPENDED"} \cap running',
                roots  |-> {r \in Roots \cap Created : status'[r] \notin Terminal} \ running']
  BY <1>1, <1>2, <1>4, <1>5, <1>6, Constants DEF Trip
<1>8. /\ plan' \in PlanType
      /\ plan'.cancel \subseteq Created /\ plan'.roots \subseteq Created
  BY <1>1, <1>2, <1>4, <1>5, <1>6, <1>7, Constants, CreatedIsTask DEF PlanType
<1>9. /\ doomed' \subseteq Roots /\ tripped' = TRUE /\ everTripped' = TRUE
  BY <1>1, <1>2, <1>4, <1>5, <1>6, <1>7, <1>8, Constants DEF SetTypes, Trip
<1>10. /\ stage' \in [Task -> Stage]
       /\ stage'[t] = "trip"
       /\ \A u \in Task : u # t => stage'[u] = stage[u]
  BY <1>4, <1>5, <1>6, <1>7, <1>8, <1>9, <1>1 DEF ArrayTypes, Stage
<1>11. /\ status' \in [Task -> Status]
       /\ status'[t] = result[t]
       /\ \A u \in Task : u # t => status'[u] = status[u]
  BY <1>4, <1>5, <1>6, <1>7, <1>8, <1>9, <1>1 DEF ArrayTypes, Status, Terminal, Parked
<1>12. ArrayTypes'
  BY <1>2, <1>3, <1>4, <1>5, <1>6, <1>7, <1>8, <1>9, <1>10, <1>11 DEF ArrayTypes
<1>13. SetTypes'
  BY <1>2, <1>3, <1>4, <1>5, <1>6, <1>7, <1>8, <1>9, <1>10, <1>11 DEF SetTypes
<1>14. ListTypes'
  BY <1>2, <1>3, <1>4, <1>5, <1>6, <1>7, <1>8, <1>9, <1>10, <1>11 DEF ListTypes
<1>15. FlagTypes'
  BY <1>2, <1>3, <1>4, <1>5, <1>6, <1>7, <1>8, <1>9, <1>10, <1>11 DEF FlagTypes
<1>16. TaskShape'
  BY <1>1, <1>2, <1>3, <1>4, <1>5, <1>6, <1>7, <1>8, <1>9, <1>10, <1>11 DEF TaskShape, Terminal
<1>17. RunShape'
  <2>1. ASSUME NEW u \in Task, u # t PROVE RunOf(u)'
    BY <1>1, <1>2, <1>3, <1>4, <1>5, <1>6, <1>7, <1>8, <1>9, <1>10, <1>11, <2>1 DEF RunShape,
        RunOf, Terminal
  <2>2. RunOf(t)'
    BY <1>1, <1>2, <1>3, <1>4, <1>5, <1>6, <1>7, <1>8, <1>9, <1>10, <1>11 DEF RunShape, RunOf,
        Terminal
  <2> QED
    BY <2>1, <2>2 DEF RunShape
<1>18. QueueShape'
  <2>1. ASSUME NEW u \in Task, u # t PROVE QueuedOf(u)'
    BY <1>1, <1>2, <1>3, <1>4, <1>5, <1>6, <1>7, <1>8, <1>9, <1>10, <1>11, <2>1 DEF QueueShape,
        QueuedOf, Terminal
  <2>2. QueuedOf(t)'
    BY <1>1, <1>2, <1>3, <1>4, <1>5, <1>6, <1>7, <1>8, <1>9, <1>10, <1>11 DEF QueueShape,
        QueuedOf, Terminal
  <2> QED
    BY <2>1, <2>2, <1>1, <1>2, <1>3, <1>4, <1>5, <1>6, <1>7, <1>8, <1>9, <1>10, <1>11 DEF QueueShape
<1>19. HostShape'
  BY <1>1, <1>2, <1>3, <1>4, <1>5, <1>6, <1>7, <1>8, <1>9, <1>10, <1>11 DEF HostShape
<1>20. TimerShape'
  <2>1. ASSUME NEW u \in Task, u # t PROVE TimerOf(u)'
    BY <1>1, <1>2, <1>3, <1>4, <1>5, <1>6, <1>7, <1>8, <1>9, <1>10, <1>11, <2>1 DEF TimerShape,
        TimerOf, Terminal
  <2>2. TimerOf(t)'
    BY <1>1, <1>2, <1>3, <1>4, <1>5, <1>6, <1>7, <1>8, <1>9, <1>10, <1>11 DEF TimerShape, TimerOf,
        Terminal
  <2> QED
    BY <2>1, <2>2 DEF TimerShape
<1>21. AnswerShape'
  <2>1. ASSUME NEW u \in Task, u # t PROVE AnswerOf(u)'
    BY <1>1, <1>2, <1>3, <1>4, <1>5, <1>6, <1>7, <1>8, <1>9, <1>10, <1>11, <2>1 DEF AnswerShape,
        AnswerOf, Terminal
  <2>2. AnswerOf(t)'
    BY <1>1, <1>2, <1>3, <1>4, <1>5, <1>6, <1>7, <1>8, <1>9, <1>10, <1>11 DEF AnswerShape,
        AnswerOf, Terminal
  <2> QED
    BY <2>1, <2>2 DEF AnswerShape
<1>22. ASSUME GapShape PROVE GapShape'
  <2>1. ASSUME NEW u \in Task, u # t PROVE GapOf(u)'
    BY <1>1, <1>2, <1>3, <1>4, <1>5, <1>6, <1>7, <1>8, <1>9, <1>10, <1>11, <1>22, <2>1
        DEF GapShape, GapOf, RunShape, RunOf, QueueShape, QueuedOf, Terminal
  <2>2. ASSUME NEW u \in Task, u = t PROVE GapOf(u)'
    BY <1>1, <1>2, <1>3, <1>4, <1>5, <1>6, <1>7, <1>8, <1>9, <1>10, <1>11, <1>22, <2>2
        DEF GapShape, GapOf, RunShape, RunOf, QueueShape, QueuedOf, Terminal
  <2>3. host'.at = "preparing" /\ host'.on = None /\ ~host'.cold => MaxResumes > 0
    BY <1>1, <1>2, <1>3, <1>4, <1>5, <1>6, <1>7, <1>8, <1>9, <1>10, <1>11, <1>22, Constants
        DEF GapShape
  <2> QED
    BY <2>1, <2>2, <2>3 DEF GapShape
<1>23. ASSUME GapShape, CalmShape PROVE Steady /\ (everTripped' \/ CalmShape')
  <2>1. ASSUME NEW u \in Task, u # t
       PROVE  status[u] \in Terminal => status'[u] = status[u]
    BY <1>1, <1>2, <1>3, <1>4, <1>5, <1>6, <1>7, <1>8, <1>9, <1>10, <1>11, <1>23, <2>1
        DEF GapShape, GapOf, CalmShape, CalmOf, RunShape, RunOf, QueueShape, QueuedOf, Terminal
  <2>2. ASSUME NEW u \in Task, u = t
       PROVE  status[u] \in Terminal => status'[u] = status[u]
    BY <1>1, <1>2, <1>3, <1>4, <1>5, <1>6, <1>7, <1>8, <1>9, <1>10, <1>11, <1>23, <2>2
        DEF GapShape, GapOf, CalmShape, CalmOf, RunShape, RunOf, QueueShape, QueuedOf, Terminal
  <2>3. everTripped'
    BY <1>1, <1>2, <1>3, <1>4, <1>5, <1>6, <1>7, <1>8, <1>9, <1>10, <1>11
  <2> QED
    BY <2>1, <2>2, <2>3 DEF Steady
<1>24. StaysCalm
  BY <1>2, <1>4, <1>5, <1>6, <1>7, <1>8, <1>9, <1>10, <1>11, <1>22, <1>23 DEF StaysCalm
<1>25. Sheltered
  BY <1>1, <1>2, <1>3, <1>4, <1>5, <1>6, <1>7, <1>8, <1>9, <1>10, <1>11 DEF Sheltered, RunShape,
      RunOf, QueueShape, QueuedOf, Terminal
<1> QED
  BY <1>16, <1>17, <1>18, <1>19, <1>20, <1>21, <1>12, <1>13, <1>14, <1>15, <1>24, <1>25

\* The threshold has done its work.
LEMMA TripEndsKeeps ==
  ASSUME Inductive, NEW t \in Task, TripEnds(t)
  PROVE  Inductive' /\ StaysCalm /\ Sheltered
<1> USE DEF Inductive
<1>1. /\ stage[t] = "trip"
      /\ status' = [u \in Task |-> IF u \in plan.roots THEN "FAILED" ELSE status[u]]
      /\ plan' = NoPlan
      /\ closing' = closing \cup {<<t, "final">>}
      /\ stage' = [stage EXCEPT ![t] = "off"]
      /\ result' = [result EXCEPT ![t] = "none"]
  BY DEF TripEnds, Leave, Goto, queueVars, waitVars, history
<1>2. UNCHANGED <<created, retries, requeues, queue, succeeded, running, timers,
                  answered, host, counter, tripped, doomed, budget, everTripped,
                  draining, disposer, announced>>
  BY DEF TripEnds, Leave, Goto, queueVars, waitVars, history
<1>3. Created' = Created /\ Queued' = Queued
  BY <1>2 DEF Created, Queued
<1>4. /\ signalled' \subseteq Task
  BY <1>1, <1>2, Constants DEF SetTypes, Roots, TripEnds, FlagTypes, PlanType
<1>5. /\ plan' \in PlanType
  BY <1>1, <1>2, <1>4, Constants DEF PlanType, NoPlan
<1>6. /\ closing' \subseteq (Task \cup {Host}) \X TailKind
  BY <1>1, <1>2, <1>4, <1>5, Constants DEF SetTypes, TailKind
<1>7. /\ status' \in [Task -> Status]
      /\ \A u \in Task : status'[u] = status[u] \/ (status'[u] = "FAILED" /\ status[u] # "new")
  BY <1>1, <1>2, <1>4, <1>5, <1>6, Constants DEF ArrayTypes, Status, Terminal, TaskShape
<1>8. /\ plan'.cancel = {} /\ plan'.roots = {}
  BY <1>1, <1>2, <1>4, <1>5, <1>6, <1>7, Constants DEF NoPlan
<1>9. /\ stage' \in [Task -> Stage]
      /\ stage'[t] = "off"
      /\ \A u \in Task : u # t => stage'[u] = stage[u]
  BY <1>4, <1>5, <1>6, <1>7, <1>8, <1>1 DEF ArrayTypes, Stage
<1>10. /\ result' \in [Task -> Status \cup {"none"}]
       /\ result'[t] = "none"
       /\ \A u \in Task : u # t => result'[u] = result[u]
  BY <1>4, <1>5, <1>6, <1>7, <1>8, <1>1 DEF ArrayTypes, Status, Terminal, Parked
<1>11. ArrayTypes'
  BY <1>2, <1>3, <1>4, <1>5, <1>6, <1>7, <1>8, <1>9, <1>10 DEF ArrayTypes
<1>12. SetTypes'
  BY <1>2, <1>3, <1>4, <1>5, <1>6, <1>7, <1>8, <1>9, <1>10 DEF SetTypes
<1>13. ListTypes'
  BY <1>2, <1>3, <1>4, <1>5, <1>6, <1>7, <1>8, <1>9, <1>10 DEF ListTypes
<1>14. FlagTypes'
  BY <1>2, <1>3, <1>4, <1>5, <1>6, <1>7, <1>8, <1>9, <1>10 DEF FlagTypes
<1>15. TaskShape'
  BY <1>1, <1>2, <1>3, <1>4, <1>5, <1>6, <1>7, <1>8, <1>9, <1>10 DEF TaskShape
<1>16. RunShape'
  <2>1. ASSUME NEW u \in Task, u # t PROVE RunOf(u)'
    BY <1>1, <1>2, <1>3, <1>4, <1>5, <1>6, <1>7, <1>8, <1>9, <1>10, <2>1 DEF RunShape, RunOf,
        Terminal
  <2>2. RunOf(t)'
    BY <1>1, <1>2, <1>3, <1>4, <1>5, <1>6, <1>7, <1>8, <1>9, <1>10 DEF RunShape, RunOf, Terminal
  <2> QED
    BY <2>1, <2>2 DEF RunShape
<1>17. QueueShape'
  <2>1. ASSUME NEW u \in Task, u # t PROVE QueuedOf(u)'
    BY <1>1, <1>2, <1>3, <1>4, <1>5, <1>6, <1>7, <1>8, <1>9, <1>10, <2>1 DEF QueueShape, QueuedOf,
        Terminal
  <2>2. QueuedOf(t)'
    BY <1>1, <1>2, <1>3, <1>4, <1>5, <1>6, <1>7, <1>8, <1>9, <1>10 DEF QueueShape, QueuedOf,
        Terminal
  <2> QED
    BY <2>1, <2>2, <1>1, <1>2, <1>3, <1>4, <1>5, <1>6, <1>7, <1>8, <1>9, <1>10 DEF QueueShape
<1>18. HostShape'
  BY <1>1, <1>2, <1>3, <1>4, <1>5, <1>6, <1>7, <1>8, <1>9, <1>10 DEF HostShape
<1>19. TimerShape'
  <2>1. ASSUME NEW u \in Task, u # t PROVE TimerOf(u)'
    BY <1>1, <1>2, <1>3, <1>4, <1>5, <1>6, <1>7, <1>8, <1>9, <1>10, <2>1 DEF TimerShape, TimerOf,
        Terminal
  <2>2. TimerOf(t)'
    BY <1>1, <1>2, <1>3, <1>4, <1>5, <1>6, <1>7, <1>8, <1>9, <1>10 DEF TimerShape, TimerOf, Terminal
  <2> QED
    BY <2>1, <2>2 DEF TimerShape
<1>20. AnswerShape'
  <2>1. ASSUME NEW u \in Task, u # t PROVE AnswerOf(u)'
    BY <1>1, <1>2, <1>3, <1>4, <1>5, <1>6, <1>7, <1>8, <1>9, <1>10, <2>1 DEF AnswerShape,
        AnswerOf, Terminal
  <2>2. AnswerOf(t)'
    BY <1>1, <1>2, <1>3, <1>4, <1>5, <1>6, <1>7, <1>8, <1>9, <1>10 DEF AnswerShape, AnswerOf,
        Terminal
  <2> QED
    BY <2>1, <2>2 DEF AnswerShape
<1>21. ASSUME GapShape PROVE GapShape'
  <2>1. ASSUME NEW u \in Task, u # t PROVE GapOf(u)'
    BY <1>1, <1>2, <1>3, <1>4, <1>5, <1>6, <1>7, <1>8, <1>9, <1>10, <1>21, <2>1 DEF GapShape,
        GapOf, RunShape, RunOf, QueueShape, QueuedOf, Terminal
  <2>2. ASSUME NEW u \in Task, u = t PROVE GapOf(u)'
    BY <1>1, <1>2, <1>3, <1>4, <1>5, <1>6, <1>7, <1>8, <1>9, <1>10, <1>21, <2>2 DEF GapShape,
        GapOf, RunShape, RunOf, QueueShape, QueuedOf, Terminal
  <2>3. host'.at = "preparing" /\ host'.on = None /\ ~host'.cold => MaxResumes > 0
    BY <1>1, <1>2, <1>3, <1>4, <1>5, <1>6, <1>7, <1>8, <1>9, <1>10, <1>21, Constants DEF GapShape
  <2> QED
    BY <2>1, <2>2, <2>3 DEF GapShape
<1>22. ASSUME GapShape, CalmShape PROVE FALSE
  BY <1>22, <1>1 DEF CalmShape, CalmOf, RunShape, RunOf, QueueShape, QueuedOf, Terminal
<1>23. StaysCalm
  BY <1>2, <1>4, <1>5, <1>6, <1>7, <1>8, <1>9, <1>10, <1>21, <1>22 DEF StaysCalm
<1>24. Sheltered
  BY <1>1, <1>2, <1>3, <1>4, <1>5, <1>6, <1>7, <1>8, <1>9, <1>10 DEF Sheltered, RunShape, RunOf,
      QueueShape, QueuedOf, Terminal
<1> QED
  BY <1>15, <1>16, <1>17, <1>18, <1>19, <1>20, <1>11, <1>12, <1>13, <1>14, <1>23, <1>24

\* A run that goes on is queued again.
LEMMA SettlePendingKeeps ==
  ASSUME Inductive, NEW t \in Task, SettlePending(t)
  PROVE  Inductive' /\ StaysCalm /\ Sheltered
<1> USE DEF Inductive
<1>1. /\ stage[t] = "settle" /\ result[t] = "PENDING"
      /\ running' = running \ {t} /\ queue' = Push(queue, t, {})
      /\ stage' = [stage EXCEPT ![t] = "off"]
      /\ result' = [result EXCEPT ![t] = "none"]
  BY DEF SettlePending, Leave, Goto, taskVars, waitVars, tripVars, history
<1>2. UNCHANGED <<status, created, retries, requeues, succeeded, closing, timers,
                  answered, host, counter, tripped, doomed, plan, signalled, budget,
                  everTripped, disposer, announced>>
  BY DEF SettlePending, Leave, Goto, taskVars, waitVars, tripVars, history
<1>3. /\ Created' = Created
      /\ queue' \in Seq(Entry) /\ Once(queue') /\ Queued' = Queued \cup {t}
      /\ \A e \in Entries(queue') : (e \in Entries(queue) \/ e.blocked = {}) /\ e.task \in Queued'
  <2>1. Created' = Created
    BY <1>2 DEF Created
  <2>2. Queued' = Tasks(queue')
    BY DEF Queued, Tasks
  <2>3. t \notin Tasks(queue)
    BY <1>1, QueueIs DEF QueueShape, QueuedOf, RunShape, RunOf
  <2>4. [task |-> t, blocked |-> {} \ succeeded].blocked = {}
    OBVIOUS
  <2> QED
    BY <1>1, <2>1, <2>2, <2>3, <2>4, QueueIs, PushFacts, TasksOfEntries
<1>4. /\ draining' \in BOOLEAN /\ running' \subseteq Task
      /\ t \in Created /\ status[t] \in {"PENDING"} \cup Terminal
  BY <1>1, <1>2, Constants DEF SettlePending, RequestDrain, SetTypes, FlagTypes, RunShape, RunOf,
      TaskShape, Terminal
<1>5. /\ stage' \in [Task -> Stage]
      /\ stage'[t] = "off"
      /\ \A u \in Task : u # t => stage'[u] = stage[u]
  BY <1>4, <1>1 DEF ArrayTypes, Stage
<1>6. /\ result' \in [Task -> Status \cup {"none"}]
      /\ result'[t] = "none"
      /\ \A u \in Task : u # t => result'[u] = result[u]
  BY <1>4, <1>1 DEF ArrayTypes, Status, Terminal, Parked
<1>7. ArrayTypes'
  BY <1>2, <1>3, <1>4, <1>5, <1>6 DEF ArrayTypes
<1>8. SetTypes'
  BY <1>2, <1>3, <1>4, <1>5, <1>6 DEF SetTypes
<1>9. ListTypes'
  BY <1>2, <1>3, <1>4, <1>5, <1>6 DEF ListTypes
<1>10. FlagTypes'
  BY <1>2, <1>3, <1>4, <1>5, <1>6 DEF FlagTypes
<1>11. TaskShape'
  BY <1>1, <1>2, <1>3, <1>4, <1>5, <1>6 DEF TaskShape
<1>12. RunShape'
  <2>1. ASSUME NEW u \in Task, u # t PROVE RunOf(u)'
    BY <1>1, <1>2, <1>3, <1>4, <1>5, <1>6, <2>1 DEF RunShape, RunOf
  <2>2. RunOf(t)'
    BY <1>1, <1>2, <1>3, <1>4, <1>5, <1>6 DEF RunShape, RunOf
  <2> QED
    BY <2>1, <2>2 DEF RunShape
<1>13. QueueShape'
  <2>1. ASSUME NEW u \in Task, u # t PROVE QueuedOf(u)'
    BY <1>1, <1>2, <1>3, <1>4, <1>5, <1>6, <2>1 DEF QueueShape, QueuedOf, RunShape, RunOf, Terminal
  <2>2. QueuedOf(t)'
    BY <1>1, <1>2, <1>3, <1>4, <1>5, <1>6 DEF QueueShape, QueuedOf, RunShape, RunOf, Terminal
  <2> QED
    BY <2>1, <2>2, <1>1, <1>2, <1>3, <1>4, <1>5, <1>6 DEF QueueShape
<1>14. HostShape'
  BY <1>1, <1>2, <1>3, <1>4, <1>5, <1>6 DEF HostShape
<1>15. TimerShape'
  <2>1. ASSUME NEW u \in Task, u # t PROVE TimerOf(u)'
    BY <1>1, <1>2, <1>3, <1>4, <1>5, <1>6, <2>1 DEF TimerShape, TimerOf, Terminal
  <2>2. TimerOf(t)'
    BY <1>1, <1>2, <1>3, <1>4, <1>5, <1>6 DEF TimerShape, TimerOf, Terminal
  <2> QED
    BY <2>1, <2>2 DEF TimerShape
<1>16. AnswerShape'
  <2>1. ASSUME NEW u \in Task, u # t PROVE AnswerOf(u)'
    BY <1>1, <1>2, <1>3, <1>4, <1>5, <1>6, <2>1 DEF AnswerShape, AnswerOf, Terminal
  <2>2. AnswerOf(t)'
    BY <1>1, <1>2, <1>3, <1>4, <1>5, <1>6 DEF AnswerShape, AnswerOf, Terminal
  <2> QED
    BY <2>1, <2>2 DEF AnswerShape
<1>17. ASSUME GapShape PROVE GapShape'
  <2>1. ASSUME NEW u \in Task, u # t PROVE GapOf(u)'
    BY <1>1, <1>2, <1>3, <1>4, <1>5, <1>6, <1>17, <2>1 DEF GapShape, GapOf, RunShape, RunOf,
        QueueShape, QueuedOf, Terminal
  <2>2. ASSUME NEW u \in Task, u = t PROVE GapOf(u)'
    BY <1>1, <1>2, <1>3, <1>4, <1>5, <1>6, <1>17, <2>2 DEF GapShape, GapOf, RunShape, RunOf,
        QueueShape, QueuedOf, Terminal
  <2>3. host'.at = "preparing" /\ host'.on = None /\ ~host'.cold => MaxResumes > 0
    BY <1>1, <1>2, <1>3, <1>4, <1>5, <1>6, <1>17, Constants DEF GapShape
  <2> QED
    BY <2>1, <2>2, <2>3 DEF GapShape
<1>18. ASSUME GapShape, CalmShape PROVE Steady /\ (everTripped' \/ CalmShape')
  <2>1. ASSUME NEW u \in Task, u # t
       PROVE  CalmOf(u)' /\ (status[u] \in Terminal => status'[u] = status[u])
    BY <1>1, <1>2, <1>3, <1>4, <1>5, <1>6, <1>18, <2>1 DEF GapShape, GapOf, CalmShape, CalmOf,
        RunShape, RunOf, QueueShape, QueuedOf, Terminal
  <2>2. ASSUME NEW u \in Task, u = t
       PROVE  CalmOf(u)' /\ (status[u] \in Terminal => status'[u] = status[u])
    BY <1>1, <1>2, <1>3, <1>4, <1>5, <1>6, <1>18, <2>2 DEF GapShape, GapOf, CalmShape, CalmOf,
        RunShape, RunOf, QueueShape, QueuedOf, Terminal
  <2>3. ~tripped' /\ doomed' = {} /\ plan' = NoPlan /\ signalled' = {}
    BY <1>1, <1>2, <1>3, <1>4, <1>5, <1>6, <1>18 DEF CalmShape
  <2>4. Heralded'
    BY <1>1, <1>2, <1>3, <1>4, <1>5, <1>6, <1>18 DEF CalmShape, CalmOf, Heralded, AllOver,
        RunShape, RunOf, QueueShape, QueuedOf, Terminal, TaskShape
  <2> QED
    BY <2>1, <2>2, <2>3, <2>4 DEF Steady, CalmShape
<1>19. StaysCalm
  BY <1>2, <1>4, <1>5, <1>6, <1>17, <1>18 DEF StaysCalm
<1>20. Sheltered
  BY <1>1, <1>2, <1>3, <1>4, <1>5, <1>6 DEF Sheltered, RunShape, RunOf, QueueShape, QueuedOf,
      Terminal
<1> QED
  BY <1>11, <1>12, <1>13, <1>14, <1>15, <1>16, <1>7, <1>8, <1>9, <1>10, <1>19, <1>20

\* The topmost entry that may run is started.
LEMMA DispatchKeeps ==
  ASSUME Inductive, Dispatch
  PROVE  Inductive' /\ StaysCalm
<1> USE DEF Inductive
<1>1. PICK i \in DOMAIN queue :
         /\ MayRun(queue[i]) /\ queue' = Remove(queue, i)
         /\ running' = running \cup {queue[i].task}
         /\ status' = [status EXCEPT ![queue[i].task] = "ACTIVE"]
         /\ stage' = [stage EXCEPT ![queue[i].task] = "assemble"]
         /\ answered' = answered \ {queue[i].task}
         /\ host.at = "idle" /\ announced' = FALSE
  BY DEF Dispatch, Ready
<1>2. queue[i].task \in Task
  BY QueueIs, TasksOfEntries DEF Tasks
<1>3. PICK t \in Task : t = queue[i].task
  BY <1>2
<1>4. /\ t \in Queued \ running /\ host.at = "idle"
      /\ running' = running \cup {t} /\ answered' = answered \ {t} /\ announced' = FALSE
      /\ stage' = [stage EXCEPT ![t] = "assemble"]
      /\ status' = [status EXCEPT ![t] = "ACTIVE"]
  BY <1>1, <1>3 DEF MayRun, Queued
<1>5. UNCHANGED <<created, retries, requeues, succeeded, result, closing, timers, host,
                  counter, tripped, doomed, plan, signalled, budget, everTripped,
                  draining, disposer>>
  BY DEF Dispatch, tripVars, history
<1>6. /\ Created' = Created
      /\ queue' \in Seq(Entry) /\ Once(queue') /\ Queued' = Queued \ {t}
      /\ \A e \in Entries(queue') : (e \in Entries(queue) \/ e.blocked = {}) /\ e.task \in Queued'
  <2>1. Created' = Created
    BY <1>5 DEF Created
  <2>2. Queued' = Tasks(queue')
    BY DEF Queued, Tasks
  <2> QED
    BY <1>1, <1>3, <2>1, <2>2, QueueIs, RemoveFacts, TasksOfEntries
<1>7. /\ running' \subseteq Task
      /\ answered' \subseteq Task \ Unattended
      /\ announced' \in BOOLEAN
  BY <1>4, <1>5, Constants DEF SetTypes
<1>8. /\ stage' \in [Task -> Stage]
      /\ stage'[t] = "assemble"
      /\ \A u \in Task : u # t => stage'[u] = stage[u]
  BY <1>7, <1>4 DEF ArrayTypes, Stage
<1>9. /\ status' \in [Task -> Status]
      /\ status'[t] = "ACTIVE"
      /\ \A u \in Task : u # t => status'[u] = status[u]
  BY <1>7, <1>4 DEF ArrayTypes, Status, Terminal, Parked
<1>10. ArrayTypes'
  BY <1>5, <1>6, <1>7, <1>8, <1>9 DEF ArrayTypes
<1>11. SetTypes'
  BY <1>5, <1>6, <1>7, <1>8, <1>9 DEF SetTypes
<1>12. ListTypes'
  BY <1>5, <1>6, <1>7, <1>8, <1>9 DEF ListTypes
<1>13. FlagTypes'
  BY <1>5, <1>6, <1>7, <1>8, <1>9 DEF FlagTypes
<1>14. TaskShape'
  BY <1>4, <1>5, <1>6, <1>7, <1>8, <1>9 DEF TaskShape, QueueShape
<1>15. RunShape'
  <2>1. ASSUME NEW u \in Task, u # t PROVE RunOf(u)'
    BY <1>4, <1>5, <1>6, <1>7, <1>8, <1>9, <2>1 DEF RunShape, RunOf, Terminal
  <2>2. RunOf(t)'
    BY <1>4, <1>5, <1>6, <1>7, <1>8, <1>9 DEF RunShape, RunOf, Terminal
  <2> QED
    BY <2>1, <2>2 DEF RunShape
<1>16. QueueShape'
  <2>1. ASSUME NEW u \in Task, u # t PROVE QueuedOf(u)'
    BY <1>4, <1>5, <1>6, <1>7, <1>8, <1>9, <2>1 DEF QueueShape, QueuedOf, QueueShape
  <2>2. QueuedOf(t)'
    BY <1>4, <1>5, <1>6, <1>7, <1>8, <1>9 DEF QueueShape, QueuedOf, QueueShape
  <2> QED
    BY <2>1, <2>2, <1>4, <1>5, <1>6, <1>7, <1>8, <1>9 DEF QueueShape
<1>17. HostShape'
  BY <1>4, <1>5, <1>6, <1>7, <1>8, <1>9 DEF HostShape
<1>18. TimerShape'
  BY <1>4, <1>5, <1>6, <1>7, <1>8, <1>9 DEF TimerShape, TimerOf
<1>19. AnswerShape'
  BY <1>4, <1>5, <1>6, <1>7, <1>8, <1>9 DEF AnswerShape, AnswerOf
<1>20. ASSUME GapShape PROVE GapShape'
  <2>1. ASSUME NEW u \in Task, u # t PROVE GapOf(u)'
    BY <1>4, <1>5, <1>6, <1>7, <1>8, <1>9, <1>20, <2>1 DEF GapShape, GapOf, RunShape, RunOf,
        QueueShape, QueuedOf, Terminal
  <2>2. ASSUME NEW u \in Task, u = t PROVE GapOf(u)'
    BY <1>4, <1>5, <1>6, <1>7, <1>8, <1>9, <1>20, <2>2 DEF GapShape, GapOf, RunShape, RunOf,
        QueueShape, QueuedOf, Terminal
  <2>3. host'.at = "preparing" /\ host'.on = None /\ ~host'.cold => MaxResumes > 0
    BY <1>4, <1>5, <1>6, <1>7, <1>8, <1>9, <1>20, Constants DEF GapShape
  <2> QED
    BY <2>1, <2>2, <2>3 DEF GapShape
<1>21. ASSUME GapShape, CalmShape PROVE Steady /\ (everTripped' \/ CalmShape')
  <2>1. ASSUME NEW u \in Task, u # t
       PROVE  CalmOf(u)' /\ (status[u] \in Terminal => status'[u] = status[u])
    BY <1>4, <1>5, <1>6, <1>7, <1>8, <1>9, <1>21, <2>1 DEF GapShape, GapOf, CalmShape, CalmOf,
        RunShape, RunOf, QueueShape, QueuedOf, Terminal, HostShape
  <2>2. ASSUME NEW u \in Task, u = t
       PROVE  CalmOf(u)' /\ (status[u] \in Terminal => status'[u] = status[u])
    BY <1>4, <1>5, <1>6, <1>7, <1>8, <1>9, <1>21, <2>2 DEF GapShape, GapOf, CalmShape, CalmOf,
        RunShape, RunOf, QueueShape, QueuedOf, Terminal, HostShape
  <2>3. ~tripped' /\ doomed' = {} /\ plan' = NoPlan /\ signalled' = {}
    BY <1>4, <1>5, <1>6, <1>7, <1>8, <1>9, <1>21 DEF CalmShape
  <2>4. Heralded'
    BY <1>4, <1>5, <1>6, <1>7, <1>8, <1>9, <1>21 DEF CalmShape, CalmOf, Heralded, AllOver,
        RunShape, RunOf, QueueShape, QueuedOf, Terminal, TaskShape
  <2> QED
    BY <2>1, <2>2, <2>3, <2>4 DEF Steady, CalmShape
<1>22. StaysCalm
  BY <1>5, <1>7, <1>8, <1>9, <1>20, <1>21 DEF StaysCalm
<1> QED
  BY <1>14, <1>15, <1>16, <1>17, <1>18, <1>19, <1>10, <1>11, <1>12, <1>13, <1>22

\* The threshold cancels a task.
LEMMA TripCancelKeeps ==
  ASSUME Inductive, NEW t \in Task, TripCancel(t)
  PROVE  Inductive' /\ StaysCalm /\ Sheltered
<1> USE DEF Inductive
<1>1. PICK v \in plan.cancel :
         /\ status' = IF status[v] \in Terminal THEN status ELSE [status EXCEPT ![v] = "CANCELED"]
         /\ queue' = CancelEntry(queue, v) /\ plan' = [plan EXCEPT !.cancel = @ \ {v}]
         /\ stage[t] = "trip"
  BY DEF TripCancel
<1>2. UNCHANGED <<created, retries, requeues, succeeded, running, stage, result,
                  closing, timers, answered, host, counter, tripped, doomed, signalled,
                  budget, everTripped, draining, disposer, announced>>
  BY DEF TripCancel, runVars, waitVars, history
<1>3. v \in Task /\ v \in Created
  BY <1>1 DEF FlagTypes, PlanType, TaskShape
<1>4. /\ Created' = Created
      /\ queue' \in Seq(Entry) /\ Once(queue') /\ Queued' = Queued \ {v}
      /\ \A e \in Entries(queue') : (e \in Entries(queue) \/ e.blocked = {}) /\ e.task \in Queued'
  <2>1. Created' = Created
    BY <1>2 DEF Created
  <2>2. Queued' = Tasks(queue')
    BY DEF Queued, Tasks
  <2>3. /\ queue' \in Seq(Entry) /\ Once(queue') /\ Tasks(queue') = Queued \ {v}
        /\ Entries(queue') \subseteq Entries(queue)
    BY <1>1, <1>3, QueueIs, CancelFacts
  <2> QED
    BY <2>1, <2>2, <2>3, TasksOfEntries
<1>5. /\ plan' \in PlanType
      /\ plan'.cancel \subseteq plan.cancel /\ plan'.roots = plan.roots
  BY <1>2, Constants, <1>1 DEF FlagTypes, PlanType
<1>6. /\ status' \in [Task -> Status]
      /\ \A u \in Task : u # v => status'[u] = status[u]
      /\ status'[v] \in Terminal /\ status[v] # "new"
  BY <1>2, <1>5, Constants, <1>1, <1>3 DEF ArrayTypes, Status, Terminal, TaskShape
<1>7. ArrayTypes'
  BY <1>2, <1>4, <1>5, <1>6 DEF ArrayTypes
<1>8. SetTypes'
  BY <1>2, <1>4, <1>5, <1>6 DEF SetTypes
<1>9. ListTypes'
  BY <1>2, <1>4, <1>5, <1>6 DEF ListTypes
<1>10. FlagTypes'
  BY <1>2, <1>4, <1>5, <1>6 DEF FlagTypes
<1>11. TaskShape'
  BY <1>2, <1>4, <1>5, <1>6, <1>1, <1>3 DEF TaskShape
<1>12. RunShape'
  <2>1. ASSUME NEW u \in Task, u # v PROVE RunOf(u)'
    BY <1>2, <1>4, <1>5, <1>6, <1>1, <1>3, <2>1 DEF RunShape, RunOf, Terminal
  <2>2. ASSUME NEW u \in Task, u = v PROVE RunOf(u)'
    BY <1>2, <1>4, <1>5, <1>6, <1>1, <1>3, <2>2 DEF RunShape, RunOf, Terminal
  <2> QED
    BY <2>1, <2>2 DEF RunShape
<1>13. QueueShape'
  <2>1. ASSUME NEW u \in Task, u # v PROVE QueuedOf(u)'
    BY <1>2, <1>4, <1>5, <1>6, <1>1, <1>3, <2>1 DEF QueueShape, QueuedOf, Terminal
  <2>2. ASSUME NEW u \in Task, u = v PROVE QueuedOf(u)'
    BY <1>2, <1>4, <1>5, <1>6, <1>1, <1>3, <2>2 DEF QueueShape, QueuedOf, Terminal
  <2> QED
    BY <2>1, <2>2, <1>2, <1>4, <1>5, <1>6, <1>1, <1>3 DEF QueueShape
<1>14. HostShape'
  BY <1>2, <1>4, <1>5, <1>6, <1>1, <1>3 DEF HostShape
<1>15. TimerShape'
  <2>1. ASSUME NEW u \in Task, u # v PROVE TimerOf(u)'
    BY <1>2, <1>4, <1>5, <1>6, <1>1, <1>3, <2>1 DEF TimerShape, TimerOf, Terminal
  <2>2. ASSUME NEW u \in Task, u = v PROVE TimerOf(u)'
    BY <1>2, <1>4, <1>5, <1>6, <1>1, <1>3, <2>2 DEF TimerShape, TimerOf, Terminal
  <2> QED
    BY <2>1, <2>2 DEF TimerShape
<1>16. AnswerShape'
  <2>1. ASSUME NEW u \in Task, u # v PROVE AnswerOf(u)'
    BY <1>2, <1>4, <1>5, <1>6, <1>1, <1>3, <2>1 DEF AnswerShape, AnswerOf, Terminal
  <2>2. ASSUME NEW u \in Task, u = v PROVE AnswerOf(u)'
    BY <1>2, <1>4, <1>5, <1>6, <1>1, <1>3, <2>2 DEF AnswerShape, AnswerOf, Terminal
  <2> QED
    BY <2>1, <2>2 DEF AnswerShape
<1>17. ASSUME GapShape PROVE GapShape'
  <2>1. ASSUME NEW u \in Task, u # v PROVE GapOf(u)'
    BY <1>2, <1>4, <1>5, <1>6, <1>1, <1>3, <1>17, <2>1 DEF GapShape, GapOf, RunShape, RunOf,
        QueueShape, QueuedOf, Terminal
  <2>2. ASSUME NEW u \in Task, u = v PROVE GapOf(u)'
    BY <1>2, <1>4, <1>5, <1>6, <1>1, <1>3, <1>17, <2>2 DEF GapShape, GapOf, RunShape, RunOf,
        QueueShape, QueuedOf, Terminal
  <2>3. host'.at = "preparing" /\ host'.on = None /\ ~host'.cold => MaxResumes > 0
    BY <1>2, <1>4, <1>5, <1>6, <1>1, <1>3, <1>17, Constants DEF GapShape
  <2> QED
    BY <2>1, <2>2, <2>3 DEF GapShape
<1>18. ASSUME GapShape, CalmShape PROVE FALSE
  BY <1>18, <1>1, <1>3 DEF CalmShape, CalmOf, RunShape, RunOf, QueueShape, QueuedOf, Terminal
<1>19. StaysCalm
  BY <1>2, <1>5, <1>6, <1>17, <1>18 DEF StaysCalm
<1>20. Sheltered
  BY <1>2, <1>4, <1>5, <1>6, <1>1, <1>3 DEF Sheltered, RunShape, RunOf, QueueShape, QueuedOf,
      Terminal
<1> QED
  BY <1>11, <1>12, <1>13, <1>14, <1>15, <1>16, <1>7, <1>8, <1>9, <1>10, <1>19, <1>20

\* The end of a task wakes its parent.
LEMMA WakeKeeps ==
  ASSUME Inductive, NEW t \in Task, Wake(t)
  PROVE  Inductive' /\ StaysCalm /\ Sheltered
<1> USE DEF Inductive
<1> DEFINE W == Woken(status, t)
<1>1. /\ stage[t] = "wake"
      /\ status' = Awoken(status, t) /\ queue' = WithParent(queue, status, t)
      /\ closing' = closing \cup {<<t, "finished">>}
      /\ stage' = [stage EXCEPT ![t] = "off"]
      /\ result' = [result EXCEPT ![t] = "none"]
  BY DEF Wake, Leave, Goto, waitVars, tripVars, history
<1>2. UNCHANGED <<created, retries, requeues, succeeded, running, timers, answered,
                  host, counter, tripped, doomed, plan, signalled, budget, everTripped,
                  disposer, announced>>
  BY DEF Wake, Leave, Goto, waitVars, tripVars, history
<1>3. /\ W \cap Tasks(queue) = {} /\ W \subseteq Created /\ W \subseteq Task
      /\ \A u \in W : status[u] = "SUSPENDED" /\ u # t
  <2>1. W \subseteq Created /\ W \subseteq Task /\ \A u \in W : status[u] = "SUSPENDED"
    BY CreatedIsTask DEF Woken
  <2> QED
    BY <1>1, <2>1, QueueIs DEF QueueShape, QueuedOf, RunShape, RunOf, Terminal
<1>4. /\ Created' = Created
      /\ queue' \in Seq(Entry) /\ Once(queue') /\ Queued' = Queued \cup W
      /\ \A e \in Entries(queue') : (e \in Entries(queue) \/ e.blocked = {}) /\ e.task \in Queued'
  <2>1. Created' = Created
    BY <1>2 DEF Created
  <2>2. Queued' = Tasks(queue')
    BY DEF Queued, Tasks
  <2> QED
    BY <1>1, <1>3, <2>1, <2>2, QueueIs, WithParentFacts, TasksOfEntries
<1> HIDE DEF W
<1>5. /\ draining' \in BOOLEAN
      /\ closing' \subseteq (Task \cup {Host}) \X TailKind
  BY <1>1, <1>2, Constants DEF SetTypes, FlagTypes, TailKind, Wake, RequestDrain
<1>6. /\ status' \in [Task -> Status]
      /\ \A u \in Task : status'[u] = IF u \in W THEN "PENDING" ELSE status[u]
  BY <1>1, <1>2, <1>5, Constants DEF ArrayTypes, Status, Awoken, W
<1>7. /\ \A u \in W : u # t /\ status[u] = "SUSPENDED" /\ u \in Created /\ u \in Task
  BY <1>1, <1>2, <1>5, <1>6, Constants, <1>3
<1>8. /\ stage' \in [Task -> Stage]
      /\ stage'[t] = "off"
      /\ \A u \in Task : u # t => stage'[u] = stage[u]
  BY <1>5, <1>6, <1>7, <1>1 DEF ArrayTypes, Stage
<1>9. /\ result' \in [Task -> Status \cup {"none"}]
      /\ result'[t] = "none"
      /\ \A u \in Task : u # t => result'[u] = result[u]
  BY <1>5, <1>6, <1>7, <1>1 DEF ArrayTypes, Status, Terminal, Parked
<1>10. ArrayTypes'
  BY <1>2, <1>4, <1>5, <1>6, <1>7, <1>8, <1>9 DEF ArrayTypes
<1>11. SetTypes'
  BY <1>2, <1>4, <1>5, <1>6, <1>7, <1>8, <1>9 DEF SetTypes
<1>12. ListTypes'
  BY <1>2, <1>4, <1>5, <1>6, <1>7, <1>8, <1>9 DEF ListTypes
<1>13. FlagTypes'
  BY <1>2, <1>4, <1>5, <1>6, <1>7, <1>8, <1>9 DEF FlagTypes
<1>14. TaskShape'
  BY <1>1, <1>2, <1>4, <1>5, <1>6, <1>7, <1>8, <1>9 DEF TaskShape
<1>15. RunShape'
  <2>1. ASSUME NEW u \in Task, u \notin W, u # t PROVE RunOf(u)'
    BY <1>1, <1>2, <1>4, <1>5, <1>6, <1>7, <1>8, <1>9, <2>1 DEF RunShape, RunOf, Terminal
  <2>2. ASSUME NEW u \in Task, u \in W PROVE RunOf(u)'
    BY <1>1, <1>2, <1>4, <1>5, <1>6, <1>7, <1>8, <1>9, <2>2 DEF RunShape, RunOf, Terminal
  <2>3. ASSUME NEW u \in Task, u = t, u \notin W PROVE RunOf(u)'
    BY <1>1, <1>2, <1>4, <1>5, <1>6, <1>7, <1>8, <1>9, <2>3 DEF RunShape, RunOf, Terminal
  <2> QED
    BY <2>1, <2>2, <2>3 DEF RunShape
<1>16. QueueShape'
  <2>1. ASSUME NEW u \in Task, u \notin W, u # t PROVE QueuedOf(u)'
    BY <1>1, <1>2, <1>4, <1>5, <1>6, <1>7, <1>8, <1>9, <2>1 DEF QueueShape, QueuedOf, Terminal,
        RunShape, RunOf
  <2>2. ASSUME NEW u \in Task, u \in W PROVE QueuedOf(u)'
    BY <1>1, <1>2, <1>4, <1>5, <1>6, <1>7, <1>8, <1>9, <2>2 DEF QueueShape, QueuedOf, Terminal,
        RunShape, RunOf
  <2>3. ASSUME NEW u \in Task, u = t, u \notin W PROVE QueuedOf(u)'
    BY <1>1, <1>2, <1>4, <1>5, <1>6, <1>7, <1>8, <1>9, <2>3 DEF QueueShape, QueuedOf, Terminal,
        RunShape, RunOf
  <2> QED
    BY <2>1, <2>2, <2>3, <1>1, <1>2, <1>4, <1>5, <1>6, <1>7, <1>8, <1>9 DEF QueueShape
<1>17. HostShape'
  BY <1>1, <1>2, <1>4, <1>5, <1>6, <1>7, <1>8, <1>9 DEF HostShape
<1>18. TimerShape'
  <2>1. ASSUME NEW u \in Task, u \notin W, u # t PROVE TimerOf(u)'
    BY <1>1, <1>2, <1>4, <1>5, <1>6, <1>7, <1>8, <1>9, <2>1 DEF TimerShape, TimerOf
  <2>2. ASSUME NEW u \in Task, u \in W PROVE TimerOf(u)'
    BY <1>1, <1>2, <1>4, <1>5, <1>6, <1>7, <1>8, <1>9, <2>2 DEF TimerShape, TimerOf
  <2>3. ASSUME NEW u \in Task, u = t, u \notin W PROVE TimerOf(u)'
    BY <1>1, <1>2, <1>4, <1>5, <1>6, <1>7, <1>8, <1>9, <2>3 DEF TimerShape, TimerOf
  <2> QED
    BY <2>1, <2>2, <2>3 DEF TimerShape
<1>19. AnswerShape'
  <2>1. ASSUME NEW u \in Task, u \notin W, u # t PROVE AnswerOf(u)'
    BY <1>1, <1>2, <1>4, <1>5, <1>6, <1>7, <1>8, <1>9, <2>1 DEF AnswerShape, AnswerOf
  <2>2. ASSUME NEW u \in Task, u \in W PROVE AnswerOf(u)'
    BY <1>1, <1>2, <1>4, <1>5, <1>6, <1>7, <1>8, <1>9, <2>2 DEF AnswerShape, AnswerOf
  <2>3. ASSUME NEW u \in Task, u = t, u \notin W PROVE AnswerOf(u)'
    BY <1>1, <1>2, <1>4, <1>5, <1>6, <1>7, <1>8, <1>9, <2>3 DEF AnswerShape, AnswerOf
  <2> QED
    BY <2>1, <2>2, <2>3 DEF AnswerShape
<1>20. \A u \in W : stage[u] \in {"off", "flush", "settle"}
  BY <1>3, StageFacts
<1>21. ASSUME GapShape PROVE GapShape'
  <2>1. ASSUME NEW u \in Task, u \notin W, u # t PROVE GapOf(u)'
    BY <1>1, <1>2, <1>4, <1>5, <1>6, <1>7, <1>8, <1>9, <1>20, <1>21, <2>1 DEF GapShape, GapOf,
        RunShape, RunOf, QueueShape, QueuedOf, Terminal
  <2>2. ASSUME NEW u \in Task, u \in W PROVE GapOf(u)'
    BY <1>1, <1>2, <1>4, <1>5, <1>6, <1>7, <1>8, <1>9, <1>20, <1>21, <2>2 DEF GapShape, GapOf,
        RunShape, RunOf, QueueShape, QueuedOf, Terminal
  <2>3. ASSUME NEW u \in Task, u = t, u \notin W PROVE GapOf(u)'
    BY <1>1, <1>2, <1>4, <1>5, <1>6, <1>7, <1>8, <1>9, <1>20, <1>21, <2>3 DEF GapShape, GapOf,
        RunShape, RunOf, QueueShape, QueuedOf, Terminal
  <2>4. host'.at = "preparing" /\ host'.on = None /\ ~host'.cold => MaxResumes > 0
    BY <1>1, <1>2, <1>4, <1>5, <1>6, <1>7, <1>8, <1>9, <1>20, <1>21, Constants DEF GapShape
  <2> QED
    BY <2>1, <2>2, <2>3, <2>4 DEF GapShape
<1>22. ASSUME GapShape, CalmShape PROVE Steady /\ (everTripped' \/ CalmShape')
  <2>1. ASSUME NEW u \in Task, u \notin W, u # t
       PROVE  CalmOf(u)' /\ (status[u] \in Terminal => status'[u] = status[u])
    BY <1>1, <1>2, <1>4, <1>5, <1>6, <1>7, <1>8, <1>9, <1>20, <1>22, <2>1 DEF GapShape, GapOf,
        CalmShape, CalmOf, RunShape, RunOf, QueueShape, QueuedOf, Terminal
  <2>2. ASSUME NEW u \in Task, u \in W
       PROVE  CalmOf(u)' /\ (status[u] \in Terminal => status'[u] = status[u])
    BY <1>1, <1>2, <1>4, <1>5, <1>6, <1>7, <1>8, <1>9, <1>20, <1>22, <2>2 DEF GapShape, GapOf,
        CalmShape, CalmOf, RunShape, RunOf, QueueShape, QueuedOf, Terminal
  <2>3. ASSUME NEW u \in Task, u = t, u \notin W
       PROVE  CalmOf(u)' /\ (status[u] \in Terminal => status'[u] = status[u])
    BY <1>1, <1>2, <1>4, <1>5, <1>6, <1>7, <1>8, <1>9, <1>20, <1>22, <2>3 DEF GapShape, GapOf,
        CalmShape, CalmOf, RunShape, RunOf, QueueShape, QueuedOf, Terminal
  <2>4. ~tripped' /\ doomed' = {} /\ plan' = NoPlan /\ signalled' = {}
    BY <1>1, <1>2, <1>4, <1>5, <1>6, <1>7, <1>8, <1>9, <1>20, <1>22 DEF CalmShape
  <2>5. Heralded'
    BY <1>1, <1>2, <1>4, <1>5, <1>6, <1>7, <1>8, <1>9, <1>20, <1>22 DEF CalmShape, CalmOf,
        Heralded, AllOver, RunShape, RunOf, QueueShape, QueuedOf, Terminal
  <2> QED
    BY <2>1, <2>2, <2>3, <2>4, <2>5 DEF Steady, CalmShape
<1>23. StaysCalm
  BY <1>2, <1>5, <1>6, <1>7, <1>8, <1>9, <1>21, <1>22 DEF StaysCalm
<1>24. Sheltered
  BY <1>1, <1>2, <1>4, <1>5, <1>6, <1>7, <1>8, <1>9, <1>20 DEF Sheltered, RunShape, RunOf,
      QueueShape, QueuedOf, Terminal
<1> QED
  BY <1>14, <1>15, <1>16, <1>17, <1>18, <1>19, <1>10, <1>11, <1>12, <1>13, <1>23, <1>24

\* The tasks of B, which are idle, are put back into the queue.
Back(B) ==
  /\ B \subseteq Created \ (running \cup Queued)
  /\ \A u \in B : u \in Task /\ status[u] \notin Terminal
  /\ queue' \in Seq(Entry) /\ Once(queue') /\ Queued' = Queued \cup B
  /\ \A e \in Entries(queue') :
       (e \in Entries(queue) \/ e.task \notin running) /\ e.task \in Queued'
  /\ status' \in [Task -> Status]
  /\ \A u \in Task : status'[u] = IF u \in B THEN "PENDING" ELSE status[u]
  /\ retries' \in [Task -> 0..MaxRetries]

\* A single task.
LEMMA BackOne ==
  ASSUME Inductive, NEW t \in Task, Idle(t), BackInQueue(t)
  PROVE  Back({t})
<1> USE DEF Inductive
<1>1. t \in Created \ (running \cup Queued) /\ status[t] \notin Terminal
  BY DEF Idle
<1>2. /\ status' = [status EXCEPT ![t] = "PENDING"] /\ retries' = [retries EXCEPT ![t] = 0]
      /\ queue' = Push(queue, t, {})
  BY DEF BackInQueue
<1>3. Queued' = Tasks(queue')
  BY DEF Queued, Tasks
<1>4. /\ queue' \in Seq(Entry) /\ Once(queue') /\ Queued' = Queued \cup {t}
      /\ Entries(queue') = Entries(queue) \cup {[task |-> t, blocked |-> {} \ succeeded]}
  BY <1>1, <1>2, <1>3, QueueIs, PushFacts
<1>5. \A e \in Entries(queue') :
        (e \in Entries(queue) \/ e.task \notin running) /\ e.task \in Queued'
  <2>1. ASSUME NEW e \in Entries(queue') PROVE e \in Entries(queue) \/ e.task = t
    BY <1>4
  <2>2. ASSUME NEW e \in Entries(queue') PROVE e.task \in Queued'
    <3>1. Tasks(queue') = {x.task : x \in Entries(queue')}
      BY <1>4, TasksOfEntries
    <3> QED
      BY <1>3, <3>1
  <2> QED
    BY <1>1, <2>1, <2>2
<1>6. /\ status' \in [Task -> Status]
      /\ \A u \in Task : status'[u] = IF u \in {t} THEN "PENDING" ELSE status[u]
  BY <1>2 DEF ArrayTypes, Status
<1>7. retries' \in [Task -> 0..MaxRetries]
  BY <1>2, Constants DEF ArrayTypes
<1> QED
  BY <1>1, <1>4, <1>5, <1>6, <1>7 DEF Back

\* None at all.
LEMMA BackNone ==
  ASSUME Inductive, UNCHANGED <<status, retries, queue>>
  PROVE  Back({})
<1> USE DEF Inductive
<1>1. Queued' = Queued
  BY DEF Queued
<1>2. \A e \in Entries(queue) : e.task \in Queued
  BY QueueIs, TasksOfEntries
<1> QED
  BY <1>1, <1>2 DEF Back, ListTypes, QueueShape, ArrayTypes

\* All that requeue_resumable finds.
LEMMA BackAll ==
  ASSUME Inductive, RequeueResumable
  PROVE  /\ Back({t \in Created : Resumable(t)})
         /\ \A e \in Entries(queue') :
              \/ e \in Entries(queue)
              \/ /\ e.task \in {t \in Created : Resumable(t)}
                 /\ e.blocked = StillOpen(e.task) \ succeeded
<1> USE DEF Inductive
<1> DEFINE B == {t \in Created : Resumable(t)}
           row(s) == [i \in DOMAIN s |-> [task |-> s[i], blocked |-> StillOpen(s[i]) \ succeeded]]
<1>1. B \subseteq Task /\ B \subseteq Created \ (running \cup Queued)
    /\ \A u \in B : status[u] \notin Terminal
  BY CreatedIsTask DEF Resumable, Idle
<1>2. PICK s \in Listed(B) :
        /\ queue' = queue \o row(s)
        /\ status' = [t \in Task |-> IF Resumable(t) THEN "PENDING" ELSE status[t]]
        /\ retries' = [t \in Task |-> IF Resumable(t) THEN 0 ELSE retries[t]]
  BY DEF RequeueResumable
<1>3. \A u \in Task : Resumable(u) <=> u \in B
  BY DEF Resumable, Idle
<1>4. IsFiniteSet(B) /\ Cardinality(B) \in Nat
  BY FS_Subset, FS_CardinalityType DEF ListTypes
<1> HIDE DEF B
<1>5. /\ s \in [1..Cardinality(B) -> B] /\ \A u \in B : \E i \in DOMAIN s : s[i] = u
      /\ \A i, j \in DOMAIN s, a, b \in DOMAIN created :
           i < j /\ created[a] = s[i] /\ created[b] = s[j] => a < b
  BY <1>2 DEF Listed
<1>6. DOMAIN s = 1..Cardinality(B) /\ \A i \in DOMAIN s : s[i] \in B
  BY <1>5
<1>7. \A i, j \in DOMAIN s : s[i] = s[j] => i = j
  <2>1. ASSUME NEW i \in DOMAIN s, NEW j \in DOMAIN s, s[i] = s[j], i < j PROVE FALSE
    <3>1. PICK a \in DOMAIN created : created[a] = s[i]
      BY <1>1, <1>6 DEF Created
    <3>2. a < a
      BY <1>5, <2>1, <3>1
    <3>3. a \in Nat
      BY DEF ListTypes
    <3> QED
      BY <3>2, <3>3
  <2> QED
    BY <1>4, <1>6, <2>1
<1> DEFINE p == row(s)
<1>8. /\ DOMAIN p = 1..Cardinality(B) /\ \A i \in DOMAIN p : p[i] \in Entry /\ p[i].task = s[i]
      /\ \A i \in DOMAIN p : p[i].blocked = StillOpen(p[i].task) \ succeeded
  <2>1. \A u \in B : StillOpen(u) \in SUBSET Task
    BY <1>1, Constants DEF StillOpen
  <2> QED
    BY <1>1, <1>6, <2>1 DEF Entry
<1>9. p = [i \in 1..Cardinality(B) |-> p[i]]
  BY <1>6
<1>10. queue' = queue \o p
  BY <1>2
<1> HIDE DEF p
<1>11. p \in Seq(Entry)
  BY <1>4, <1>8, <1>9
<1>12. Once(p) /\ Tasks(p) = B
  BY <1>5, <1>6, <1>7, <1>8 DEF Once, Tasks
<1>13. Tasks(queue) \cap Tasks(p) = {}
  BY <1>1, <1>12, QueueIs
<1>14. Queued' = Tasks(queue')
  BY DEF Queued, Tasks
<1>15. /\ queue' \in Seq(Entry) /\ Once(queue') /\ Queued' = Queued \cup B
       /\ Entries(queue') = Entries(queue) \cup Entries(p)
  BY <1>10, <1>11, <1>12, <1>13, <1>14, QueueIs, ConcatFacts
<1>16. \A e \in Entries(queue') :
         (e \in Entries(queue) \/ e.task \notin running) /\ e.task \in Queued'
  <2>1. \A e \in Entries(p) : e.task \in B
    BY <1>11, <1>12, TasksOfEntries
  <2>2. \A e \in Entries(queue') : e.task \in Queued'
    BY <1>14, <1>15, TasksOfEntries
  <2> QED
    BY <1>1, <1>15, <2>1, <2>2
<1>17. /\ status' \in [Task -> Status]
       /\ \A u \in Task : status'[u] = IF u \in B THEN "PENDING" ELSE status[u]
  BY <1>2, <1>3 DEF ArrayTypes, Status
<1>18. retries' \in [Task -> 0..MaxRetries]
  BY <1>2, Constants DEF ArrayTypes
<1>19. Back(B)
  BY <1>1, <1>15, <1>16, <1>17, <1>18 DEF Back
<1>20. \A e \in Entries(p) : e.task \in B /\ e.blocked = StillOpen(e.task) \ succeeded
  BY <1>6, <1>8 DEF Entries
<1> QED
  BY <1>15, <1>19, <1>20 DEF B

\* What follows a drain.
LEMMA CloseKeeps ==
  ASSUME Inductive, NEW w \in Task \cup {Host}, NEW tail \in TailKind, Close(w, tail)
  PROVE  Inductive' /\ StaysCalm /\ Sheltered
<1> USE DEF Inductive
<1>1. /\ closing' = closing \ {<<w, tail>>}
  BY DEF Close, waitVars, tripVars, history
<1>2. UNCHANGED <<created, requeues, succeeded, running, stage, result, timers,
                  answered, host, counter, tripped, doomed, plan, signalled, budget,
                  everTripped, disposer>>
  BY DEF Close, waitVars, tripVars, history
<1>3. PICK B : /\ Back(B)
               /\ w \in answered /\ status[w] = "AWAITING_HUMAN" /\ tail = "parked" =>
                    (w \in B \/ ~Idle(w))
               /\ B \subseteq {w} /\ \A u \in B : u \notin Unattended
  <2>1. CASE AnsweredMeanwhile(w, tail)
    <3>1. w \in Task
      BY <2>1 DEF AnsweredMeanwhile, SetTypes
    <3>2. Back({w})
      BY <2>1, <3>1, BackOne DEF Close, AnsweredMeanwhile
    <3>3. w \notin Unattended
      BY <2>1 DEF AnsweredMeanwhile, SetTypes
    <3> QED
      BY <3>2, <3>3
  <2>2. CASE ~AnsweredMeanwhile(w, tail)
    <3>1. Back({})
      BY <2>2, BackNone DEF Close
    <3> QED
      BY <2>2, <3>1 DEF AnsweredMeanwhile
  <2> QED
    BY <2>1, <2>2
<1>4. /\ Created' = Created /\ B \subseteq Created \ (running \cup Queued)
      /\ \A u \in B : u \in Task /\ status[u] \notin Terminal
      /\ queue' \in Seq(Entry) /\ Once(queue') /\ Queued' = Queued \cup B
      /\ \A e \in Entries(queue') :
           (e \in Entries(queue) \/ e.task \notin running) /\ e.task \in Queued'
      /\ status' \in [Task -> Status]
      /\ \A u \in Task : status'[u] = IF u \in B THEN "PENDING" ELSE status[u]
      /\ retries' \in [Task -> 0..MaxRetries]
  BY <1>2, <1>3 DEF Created, Back
<1>5. /\ closing' \subseteq closing
  BY <1>1, <1>2, Constants DEF SetTypes
<1>6. /\ draining' \in BOOLEAN /\ announced' \in BOOLEAN
  BY <1>1, <1>2, <1>5, Constants DEF Close, FlagTypes, Announces, RequestDrain
<1>7. /\ ~(host.at = "preparing" /\ host.cold)
  BY <1>1, <1>2, <1>5, <1>6, Constants DEF Close, HostShape
<1>8. ArrayTypes'
  BY <1>2, <1>4, <1>5, <1>6, <1>7 DEF ArrayTypes
<1>9. SetTypes'
  BY <1>2, <1>4, <1>5, <1>6, <1>7 DEF SetTypes
<1>10. ListTypes'
  BY <1>2, <1>4, <1>5, <1>6, <1>7 DEF ListTypes
<1>11. FlagTypes'
  BY <1>2, <1>4, <1>5, <1>6, <1>7 DEF FlagTypes
<1>12. TaskShape'
  BY <1>1, <1>2, <1>4, <1>5, <1>6, <1>7, <1>3 DEF TaskShape, Terminal
<1>13. RunShape'
  <2>1. ASSUME NEW u \in Task, u \notin B PROVE RunOf(u)'
    BY <1>1, <1>2, <1>4, <1>5, <1>6, <1>7, <1>3, <2>1 DEF RunShape, RunOf, Terminal
  <2>2. ASSUME NEW u \in Task, u \in B PROVE RunOf(u)'
    BY <1>1, <1>2, <1>4, <1>5, <1>6, <1>7, <1>3, <2>2 DEF RunShape, RunOf, Terminal
  <2> QED
    BY <2>1, <2>2 DEF RunShape
<1>14. QueueShape'
  <2>1. ASSUME NEW u \in Task, u \notin B PROVE QueuedOf(u)'
    BY <1>1, <1>2, <1>4, <1>5, <1>6, <1>7, <1>3, <2>1 DEF QueueShape, QueuedOf, Terminal
  <2>2. ASSUME NEW u \in Task, u \in B PROVE QueuedOf(u)'
    BY <1>1, <1>2, <1>4, <1>5, <1>6, <1>7, <1>3, <2>2 DEF QueueShape, QueuedOf, Terminal
  <2> QED
    BY <2>1, <2>2, <1>1, <1>2, <1>4, <1>5, <1>6, <1>7, <1>3 DEF QueueShape
<1>15. HostShape'
  BY <1>1, <1>2, <1>4, <1>5, <1>6, <1>7, <1>3 DEF HostShape
<1>16. TimerShape'
  <2>1. ASSUME NEW u \in Task, u \notin B PROVE TimerOf(u)'
    BY <1>1, <1>2, <1>4, <1>5, <1>6, <1>7, <1>3, <2>1 DEF TimerShape, TimerOf, Terminal
  <2>2. ASSUME NEW u \in Task, u \in B PROVE TimerOf(u)'
    BY <1>1, <1>2, <1>4, <1>5, <1>6, <1>7, <1>3, <2>2 DEF TimerShape, TimerOf, Terminal
  <2> QED
    BY <2>1, <2>2 DEF TimerShape
<1>17. AnswerShape'
  <2>1. ASSUME NEW u \in Task, u \notin B PROVE AnswerOf(u)'
    BY <1>1, <1>2, <1>4, <1>5, <1>6, <1>7, <1>3, <2>1 DEF AnswerShape, AnswerOf, Terminal, Idle,
        QueueShape, QueuedOf, RunShape, RunOf, TaskShape, Parked
  <2>2. ASSUME NEW u \in Task, u \in B PROVE AnswerOf(u)'
    BY <1>1, <1>2, <1>4, <1>5, <1>6, <1>7, <1>3, <2>2 DEF AnswerShape, AnswerOf, Terminal, Idle,
        QueueShape, QueuedOf, RunShape, RunOf, TaskShape, Parked
  <2> QED
    BY <2>1, <2>2 DEF AnswerShape
<1>18. AllOver' => AllOver
  BY <1>4, CreatedIsTask DEF AllOver, Terminal
<1>19. \A u \in B : stage[u] = "off"
  BY <1>3, <1>4, StageFacts
<1>20. ASSUME GapShape PROVE GapShape'
  <2>1. ASSUME NEW u \in Task, u \notin B PROVE GapOf(u)'
    BY <1>1, <1>2, <1>4, <1>5, <1>6, <1>7, <1>3, <1>18, <1>19, <1>20, <2>1 DEF GapShape, GapOf,
        RunShape, RunOf, QueueShape, QueuedOf, Terminal
  <2>2. ASSUME NEW u \in Task, u \in B PROVE GapOf(u)'
    BY <1>1, <1>2, <1>4, <1>5, <1>6, <1>7, <1>3, <1>18, <1>19, <1>20, <2>2 DEF GapShape, GapOf,
        RunShape, RunOf, QueueShape, QueuedOf, Terminal
  <2>3. host'.at = "preparing" /\ host'.on = None /\ ~host'.cold => MaxResumes > 0
    BY <1>1, <1>2, <1>4, <1>5, <1>6, <1>7, <1>3, <1>18, <1>19, <1>20, Constants DEF GapShape
  <2> QED
    BY <2>1, <2>2, <2>3 DEF GapShape
<1>21. ASSUME GapShape, CalmShape PROVE Steady /\ (everTripped' \/ CalmShape')
  <2>1. ASSUME NEW u \in Task, u \notin B
       PROVE  CalmOf(u)' /\ (status[u] \in Terminal => status'[u] = status[u])
    BY <1>1, <1>2, <1>4, <1>5, <1>6, <1>7, <1>3, <1>18, <1>19, <1>21, <2>1 DEF GapShape, GapOf,
        CalmShape, CalmOf, RunShape, RunOf, QueueShape, QueuedOf, Terminal
  <2>2. ASSUME NEW u \in Task, u \in B
       PROVE  CalmOf(u)' /\ (status[u] \in Terminal => status'[u] = status[u])
    BY <1>1, <1>2, <1>4, <1>5, <1>6, <1>7, <1>3, <1>18, <1>19, <1>21, <2>2 DEF GapShape, GapOf,
        CalmShape, CalmOf, RunShape, RunOf, QueueShape, QueuedOf, Terminal
  <2>3. ~tripped' /\ doomed' = {} /\ plan' = NoPlan /\ signalled' = {}
    BY <1>1, <1>2, <1>4, <1>5, <1>6, <1>7, <1>3, <1>18, <1>19, <1>21 DEF CalmShape
  <2>4. Heralded'
    <3>1. ASSUME ~(tail \in {"finished", "final"}) PROVE Heralded'
      BY <3>1, <1>1, <1>2, <1>4, <1>5, <1>6, <1>7, <1>3, <1>18, <1>21 DEF CalmShape, Heralded, Close
    <3>2. ASSUME AllOver', created' # <<>>, ~announced', tail # "parked"
        PROVE \E u \in Task : stage[u] = "finish"
      <4>1. AllOver
        BY <3>2, <1>18
      <4>2. Queued = {}
        BY <4>1, <1>21, CreatedIsTask DEF CalmShape, CalmOf, AllOver, QueueShape
      <4>3. queue = <<>>
        <5>1. queue \in Seq(Entry) /\ (queue # <<>> => 1 \in DOMAIN queue)
          BY DEF ListTypes
        <5> QED
          BY <4>2, <5>1 DEF Queued
      <4>4. ~BlockedOrInterrupted
        BY <4>1 DEF BlockedOrInterrupted, AllOver, TaskShape, Parked, Terminal
      <4>5. running # {}
        BY <3>2, <4>3, <4>4 DEF Close, Announces, IsDone
      <4>6. PICK u \in Task : u \in running
        BY <4>5 DEF SetTypes
      <4>7. status[u] \in Terminal
        BY <4>1, <4>6 DEF AllOver, TaskShape
      <4> QED
        BY <4>6, <4>7, <1>21 DEF CalmShape, CalmOf, RunShape, RunOf, Terminal
    <3> QED
      BY <3>1, <3>2, <1>2 DEF Heralded, TailKind
  <2> QED
    BY <2>1, <2>2, <2>3, <2>4 DEF Steady, CalmShape
<1>22. StaysCalm
  BY <1>2, <1>5, <1>6, <1>7, <1>20, <1>21 DEF StaysCalm
<1>23. Sheltered
  BY <1>1, <1>2, <1>4, <1>5, <1>6, <1>7, <1>3, <1>18, <1>19 DEF Sheltered, RunShape, RunOf,
      QueueShape, QueuedOf, Terminal
<1> QED
  BY <1>12, <1>13, <1>14, <1>15, <1>16, <1>17, <1>8, <1>9, <1>10, <1>11, <1>22, <1>23

\* The timer of an interrupted job fires.
LEMMA TimerFiresKeeps ==
  ASSUME Inductive, NEW t \in Task, TimerFires(t)
  PROVE  Inductive' /\ StaysCalm /\ Sheltered
<1> USE DEF Inductive
<1>1. /\ t \in timers /\ timers' = timers \ {t}
  BY DEF TimerFires, runVars, tripVars, history
<1>2. UNCHANGED <<created, succeeded, running, stage, result, closing, answered, host,
                  counter, tripped, doomed, plan, signalled, budget, everTripped,
                  disposer, announced>>
  BY DEF TimerFires, runVars, tripVars, history
<1>3. PICK B : /\ Back(B) /\ B \subseteq {t}
               /\ t \in B => requeues' = [requeues EXCEPT ![t] = @ + 1]
               /\ t \notin B => requeues' = requeues
                    /\ (tripped \/ ~Idle(t) \/ status[t] # "INTERRUPTED")
  <2>1. CASE ~tripped /\ Idle(t) /\ status[t] = "INTERRUPTED"
    <3>1. Back({t})
      BY <2>1, BackOne DEF TimerFires
    <3> QED
      BY <2>1, <3>1 DEF TimerFires
  <2>2. CASE ~(~tripped /\ Idle(t) /\ status[t] = "INTERRUPTED")
    <3>1. Back({})
      BY <2>2, BackNone DEF TimerFires
    <3> QED
      BY <2>2, <3>1 DEF TimerFires
  <2> QED
    BY <2>1, <2>2
<1>4. /\ Created' = Created /\ B \subseteq Created \ (running \cup Queued)
      /\ \A u \in B : u \in Task /\ status[u] \notin Terminal
      /\ queue' \in Seq(Entry) /\ Once(queue') /\ Queued' = Queued \cup B
      /\ \A e \in Entries(queue') :
           (e \in Entries(queue) \/ e.task \notin running) /\ e.task \in Queued'
      /\ status' \in [Task -> Status]
      /\ \A u \in Task : status'[u] = IF u \in B THEN "PENDING" ELSE status[u]
      /\ retries' \in [Task -> 0..MaxRetries]
  BY <1>2, <1>3 DEF Created, Back
<1>5. /\ draining' \in BOOLEAN
  BY <1>1, <1>2, Constants DEF TimerFires, FlagTypes, RequestDrain
<1>6. /\ timers' \subseteq Unattended
  BY <1>1, <1>2, <1>5, Constants DEF SetTypes
<1>7. /\ ~(host.at = "preparing" /\ host.cold)
  BY <1>1, <1>2, <1>5, <1>6, Constants DEF HostShape
<1>8. /\ requeues[t] < MaxRequeues /\ requeues[t] + 1 \in 0..MaxRequeues
  BY <1>1, <1>2, <1>5, <1>6, <1>7, Constants DEF ArrayTypes, TimerShape, TimerOf
<1>9. /\ requeues' = requeues \/ requeues' = [requeues EXCEPT ![t] = @ + 1]
  BY <1>1, <1>2, <1>5, <1>6, <1>7, <1>8, Constants, <1>3
<1>10. /\ requeues' \in [Task -> 0..MaxRequeues]
       /\ \A u \in Task : u # t => requeues'[u] = requeues[u]
  BY <1>1, <1>2, <1>5, <1>6, <1>7, <1>8, <1>9, Constants DEF ArrayTypes
<1>11. ArrayTypes'
  BY <1>2, <1>4, <1>5, <1>6, <1>7, <1>8, <1>9, <1>10 DEF ArrayTypes
<1>12. SetTypes'
  BY <1>2, <1>4, <1>5, <1>6, <1>7, <1>8, <1>9, <1>10 DEF SetTypes
<1>13. ListTypes'
  BY <1>2, <1>4, <1>5, <1>6, <1>7, <1>8, <1>9, <1>10 DEF ListTypes
<1>14. FlagTypes'
  BY <1>2, <1>4, <1>5, <1>6, <1>7, <1>8, <1>9, <1>10 DEF FlagTypes
<1>15. TaskShape'
  BY <1>1, <1>2, <1>4, <1>5, <1>6, <1>7, <1>8, <1>9, <1>10, <1>3 DEF TaskShape, Terminal
<1>16. RunShape'
  <2>1. ASSUME NEW u \in Task, u \notin B PROVE RunOf(u)'
    BY <1>1, <1>2, <1>4, <1>5, <1>6, <1>7, <1>8, <1>9, <1>10, <1>3, <2>1 DEF RunShape, RunOf,
        Terminal
  <2>2. ASSUME NEW u \in Task, u \in B PROVE RunOf(u)'
    BY <1>1, <1>2, <1>4, <1>5, <1>6, <1>7, <1>8, <1>9, <1>10, <1>3, <2>2 DEF RunShape, RunOf,
        Terminal
  <2> QED
    BY <2>1, <2>2 DEF RunShape
<1>17. QueueShape'
  <2>1. ASSUME NEW u \in Task, u \notin B PROVE QueuedOf(u)'
    BY <1>1, <1>2, <1>4, <1>5, <1>6, <1>7, <1>8, <1>9, <1>10, <1>3, <2>1 DEF QueueShape, QueuedOf,
        Terminal
  <2>2. ASSUME NEW u \in Task, u \in B PROVE QueuedOf(u)'
    BY <1>1, <1>2, <1>4, <1>5, <1>6, <1>7, <1>8, <1>9, <1>10, <1>3, <2>2 DEF QueueShape, QueuedOf,
        Terminal
  <2> QED
    BY <2>1, <2>2, <1>1, <1>2, <1>4, <1>5, <1>6, <1>7, <1>8, <1>9, <1>10, <1>3 DEF QueueShape
<1>18. HostShape'
  BY <1>1, <1>2, <1>4, <1>5, <1>6, <1>7, <1>8, <1>9, <1>10, <1>3 DEF HostShape
<1>19. TimerShape'
  <2>1. ASSUME NEW u \in Task, u \notin B PROVE TimerOf(u)'
    BY <1>1, <1>2, <1>4, <1>5, <1>6, <1>7, <1>8, <1>9, <1>10, <1>3, <2>1 DEF TimerShape, TimerOf,
        Terminal, Idle, QueueShape, QueuedOf, RunShape, RunOf, TaskShape, Parked
  <2>2. ASSUME NEW u \in Task, u \in B PROVE TimerOf(u)'
    BY <1>1, <1>2, <1>4, <1>5, <1>6, <1>7, <1>8, <1>9, <1>10, <1>3, <2>2 DEF TimerShape, TimerOf,
        Terminal, Idle, QueueShape, QueuedOf, RunShape, RunOf, TaskShape, Parked
  <2> QED
    BY <2>1, <2>2 DEF TimerShape
<1>20. AnswerShape'
  <2>1. ASSUME NEW u \in Task, u \notin B PROVE AnswerOf(u)'
    BY <1>1, <1>2, <1>4, <1>5, <1>6, <1>7, <1>8, <1>9, <1>10, <1>3, <2>1 DEF AnswerShape,
        AnswerOf, Terminal
  <2>2. ASSUME NEW u \in Task, u \in B PROVE AnswerOf(u)'
    BY <1>1, <1>2, <1>4, <1>5, <1>6, <1>7, <1>8, <1>9, <1>10, <1>3, <2>2 DEF AnswerShape,
        AnswerOf, Terminal
  <2> QED
    BY <2>1, <2>2 DEF AnswerShape
<1>21. AllOver' => AllOver
  BY <1>4, CreatedIsTask DEF AllOver, Terminal
<1>22. \A u \in B : stage[u] = "off"
  BY <1>1, <1>3, <1>4, StageFacts
<1>23. ASSUME GapShape PROVE GapShape'
  <2>1. ASSUME NEW u \in Task, u \notin B PROVE GapOf(u)'
    BY <1>1, <1>2, <1>4, <1>5, <1>6, <1>7, <1>8, <1>9, <1>10, <1>3, <1>21, <1>22, <1>23, <2>1
        DEF GapShape, GapOf, RunShape, RunOf, QueueShape, QueuedOf, Terminal
  <2>2. ASSUME NEW u \in Task, u \in B PROVE GapOf(u)'
    BY <1>1, <1>2, <1>4, <1>5, <1>6, <1>7, <1>8, <1>9, <1>10, <1>3, <1>21, <1>22, <1>23, <2>2
        DEF GapShape, GapOf, RunShape, RunOf, QueueShape, QueuedOf, Terminal
  <2>3. host'.at = "preparing" /\ host'.on = None /\ ~host'.cold => MaxResumes > 0
    BY <1>1, <1>2, <1>4, <1>5, <1>6, <1>7, <1>8, <1>9, <1>10, <1>3, <1>21, <1>22, <1>23,
        Constants DEF GapShape
  <2> QED
    BY <2>1, <2>2, <2>3 DEF GapShape
<1>24. ASSUME GapShape, CalmShape PROVE Steady /\ (everTripped' \/ CalmShape')
  <2>1. ASSUME NEW u \in Task, u \notin B
       PROVE  CalmOf(u)' /\ (status[u] \in Terminal => status'[u] = status[u])
    BY <1>1, <1>2, <1>4, <1>5, <1>6, <1>7, <1>8, <1>9, <1>10, <1>3, <1>21, <1>22, <1>24, <2>1
        DEF GapShape, GapOf, CalmShape, CalmOf, RunShape, RunOf, QueueShape, QueuedOf, Terminal
  <2>2. ASSUME NEW u \in Task, u \in B
       PROVE  CalmOf(u)' /\ (status[u] \in Terminal => status'[u] = status[u])
    BY <1>1, <1>2, <1>4, <1>5, <1>6, <1>7, <1>8, <1>9, <1>10, <1>3, <1>21, <1>22, <1>24, <2>2
        DEF GapShape, GapOf, CalmShape, CalmOf, RunShape, RunOf, QueueShape, QueuedOf, Terminal
  <2>3. ~tripped' /\ doomed' = {} /\ plan' = NoPlan /\ signalled' = {}
    BY <1>1, <1>2, <1>4, <1>5, <1>6, <1>7, <1>8, <1>9, <1>10, <1>3, <1>21, <1>22, <1>24
        DEF CalmShape
  <2>4. Heralded'
    BY <1>1, <1>2, <1>4, <1>5, <1>6, <1>7, <1>8, <1>9, <1>10, <1>3, <1>21, <1>22, <1>24
        DEF CalmShape, CalmOf, Heralded, AllOver, RunShape, RunOf, QueueShape, QueuedOf, Terminal
  <2> QED
    BY <2>1, <2>2, <2>3, <2>4 DEF Steady, CalmShape
<1>25. StaysCalm
  BY <1>2, <1>5, <1>6, <1>7, <1>8, <1>9, <1>10, <1>23, <1>24 DEF StaysCalm
<1>26. Sheltered
  BY <1>1, <1>2, <1>4, <1>5, <1>6, <1>7, <1>8, <1>9, <1>10, <1>3, <1>21, <1>22 DEF Sheltered,
      RunShape, RunOf, QueueShape, QueuedOf, Terminal
<1> QED
  BY <1>15, <1>16, <1>17, <1>18, <1>19, <1>20, <1>11, <1>12, <1>13, <1>14, <1>25, <1>26

\* The command puts back what it may.
LEMMA RequeueKeeps ==
  ASSUME Inductive, Requeue
  PROVE  Inductive' /\ StaysCalm /\ Sheltered
<1> USE DEF Inductive
<1>1. /\ host.at = "preparing"
      /\ host' = IF host.cold THEN [host EXCEPT !.at = "disposing"] ELSE IdleHost
  BY DEF Requeue, runVars, tripVars, history
<1>2. UNCHANGED <<created, requeues, succeeded, running, stage, result, closing,
                  timers, answered, counter, tripped, doomed, plan, signalled, budget,
                  everTripped, disposer, announced>>
  BY DEF Requeue, runVars, tripVars, history
<1>3. PICK B : /\ Back(B)
               /\ host.on = None => \A u \in Created : Resumable(u) => u \in B
               /\ host.on # None => (host.on \in B \/ ~Idle(host.on)) /\ B \subseteq {host.on}
  <2>0. host.on \in Task \cup {None}
    BY DEF FlagTypes, HostType
  <2>1. CASE host.on = None
    <3>1. Back({t \in Created : Resumable(t)})
      BY <2>1, BackAll DEF Requeue
    <3> QED
      BY <2>1, <3>1
  <2>2. CASE host.on # None /\ Idle(host.on)
    <3>1. Back({host.on})
      BY <2>0, <2>2, BackOne DEF Requeue
    <3> QED
      BY <2>2, <3>1
  <2>3. CASE host.on # None /\ ~Idle(host.on)
    <3>1. Back({})
      BY <2>3, BackNone DEF Requeue
    <3> QED
      BY <2>3, <3>1
  <2> QED
    BY <2>1, <2>2, <2>3
<1>4. /\ Created' = Created /\ B \subseteq Created \ (running \cup Queued)
      /\ \A u \in B : u \in Task /\ status[u] \notin Terminal
      /\ queue' \in Seq(Entry) /\ Once(queue') /\ Queued' = Queued \cup B
      /\ \A e \in Entries(queue') :
           (e \in Entries(queue) \/ e.task \notin running) /\ e.task \in Queued'
      /\ status' \in [Task -> Status]
      /\ \A u \in Task : status'[u] = IF u \in B THEN "PENDING" ELSE status[u]
      /\ retries' \in [Task -> 0..MaxRetries]
  BY <1>2, <1>3 DEF Created, Back
<1>5. /\ draining' \in BOOLEAN
  BY <1>1, <1>2, Constants DEF Requeue, FlagTypes, RequestDrain
<1>6. /\ host' \in HostType
      /\ host.cold => host' = [at |-> "disposing", on |-> None, cold |-> TRUE]
      /\ ~host.cold => host' = IdleHost
  BY <1>1, <1>2, <1>5, Constants DEF HostShape, FlagTypes, HostType, IdleHost
<1>7. /\ host.cold => Queued = {} /\ running = {} /\ host.on = None
  BY <1>1, <1>2, <1>5, <1>6, Constants DEF HostShape, Queued
<1>8. /\ \A u \in Task : host.cold /\ u \notin B =>
         status[u] # "INTERRUPTED" /\ ~(u \in answered /\ status[u] = "AWAITING_HUMAN")
  BY <1>1, <1>2, <1>5, <1>6, <1>7, Constants, <1>3 DEF Resumable, Idle, TaskShape, Terminal
<1>9. ASSUME NEW u \in Task, u \notin B, host.on = u, status[u] = "AWAITING_HUMAN"
      PROVE  stage[u] = "settle"
  <2>1. ~Idle(u)
    BY <1>9, <1>3, Constants
  <2>2. u \in Created /\ status[u] \notin Terminal /\ u \notin Queued
    BY <1>9 DEF TaskShape, QueueShape, QueuedOf, Terminal
  <2>3. u \in running
    BY <2>1, <2>2 DEF Idle
  <2> QED
    BY <1>9, <2>3 DEF RunShape, RunOf, Terminal
<1>10. ArrayTypes'
  BY <1>2, <1>4, <1>5, <1>6, <1>7, <1>8, <1>9 DEF ArrayTypes
<1>11. SetTypes'
  BY <1>2, <1>4, <1>5, <1>6, <1>7, <1>8, <1>9 DEF SetTypes
<1>12. ListTypes'
  BY <1>2, <1>4, <1>5, <1>6, <1>7, <1>8, <1>9 DEF ListTypes
<1>13. FlagTypes'
  BY <1>2, <1>4, <1>5, <1>6, <1>7, <1>8, <1>9 DEF FlagTypes
<1>14. TaskShape'
  BY <1>1, <1>2, <1>4, <1>5, <1>6, <1>7, <1>8, <1>9 DEF TaskShape, Terminal
<1>15. RunShape'
  <2>1. ASSUME NEW u \in Task, u \notin B PROVE RunOf(u)'
    BY <1>1, <1>2, <1>4, <1>5, <1>6, <1>7, <1>8, <1>9, <2>1 DEF RunShape, RunOf, Terminal
  <2>2. ASSUME NEW u \in Task, u \in B PROVE RunOf(u)'
    BY <1>1, <1>2, <1>4, <1>5, <1>6, <1>7, <1>8, <1>9, <2>2 DEF RunShape, RunOf, Terminal
  <2> QED
    BY <2>1, <2>2 DEF RunShape
<1>16. QueueShape'
  <2>1. ASSUME NEW u \in Task, u \notin B PROVE QueuedOf(u)'
    BY <1>1, <1>2, <1>4, <1>5, <1>6, <1>7, <1>8, <1>9, <2>1 DEF QueueShape, QueuedOf, Terminal
  <2>2. ASSUME NEW u \in Task, u \in B PROVE QueuedOf(u)'
    BY <1>1, <1>2, <1>4, <1>5, <1>6, <1>7, <1>8, <1>9, <2>2 DEF QueueShape, QueuedOf, Terminal
  <2> QED
    BY <2>1, <2>2, <1>1, <1>2, <1>4, <1>5, <1>6, <1>7, <1>8, <1>9 DEF QueueShape
<1>17. HostShape'
  BY <1>1, <1>2, <1>4, <1>5, <1>6, <1>7, <1>8, <1>9 DEF HostShape, IdleHost
<1>18. TimerShape'
  <2>1. ASSUME NEW u \in Task, u \notin B PROVE TimerOf(u)'
    BY <1>1, <1>2, <1>4, <1>5, <1>6, <1>7, <1>8, <1>9, <2>1 DEF TimerShape, TimerOf, IdleHost
  <2>2. ASSUME NEW u \in Task, u \in B PROVE TimerOf(u)'
    BY <1>1, <1>2, <1>4, <1>5, <1>6, <1>7, <1>8, <1>9, <2>2 DEF TimerShape, TimerOf, IdleHost
  <2> QED
    BY <2>1, <2>2 DEF TimerShape
<1>19. AnswerShape'
  <2>1. ASSUME NEW u \in Task, u \notin B PROVE AnswerOf(u)'
    BY <1>1, <1>2, <1>4, <1>5, <1>6, <1>7, <1>8, <1>9, <2>1 DEF AnswerShape, AnswerOf, IdleHost
  <2>2. ASSUME NEW u \in Task, u \in B PROVE AnswerOf(u)'
    BY <1>1, <1>2, <1>4, <1>5, <1>6, <1>7, <1>8, <1>9, <2>2 DEF AnswerShape, AnswerOf, IdleHost
  <2> QED
    BY <2>1, <2>2 DEF AnswerShape
<1>20. AllOver' => AllOver
  BY <1>4, CreatedIsTask DEF AllOver, Terminal
<1>21. ASSUME ResumesApart, GapShape PROVE \A u \in B : stage[u] = "off"
  <2>1. CASE host.cold
    BY <1>1, <1>4, <2>1 DEF HostShape
  <2>2. CASE ~host.cold /\ host.on = None
    <3>1. Unattended = {}
      BY <1>1, <1>21, <2>2, Constants DEF ResumesApart, GapShape
    <3> QED
      BY <1>4, <3>1, StageFacts
  <2>3. CASE ~host.cold /\ host.on # None
    BY <1>4, <1>3, <2>3, StageFacts DEF HostShape
  <2> QED
    BY <2>1, <2>2, <2>3
<1>22. ASSUME ResumesApart, GapShape PROVE GapShape'
  <2>1. ASSUME NEW u \in Task, u \notin B PROVE GapOf(u)'
    BY <1>1, <1>2, <1>4, <1>5, <1>6, <1>7, <1>8, <1>9, <1>20, <1>21, <1>22, <2>1 DEF GapShape,
        GapOf, RunShape, RunOf, QueueShape, QueuedOf, Terminal
  <2>2. ASSUME NEW u \in Task, u \in B PROVE GapOf(u)'
    BY <1>1, <1>2, <1>4, <1>5, <1>6, <1>7, <1>8, <1>9, <1>20, <1>21, <1>22, <2>2 DEF GapShape,
        GapOf, RunShape, RunOf, QueueShape, QueuedOf, Terminal
  <2>3. host'.at = "preparing" /\ host'.on = None /\ ~host'.cold => MaxResumes > 0
    BY <1>1, <1>2, <1>4, <1>5, <1>6, <1>7, <1>8, <1>9, <1>20, <1>21, <1>22, Constants
        DEF GapShape, IdleHost
  <2> QED
    BY <2>1, <2>2, <2>3 DEF GapShape
<1>23. ASSUME ResumesApart, GapShape, CalmShape PROVE Steady /\ (everTripped' \/ CalmShape')
  <2>1. ASSUME NEW u \in Task, u \notin B
       PROVE  CalmOf(u)' /\ (status[u] \in Terminal => status'[u] = status[u])
    BY <1>1, <1>2, <1>4, <1>5, <1>6, <1>7, <1>8, <1>9, <1>20, <1>21, <1>23, <2>1 DEF GapShape,
        GapOf, CalmShape, CalmOf, RunShape, RunOf, QueueShape, QueuedOf, Terminal
  <2>2. ASSUME NEW u \in Task, u \in B
       PROVE  CalmOf(u)' /\ (status[u] \in Terminal => status'[u] = status[u])
    BY <1>1, <1>2, <1>4, <1>5, <1>6, <1>7, <1>8, <1>9, <1>20, <1>21, <1>23, <2>2 DEF GapShape,
        GapOf, CalmShape, CalmOf, RunShape, RunOf, QueueShape, QueuedOf, Terminal
  <2>3. ~tripped' /\ doomed' = {} /\ plan' = NoPlan /\ signalled' = {}
    BY <1>1, <1>2, <1>4, <1>5, <1>6, <1>7, <1>8, <1>9, <1>20, <1>21, <1>23 DEF CalmShape
  <2>4. Heralded'
    <3>1. host.cold => host'.cold
      BY <1>6
    <3>2. Heralded
      BY <1>23 DEF CalmShape
    <3> QED
      BY <3>1, <3>2, <1>2, <1>20 DEF Heralded
  <2> QED
    BY <2>1, <2>2, <2>3, <2>4 DEF Steady, CalmShape
<1>24. StaysCalm
  BY <1>2, <1>5, <1>6, <1>7, <1>8, <1>9, <1>22, <1>23 DEF StaysCalm
<1>25. Sheltered
  BY <1>1, <1>2, <1>4, <1>5, <1>6, <1>7, <1>8, <1>9, <1>20, <1>21 DEF Sheltered, RunShape, RunOf,
      QueueShape, QueuedOf, Terminal
<1> QED
  BY <1>14, <1>15, <1>16, <1>17, <1>18, <1>19, <1>10, <1>11, <1>12, <1>13, <1>24, <1>25

\* A created task joins the others, and its entry the queue.
LEMMA CreateFacts ==
  ASSUME ListTypes, QueueShape, TaskShape, NEW t \in Task \ Created, NEW b \in SUBSET Task,
         created' = Append(created, t), queue' = Push(queue, t, b)
  PROVE  /\ ListTypes' /\ Created' = Created \cup {t} /\ Queued' = Queued \cup {t}
         /\ Once(queue')
         /\ \A e \in Entries(queue') : e \in Entries(queue) \/ e.task = t
<1>1. /\ created' \in Seq(Task) /\ Len(created') = Len(created) + 1
      /\ \A i \in 1..Len(created) : created'[i] = created[i]
      /\ created'[Len(created) + 1] = t
  BY DEF ListTypes
<1>2. Created' = Created \cup {t}
  <2>1. DOMAIN created = 1..Len(created) /\ DOMAIN created' = 1..(Len(created) + 1)
      /\ Len(created) \in Nat
    BY <1>1 DEF ListTypes
  <2> QED
    BY <1>1, <2>1 DEF Created
<1>3. IsFiniteSet(Created') /\ Cardinality(Created') = Cardinality(Created) + 1
  BY <1>2, FS_AddElement DEF ListTypes
<1>4. Queued' = Tasks(queue') /\ t \notin Tasks(queue)
  BY QueueIs DEF Queued, Tasks, QueueShape
<1>5. /\ queue' \in Seq(Entry) /\ Once(queue') /\ Queued' = Queued \cup {t}
      /\ Entries(queue') = Entries(queue) \cup {[task |-> t, blocked |-> b \ succeeded]}
  BY <1>4, QueueIs, PushFacts
<1> QED
  BY <1>1, <1>2, <1>3, <1>5 DEF ListTypes

\* A child of a plan is created.
LEMMA PushChildKeeps ==
  ASSUME Inductive, NEW t \in Task, PushChild(t)
  PROVE  Inductive' /\ StaysCalm /\ Sheltered
<1> USE DEF Inductive
<1>1. PICK i \in Staged(t) :
         /\ created' = Append(created, Plan[t][i])
              /\ queue' = Push(queue, Plan[t][i], Deps[Plan[t][i]])
         /\ status' = [status EXCEPT ![Plan[t][i]] = "PENDING"]
  BY DEF PushChild
<1>2. Plan[t][i] \in Task \ Created
  BY Constants DEF Staged
<1>3. PICK c \in Task \ Created : c = Plan[t][i] /\ Deps[c] \in SUBSET Task
  BY <1>2, Constants
<1>4. /\ stage[t] = "flush"
  BY DEF PushChild, runVars, waitVars, tripVars, history
<1>5. UNCHANGED <<retries, requeues, succeeded, running, stage, result, closing,
                  timers, answered, host, counter, tripped, doomed, plan, signalled,
                  budget, everTripped, draining, disposer, announced>>
  BY DEF PushChild, runVars, waitVars, tripVars, history
<1>6. /\ ListTypes' /\ Created' = Created \cup {c} /\ Queued' = Queued \cup {c}
      /\ Once(queue') /\ \A e \in Entries(queue') : e \in Entries(queue) \/ e.task = c
  BY <1>1, <1>3, CreateFacts
<1>7. stage[c] = "off" /\ c \notin running /\ c \notin Queued /\ status[c] = "new"
  BY <1>3 DEF TaskShape, QueueShape
<1>8. /\ status' \in [Task -> Status]
      /\ status'[c] = "PENDING"
      /\ \A u \in Task : u # c => status'[u] = status[u]
  BY <1>4, <1>5, Constants, <1>1, <1>3 DEF ArrayTypes, Status
<1>9. /\ c \in Task /\ c # t
  BY <1>4, <1>5, <1>8, Constants, <1>3, <1>7
<1>10. ArrayTypes'
  BY <1>5, <1>6, <1>8, <1>9 DEF ArrayTypes
<1>11. SetTypes'
  BY <1>5, <1>6, <1>8, <1>9 DEF SetTypes
<1>12. ListTypes'
  BY <1>6
<1>13. FlagTypes'
  BY <1>5, <1>6, <1>8, <1>9 DEF FlagTypes
<1>14. TaskShape'
  BY <1>4, <1>5, <1>6, <1>8, <1>9, <1>7 DEF TaskShape
<1>15. RunShape'
  <2>1. ASSUME NEW u \in Task, u # c PROVE RunOf(u)'
    BY <1>4, <1>5, <1>6, <1>8, <1>9, <1>7, <2>1 DEF RunShape, RunOf
  <2>2. ASSUME NEW u \in Task, u = c PROVE RunOf(u)'
    BY <1>4, <1>5, <1>6, <1>8, <1>9, <1>7, <2>2 DEF RunShape, RunOf
  <2> QED
    BY <2>1, <2>2 DEF RunShape
<1>16. QueueShape'
  <2>1. ASSUME NEW u \in Task, u # c PROVE QueuedOf(u)'
    BY <1>4, <1>5, <1>6, <1>8, <1>9, <1>7, <2>1 DEF QueueShape, QueuedOf
  <2>2. ASSUME NEW u \in Task, u = c PROVE QueuedOf(u)'
    BY <1>4, <1>5, <1>6, <1>8, <1>9, <1>7, <2>2 DEF QueueShape, QueuedOf
  <2> QED
    BY <2>1, <2>2, <1>4, <1>5, <1>6, <1>8, <1>9, <1>7 DEF QueueShape
<1>17. HostShape'
  BY <1>4, <1>5, <1>6, <1>8, <1>9, <1>7 DEF HostShape
<1>18. TimerShape'
  <2>1. ASSUME NEW u \in Task, u # c PROVE TimerOf(u)'
    BY <1>4, <1>5, <1>6, <1>8, <1>9, <1>7, <2>1 DEF TimerShape, TimerOf
  <2>2. ASSUME NEW u \in Task, u = c PROVE TimerOf(u)'
    BY <1>4, <1>5, <1>6, <1>8, <1>9, <1>7, <2>2 DEF TimerShape, TimerOf
  <2> QED
    BY <2>1, <2>2 DEF TimerShape
<1>19. AnswerShape'
  <2>1. ASSUME NEW u \in Task, u # c PROVE AnswerOf(u)'
    BY <1>4, <1>5, <1>6, <1>8, <1>9, <1>7, <2>1 DEF AnswerShape, AnswerOf
  <2>2. ASSUME NEW u \in Task, u = c PROVE AnswerOf(u)'
    BY <1>4, <1>5, <1>6, <1>8, <1>9, <1>7, <2>2 DEF AnswerShape, AnswerOf
  <2> QED
    BY <2>1, <2>2 DEF AnswerShape
<1>20. ASSUME GapShape PROVE GapShape'
  <2>1. ASSUME NEW u \in Task, u # c PROVE GapOf(u)'
    BY <1>4, <1>5, <1>6, <1>8, <1>9, <1>7, <1>20, <2>1 DEF GapShape, GapOf, RunShape, RunOf,
        QueueShape, QueuedOf, Terminal
  <2>2. ASSUME NEW u \in Task, u = c PROVE GapOf(u)'
    BY <1>4, <1>5, <1>6, <1>8, <1>9, <1>7, <1>20, <2>2 DEF GapShape, GapOf, RunShape, RunOf,
        QueueShape, QueuedOf, Terminal
  <2>3. host'.at = "preparing" /\ host'.on = None /\ ~host'.cold => MaxResumes > 0
    BY <1>4, <1>5, <1>6, <1>8, <1>9, <1>7, <1>20, Constants DEF GapShape
  <2> QED
    BY <2>1, <2>2, <2>3 DEF GapShape
<1>21. ASSUME GapShape, CalmShape PROVE Steady /\ (everTripped' \/ CalmShape')
  <2>1. ASSUME NEW u \in Task, u # c
       PROVE  CalmOf(u)' /\ (status[u] \in Terminal => status'[u] = status[u])
    BY <1>4, <1>5, <1>6, <1>8, <1>9, <1>7, <1>21, <2>1 DEF GapShape, GapOf, CalmShape, CalmOf,
        RunShape, RunOf, QueueShape, QueuedOf, Terminal
  <2>2. ASSUME NEW u \in Task, u = c
       PROVE  CalmOf(u)' /\ (status[u] \in Terminal => status'[u] = status[u])
    BY <1>4, <1>5, <1>6, <1>8, <1>9, <1>7, <1>21, <2>2 DEF GapShape, GapOf, CalmShape, CalmOf,
        RunShape, RunOf, QueueShape, QueuedOf, Terminal
  <2>3. ~tripped' /\ doomed' = {} /\ plan' = NoPlan /\ signalled' = {}
    BY <1>4, <1>5, <1>6, <1>8, <1>9, <1>7, <1>21 DEF CalmShape
  <2>4. Heralded'
    BY <1>4, <1>5, <1>6, <1>8, <1>9, <1>7, <1>21 DEF CalmShape, CalmOf, Heralded, AllOver,
        RunShape, RunOf, QueueShape, QueuedOf, Terminal
  <2> QED
    BY <2>1, <2>2, <2>3, <2>4 DEF Steady, CalmShape
<1>22. StaysCalm
  BY <1>5, <1>8, <1>9, <1>20, <1>21 DEF StaysCalm
<1>23. Sheltered
  BY <1>4, <1>5, <1>6, <1>8, <1>9, <1>7 DEF Sheltered, RunShape, RunOf, QueueShape, QueuedOf,
      Terminal
<1> QED
  BY <1>14, <1>15, <1>16, <1>17, <1>18, <1>19, <1>10, <1>11, <1>12, <1>13, <1>22, <1>23

\* What a message and a new round do with the root they create.
LEMMA PushRootFacts ==
  ASSUME Inductive, NEW c \in Task, PushRoot(c)
  PROVE  /\ c \notin Created /\ ListTypes' /\ Created' = Created \cup {c}
         /\ Queued' = Queued \cup {c} /\ Once(queue')
         /\ \A e \in Entries(queue') : e \in Entries(queue) \/ e.task = c
         /\ stage[c] = "off" /\ c \notin running /\ c \notin Queued
         /\ status' \in [Task -> Status] /\ status'[c] = "ACTIVE" /\ status[c] = "new"
         /\ \A u \in Task : u # c => status'[u] = status[u]
<1> USE DEF Inductive
<1>1. /\ c \in Task \ Created /\ created' = Append(created, c)
      /\ status' = [status EXCEPT ![c] = "ACTIVE"] /\ queue' = Push(queue, c, Deps[c])
  BY DEF PushRoot
<1>2. Deps[c] \in SUBSET Task
  BY Constants
<1>3. /\ ListTypes' /\ Created' = Created \cup {c} /\ Queued' = Queued \cup {c} /\ Once(queue')
      /\ \A e \in Entries(queue') : e \in Entries(queue) \/ e.task = c
  BY <1>1, <1>2, CreateFacts
<1>4. stage[c] = "off" /\ c \notin running /\ c \notin Queued /\ status[c] = "new"
  BY <1>1 DEF TaskShape, QueueShape
<1>5. /\ status' \in [Task -> Status] /\ status'[c] = "ACTIVE"
      /\ \A u \in Task : u # c => status'[u] = status[u]
  BY <1>1 DEF ArrayTypes, Status
<1> QED
  BY <1>1, <1>3, <1>4, <1>5

\* A message opens a task.
LEMMA SubmitKeeps ==
  ASSUME Inductive, NEW c \in Task, Submit(c)
  PROVE  Inductive' /\ StaysCalm /\ Sheltered
<1> USE DEF Inductive
<1>1. /\ PushRoot(c) /\ host = IdleHost
  BY DEF Submit, runVars, waitVars, tripVars, history
<1>2. UNCHANGED <<retries, requeues, succeeded, running, stage, result, closing,
                  timers, answered, host, counter, tripped, doomed, plan, signalled,
                  budget, everTripped, disposer>>
  BY DEF Submit, runVars, waitVars, tripVars, history
<1>3. /\ ListTypes' /\ Created' = Created \cup {c} /\ Queued' = Queued \cup {c}
      /\ Once(queue') /\ (\A e \in Entries(queue') : e \in Entries(queue) \/ e.task = c)
      /\ stage[c] = "off" /\ c \notin running /\ c \notin Queued
      /\ status' \in [Task -> Status] /\ status'[c] = "ACTIVE" /\ status[c] = "new"
      /\ \A u \in Task : u # c => status'[u] = status[u]
  BY <1>1, PushRootFacts
<1>4. /\ draining' \in BOOLEAN /\ announced' \in BOOLEAN
  BY <1>1, <1>2, Constants DEF Submit, FlagTypes, RequestDrain, PushRoot
<1>5. ArrayTypes'
  BY <1>2, <1>3 DEF ArrayTypes
<1>6. SetTypes'
  BY <1>2, <1>3, <1>4 DEF SetTypes
<1>7. ListTypes'
  BY <1>3
<1>8. FlagTypes'
  BY <1>2, <1>3, <1>4 DEF FlagTypes
<1>9. TaskShape'
  BY <1>1, <1>2, <1>3, <1>4 DEF TaskShape
<1>10. RunShape'
  <2>1. ASSUME NEW u \in Task, u # c PROVE RunOf(u)'
    BY <1>1, <1>2, <1>3, <1>4, <2>1 DEF RunShape, RunOf
  <2>2. ASSUME NEW u \in Task, u = c PROVE RunOf(u)'
    BY <1>1, <1>2, <1>3, <1>4, <2>2 DEF RunShape, RunOf
  <2> QED
    BY <2>1, <2>2 DEF RunShape
<1>11. QueueShape'
  <2>1. ASSUME NEW u \in Task, u # c PROVE QueuedOf(u)'
    BY <1>1, <1>2, <1>3, <1>4, <2>1 DEF QueueShape, QueuedOf
  <2>2. ASSUME NEW u \in Task, u = c PROVE QueuedOf(u)'
    BY <1>1, <1>2, <1>3, <1>4, <2>2 DEF QueueShape, QueuedOf
  <2> QED
    BY <2>1, <2>2, <1>1, <1>2, <1>3, <1>4 DEF QueueShape
<1>12. HostShape'
  BY <1>1, <1>2, <1>3, <1>4 DEF HostShape, IdleHost
<1>13. TimerShape'
  <2>1. ASSUME NEW u \in Task, u # c PROVE TimerOf(u)'
    BY <1>1, <1>2, <1>3, <1>4, <2>1 DEF TimerShape, TimerOf
  <2>2. ASSUME NEW u \in Task, u = c PROVE TimerOf(u)'
    BY <1>1, <1>2, <1>3, <1>4, <2>2 DEF TimerShape, TimerOf
  <2> QED
    BY <2>1, <2>2 DEF TimerShape
<1>14. AnswerShape'
  <2>1. ASSUME NEW u \in Task, u # c PROVE AnswerOf(u)'
    BY <1>1, <1>2, <1>3, <1>4, <2>1 DEF AnswerShape, AnswerOf
  <2>2. ASSUME NEW u \in Task, u = c PROVE AnswerOf(u)'
    BY <1>1, <1>2, <1>3, <1>4, <2>2 DEF AnswerShape, AnswerOf
  <2> QED
    BY <2>1, <2>2 DEF AnswerShape
<1>15. ASSUME GapShape PROVE GapShape'
  <2>1. ASSUME NEW u \in Task, u # c PROVE GapOf(u)'
    BY <1>1, <1>2, <1>3, <1>4, <1>15, <2>1 DEF GapShape, GapOf, RunShape, RunOf, QueueShape,
        QueuedOf, Terminal
  <2>2. ASSUME NEW u \in Task, u = c PROVE GapOf(u)'
    BY <1>1, <1>2, <1>3, <1>4, <1>15, <2>2 DEF GapShape, GapOf, RunShape, RunOf, QueueShape,
        QueuedOf, Terminal
  <2>3. host'.at = "preparing" /\ host'.on = None /\ ~host'.cold => MaxResumes > 0
    BY <1>1, <1>2, <1>3, <1>4, <1>15, Constants DEF GapShape
  <2> QED
    BY <2>1, <2>2, <2>3 DEF GapShape
<1>16. ASSUME GapShape, CalmShape PROVE Steady /\ (everTripped' \/ CalmShape')
  <2>1. ASSUME NEW u \in Task, u # c
       PROVE  CalmOf(u)' /\ (status[u] \in Terminal => status'[u] = status[u])
    BY <1>1, <1>2, <1>3, <1>4, <1>16, <2>1 DEF GapShape, GapOf, CalmShape, CalmOf, RunShape,
        RunOf, QueueShape, QueuedOf, Terminal
  <2>2. ASSUME NEW u \in Task, u = c
       PROVE  CalmOf(u)' /\ (status[u] \in Terminal => status'[u] = status[u])
    BY <1>1, <1>2, <1>3, <1>4, <1>16, <2>2 DEF GapShape, GapOf, CalmShape, CalmOf, RunShape,
        RunOf, QueueShape, QueuedOf, Terminal
  <2>3. ~tripped' /\ doomed' = {} /\ plan' = NoPlan /\ signalled' = {}
    BY <1>1, <1>2, <1>3, <1>4, <1>16 DEF CalmShape
  <2>4. Heralded'
    BY <1>1, <1>2, <1>3, <1>4, <1>16 DEF CalmShape, CalmOf, Heralded, AllOver, RunShape, RunOf,
        QueueShape, QueuedOf, Terminal
  <2> QED
    BY <2>1, <2>2, <2>3, <2>4 DEF Steady, CalmShape
<1>17. StaysCalm
  BY <1>2, <1>4, <1>15, <1>16 DEF StaysCalm
<1>18. Sheltered
  BY <1>1, <1>2, <1>3, <1>4 DEF Sheltered, RunShape, RunOf, QueueShape, QueuedOf, Terminal
<1> QED
  BY <1>9, <1>10, <1>11, <1>12, <1>13, <1>14, <1>5, <1>6, <1>7, <1>8, <1>17, <1>18

\* A session that is over gets a new root.
LEMMA NewRoundKeeps ==
  ASSUME Inductive, NEW c \in Task, NewRound(c)
  PROVE  Inductive' /\ StaysCalm /\ Sheltered
<1> USE DEF Inductive
<1>1. /\ PushRoot(c) /\ host = IdleHost /\ AllOver
      /\ counter' = 0 /\ tripped' = FALSE /\ doomed' = {}
  BY DEF NewRound, runVars, waitVars, history
<1>2. UNCHANGED <<retries, requeues, succeeded, running, stage, result, closing,
                  timers, answered, host, plan, signalled, budget, everTripped,
                  disposer>>
  BY DEF NewRound, runVars, waitVars, history
<1>3. /\ ListTypes' /\ Created' = Created \cup {c} /\ Queued' = Queued \cup {c}
      /\ Once(queue') /\ (\A e \in Entries(queue') : e \in Entries(queue) \/ e.task = c)
      /\ stage[c] = "off" /\ c \notin running /\ c \notin Queued
      /\ status' \in [Task -> Status] /\ status'[c] = "ACTIVE" /\ status[c] = "new"
      /\ \A u \in Task : u # c => status'[u] = status[u]
  BY <1>1, PushRootFacts
<1>4. /\ draining' \in BOOLEAN /\ announced' \in BOOLEAN
  BY <1>1, <1>2, Constants DEF NewRound, FlagTypes, RequestDrain, PushRoot
<1>5. /\ doomed' \subseteq Roots /\ tripped' \in BOOLEAN
      /\ counter' \in Nat
  BY <1>1, <1>2, <1>4, Constants
<1>6. /\ \A u \in Task : status[u] \in Terminal \cup {"new"}
  BY <1>1, <1>2, <1>4, <1>5, Constants DEF AllOver, TaskShape
<1>7. ArrayTypes'
  BY <1>2, <1>3, <1>4, <1>5, <1>6 DEF ArrayTypes
<1>8. SetTypes'
  BY <1>2, <1>3, <1>4, <1>5, <1>6 DEF SetTypes
<1>9. ListTypes'
  BY <1>2, <1>3, <1>4, <1>5, <1>6 DEF ListTypes
<1>10. FlagTypes'
  BY <1>2, <1>3, <1>4, <1>5, <1>6 DEF FlagTypes
<1>11. TaskShape'
  BY <1>1, <1>2, <1>3, <1>4, <1>5, <1>6 DEF TaskShape
<1>12. RunShape'
  <2>1. ASSUME NEW u \in Task, u # c PROVE RunOf(u)'
    BY <1>1, <1>2, <1>3, <1>4, <1>5, <1>6, <2>1 DEF RunShape, RunOf
  <2>2. ASSUME NEW u \in Task, u = c PROVE RunOf(u)'
    BY <1>1, <1>2, <1>3, <1>4, <1>5, <1>6, <2>2 DEF RunShape, RunOf
  <2> QED
    BY <2>1, <2>2 DEF RunShape
<1>13. QueueShape'
  <2>1. ASSUME NEW u \in Task, u # c PROVE QueuedOf(u)'
    BY <1>1, <1>2, <1>3, <1>4, <1>5, <1>6, <2>1 DEF QueueShape, QueuedOf
  <2>2. ASSUME NEW u \in Task, u = c PROVE QueuedOf(u)'
    BY <1>1, <1>2, <1>3, <1>4, <1>5, <1>6, <2>2 DEF QueueShape, QueuedOf
  <2> QED
    BY <2>1, <2>2, <1>1, <1>2, <1>3, <1>4, <1>5, <1>6 DEF QueueShape
<1>14. HostShape'
  BY <1>1, <1>2, <1>3, <1>4, <1>5, <1>6 DEF HostShape, IdleHost
<1>15. TimerShape'
  <2>1. ASSUME NEW u \in Task, u # c PROVE TimerOf(u)'
    BY <1>1, <1>2, <1>3, <1>4, <1>5, <1>6, <2>1 DEF TimerShape, TimerOf, Terminal
  <2>2. ASSUME NEW u \in Task, u = c PROVE TimerOf(u)'
    BY <1>1, <1>2, <1>3, <1>4, <1>5, <1>6, <2>2 DEF TimerShape, TimerOf, Terminal
  <2> QED
    BY <2>1, <2>2 DEF TimerShape
<1>16. AnswerShape'
  <2>1. ASSUME NEW u \in Task, u # c PROVE AnswerOf(u)'
    BY <1>1, <1>2, <1>3, <1>4, <1>5, <1>6, <2>1 DEF AnswerShape, AnswerOf
  <2>2. ASSUME NEW u \in Task, u = c PROVE AnswerOf(u)'
    BY <1>1, <1>2, <1>3, <1>4, <1>5, <1>6, <2>2 DEF AnswerShape, AnswerOf
  <2> QED
    BY <2>1, <2>2 DEF AnswerShape
<1>17. ASSUME GapShape PROVE GapShape'
  <2>1. ASSUME NEW u \in Task, u # c PROVE GapOf(u)'
    BY <1>1, <1>2, <1>3, <1>4, <1>5, <1>6, <1>17, <2>1 DEF GapShape, GapOf, RunShape, RunOf,
        QueueShape, QueuedOf, Terminal
  <2>2. ASSUME NEW u \in Task, u = c PROVE GapOf(u)'
    BY <1>1, <1>2, <1>3, <1>4, <1>5, <1>6, <1>17, <2>2 DEF GapShape, GapOf, RunShape, RunOf,
        QueueShape, QueuedOf, Terminal
  <2>3. host'.at = "preparing" /\ host'.on = None /\ ~host'.cold => MaxResumes > 0
    BY <1>1, <1>2, <1>3, <1>4, <1>5, <1>6, <1>17, Constants DEF GapShape
  <2> QED
    BY <2>1, <2>2, <2>3 DEF GapShape
<1>18. ASSUME GapShape, CalmShape PROVE Steady /\ (everTripped' \/ CalmShape')
  <2>1. ASSUME NEW u \in Task, u # c
       PROVE  CalmOf(u)' /\ (status[u] \in Terminal => status'[u] = status[u])
    BY <1>1, <1>2, <1>3, <1>4, <1>5, <1>6, <1>18, <2>1 DEF GapShape, GapOf, CalmShape, CalmOf,
        RunShape, RunOf, QueueShape, QueuedOf, Terminal
  <2>2. ASSUME NEW u \in Task, u = c
       PROVE  CalmOf(u)' /\ (status[u] \in Terminal => status'[u] = status[u])
    BY <1>1, <1>2, <1>3, <1>4, <1>5, <1>6, <1>18, <2>2 DEF GapShape, GapOf, CalmShape, CalmOf,
        RunShape, RunOf, QueueShape, QueuedOf, Terminal
  <2>3. ~tripped' /\ doomed' = {} /\ plan' = NoPlan /\ signalled' = {}
    BY <1>1, <1>2, <1>3, <1>4, <1>5, <1>6, <1>18 DEF CalmShape
  <2>4. Heralded'
    BY <1>1, <1>2, <1>3, <1>4, <1>5, <1>6, <1>18 DEF CalmShape, CalmOf, Heralded, AllOver,
        RunShape, RunOf, QueueShape, QueuedOf, Terminal
  <2> QED
    BY <2>1, <2>2, <2>3, <2>4 DEF Steady, CalmShape
<1>19. StaysCalm
  BY <1>2, <1>4, <1>5, <1>6, <1>17, <1>18 DEF StaysCalm
<1>20. Sheltered
  BY <1>1, <1>2, <1>3, <1>4, <1>5, <1>6 DEF Sheltered, RunShape, RunOf, QueueShape, QueuedOf,
      Terminal
<1> QED
  BY <1>11, <1>12, <1>13, <1>14, <1>15, <1>16, <1>7, <1>8, <1>9, <1>10, <1>19, <1>20

\* The process stops and the session is rebuilt.
LEMMA CrashKeeps ==
  ASSUME Inductive, Crash
  PROVE  Inductive' /\ StaysCalm /\ Sheltered
<1> USE DEF Inductive
<1>1. /\ queue' = <<>> /\ running' = {} /\ timers' = {} /\ signalled' = {} /\ closing' = {}
      /\ draining' = FALSE /\ disposer' = None /\ announced' = FALSE
      /\ stage' = [t \in Task |-> "off"] /\ result' = [t \in Task |-> "none"]
      /\ requeues' = [t \in Task |-> 0]
      /\ status' = [t \in Task |-> IF stage[t] = "finish" THEN result[t] ELSE status[t]]
      /\ host' = [at |-> "preparing", on |-> None, cold |-> TRUE]
  BY DEF Crash
<1>2. UNCHANGED <<created, retries, answered, tripped, doomed, plan, everTripped>>
  BY DEF Crash
<1>3. Created' = Created /\ Queued' = {} /\ Entries(queue') = {} /\ Once(queue')
  BY <1>1, <1>2 DEF Created, Queued, Entries, Once
<1>4. /\ stage' \in [Task -> Stage]
      /\ result' \in [Task -> Status \cup {"none"}]
      /\ requeues' \in [Task -> 0..MaxRequeues]
  BY <1>1, <1>2, Constants DEF Stage
<1>5. /\ status' \in [Task -> Status]
      /\ \A u \in Task : status'[u] = status[u] \/ (status'[u] \in Terminal /\ status[u] # "new")
  BY <1>1, <1>2, <1>4, Constants DEF ArrayTypes, Status, Terminal, RunShape, RunOf, TaskShape
<1>6. /\ budget' \in BudgetType
  BY <1>1, <1>2, <1>4, <1>5, Constants, BudgetFacts DEF Crash, FlagTypes
<1>7. /\ host' \in HostType /\ queue' \in Seq(Entry)
  BY <1>1, <1>2, <1>4, <1>5, <1>6, Constants DEF HostType
<1>8. /\ succeeded' \subseteq Task
  BY <1>1, <1>2, <1>4, <1>5, <1>6, <1>7, Constants DEF Crash
<1>9. /\ running' \subseteq Task /\ timers' \subseteq Unattended /\ signalled' \subseteq Task
      /\ closing' \subseteq (Task \cup {Host}) \X TailKind
      /\ draining' \in BOOLEAN /\ announced' \in BOOLEAN /\ disposer' \in Task \cup {None, Host}
  BY <1>1, <1>2, <1>4, <1>5, <1>6, <1>7, <1>8, Constants
<1>10. counter' \in Nat
  <2> DEFINE some(v) == {t \in Task : stage[t] \in {"flush", "settle", "finish"} /\ result[t] = v}
  <2>1. \A v \in {"FINISHED", "FAILED"} : Cardinality(some(v)) \in Nat
    <3>1. \A v \in {"FINISHED", "FAILED"} : some(v) \subseteq Created
      BY DEF TaskShape
    <3> QED
      BY <3>1, FS_Subset, FS_CardinalityType DEF ListTypes
  <2>2. counter' \in IF Cardinality(some("FINISHED")) = 0
                       THEN {counter + Cardinality(some("FAILED"))}
                       ELSE 0..Cardinality(some("FAILED"))
    BY DEF Crash
  <2> HIDE DEF some
  <2> QED
    BY <2>1, <2>2 DEF FlagTypes
<1>11. ArrayTypes'
  BY <1>2, <1>3, <1>4, <1>5, <1>6, <1>7, <1>8, <1>9, <1>10 DEF ArrayTypes
<1>12. SetTypes'
  BY <1>2, <1>3, <1>4, <1>5, <1>6, <1>7, <1>8, <1>9, <1>10 DEF SetTypes
<1>13. ListTypes'
  BY <1>2, <1>3, <1>4, <1>5, <1>6, <1>7, <1>8, <1>9, <1>10 DEF ListTypes
<1>14. FlagTypes'
  BY <1>2, <1>3, <1>4, <1>5, <1>6, <1>7, <1>8, <1>9, <1>10 DEF FlagTypes
<1>15. TaskShape'
  BY <1>1, <1>2, <1>3, <1>4, <1>5, <1>6, <1>7, <1>8, <1>9, <1>10 DEF TaskShape, Terminal
<1>16. RunShape'
  <2>1. ASSUME NEW u \in Task, TRUE PROVE RunOf(u)'
    BY <1>1, <1>2, <1>3, <1>4, <1>5, <1>6, <1>7, <1>8, <1>9, <1>10, <2>1 DEF RunShape, RunOf
  <2> QED
    BY <2>1 DEF RunShape
<1>17. QueueShape'
  <2>1. ASSUME NEW u \in Task, TRUE PROVE QueuedOf(u)'
    BY <1>1, <1>2, <1>3, <1>4, <1>5, <1>6, <1>7, <1>8, <1>9, <1>10, <2>1 DEF QueueShape, QueuedOf
  <2> QED
    BY <2>1, <1>1, <1>2, <1>3, <1>4, <1>5, <1>6, <1>7, <1>8, <1>9, <1>10 DEF QueueShape
<1>18. HostShape'
  BY <1>1, <1>2, <1>3, <1>4, <1>5, <1>6, <1>7, <1>8, <1>9, <1>10 DEF HostShape
<1>19. TimerShape'
  <2>1. ASSUME NEW u \in Task, TRUE PROVE TimerOf(u)'
    BY <1>1, <1>2, <1>3, <1>4, <1>5, <1>6, <1>7, <1>8, <1>9, <1>10, <2>1 DEF TimerShape, TimerOf
  <2> QED
    BY <2>1 DEF TimerShape
<1>20. AnswerShape'
  <2>1. ASSUME NEW u \in Task, TRUE PROVE AnswerOf(u)'
    BY <1>1, <1>2, <1>3, <1>4, <1>5, <1>6, <1>7, <1>8, <1>9, <1>10, <2>1 DEF AnswerShape, AnswerOf
  <2> QED
    BY <2>1 DEF AnswerShape
<1>21. ASSUME GapShape PROVE GapShape'
  <2>1. ASSUME NEW u \in Task PROVE GapOf(u)'
    BY <1>1, <1>2, <1>3, <1>4, <1>5, <1>6, <1>7, <1>8, <1>9, <1>10, <1>21, <2>1 DEF GapShape,
        GapOf, RunShape, RunOf, QueueShape, QueuedOf, Terminal
  <2>2. host'.at = "preparing" /\ host'.on = None /\ ~host'.cold => MaxResumes > 0
    BY <1>1, <1>2, <1>3, <1>4, <1>5, <1>6, <1>7, <1>8, <1>9, <1>10, <1>21, Constants DEF GapShape
  <2> QED
    BY <2>1, <2>2 DEF GapShape
<1>22. ASSUME GapShape, CalmShape PROVE Steady /\ (everTripped' \/ CalmShape')
  <2>1. ASSUME NEW u \in Task
       PROVE  CalmOf(u)' /\ (status[u] \in Terminal => status'[u] = status[u])
    BY <1>1, <1>2, <1>3, <1>4, <1>5, <1>6, <1>7, <1>8, <1>9, <1>10, <1>22, <2>1 DEF GapShape,
        GapOf, CalmShape, CalmOf, RunShape, RunOf, QueueShape, QueuedOf, Terminal
  <2>2. ~tripped' /\ doomed' = {} /\ plan' = NoPlan /\ signalled' = {}
    BY <1>1, <1>2, <1>3, <1>4, <1>5, <1>6, <1>7, <1>8, <1>9, <1>10, <1>22 DEF CalmShape
  <2>3. Heralded'
    BY <1>1, <1>2, <1>3, <1>4, <1>5, <1>6, <1>7, <1>8, <1>9, <1>10, <1>22 DEF CalmShape, CalmOf,
        Heralded, AllOver, RunShape, RunOf, QueueShape, QueuedOf, Terminal
  <2> QED
    BY <2>1, <2>2, <2>3 DEF Steady, CalmShape
<1>23. StaysCalm
  BY <1>2, <1>4, <1>5, <1>6, <1>7, <1>8, <1>9, <1>10, <1>21, <1>22 DEF StaysCalm
<1>24. Sheltered
  BY <1>1, <1>2, <1>3, <1>4, <1>5, <1>6, <1>7, <1>8, <1>9, <1>10 DEF Sheltered, RunShape, RunOf,
      QueueShape, QueuedOf, Terminal
<1> QED
  BY <1>15, <1>16, <1>17, <1>18, <1>19, <1>20, <1>11, <1>12, <1>13, <1>14, <1>23, <1>24

\* A task that is blocked for ever is canceled.
LEMMA DisposeOneKeeps ==
  ASSUME Inductive, NEW w \in Task \cup {Host}, DisposeOne(w)
  PROVE  Inductive' /\ StaysCalm /\ Sheltered
<1> USE DEF Inductive
<1>1. PICK v \in Victims :
         /\ status' = Awoken([status EXCEPT ![v] = "CANCELED"], v)
         /\ queue' = WithParent(CancelEntry(queue, v), [status EXCEPT ![v] = "CANCELED"], v)
         /\ running' = running \ {v} /\ closing' = closing \cup {<<v, "finished">>}
  BY DEF DisposeOne
<1>2. PICK i \in DOMAIN queue :
         v = queue[i].task /\ status[v] \notin Terminal /\ queue[i].blocked # {}
  BY <1>1 DEF Victims
<1>3. /\ queue[i] \in Entries(queue) /\ v \in Queued /\ v \in Task
  BY <1>2, QueueIs, TasksOfEntries DEF Entries, Queued
<1>4. v \notin running /\ status[v] \notin Terminal
  BY <1>3, <1>2 DEF QueueShape
<1> DEFINE st == [status EXCEPT ![v] = "CANCELED"]
           W == Woken(st, v)
<1>5. /\ v \in Task /\ st = [status EXCEPT ![v] = "CANCELED"]
      /\ closing' = closing \cup {<<v, "finished">>} /\ disposer' = w
  BY <1>3, <1>1 DEF DisposeOne
<1>6. UNCHANGED <<created, retries, requeues, succeeded, stage, result, timers,
                  answered, host, counter, tripped, doomed, plan, signalled, budget,
                  everTripped, announced>>
  BY DEF DisposeOne, waitVars, tripVars, history
<1>7. /\ W \subseteq Created /\ W \subseteq Task
      /\ \A u \in W : status[u] = "SUSPENDED" /\ u # v
  <2>1. W \subseteq Created /\ W \subseteq Task /\ \A u \in W : st[u] = "SUSPENDED"
    BY CreatedIsTask DEF Woken
  <2>2. /\ st[v] = "CANCELED" /\ \A u \in Task : u # v => st[u] = status[u]
    BY <1>5 DEF ArrayTypes
  <2> QED
    BY <2>1, <2>2
<1>8. W \cap Tasks(CancelEntry(queue, v)) = {}
  <2>1. W \cap Queued = {}
    BY <1>7 DEF QueueShape, QueuedOf, Terminal
  <2> QED
    BY <1>5, <2>1, QueueIs, CancelFacts
<1>9. /\ CancelEntry(queue, v) \in Seq(Entry) /\ Once(CancelEntry(queue, v))
      /\ Tasks(CancelEntry(queue, v)) = Queued \ {v}
      /\ \A e \in Entries(CancelEntry(queue, v)) : e \in Entries(queue)
  BY <1>5, QueueIs, CancelFacts
<1>10. Queued' = Tasks(queue')
  BY DEF Queued, Tasks
<1>11. /\ Created' = Created /\ queue' \in Seq(Entry) /\ Once(queue')
       /\ Queued' = (Queued \ {v}) \cup W
       /\ \A e \in Entries(queue') : e \in Entries(queue) \/ e.blocked = {}
  <2>1. Created' = Created
    BY <1>6 DEF Created
  <2> DEFINE q == CancelEntry(queue, v)
  <2>2. q \in Seq(Entry) /\ Once(q) /\ Woken(st, v) \cap Tasks(q) = {} /\ v \in Task /\ ListTypes
    BY <1>5, <1>8, <1>9
  <2>3. queue' = WithParent(q, st, v)
    BY <1>1
  <2> HIDE DEF q, st
  <2>4. /\ WithParent(q, st, v) \in Seq(Entry) /\ Once(WithParent(q, st, v))
        /\ Tasks(WithParent(q, st, v)) = Tasks(q) \cup Woken(st, v)
        /\ \A e \in Entries(WithParent(q, st, v)) : e \in Entries(q) \/ e.blocked = {}
    BY <2>2, WithParentFacts
  <2>5. Tasks(q) = Queued \ {v} /\ \A e \in Entries(q) : e \in Entries(queue)
    BY <1>9 DEF q
  <2> QED
    BY <1>10, <2>1, <2>3, <2>4, <2>5
<1>12. /\ running' = running
  BY <1>5, <1>6, Constants, <1>1, <1>4
<1>13. /\ v \in Created
  BY <1>5, <1>6, <1>12, Constants, <1>3 DEF QueueShape
<1>14. /\ draining' \in BOOLEAN /\ disposer' \in Task \cup {None, Host}
  BY <1>5, <1>6, <1>12, <1>13, Constants DEF DisposeOne, FlagTypes, RequestDrain
<1>15. /\ closing' \subseteq (Task \cup {Host}) \X TailKind
  BY <1>5, <1>6, <1>12, <1>13, <1>14, Constants DEF SetTypes, TailKind
<1>16. /\ status' \in [Task -> Status]
       /\ \A u \in Task : u # v => status'[u] = IF u \in W THEN "PENDING" ELSE status[u]
       /\ status'[v] = "CANCELED"
  BY <1>5, <1>6, <1>12, <1>13, <1>14, <1>15, Constants, <1>1, <1>7 DEF ArrayTypes, Status,
      Terminal, Awoken
<1>17. /\ ~(host.at = "preparing" /\ host.cold)
  BY <1>5, <1>6, <1>12, <1>13, <1>14, <1>15, <1>16, Constants, <1>2 DEF HostShape
<1> HIDE DEF W
<1>18. ArrayTypes'
  BY <1>6, <1>11, <1>12, <1>13, <1>14, <1>15, <1>16, <1>17 DEF ArrayTypes
<1>19. SetTypes'
  BY <1>6, <1>11, <1>12, <1>13, <1>14, <1>15, <1>16, <1>17 DEF SetTypes
<1>20. ListTypes'
  BY <1>6, <1>11, <1>12, <1>13, <1>14, <1>15, <1>16, <1>17 DEF ListTypes
<1>21. FlagTypes'
  BY <1>6, <1>11, <1>12, <1>13, <1>14, <1>15, <1>16, <1>17 DEF FlagTypes
<1>22. TaskShape'
  BY <1>5, <1>6, <1>11, <1>12, <1>13, <1>14, <1>15, <1>16, <1>17, <1>4, <1>3, <1>7 DEF TaskShape,
      Terminal
<1>23. RunShape'
  <2>1. ASSUME NEW u \in Task, u \notin W, u # v PROVE RunOf(u)'
    BY <1>5, <1>6, <1>11, <1>12, <1>13, <1>14, <1>15, <1>16, <1>17, <1>4, <1>3, <1>7, <2>1
        DEF RunShape, RunOf, Terminal
  <2>2. ASSUME NEW u \in Task, u \in W PROVE RunOf(u)'
    BY <1>5, <1>6, <1>11, <1>12, <1>13, <1>14, <1>15, <1>16, <1>17, <1>4, <1>3, <1>7, <2>2
        DEF RunShape, RunOf, Terminal
  <2>3. ASSUME NEW u \in Task, u = v PROVE RunOf(u)'
    BY <1>5, <1>6, <1>11, <1>12, <1>13, <1>14, <1>15, <1>16, <1>17, <1>4, <1>3, <1>7, <2>3
        DEF RunShape, RunOf, Terminal
  <2> QED
    BY <2>1, <2>2, <2>3 DEF RunShape
<1>24. QueueShape'
  <2>1. ASSUME NEW u \in Task, u \notin W, u # v PROVE QueuedOf(u)'
    BY <1>5, <1>6, <1>11, <1>12, <1>13, <1>14, <1>15, <1>16, <1>17, <1>4, <1>3, <1>7, <2>1
        DEF QueueShape, QueuedOf, Terminal, RunShape, RunOf
  <2>2. ASSUME NEW u \in Task, u \in W PROVE QueuedOf(u)'
    BY <1>5, <1>6, <1>11, <1>12, <1>13, <1>14, <1>15, <1>16, <1>17, <1>4, <1>3, <1>7, <2>2
        DEF QueueShape, QueuedOf, Terminal, RunShape, RunOf
  <2>3. ASSUME NEW u \in Task, u = v PROVE QueuedOf(u)'
    BY <1>5, <1>6, <1>11, <1>12, <1>13, <1>14, <1>15, <1>16, <1>17, <1>4, <1>3, <1>7, <2>3
        DEF QueueShape, QueuedOf, Terminal, RunShape, RunOf
  <2> QED
    BY <2>1, <2>2, <2>3, <1>5, <1>6, <1>11, <1>12, <1>13, <1>14, <1>15, <1>16, <1>17, <1>4, <1>3,
        <1>7 DEF QueueShape
<1>25. HostShape'
  BY <1>5, <1>6, <1>11, <1>12, <1>13, <1>14, <1>15, <1>16, <1>17, <1>4, <1>3, <1>7 DEF HostShape
<1>26. TimerShape'
  <2>1. ASSUME NEW u \in Task, u \notin W, u # v PROVE TimerOf(u)'
    BY <1>5, <1>6, <1>11, <1>12, <1>13, <1>14, <1>15, <1>16, <1>17, <1>4, <1>3, <1>7, <2>1
        DEF TimerShape, TimerOf, Terminal
  <2>2. ASSUME NEW u \in Task, u \in W PROVE TimerOf(u)'
    BY <1>5, <1>6, <1>11, <1>12, <1>13, <1>14, <1>15, <1>16, <1>17, <1>4, <1>3, <1>7, <2>2
        DEF TimerShape, TimerOf, Terminal
  <2>3. ASSUME NEW u \in Task, u = v PROVE TimerOf(u)'
    BY <1>5, <1>6, <1>11, <1>12, <1>13, <1>14, <1>15, <1>16, <1>17, <1>4, <1>3, <1>7, <2>3
        DEF TimerShape, TimerOf, Terminal
  <2> QED
    BY <2>1, <2>2, <2>3 DEF TimerShape
<1>27. AnswerShape'
  <2>1. ASSUME NEW u \in Task, u \notin W, u # v PROVE AnswerOf(u)'
    BY <1>5, <1>6, <1>11, <1>12, <1>13, <1>14, <1>15, <1>16, <1>17, <1>4, <1>3, <1>7, <2>1
        DEF AnswerShape, AnswerOf, Terminal
  <2>2. ASSUME NEW u \in Task, u \in W PROVE AnswerOf(u)'
    BY <1>5, <1>6, <1>11, <1>12, <1>13, <1>14, <1>15, <1>16, <1>17, <1>4, <1>3, <1>7, <2>2
        DEF AnswerShape, AnswerOf, Terminal
  <2>3. ASSUME NEW u \in Task, u = v PROVE AnswerOf(u)'
    BY <1>5, <1>6, <1>11, <1>12, <1>13, <1>14, <1>15, <1>16, <1>17, <1>4, <1>3, <1>7, <2>3
        DEF AnswerShape, AnswerOf, Terminal
  <2> QED
    BY <2>1, <2>2, <2>3 DEF AnswerShape
<1>28. /\ \A u \in W : stage[u] \in {"off", "flush", "settle"}
       /\ stage[v] = "off" \/ stage[v] = "finish"
  BY <1>4, <1>3, <1>7, StageFacts
<1>29. ASSUME GapShape PROVE GapShape'
  <2>1. ASSUME NEW u \in Task, u \notin W, u # v PROVE GapOf(u)'
    BY <1>5, <1>6, <1>11, <1>12, <1>13, <1>14, <1>15, <1>16, <1>17, <1>4, <1>3, <1>7, <1>28,
        <1>29, <2>1 DEF GapShape, GapOf, RunShape, RunOf, QueueShape, QueuedOf, Terminal
  <2>2. ASSUME NEW u \in Task, u \in W PROVE GapOf(u)'
    BY <1>5, <1>6, <1>11, <1>12, <1>13, <1>14, <1>15, <1>16, <1>17, <1>4, <1>3, <1>7, <1>28,
        <1>29, <2>2 DEF GapShape, GapOf, RunShape, RunOf, QueueShape, QueuedOf, Terminal
  <2>3. ASSUME NEW u \in Task, u = v PROVE GapOf(u)'
    BY <1>5, <1>6, <1>11, <1>12, <1>13, <1>14, <1>15, <1>16, <1>17, <1>4, <1>3, <1>7, <1>28,
        <1>29, <2>3 DEF GapShape, GapOf, RunShape, RunOf, QueueShape, QueuedOf, Terminal
  <2>4. host'.at = "preparing" /\ host'.on = None /\ ~host'.cold => MaxResumes > 0
    BY <1>5, <1>6, <1>11, <1>12, <1>13, <1>14, <1>15, <1>16, <1>17, <1>4, <1>3, <1>7, <1>28,
        <1>29, Constants DEF GapShape
  <2> QED
    BY <2>1, <2>2, <2>3, <2>4 DEF GapShape
<1>30. ASSUME GapShape, CalmShape PROVE Steady /\ (everTripped' \/ CalmShape')
  <2>1. ASSUME NEW u \in Task, u \notin W, u # v
       PROVE  CalmOf(u)' /\ (status[u] \in Terminal => status'[u] = status[u])
    BY <1>5, <1>6, <1>11, <1>12, <1>13, <1>14, <1>15, <1>16, <1>17, <1>4, <1>3, <1>7, <1>28,
        <1>30, <2>1
            DEF GapShape, GapOf, CalmShape, CalmOf, RunShape, RunOf, QueueShape, QueuedOf, Terminal
  <2>2. ASSUME NEW u \in Task, u \in W
       PROVE  CalmOf(u)' /\ (status[u] \in Terminal => status'[u] = status[u])
    BY <1>5, <1>6, <1>11, <1>12, <1>13, <1>14, <1>15, <1>16, <1>17, <1>4, <1>3, <1>7, <1>28,
        <1>30, <2>2
            DEF GapShape, GapOf, CalmShape, CalmOf, RunShape, RunOf, QueueShape, QueuedOf, Terminal
  <2>3. ASSUME NEW u \in Task, u = v
       PROVE  CalmOf(u)' /\ (status[u] \in Terminal => status'[u] = status[u])
    BY <1>5, <1>6, <1>11, <1>12, <1>13, <1>14, <1>15, <1>16, <1>17, <1>4, <1>3, <1>7, <1>28,
        <1>30, <2>3
            DEF GapShape, GapOf, CalmShape, CalmOf, RunShape, RunOf, QueueShape, QueuedOf, Terminal
  <2>4. ~tripped' /\ doomed' = {} /\ plan' = NoPlan /\ signalled' = {}
    BY <1>5, <1>6, <1>11, <1>12, <1>13, <1>14, <1>15, <1>16, <1>17, <1>4, <1>3, <1>7, <1>28,
        <1>30 DEF CalmShape
  <2>5. Heralded'
    BY <1>5, <1>6, <1>11, <1>12, <1>13, <1>14, <1>15, <1>16, <1>17, <1>4, <1>3, <1>7, <1>28,
        <1>30 DEF CalmShape, CalmOf, Heralded, AllOver, RunShape, RunOf, QueueShape, QueuedOf,
            Terminal
  <2> QED
    BY <2>1, <2>2, <2>3, <2>4, <2>5 DEF Steady, CalmShape
<1>31. StaysCalm
  BY <1>6, <1>12, <1>13, <1>14, <1>15, <1>16, <1>17, <1>29, <1>30 DEF StaysCalm
<1>32. Sheltered
  BY <1>5, <1>6, <1>11, <1>12, <1>13, <1>14, <1>15, <1>16, <1>17, <1>4, <1>3, <1>7, <1>28
      DEF Sheltered, RunShape, RunOf, QueueShape, QueuedOf, Terminal
<1> QED
  BY <1>22, <1>23, <1>24, <1>25, <1>26, <1>27, <1>18, <1>19, <1>20, <1>21, <1>31, <1>32

--------------------------------------------------------------------------------
(***************************************************************************)
(* Every step, and what follows                                            *)
(***************************************************************************)
\* At the start there is nothing.
LEMMA InitHolds ==
  ASSUME Init
  PROVE  Inductive /\ GapShape /\ CalmShape /\ GatesHold
<1> USE DEF Init
<1>1. Created = {} /\ Queued = {} /\ Entries(queue) = {}
  BY DEF Created, Queued, Entries
<1>2. ArrayTypes
  BY Constants DEF ArrayTypes, Status, Stage
<1>3. SetTypes
  BY DEF SetTypes
<1>4. ListTypes
  BY <1>1, FS_EmptySet DEF ListTypes
<1>5. FlagTypes
  <2>1. \A n \in Nat : n \in 0..n
    OBVIOUS
  <2>2. /\ MaxAgain \in 0..MaxAgain /\ MaxResumes \in 0..MaxResumes
        /\ MaxCrashes \in 0..MaxCrashes /\ MaxUpsets \in 0..MaxUpsets
    BY <2>1, Constants
  <2>3. budget \in BudgetType
    BY <2>2 DEF BudgetType
  <2>4. host \in HostType /\ plan \in PlanType
    BY DEF HostType, PlanType, IdleHost, NoPlan
  <2> QED
    BY <2>3, <2>4 DEF FlagTypes
<1>6. TaskShape /\ RunShape
  BY <1>1 DEF TaskShape, RunShape, RunOf, NoPlan
<1>7. QueueShape
  BY <1>1 DEF QueueShape, QueuedOf, Once
<1>8. HostShape /\ TimerShape /\ AnswerShape
  BY DEF HostShape, TimerShape, TimerOf, AnswerShape, AnswerOf, IdleHost
<1>9. GapShape /\ CalmShape
  BY <1>1 DEF GapShape, GapOf, CalmShape, CalmOf, Heralded, IdleHost, Terminal
<1>10. GatesHold
  BY DEF GatesHold
<1> QED
  BY <1>2, <1>3, <1>4, <1>5, <1>6, <1>7, <1>8, <1>9, <1>10 DEF Inductive

\* Every step keeps the invariant, and only a dispatch takes an agent or a port.
Kept == Inductive' /\ StaysCalm /\ (Sheltered \/ Dispatch)

\* The steps of a run.
LEMMA RunStepKeeps ==
  ASSUME Inductive, NEW t \in Task, RunStep(t)
  PROVE  Kept
<1>1. CASE Assembled(t)
  BY <1>1, AssembledKeeps DEF Kept
<1>2. CASE FailDoomed(t)
  BY <1>2, FailDoomedKeeps DEF Kept
<1>3. CASE AssemblyInVain(t)
  BY <1>3, AssemblyInVainKeeps DEF Kept
<1>4. CASE PushChild(t)
  BY <1>4, PushChildKeeps DEF Kept
<1>5. CASE Flushed(t)
  BY <1>5, FlushedKeeps DEF Kept
<1>6. CASE \E kind \in {"crash", "outage"} : AssemblyFails(t, kind)
  BY <1>6, AssemblyFailsComes, CameToKeeps DEF Kept
<1>7. CASE \E kind \in {"success", "fail", "continue", "human", "children", "crash", "outage",
                       "cancel"} : RunEnds(t, kind)
  BY <1>7, RunEndsComes, CameToKeeps DEF Kept
<1> QED
  BY <1>1, <1>2, <1>3, <1>4, <1>5, <1>6, <1>7 DEF RunStep

\* The steps of its settlement.
LEMMA EndStepKeeps ==
  ASSUME Inductive, NEW t \in Task, EndStep(t)
  PROVE  Kept
<1>1. CASE SettleParked(t)
  BY <1>1, SettleParkedKeeps DEF Kept
<1>2. CASE SettleExhausted(t)
  BY <1>2, SettleExhaustedKeeps DEF Kept
<1>3. CASE SettlePending(t)
  BY <1>3, SettlePendingKeeps DEF Kept
<1>4. CASE Finish(t)
  BY <1>4, FinishKeeps DEF Kept
<1>5. CASE Trip(t)
  BY <1>5, TripKeeps DEF Kept
<1>6. CASE TripCancel(t)
  BY <1>6, TripCancelKeeps DEF Kept
<1>7. CASE TripEnds(t)
  BY <1>7, TripEndsKeeps DEF Kept
<1>8. CASE DisposeEnds(t)
  BY <1>8, DisposeEndsKeeps DEF Kept
<1>9. CASE Wake(t)
  BY <1>9, WakeKeeps DEF Kept
<1>10. CASE TimerFires(t)
  BY <1>10, TimerFiresKeeps DEF Kept
<1> QED
  BY <1>1, <1>2, <1>3, <1>4, <1>5, <1>6, <1>7, <1>8, <1>9, <1>10 DEF EndStep

\* All steps.
LEMMA NextKeeps ==
  ASSUME Inductive, Next
  PROVE  Kept
<1>1. CASE \E t \in Task : RunStep(t) \/ EndStep(t)
  BY <1>1, RunStepKeeps, EndStepKeeps DEF Kept
<1>2. CASE Dispatch
  BY <1>2, DispatchKeeps DEF Kept
<1>3. CASE DrainEnds
  BY <1>3, DrainEndsKeeps DEF Kept
<1>4. CASE \E w \in Task \cup {Host} : DisposeOne(w)
  BY <1>4, DisposeOneKeeps DEF Kept
<1>5. CASE \E w \in Task \cup {Host}, tail \in TailKind : Close(w, tail)
  BY <1>5, CloseKeeps DEF Kept
<1>6. CASE Requeue
  BY <1>6, RequeueKeeps DEF Kept
<1>7. CASE Recovered
  BY <1>7, RecoveredKeeps DEF Kept
<1>8. CASE \E t \in Task : Submit(t) \/ NewRound(t) \/ Reply(t)
  BY <1>8, SubmitKeeps, NewRoundKeeps, ReplyKeeps DEF Kept
<1>9. CASE Resume
  BY <1>9, ResumeKeeps DEF Kept
<1>10. CASE Crash
  BY <1>10, CrashKeeps DEF Kept
<1> QED
  BY <1>1, <1>2, <1>3, <1>4, <1>5, <1>6, <1>7, <1>8, <1>9, <1>10 DEF Next, Drain, Tails, Command

\* A step that changes nothing.
LEMMA StutterKeeps ==
  ASSUME Inductive, UNCHANGED vars
  PROVE  Kept
<1>1. UNCHANGED <<status, created, retries, requeues, queue, succeeded, running, stage, result,
                  closing, timers, answered, host, counter, tripped, doomed, plan, signalled,
                  budget, everTripped, draining, disposer, announced>>
  BY DEF vars, taskVars, queueVars, runVars, waitVars, tripVars, history
<1>2. Created' = Created /\ Queued' = Queued
  BY <1>1 DEF Created, Queued
<1>3. ArrayTypes' /\ SetTypes' /\ ListTypes' /\ FlagTypes'
  BY <1>1, <1>2 DEF Inductive, ArrayTypes, SetTypes, ListTypes, FlagTypes
<1>4. TaskShape' /\ RunShape' /\ HostShape' /\ TimerShape' /\ AnswerShape'
  BY <1>1, <1>2 DEF Inductive, TaskShape, RunShape, RunOf, HostShape, TimerShape, TimerOf,
                    AnswerShape, AnswerOf
<1>5. QueueShape'
  BY <1>1, <1>2 DEF Inductive, QueueShape, QueuedOf, Once, Entries
<1>6. GapShape => GapShape'
  BY <1>1, <1>2 DEF GapShape, GapOf
<1>7. CalmShape => CalmShape' /\ Steady
  BY <1>1, <1>2 DEF CalmShape, CalmOf, Heralded, AllOver, Steady
<1>8. Sheltered
  BY <1>1 DEF Sheltered
<1> QED
  BY <1>1, <1>3, <1>4, <1>5, <1>6, <1>7, <1>8 DEF Inductive, StaysCalm, Kept

\* Inductive and Calm hold of every behaviour.
THEOREM InductiveInvariant == Spec => [](Inductive /\ Calm)
<1>1. Init => Inductive /\ Calm
  BY InitHolds DEF Calm
<1>2. Inductive /\ Calm /\ [Next]_vars => (Inductive /\ Calm)'
  <2>1. ASSUME Inductive, Calm, [Next]_vars PROVE Kept
    BY <2>1, NextKeeps, StutterKeeps
  <2>2. ASSUME Inductive, Calm, [Next]_vars, ResumesApart
        PROVE  GapShape' /\ (~everTripped' => CalmShape')
    BY <2>1, <2>2 DEF Kept, StaysCalm, Calm
  <2> QED
    BY <2>1, <2>2 DEF Kept, Calm, ResumesApart
<1> QED
  BY <1>1, <1>2, PTL DEF Spec

\* Every variable has its type, in every reachable state.
THEOREM TypeCorrect == Spec => []TypeOK
<1>1. Inductive => TypeOK
  BY DEF Inductive, ArrayTypes, SetTypes, ListTypes, FlagTypes, HostType, PlanType, BudgetType,
         TypeOK
<1> QED
  BY <1>1, InductiveInvariant, PTL

\* A step that takes nothing leaves the gates as they are.
LEMMA ShelteredGates ==
  ASSUME GatesHold, Sheltered
  PROVE  GatesHold'
<1>1. ASSUME NEW t \in Task, NEW u \in Task, t # u, {t, u} \subseteq running'
      PROVE  Agent[t] # Agent[u]
  BY <1>1 DEF GatesHold, Sheltered
<1> DEFINE holds(x) == x \notin Unattended /\ (x \in running \/ status[x] = "AWAITING_HUMAN")
<1>2. \A x \in Task : holds(x)' => holds(x)
  BY DEF Sheltered
<1>3. ASSUME NEW t \in Task, NEW u \in Task, t # u, holds(t)', holds(u)'
      PROVE  Port[t] # Port[u]
  <2>1. holds(t) /\ holds(u)
    BY <1>2, <1>3
  <2> QED
    BY <1>3, <2>1 DEF GatesHold
<1> QED
  BY <1>1, <1>3 DEF GatesHold

\* A dispatch takes what nobody has.
LEMMA DispatchGates ==
  ASSUME Inductive, GatesHold, Dispatch
  PROVE  GatesHold'
<1>1. PICK i \in DOMAIN queue :
        /\ MayRun(queue[i])
        /\ running' = running \cup {queue[i].task}
        /\ status' = [status EXCEPT ![queue[i].task] = "ACTIVE"]
  BY DEF Dispatch, Ready
<1>2. PICK c \in Task : c = queue[i].task
  BY QueueIs, TasksOfEntries DEF Inductive, Tasks
<1>3. /\ c \notin running /\ \A u \in running : Agent[u] # Agent[c]
      /\ c \notin Unattended => \A u \in Task \ Unattended :
           u \in running \/ status[u] = "AWAITING_HUMAN" => Port[u] # Port[c]
  BY <1>1, <1>2 DEF MayRun, BusyAgents, HeldPorts
<1>4. /\ running' = running \cup {c} /\ status'[c] = "ACTIVE"
      /\ \A u \in Task : u # c => status'[u] = status[u]
  BY <1>1, <1>2 DEF Inductive, ArrayTypes
<1>5. ASSUME NEW t \in Task, NEW u \in Task, t # u, {t, u} \subseteq running'
      PROVE  Agent[t] # Agent[u]
  BY <1>3, <1>4, <1>5 DEF GatesHold
<1> DEFINE holds(x) == x \notin Unattended /\ (x \in running \/ status[x] = "AWAITING_HUMAN")
<1>6. \A x \in Task : holds(x)' => holds(x) \/ (x = c /\ c \notin Unattended)
  BY <1>4
<1>7. ASSUME NEW t \in Task, NEW u \in Task, t # u, holds(t)', holds(u)'
      PROVE  Port[t] # Port[u]
  <2>1. CASE holds(t) /\ holds(u)
    BY <1>7, <2>1 DEF GatesHold
  <2>2. CASE t = c /\ c \notin Unattended
    BY <1>3, <1>6, <1>7, <2>2
  <2>3. CASE u = c /\ c \notin Unattended
    BY <1>3, <1>6, <1>7, <2>3
  <2> QED
    BY <1>6, <1>7, <2>1, <2>2, <2>3
<1> QED
  BY <1>5, <1>7 DEF GatesHold

\* The gates of drain: two runs never share an agent, and a port has one attended task.
THEOREM GatesStayClosed == Spec => []GatesHold
<1>1. Init => GatesHold
  BY InitHolds
<1>2. Inductive /\ GatesHold /\ [Next]_vars => GatesHold'
  BY NextKeeps, StutterKeeps, ShelteredGates, DispatchGates DEF Kept
<1> QED
  BY <1>1, <1>2, InductiveInvariant, PTL DEF Spec

\* An interrupted autonomous job has its timer, nobody is in the queue twice, and a parked
\* task whose question is answered does not stay parked.
THEOREM WaitersAreReached == Spec => [](AutonomousIsDriven /\ QueuedOnce /\ AnswerIsHeard)
<1>1. ASSUME Inductive PROVE AutonomousIsDriven
  <2>1. \A t \in Unattended : t \in Task /\ TimerOf(t)
    BY <1>1, Constants DEF Inductive, TimerShape
  <2> QED
    BY <2>1 DEF TimerOf, AutonomousIsDriven, Quiet, AtWork, IdleHost
<1>2. Inductive => QueuedOnce
  BY DEF Inductive, QueueShape, Once, QueuedOnce
<1>3. ASSUME Inductive PROVE AnswerIsHeard
  <2>1. \A t \in answered : t \in Task /\ AnswerOf(t)
    BY <1>3 DEF Inductive, AnswerShape, SetTypes
  <2> QED
    BY <2>1 DEF AnswerOf, AnswerIsHeard, Quiet, AtWork, IdleHost
<1> QED
  BY <1>1, <1>2, <1>3, InductiveInvariant, PTL

\* And when all is over, that has been announced: unless the threshold has stopped the session,
\* and unless /resume may find an autonomous job.
THEOREM EverybodyIsReached ==
  ASSUME ResumesApart
  PROVE  Spec => []EveryoneIsReached
<1>1. Calm => EndIsAnnounced
  <2>1. ASSUME CalmShape, Quiet PROVE ~(created # <<>> /\ AllOver /\ ~announced)
    BY <2>1 DEF CalmShape, Heralded, Quiet, AtWork, IdleHost
  <2> QED
    BY <2>1 DEF Calm, EndIsAnnounced
<1>2. AutonomousIsDriven /\ QueuedOnce /\ AnswerIsHeard /\ EndIsAnnounced => EveryoneIsReached
  BY DEF EveryoneIsReached
<1> QED
  BY <1>1, <1>2, InductiveInvariant, WaitersAreReached, PTL

\* A task that is over stays as it is until the threshold stops the session, unless /resume
\* may find an autonomous job.
THEOREM WhoIsOverStaysOver ==
  ASSUME ResumesApart
  PROVE  Spec => TerminalUntilTripped
<1> DEFINE step == ~everTripped => \A t \in Task : status[t] \in Terminal => status'[t] = status[t]
<1>1. ASSUME Inductive, Calm, [Next]_vars PROVE [step]_vars
  <2>1. Kept
    BY <1>1, NextKeeps, StutterKeeps
  <2>2. ~everTripped => Steady
    BY <1>1, <2>1 DEF Calm, Kept, StaysCalm
  <2> QED
    BY <2>2 DEF Steady
<1> HIDE DEF step
<1>2. Spec => [][step]_vars
  BY <1>1, InductiveInvariant, PTL DEF Spec
<1> QED
  BY <1>2 DEF step, TerminalUntilTripped

--------------------------------------------------------------------------------
(***************************************************************************)
(* Who waits for whom                                                      *)
(***************************************************************************)
\* A dependency that no longer stands in the way: it has finished, or it was over when the
\* session was rebuilt and nobody touches it any more.
Met(d) ==
  \/ status[d] = "FINISHED"
  \/ Restarted /\ status[d] \in Terminal /\ stage[d] = "off" /\ d \notin Queued
DepsMet(t) == \A d \in Deps[t] : Met(d)

\* A task that has finished runs no more, and the queue knows once it is booked.
EndOf(t) ==
  status[t] = "FINISHED" =>
    /\ t \notin Queued /\ stage[t] \notin {"assemble", "execute", "flush", "settle"}
    /\ stage[t] = "finish" => result[t] = "FINISHED"
    /\ t \in succeeded \/ stage[t] = "finish"

\* The process has died and the command that requeues has not come yet.
Cold == host.at = "preparing" /\ host.cold

\* A task that has started, or that would be put back without its dependencies, has none
\* in its way.
StartOf(t) ==
  /\ stage[t] # "off" => DepsMet(t)
  /\ status[t] \in Parked => DepsMet(t)
  /\ t \in Created \ Queued /\ status[t] \notin Terminal /\ ~Cold => DepsMet(t)

\* An entry names every dependency that is in the way, and only a task that has never
\* started has such.
WaitOf(e) ==
  /\ \A d \in Deps[e.task] : d \in e.blocked \/ Met(d)
  /\ e.blocked \subseteq Deps[e.task]
  /\ e.blocked # {} => stage[e.task] = "off" /\ status[e.task] = "PENDING"

DepShape ==
  /\ \A t \in Task : EndOf(t) /\ StartOf(t)
  /\ \A d \in succeeded \ Roots : status[d] = "FINISHED"
  /\ \A e \in Entries(queue) : WaitOf(e)
  /\ host.cold => Restarted

\* The steps of a plan are created from the last to the first, in one go unless the
\* process dies.
PlanShape ==
  \A p \in Task : \A i, j \in DOMAIN Plan[p] : i < j =>
    /\ Plan[p][i] \in Created => Plan[p][j] \in Created
    /\ Plan[p][j] \in Created => Plan[p][i] \in Created \/ stage[p] = "flush" \/ Restarted

\* Whoever can never run is still to be found by a scan.
Hunted == host.at = "disposing" \/ \E t \in Task : stage[t] \in {"finish", "dispose"}
ScanShape ==
  /\ ~tripped => \A t \in Task : stage[t] # "trip"
  /\ ResumesApart =>
       /\ disposer \in Task => stage[disposer] = "dispose"
       /\ disposer = Host => host.at = "disposing"
       /\ ~tripped /\ Victims # {} => Hunted

\* Whoever may run is still to be found by a drain.
DrainShape == ~tripped /\ host.at = "idle" /\ ~draining /\ ~AtWork => Ready = {}

Ordered == DepShape /\ PlanShape /\ ScanShape /\ DrainShape

\* Nobody depends on a root.
LEMMA DepsAreSteps ==
  ASSUME NEW t \in Task
  PROVE  Deps[t] \subseteq Task \ Roots
<1>1. ASSUME NEW d \in Deps[t] PROVE d \in Task \ Roots
  <2>1. PICK i \in DOMAIN Plan[Parent[t]], j \in DOMAIN Plan[Parent[t]] :
          j < i /\ Plan[Parent[t]][i] = t /\ Plan[Parent[t]][j] = d
    BY PlansAssumption
  <2>2. Parent[t] \in Task /\ Parent[d] = Parent[t]
    BY <2>1, PlansAssumption
  <2>3. d \in Task
    BY Constants
  <2> QED
    BY <2>2, <2>3, Constants DEF Roots
<1> QED
  BY <1>1

\* An entry is the entry of a queued task, and its only one.
LEMMA EntryIs ==
  ASSUME Inductive, NEW e \in Entries(queue)
  PROVE  /\ e.task \in Task /\ e.task \in Queued /\ e.blocked \subseteq Task
         /\ \A f \in Entries(queue) : f.task = e.task => f = e
<1>1. queue \in Seq(Entry) /\ Once(queue) /\ Queued = Tasks(queue)
  BY QueueIs DEF Inductive
<1>2. e.task \in Task /\ e.task \in Queued /\ e.blocked \subseteq Task
  BY <1>1, TasksOfEntries DEF Entry
<1>3. \A f \in Entries(queue) : f.task = e.task => f = e
  BY <1>1 DEF Once, Entries
<1> QED
  BY <1>2, <1>3

\* The dependencies of a step that touches the tasks W only.
LEMMA DepsStay ==
  ASSUME Inductive, DepShape, NEW W \in SUBSET Task,
         \A u \in Task \ W :
           /\ stage'[u] = stage[u] /\ status'[u] = status[u] /\ result'[u] = result[u]
           /\ u \in Created' <=> u \in Created
           /\ u \in Queued' <=> u \in Queued,
         Restarted' <=> Restarted, host'.cold => Restarted,
         Cold => Cold' \/ \A u \in Created \ (W \cup Queued) : status[u] \in Terminal \cup Parked,
         \A u \in W :
           /\ EndOf(u)'
           /\ u \notin Roots =>
                (Met(u) => Met(u)') /\ (status[u] = "FINISHED" => status'[u] = "FINISHED")
           /\ \/ DepsMet(u)
              \/ /\ stage'[u] = "off" /\ status'[u] \notin Parked
                 /\ status'[u] \in Terminal \/ u \in Queued',
         \A e \in Entries(queue') :
           \/ e \in Entries(queue) /\ e.task \notin W
           \/ /\ e.task \in W /\ e.blocked \subseteq Deps[e.task]
              /\ \A d \in Deps[e.task] : d \in e.blocked \/ Met(d)
              /\ e.blocked # {} => stage'[e.task] = "off" /\ status'[e.task] = "PENDING",
         succeeded \subseteq succeeded',
         \A d \in succeeded' \ succeeded : d \in Roots \/ status'[d] = "FINISHED"
  PROVE  DepShape'
<1>1. ASSUME NEW d \in Task \ Roots, Met(d) PROVE Met(d)'
  BY <1>1 DEF Met
<1>2. ASSUME NEW t \in Task, DepsMet(t) PROVE DepsMet(t)'
  BY <1>1, <1>2, DepsAreSteps DEF DepsMet
<1>3. ASSUME NEW t \in Task PROVE EndOf(t)'
  <2>1. CASE t \in W
    BY <2>1
  <2>2. CASE t \notin W
    BY <2>2 DEF DepShape, EndOf
  <2> QED
    BY <2>1, <2>2
<1>4. ASSUME NEW t \in Task PROVE StartOf(t)'
  <2>1. CASE t \in W
    <3>1. CASE DepsMet(t)
      BY <1>2, <3>1 DEF StartOf
    <3>2. CASE /\ stage'[t] = "off" /\ status'[t] \notin Parked
               /\ status'[t] \in Terminal \/ t \in Queued'
      BY <3>2 DEF StartOf
    <3> QED
      BY <2>1, <3>1, <3>2
  <2>2. CASE t \notin W
    <3>1. StartOf(t)
      BY DEF DepShape
    <3>2. t \in Created \ Queued /\ status[t] \notin Terminal /\ ~Cold' => DepsMet(t)
      <4>1. CASE Cold
        BY <2>2, <3>1, <4>1 DEF StartOf
      <4>2. CASE ~Cold
        BY <3>1, <4>2 DEF StartOf
      <4> QED
        BY <4>1, <4>2
    <3> QED
      BY <1>2, <2>2, <3>1, <3>2 DEF StartOf
  <2> QED
    BY <2>1, <2>2
<1>5. ASSUME NEW d \in succeeded' \ Roots PROVE status'[d] = "FINISHED"
  <2>1. CASE d \notin succeeded
    BY <1>5, <2>1
  <2>2. CASE d \in succeeded
    <3>1. d \in Task /\ status[d] = "FINISHED"
      BY <1>5, <2>2 DEF DepShape, Inductive, SetTypes
    <3> QED
      BY <1>5, <3>1
  <2> QED
    BY <2>1, <2>2
<1>6. ASSUME NEW e \in Entries(queue') PROVE WaitOf(e)'
  <2>1. CASE e \in Entries(queue) /\ e.task \notin W
    <3>1. e.task \in Task /\ WaitOf(e)
      BY <2>1, EntryIs DEF DepShape
    <3>2. \A d \in Deps[e.task] : d \in e.blocked \/ Met(d)'
      BY <1>1, <3>1, DepsAreSteps DEF WaitOf
    <3> QED
      BY <2>1, <3>1, <3>2 DEF WaitOf
  <2>2. CASE /\ e.task \in W /\ e.blocked \subseteq Deps[e.task]
             /\ \A d \in Deps[e.task] : d \in e.blocked \/ Met(d)
             /\ e.blocked # {} => stage'[e.task] = "off" /\ status'[e.task] = "PENDING"
    <3>1. \A d \in Deps[e.task] : d \in e.blocked \/ Met(d)'
      BY <1>1, <2>2, DepsAreSteps
    <3> QED
      BY <2>2, <3>1 DEF WaitOf
  <2> QED
    BY <1>6, <2>1, <2>2
<1>7. host'.cold => Restarted'
  OBVIOUS
<1> QED
  BY <1>3, <1>4, <1>5, <1>6, <1>7 DEF DepShape

\* The same for the step of a run that leaves the queue alone.
LEMMA MoverDeps ==
  ASSUME Inductive, DepShape, NEW t \in Task, stage[t] # "off",
         \A u \in Task : u # t =>
           stage'[u] = stage[u] /\ status'[u] = status[u] /\ result'[u] = result[u],
         UNCHANGED <<created, queue, host>>, Restarted' <=> Restarted,
         EndOf(t)', status[t] = "FINISHED" => status'[t] = "FINISHED",
         succeeded \subseteq succeeded',
         \A d \in succeeded' \ succeeded : status'[d] = "FINISHED"
  PROVE  DepShape'
<1> DEFINE W == {t}
<1>1. Created' = Created /\ Queued' = Queued /\ (Cold' <=> Cold)
  BY DEF Created, Queued, Cold
<1>2. StartOf(t) /\ EndOf(t)
  BY DEF DepShape
<1>3. DepsMet(t) /\ (Met(t) => Met(t)')
  BY <1>2 DEF StartOf, Met
<1>4. \A e \in Entries(queue') :
        \/ e \in Entries(queue) /\ e.task \notin W
        \/ /\ e.task \in W /\ e.blocked \subseteq Deps[e.task]
           /\ \A d \in Deps[e.task] : d \in e.blocked \/ Met(d)
           /\ e.blocked # {} => stage'[e.task] = "off" /\ status'[e.task] = "PENDING"
  <2>1. \A e \in Entries(queue) : WaitOf(e)
    BY DEF DepShape
  <2>2. queue' = queue
    OBVIOUS
  <2> QED
    BY <1>3, <2>1, <2>2 DEF WaitOf
<1>5. host'.cold => Restarted
  BY DEF DepShape
<1>6. \A u \in W :
        /\ EndOf(u)'
        /\ u \notin Roots =>
             (Met(u) => Met(u)') /\ (status[u] = "FINISHED" => status'[u] = "FINISHED")
        /\ \/ DepsMet(u)
           \/ /\ stage'[u] = "off" /\ status'[u] \notin Parked
              /\ status'[u] \in Terminal \/ u \in Queued'
  BY <1>3
<1>7. \A u \in Task \ W :
        /\ stage'[u] = stage[u] /\ status'[u] = status[u] /\ result'[u] = result[u]
        /\ u \in Created' <=> u \in Created
        /\ u \in Queued' <=> u \in Queued
  BY <1>1
<1> HIDE DEF W
<1>8. W \in SUBSET Task
  BY DEF W
<1> QED
  BY <1>1, <1>4, <1>5, <1>6, <1>7, <1>8, DepsStay

\* Who is blocked for ever, said of the entries.
LEMMA VictimsAre ==
  /\ Victims = {e.task : e \in {f \in Entries(queue) :
       status[f.task] \notin Terminal /\ \E d \in f.blocked : status[d] \in {"FAILED", "CANCELED"}}}
  /\ Victims' = {e.task : e \in {f \in Entries(queue') :
       /\ status'[f.task] \notin Terminal
       /\ \E d \in f.blocked : status'[d] \in {"FAILED", "CANCELED"}}}
BY DEF Victims, Entries

\* A plan is not touched by a step that creates nobody and ends no flush too early.
LEMMA PlanStays ==
  ASSUME Inductive, PlanShape, Created' = Created, Restarted => Restarted',
         \A p \in Task : stage[p] = "flush" =>
           \/ stage'[p] = "flush" \/ Restarted'
           \/ \A i, j \in DOMAIN Plan[p] : i < j /\ Plan[p][j] \in Created => Plan[p][i] \in Created
  PROVE  PlanShape'
<1>1. ASSUME NEW p \in Task, NEW i \in DOMAIN Plan[p], NEW j \in DOMAIN Plan[p], i < j
      PROVE  /\ Plan[p][i] \in Created' => Plan[p][j] \in Created'
             /\ Plan[p][j] \in Created' =>
                  Plan[p][i] \in Created' \/ stage'[p] = "flush" \/ Restarted'
  BY <1>1 DEF PlanShape
<1> QED
  BY <1>1 DEF PlanShape

\* A drain that is asked for is made, and one that found nobody need not be repeated.
LEMMA DrainStays ==
  ASSUME Inductive, DrainShape,
         \/ RequestDrain \/ tripped' \/ host'.at # "idle" \/ draining'
         \/ \E t \in Task : stage'[t] # "off"
         \/ UNCHANGED <<stage, status, queue, succeeded, running, draining, tripped, host>>
  PROVE  DrainShape'
<1>1. CASE RequestDrain
  BY <1>1 DEF RequestDrain, DrainShape
<1>2. CASE tripped' \/ host'.at # "idle" \/ draining'
  BY <1>2 DEF DrainShape
<1>3. CASE \E t \in Task : stage'[t] # "off"
  BY <1>3 DEF DrainShape, AtWork
<1>4. CASE UNCHANGED <<stage, status, queue, succeeded, running, draining, tripped, host>>
  BY <1>4 DEF DrainShape, AtWork, Ready, MayRun, BusyAgents, HeldPorts
<1> QED
  BY <1>1, <1>2, <1>3, <1>4

\* The step of a run that leaves the queue alone keeps all of this.
LEMMA MoverKeeps ==
  ASSUME Inductive, Ordered, NEW t \in Task, stage[t] # "off",
         \A u \in Task : u # t =>
           stage'[u] = stage[u] /\ status'[u] = status[u] /\ result'[u] = result[u],
         UNCHANGED <<created, queue, host>>, Restarted' <=> Restarted, tripped => tripped',
         EndOf(t)', status[t] = "FINISHED" => status'[t] = "FINISHED",
         succeeded \subseteq succeeded',
         \A d \in succeeded' \ succeeded : status'[d] = "FINISHED",
         disposer' \in {disposer, None}, ResumesApart /\ disposer' = t => stage'[t] = "dispose",
         stage'[t] = "trip" => tripped',
         status'[t] \in {"FAILED", "CANCELED"} =>
           status[t] \in {"FAILED", "CANCELED"} \/ stage'[t] \in {"finish", "dispose"} \/ tripped',
         stage[t] \in {"finish", "dispose"} =>
           \/ stage'[t] \in {"finish", "dispose"} \/ tripped' \/ Victims = {}
           \/ disposer \notin {None, t},
         stage[t] = "flush" =>
           \/ stage'[t] = "flush"
           \/ \A i, j \in DOMAIN Plan[t] :
                i < j /\ Plan[t][j] \in Created => Plan[t][i] \in Created,
         RequestDrain \/ stage'[t] # "off" \/ tripped'
  PROVE  Ordered'
<1>1. DepShape'
  BY MoverDeps DEF Ordered
<1>2. PlanShape'
  <2>1. Created' = Created
    BY DEF Created
  <2>2. \A p \in Task : stage[p] = "flush" =>
          \/ stage'[p] = "flush" \/ Restarted'
          \/ \A i, j \in DOMAIN Plan[p] : i < j /\ Plan[p][j] \in Created => Plan[p][i] \in Created
    OBVIOUS
  <2> QED
    BY <2>1, <2>2, PlanStays DEF Ordered
<1>3. DrainShape'
  BY DrainStays DEF Ordered
<1>4. ASSUME ResumesApart, ~tripped', Victims' # {} PROVE Hunted'
  <2>1. ~tripped
    BY <1>4
  <2>2. PICK e \in Entries(queue) :
          /\ status'[e.task] \notin Terminal
          /\ \E d \in e.blocked : status'[d] \in {"FAILED", "CANCELED"}
    BY <1>4, VictimsAre
  <2>3. PICK d \in e.blocked : status'[d] \in {"FAILED", "CANCELED"}
    BY <2>2
  <2>4. e.task \in Task /\ d \in Task /\ WaitOf(e)
    BY EntryIs DEF Ordered, DepShape
  <2>5. e.task # t /\ status[e.task] \notin Terminal
    BY <2>2, <2>3, <2>4 DEF WaitOf
  <2>6. CASE status[d] \notin {"FAILED", "CANCELED"}
    <3>1. stage'[t] \in {"finish", "dispose"}
      BY <1>4, <2>3, <2>4, <2>6
    <3> QED
      BY <3>1 DEF Hunted
  <2>7. CASE status[d] \in {"FAILED", "CANCELED"}
    <3>1. e.task \in Victims
      BY <2>5, <2>7, VictimsAre
    <3>2. Hunted
      BY <1>4, <2>1, <3>1 DEF Ordered, ScanShape
    <3>3. CASE disposer \notin {None, t}
      <4>1. disposer \in Task \/ disposer = Host
        BY <3>3 DEF Inductive, FlagTypes
      <4> QED
        BY <1>4, <3>3, <4>1 DEF Ordered, ScanShape, Hunted
    <3>4. CASE disposer \in {None, t}
      <4>1. host.at = "disposing" \/ \E u \in Task : stage[u] \in {"finish", "dispose"}
        BY <3>2 DEF Hunted
      <4>2. CASE host.at = "disposing"
        BY <4>2 DEF Hunted
      <4>3. ASSUME NEW u \in Task, stage[u] \in {"finish", "dispose"} PROVE Hunted'
        <5>1. stage'[u] \in {"finish", "dispose"}
          BY <1>4, <3>1, <3>4, <4>3
        <5> QED
          BY <5>1 DEF Hunted
      <4> QED
        BY <4>1, <4>2, <4>3
    <3> QED
      BY <3>3, <3>4
  <2> QED
    BY <2>6, <2>7
<1>5. ResumesApart /\ disposer' \in Task => stage'[disposer'] = "dispose"
  BY Constants DEF Ordered, ScanShape
<1>6. ResumesApart /\ disposer' = Host => host'.at = "disposing"
  BY SchedulingAssumption DEF Ordered, ScanShape
<1>7. ~tripped' => \A u \in Task : stage'[u] # "trip"
  BY DEF Ordered, ScanShape
<1> QED
  BY <1>1, <1>2, <1>3, <1>4, <1>5, <1>6, <1>7 DEF Ordered, ScanShape

\* Where a run is, who has a slot and who is queued, of one task.
LEMMA RunFacts ==
  ASSUME Inductive, Ordered, NEW t \in Task
  PROVE  RunOf(t) /\ QueuedOf(t) /\ EndOf(t) /\ StartOf(t)
BY DEF Inductive, RunShape, QueueShape, Ordered, DepShape

\* The context is assembled.
LEMMA AssembledOrders ==
  ASSUME Inductive, Ordered, NEW t \in Task, Assembled(t)
  PROVE  Ordered'
<1>1. /\ stage[t] = "assemble" /\ stage' = [stage EXCEPT ![t] = "execute"]
      /\ UNCHANGED <<status, result, created, queue, succeeded, host, budget, tripped, disposer>>
  BY DEF Assembled, Goto, taskVars, queueVars, waitVars, tripVars, history
<1>2. stage'[t] = "execute" /\ \A u \in Task : u # t => stage'[u] = stage[u]
  BY <1>1 DEF Inductive, ArrayTypes
<1>3. status[t] # "FINISHED"
  BY <1>1, RunFacts DEF EndOf
<1>4. EndOf(t)'
  BY <1>1, <1>2, <1>3 DEF EndOf
<1>5. ResumesApart => disposer # t
  BY <1>1 DEF Ordered, ScanShape
<1> QED
  BY <1>1, <1>2, <1>3, <1>4, <1>5, MoverKeeps DEF Restarted

\* A condemned root fails.
LEMMA FailDoomedOrders ==
  ASSUME Inductive, Ordered, NEW t \in Task, FailDoomed(t)
  PROVE  Ordered'
<1>1. /\ stage[t] \in {"assemble", "execute"} /\ stage' = [stage EXCEPT ![t] = "finish"]
      /\ status' = [status EXCEPT ![t] = "FAILED"] /\ result' = [result EXCEPT ![t] = "FAILED"]
      /\ UNCHANGED <<created, queue, succeeded, host, budget, tripped, disposer>>
  BY DEF FailDoomed, Goto, ComesTo, queueVars, waitVars, history
<1>2. /\ stage'[t] = "finish" /\ status'[t] = "FAILED"
      /\ \A u \in Task : u # t =>
           stage'[u] = stage[u] /\ status'[u] = status[u] /\ result'[u] = result[u]
  BY <1>1 DEF Inductive, ArrayTypes
<1>3. status[t] # "FINISHED"
  BY <1>1, RunFacts DEF EndOf
<1>4. EndOf(t)'
  BY <1>1, <1>2, <1>3 DEF EndOf
<1>5. ResumesApart => disposer # t
  BY <1>1 DEF Ordered, ScanShape
<1> QED
  BY <1>1, <1>2, <1>3, <1>4, <1>5, MoverKeeps DEF Restarted

\* A task that was settled meanwhile returns its slot.
LEMMA AssemblyInVainOrders ==
  ASSUME Inductive, Ordered, NEW t \in Task, AssemblyInVain(t)
  PROVE  Ordered'
<1>1. /\ stage[t] = "assemble" /\ stage' = [stage EXCEPT ![t] = "off"]
      /\ result' = [result EXCEPT ![t] = "none"]
      /\ UNCHANGED <<status, created, queue, succeeded, host, budget, tripped, disposer>>
      /\ RequestDrain
  BY DEF AssemblyInVain, Leave, Goto, taskVars, waitVars, tripVars, history
<1>2. /\ stage'[t] = "off"
      /\ \A u \in Task : u # t => stage'[u] = stage[u] /\ result'[u] = result[u]
  BY <1>1 DEF Inductive, ArrayTypes
<1>3. status[t] # "FINISHED"
  BY <1>1, RunFacts DEF EndOf
<1>4. EndOf(t)'
  BY <1>1, <1>2, <1>3 DEF EndOf
<1>5. ResumesApart => disposer # t
  BY <1>1 DEF Ordered, ScanShape
<1> QED
  BY <1>1, <1>2, <1>3, <1>4, <1>5, MoverKeeps DEF Restarted

\* A run comes to a status.
LEMMA CameToOrders ==
  ASSUME Inductive, Ordered, NEW t \in Task, NEW st, CameTo(t, st)
  PROVE  Ordered'
<1>1. /\ stage[t] \in {"assemble", "execute"} /\ stage' = [stage EXCEPT ![t] = Onward(st)]
      /\ status' = [status EXCEPT ![t] = st] /\ result' = [result EXCEPT ![t] = st]
      /\ UNCHANGED <<created, queue, succeeded, host, tripped, disposer>>
      /\ budget'.crashes = budget.crashes
  BY DEF CameTo
<1>2. /\ stage'[t] = Onward(st) /\ status'[t] = st /\ result'[t] = st
      /\ \A u \in Task : u # t =>
           stage'[u] = stage[u] /\ status'[u] = status[u] /\ result'[u] = result[u]
  BY <1>1 DEF Inductive, ArrayTypes
<1>3. status[t] # "FINISHED" /\ t \notin Queued
  BY <1>1, RunFacts DEF EndOf, RunOf, QueuedOf
<1>4. /\ Onward(st) \in {"flush", "settle", "finish"}
      /\ st \in Terminal => Onward(st) = "finish"
  BY DEF Onward, Terminal
<1>5. t \notin Queued'
  BY <1>1, <1>3 DEF Queued
<1>6. EndOf(t)'
  BY <1>2, <1>4, <1>5 DEF EndOf, Terminal
<1>7. ResumesApart => disposer # t
  BY <1>1 DEF Ordered, ScanShape
<1> QED
  BY <1>1, <1>2, <1>3, <1>4, <1>5, <1>6, <1>7, MoverKeeps DEF Restarted, Terminal

\* All that was staged has been pushed, or is dropped.
LEMMA FlushedOrders ==
  ASSUME Inductive, Ordered, NEW t \in Task, Flushed(t)
  PROVE  Ordered'
<1>1. /\ stage[t] = "flush" /\ stage' = [stage EXCEPT ![t] = "settle"]
      /\ UNCHANGED <<status, result, created, queue, succeeded, host, budget, tripped, disposer>>
      /\ Staged(t) = {} \/ Dropped(t)
  BY DEF Flushed, Goto, taskVars, queueVars, waitVars, tripVars, history
<1>2. stage'[t] = "settle" /\ \A u \in Task : u # t => stage'[u] = stage[u]
  BY <1>1 DEF Inductive, ArrayTypes
<1>3. status[t] # "FINISHED"
  BY <1>1, RunFacts DEF EndOf
<1>4. \A i, j \in DOMAIN Plan[t] : i < j /\ Plan[t][j] \in Created => Plan[t][i] \in Created
  BY <1>1 DEF Staged, Dropped
<1>5. EndOf(t)'
  BY <1>1, <1>2, <1>3 DEF EndOf
<1>6. ResumesApart => disposer # t
  BY <1>1 DEF Ordered, ScanShape
<1> QED
  BY <1>1, <1>2, <1>3, <1>4, <1>5, <1>6, MoverKeeps DEF Restarted

\* A run is parked.
LEMMA SettleParkedOrders ==
  ASSUME Inductive, Ordered, NEW t \in Task, SettleParked(t)
  PROVE  Ordered'
<1>1. /\ stage[t] = "settle" /\ stage' = [stage EXCEPT ![t] = "off"]
      /\ result' = [result EXCEPT ![t] = "none"]
      /\ UNCHANGED <<status, created, queue, succeeded, host, budget, tripped, disposer>>
      /\ RequestDrain
  BY DEF SettleParked, Leave, Goto, taskVars, waitVars, tripVars, history
<1>2. /\ stage'[t] = "off"
      /\ \A u \in Task : u # t => stage'[u] = stage[u] /\ result'[u] = result[u]
  BY <1>1 DEF Inductive, ArrayTypes
<1>3. status[t] # "FINISHED"
  BY <1>1, RunFacts DEF EndOf
<1>4. EndOf(t)'
  BY <1>1, <1>2, <1>3 DEF EndOf
<1>5. ResumesApart => disposer # t
  BY <1>1 DEF Ordered, ScanShape
<1> QED
  BY <1>1, <1>2, <1>3, <1>4, <1>5, MoverKeeps DEF Restarted

\* A job has used up its budget.
LEMMA SettleExhaustedOrders ==
  ASSUME Inductive, Ordered, NEW t \in Task, SettleExhausted(t)
  PROVE  Ordered'
<1>1. /\ stage[t] = "settle" /\ stage' = [stage EXCEPT ![t] = "finish"]
      /\ result' = [result EXCEPT ![t] = "FAILED"]
      /\ UNCHANGED <<status, created, queue, succeeded, host, budget, tripped, disposer>>
  BY DEF SettleExhausted, Goto, taskVars, waitVars, tripVars, history
<1>2. /\ stage'[t] = "finish"
      /\ \A u \in Task : u # t => stage'[u] = stage[u] /\ result'[u] = result[u]
  BY <1>1 DEF Inductive, ArrayTypes
<1>3. status[t] # "FINISHED"
  BY <1>1, RunFacts DEF EndOf
<1>4. EndOf(t)'
  BY <1>1, <1>2, <1>3 DEF EndOf
<1>5. ResumesApart => disposer # t
  BY <1>1 DEF Ordered, ScanShape
<1> QED
  BY <1>1, <1>2, <1>3, <1>4, <1>5, MoverKeeps DEF Restarted

\* What the bookkeeping of an end does.
LEMMA BookFacts ==
  ASSUME Inductive, Ordered, NEW t \in Task, stage[t] = "finish", Book(t), queue' = queue
  PROVE  /\ status'[t] = result[t] /\ result[t] \in Terminal
         /\ \A u \in Task : u # t => status'[u] = status[u]
         /\ status[t] = "FINISHED" => status'[t] = "FINISHED"
         /\ succeeded \subseteq succeeded'
         /\ \A d \in succeeded' \ succeeded : status'[d] = "FINISHED"
         /\ status'[t] = "FINISHED" => t \in succeeded' /\ t \notin Queued'
<1>1. /\ status' = [status EXCEPT ![t] = result[t]]
      /\ succeeded' = IF result[t] = "FINISHED" THEN succeeded \cup {t} ELSE succeeded
  BY DEF Book
<1>2. /\ status'[t] = result[t] /\ \A u \in Task : u # t => status'[u] = status[u]
  BY <1>1 DEF Inductive, ArrayTypes
<1>3. /\ result[t] \in Terminal
      /\ status[t] = "FINISHED" => result[t] = "FINISHED"
      /\ result[t] = "FINISHED" => t \notin Queued
  BY RunFacts DEF RunOf, QueuedOf, EndOf
<1>4. Queued' = Queued
  BY DEF Queued
<1> QED
  BY <1>1, <1>2, <1>3, <1>4

\* A task has ended.
LEMMA FinishOrders ==
  ASSUME Inductive, Ordered, NEW t \in Task, Finish(t)
  PROVE  Ordered'
<1>1. /\ stage[t] = "finish" /\ stage' = [stage EXCEPT ![t] = "dispose"] /\ Book(t)
      /\ UNCHANGED <<result, created, queue, host, budget, tripped, disposer>>
  BY DEF Finish, Goto, waitVars, history
<1>2. stage'[t] = "dispose" /\ \A u \in Task : u # t => stage'[u] = stage[u]
  BY <1>1 DEF Inductive, ArrayTypes
<1>3. /\ status'[t] = result[t] /\ result[t] \in Terminal
      /\ \A u \in Task : u # t => status'[u] = status[u]
      /\ status[t] = "FINISHED" => status'[t] = "FINISHED"
      /\ succeeded \subseteq succeeded'
      /\ \A d \in succeeded' \ succeeded : status'[d] = "FINISHED"
      /\ status'[t] = "FINISHED" => t \in succeeded' /\ t \notin Queued'
  BY <1>1, BookFacts
<1>4. EndOf(t)'
  BY <1>2, <1>3 DEF EndOf
<1>5. disposer' = t => stage'[t] = "dispose"
  BY <1>2
<1> QED
  BY <1>1, <1>2, <1>3, <1>4, <1>5, MoverKeeps DEF Restarted

\* The failure that reaches the threshold.
LEMMA TripOrders ==
  ASSUME Inductive, Ordered, NEW t \in Task, Trip(t)
  PROVE  Ordered'
<1>1. /\ stage[t] = "finish" /\ stage' = [stage EXCEPT ![t] = "trip"] /\ Book(t) /\ tripped'
      /\ UNCHANGED <<result, created, queue, host, budget, disposer>>
  BY DEF Trip, Goto, waitVars
<1>2. stage'[t] = "trip" /\ \A u \in Task : u # t => stage'[u] = stage[u]
  BY <1>1 DEF Inductive, ArrayTypes
<1>3. /\ status'[t] = result[t] /\ result[t] \in Terminal
      /\ \A u \in Task : u # t => status'[u] = status[u]
      /\ status[t] = "FINISHED" => status'[t] = "FINISHED"
      /\ succeeded \subseteq succeeded'
      /\ \A d \in succeeded' \ succeeded : status'[d] = "FINISHED"
      /\ status'[t] = "FINISHED" => t \in succeeded' /\ t \notin Queued'
  BY <1>1, BookFacts
<1>4. EndOf(t)'
  BY <1>2, <1>3 DEF EndOf
<1>5. ResumesApart => disposer # t
  BY <1>1 DEF Ordered, ScanShape
<1> QED
  BY <1>1, <1>2, <1>3, <1>4, <1>5, MoverKeeps DEF Restarted

\* The scan is over, or left to another.
LEMMA DisposeEndsOrders ==
  ASSUME Inductive, Ordered, NEW t \in Task, DisposeEnds(t)
  PROVE  Ordered'
<1>1. /\ stage[t] = "dispose" /\ stage' = [stage EXCEPT ![t] = "wake"]
      /\ UNCHANGED <<status, result, created, queue, succeeded, host, budget, tripped>>
      /\ \/ disposer \in {None, t} /\ Victims = {} /\ disposer' = None
         \/ disposer \notin {None, t} /\ disposer' = disposer
  BY DEF DisposeEnds, Goto, taskVars, queueVars, waitVars, tripVars, history
<1>2. stage'[t] = "wake" /\ \A u \in Task : u # t => stage'[u] = stage[u]
  BY <1>1 DEF Inductive, ArrayTypes
<1>3. EndOf(t)'
  <2>1. Queued' = Queued
    BY <1>1 DEF Queued
  <2> QED
    BY <1>1, <1>2, <2>1, RunFacts DEF EndOf
<1>4. disposer' # t
  BY <1>1, Constants
<1> QED
  BY <1>1, <1>2, <1>3, <1>4, MoverKeeps DEF Restarted

\* The scan, after a step that makes nobody blocked for ever unless a scan is to come.
LEMMA ScanStays ==
  ASSUME Inductive, ScanShape,
         ~tripped' => ~tripped /\ \A u \in Task : stage[u] = "trip" \/ stage'[u] # "trip",
         ResumesApart /\ ~tripped' =>
           /\ Hunted => Hunted'
           /\ \A e \in Entries(queue') : \A d \in e.blocked :
                status'[e.task] \notin Terminal /\ status'[d] \in {"FAILED", "CANCELED"} =>
                  \/ Hunted'
                  \/ /\ e \in Entries(queue) /\ status[e.task] \notin Terminal
                     /\ status[d] \in {"FAILED", "CANCELED"},
         ResumesApart /\ disposer' \in Task => stage'[disposer'] = "dispose",
         ResumesApart /\ disposer' = Host => host'.at = "disposing"
  PROVE  ScanShape'
<1>1. ASSUME ResumesApart, ~tripped', Victims' # {} PROVE Hunted'
  <2>1. PICK e \in Entries(queue') :
          /\ status'[e.task] \notin Terminal
          /\ \E d \in e.blocked : status'[d] \in {"FAILED", "CANCELED"}
    BY <1>1, VictimsAre
  <2>2. PICK d \in e.blocked : status'[d] \in {"FAILED", "CANCELED"}
    BY <2>1
  <2>3. ASSUME e \in Entries(queue), status[e.task] \notin Terminal,
               status[d] \in {"FAILED", "CANCELED"}
        PROVE  Hunted'
    <3>1. e.task \in Victims
      BY <2>3, VictimsAre
    <3> QED
      BY <1>1, <3>1 DEF ScanShape
  <2> QED
    BY <1>1, <2>1, <2>2, <2>3
<1>2. ~tripped' => \A u \in Task : stage'[u] # "trip"
  BY DEF ScanShape
<1> QED
  BY <1>1, <1>2 DEF ScanShape

\* A task that has finished is not put back, and what it was is not lost.
LEMMA UnsettledIsUnmet ==
  ASSUME Inductive, Ordered, NEW t \in Task,
         status[t] \notin Terminal \/ (stage[t] # "off" /\ status[t] # "FINISHED")
           \/ (t \in Queued /\ status[t] # "FINISHED")
  PROVE  ~Met(t)
BY DEF Met, Terminal

\* A run that goes on is put back.
LEMMA SettlePendingOrders ==
  ASSUME Inductive, Ordered, NEW t \in Task, SettlePending(t)
  PROVE  Ordered'
<1>1. /\ stage[t] = "settle" /\ stage' = [stage EXCEPT ![t] = "off"]
      /\ result' = [result EXCEPT ![t] = "none"] /\ result[t] = "PENDING"
      /\ queue' = Push(queue, t, {})
      /\ UNCHANGED <<status, created, succeeded, host, budget, tripped, disposer>>
      /\ RequestDrain
  BY DEF SettlePending, Leave, Goto, taskVars, waitVars, tripVars, history
<1>2. /\ stage'[t] = "off"
      /\ \A u \in Task : u # t => stage'[u] = stage[u] /\ result'[u] = result[u]
  BY <1>1 DEF Inductive, ArrayTypes
<1>3. status[t] # "FINISHED" /\ t \notin Queued /\ DepsMet(t)
  BY <1>1, RunFacts DEF EndOf, StartOf, RunOf, QueuedOf
<1>4. /\ Queued' = Queued \cup {t} /\ Created' = Created
      /\ Entries(queue') = Entries(queue) \cup {[task |-> t, blocked |-> {}]}
  <2>1. queue \in Seq(Entry) /\ Queued = Tasks(queue) /\ Queued' = Tasks(queue')
    BY QueueIs DEF Inductive, Queued, Tasks
  <2>2. {} \ succeeded = {}
    OBVIOUS
  <2> QED
    BY <1>1, <2>1, <2>2, PushFacts DEF Created
<1>5. DepShape'
  <2> DEFINE W == {t}
  <2>1. \A u \in Task \ W :
          /\ stage'[u] = stage[u] /\ status'[u] = status[u] /\ result'[u] = result[u]
          /\ u \in Created' <=> u \in Created
          /\ u \in Queued' <=> u \in Queued
    BY <1>1, <1>2, <1>4
  <2>2. (Restarted' <=> Restarted) /\ (host'.cold => Restarted) /\ (Cold => Cold')
    BY <1>1 DEF Restarted, Cold, Ordered, DepShape
  <2>3. \A u \in W :
          /\ EndOf(u)'
          /\ u \notin Roots =>
               (Met(u) => Met(u)') /\ (status[u] = "FINISHED" => status'[u] = "FINISHED")
          /\ \/ DepsMet(u)
             \/ /\ stage'[u] = "off" /\ status'[u] \notin Parked
                /\ status'[u] \in Terminal \/ u \in Queued'
    <3>1. ~Met(t)
      BY <1>1, <1>3, UnsettledIsUnmet
    <3>2. EndOf(t)'
      BY <1>1, <1>3 DEF EndOf
    <3> QED
      BY <1>3, <3>1, <3>2
  <2>4. \A e \in Entries(queue') :
          \/ e \in Entries(queue) /\ e.task \notin W
          \/ /\ e.task \in W /\ e.blocked \subseteq Deps[e.task]
             /\ \A d \in Deps[e.task] : d \in e.blocked \/ Met(d)
             /\ e.blocked # {} => stage'[e.task] = "off" /\ status'[e.task] = "PENDING"
    <3>1. \A e \in Entries(queue) : e.task \in Queued
      BY EntryIs
    <3> QED
      BY <1>3, <1>4, <3>1 DEF DepsMet
  <2>5. W \in SUBSET Task
    OBVIOUS
  <2> HIDE DEF W
  <2> QED
    BY <1>1, <2>1, <2>2, <2>3, <2>4, <2>5, DepsStay DEF Ordered
<1>6. PlanShape'
  <2>1. \A p \in Task : stage[p] = "flush" => stage'[p] = "flush"
    BY <1>1, <1>2
  <2> QED
    BY <1>1, <1>4, <2>1, PlanStays DEF Ordered, Restarted
<1>7. DrainShape'
  BY <1>1, DrainStays DEF Ordered
<1>8. ScanShape'
  <2>1. Hunted => Hunted'
    BY <1>1, <1>2 DEF Hunted
  <2>2. ResumesApart => disposer # t
    BY <1>1 DEF Ordered, ScanShape
  <2>3. \A u \in Task : stage[u] = "trip" \/ stage'[u] # "trip"
    BY <1>2
  <2>4. \A e \in Entries(queue') : \A d \in e.blocked : e \in Entries(queue)
    BY <1>4
  <2> QED
    BY <1>1, <1>2, <2>1, <2>2, <2>3, <2>4, ScanStays DEF Ordered, ScanShape
<1> QED
  BY <1>5, <1>6, <1>7, <1>8 DEF Ordered

\* Whom the end of a task wakes.
LEMMA WokenFacts ==
  ASSUME Inductive, NEW st, NEW t, NEW u \in Woken(st, t)
  PROVE  u = Parent[t] /\ u \in Task /\ u \in Created /\ st[u] = "SUSPENDED"
BY CreatedIsTask DEF Woken, Inductive

\* An entry on top of a queue, for the parent that is woken.
LEMMA WithParentEntries ==
  ASSUME Inductive, NEW q \in Seq(Entry), NEW st, NEW t \in Task
  PROVE  /\ \A e \in Entries(WithParent(q, st, t)) :
              e \in Entries(q) \/ (e.task \in Woken(st, t) /\ e.blocked = {})
         /\ Tasks(WithParent(q, st, t)) = Tasks(q) \cup Woken(st, t)
<1>1. CASE Woken(st, t) = {}
  BY <1>1 DEF WithParent
<1>2. CASE Woken(st, t) # {}
  <2> DEFINE p == Parent[t]
  <2>1. Woken(st, t) = {p} /\ p \in Task
    BY <1>2, WokenFacts DEF Woken
  <2>2. WithParent(q, st, t) = Push(q, p, {})
    BY <1>2 DEF WithParent
  <2>3. [task |-> p, blocked |-> {} \ succeeded].blocked = {}
    OBVIOUS
  <2> HIDE DEF p
  <2> QED
    BY <2>1, <2>2, <2>3, PushFacts
<1> QED
  BY <1>1, <1>2

\* The end of a task wakes its parent.
LEMMA WakeOrders ==
  ASSUME Inductive, Ordered, NEW t \in Task, Wake(t)
  PROVE  Ordered'
<1> DEFINE P == Woken(status, t)
           W == {t} \cup P
<1>1. /\ stage[t] = "wake" /\ stage' = [stage EXCEPT ![t] = "off"]
      /\ result' = [result EXCEPT ![t] = "none"]
      /\ status' = Awoken(status, t) /\ queue' = WithParent(queue, status, t)
      /\ UNCHANGED <<created, succeeded, host, budget, tripped, disposer>>
      /\ RequestDrain
  BY DEF Wake, Leave, Goto, waitVars, tripVars, history
<1>2. /\ stage'[t] = "off"
      /\ \A u \in Task : u # t => stage'[u] = stage[u] /\ result'[u] = result[u]
      /\ \A u \in Task : status'[u] = IF u \in P THEN "PENDING" ELSE status[u]
  BY <1>1 DEF Inductive, ArrayTypes, Awoken
<1>3. status[t] \in Terminal /\ DepsMet(t)
  BY <1>1, RunFacts DEF StartOf, RunOf
<1>4. \A u \in P : /\ u \in Task /\ u # t /\ status[u] = "SUSPENDED"
                   /\ u \notin Queued /\ DepsMet(u)
  BY <1>3, WokenFacts, RunFacts DEF StartOf, QueuedOf, Terminal, Parked
<1>5. /\ Queued' = Queued \cup P /\ Created' = Created
      /\ \A e \in Entries(queue') : e \in Entries(queue) \/ (e.task \in P /\ e.blocked = {})
  <2>1. queue \in Seq(Entry) /\ Queued = Tasks(queue) /\ Queued' = Tasks(queue')
    BY QueueIs DEF Inductive, Queued, Tasks
  <2> QED
    BY <1>1, <2>1, WithParentEntries DEF Created
<1> HIDE DEF P
<1>6. DepShape'
  <2>1. \A u \in Task \ W :
          /\ stage'[u] = stage[u] /\ status'[u] = status[u] /\ result'[u] = result[u]
          /\ u \in Created' <=> u \in Created
          /\ u \in Queued' <=> u \in Queued
    BY <1>1, <1>2, <1>5
  <2>2. (Restarted' <=> Restarted) /\ (host'.cold => Restarted) /\ (Cold => Cold')
    BY <1>1 DEF Restarted, Cold, Ordered, DepShape
  <2>3. \A u \in W :
          /\ EndOf(u)'
          /\ u \notin Roots =>
               (Met(u) => Met(u)') /\ (status[u] = "FINISHED" => status'[u] = "FINISHED")
          /\ \/ DepsMet(u)
             \/ /\ stage'[u] = "off" /\ status'[u] \notin Parked
                /\ status'[u] \in Terminal \/ u \in Queued'
    <3>1. ASSUME NEW u \in P PROVE ~Met(u) /\ EndOf(u)' /\ DepsMet(u) /\ status[u] # "FINISHED"
      BY <1>2, <1>4 DEF Met, EndOf, Terminal
    <3>2. t \notin P /\ status'[t] = status[t]
      BY <1>2, <1>4
    <3>3. EndOf(t)
      BY RunFacts
    <3>4. EndOf(t)'
      BY <1>1, <1>2, <1>5, <3>2, <3>3 DEF EndOf
    <3>5. Met(t) => Met(t)'
      BY <1>1, <3>2 DEF Met
    <3> QED
      BY <1>3, <3>1, <3>2, <3>4, <3>5
  <2>4. \A e \in Entries(queue') :
          \/ e \in Entries(queue) /\ e.task \notin W
          \/ /\ e.task \in W /\ e.blocked \subseteq Deps[e.task]
             /\ \A d \in Deps[e.task] : d \in e.blocked \/ Met(d)
             /\ e.blocked # {} => stage'[e.task] = "off" /\ status'[e.task] = "PENDING"
    <3>1. \A e \in Entries(queue) : e.task \in Queued /\ WaitOf(e)
      BY EntryIs DEF Ordered, DepShape
    <3>2. ASSUME NEW e \in Entries(queue), e.task = t PROVE e.blocked = {}
      BY <1>1, <3>1, <3>2 DEF WaitOf
    <3> QED
      BY <1>3, <1>4, <1>5, <3>1, <3>2 DEF DepsMet
  <2>5. W \in SUBSET Task
    BY <1>4
  <2> HIDE DEF W
  <2> QED
    BY <1>1, <2>1, <2>2, <2>3, <2>4, <2>5, DepsStay DEF Ordered
<1>7. PlanShape'
  <2>1. \A p \in Task : stage[p] = "flush" => stage'[p] = "flush"
    BY <1>1, <1>2
  <2> QED
    BY <1>1, <1>5, <2>1, PlanStays DEF Ordered, Restarted
<1>8. DrainShape'
  BY <1>1, DrainStays DEF Ordered
<1>9. ScanShape'
  <2>1. Hunted => Hunted'
    BY <1>1, <1>2 DEF Hunted
  <2>2. ResumesApart => disposer # t
    BY <1>1 DEF Ordered, ScanShape
  <2>3. \A u \in Task : stage[u] = "trip" \/ stage'[u] # "trip"
    BY <1>2
  <2>4. \A e \in Entries(queue') : \A d \in e.blocked :
          status'[e.task] \notin Terminal /\ status'[d] \in {"FAILED", "CANCELED"} =>
            /\ e \in Entries(queue) /\ status[e.task] \notin Terminal
            /\ status[d] \in {"FAILED", "CANCELED"}
    <3>1. \A e \in Entries(queue) : e.task \in Task /\ e.blocked \subseteq Task
      BY EntryIs
    <3> QED
      BY <1>2, <1>4, <1>5, <3>1 DEF Terminal
  <2> QED
    BY <1>1, <1>2, <2>1, <2>2, <2>3, <2>4, ScanStays DEF Ordered, ScanShape
<1> QED
  BY <1>6, <1>7, <1>8, <1>9 DEF Ordered

\* A task that may run is started: all it waits for has finished.
LEMMA DispatchOrders ==
  ASSUME Inductive, Calm, Ordered, Dispatch
  PROVE  Ordered'
<1>1. PICK i \in Ready :
        /\ queue' = Remove(queue, i)
        /\ status' = [status EXCEPT ![queue[i].task] = "ACTIVE"]
        /\ stage' = [stage EXCEPT ![queue[i].task] = "assemble"]
  BY DEF Dispatch
<1>2. UNCHANGED <<created, succeeded, result, host, budget, tripped, disposer>>
  BY DEF Dispatch, tripVars, history
<1> DEFINE f == queue[i]
           t == f.task
<1>3. /\ f \in Entries(queue) /\ i \in DOMAIN queue
      /\ f.blocked \subseteq succeeded /\ t \notin running
  BY DEF Ready, MayRun, Entries
<1>4. /\ t \in Task /\ t \in Queued /\ WaitOf(f)
      /\ \A e \in Entries(queue) : e.task = t => e = f
  BY <1>3, EntryIs DEF Ordered, DepShape
<1>5. /\ Queued' = Queued \ {t} /\ Created' = Created /\ Entries(queue') = Entries(queue) \ {f}
  <2>1. queue \in Seq(Entry) /\ Once(queue) /\ Queued = Tasks(queue) /\ Queued' = Tasks(queue')
    BY QueueIs DEF Inductive, Queued, Tasks
  <2> QED
    BY <1>1, <1>2, <1>3, <2>1, RemoveFacts DEF Created
<1> HIDE DEF f
<1>6. /\ stage'[t] = "assemble" /\ status'[t] = "ACTIVE"
      /\ \A u \in Task : u # t => stage'[u] = stage[u] /\ status'[u] = status[u]
  BY <1>1, <1>4 DEF Inductive, ArrayTypes, f
<1>7. DepsMet(t)
  <2>1. ASSUME NEW d \in Deps[t] PROVE Met(d)
    <3>1. CASE d \in f.blocked
      BY <1>3, <2>1, <3>1, <1>4, DepsAreSteps DEF Met, Ordered, DepShape
    <3>2. CASE d \notin f.blocked
      BY <1>4, <2>1, <3>2 DEF WaitOf
    <3> QED
      BY <3>1, <3>2
  <2> QED
    BY <2>1 DEF DepsMet
<1>8. ~Met(t) /\ status[t] # "FINISHED"
  BY <1>4, RunFacts DEF EndOf, Met
<1>9. DepShape'
  <2> DEFINE W == {t}
  <2>1. \A u \in Task \ W :
          /\ stage'[u] = stage[u] /\ status'[u] = status[u] /\ result'[u] = result[u]
          /\ u \in Created' <=> u \in Created
          /\ u \in Queued' <=> u \in Queued
    BY <1>2, <1>5, <1>6
  <2>2. (Restarted' <=> Restarted) /\ (host'.cold => Restarted) /\ (Cold => Cold')
    BY <1>2 DEF Restarted, Cold, Ordered, DepShape
  <2>3. \A u \in W :
          /\ EndOf(u)'
          /\ u \notin Roots =>
               (Met(u) => Met(u)') /\ (status[u] = "FINISHED" => status'[u] = "FINISHED")
          /\ \/ DepsMet(u)
             \/ /\ stage'[u] = "off" /\ status'[u] \notin Parked
                /\ status'[u] \in Terminal \/ u \in Queued'
    BY <1>6, <1>7, <1>8 DEF EndOf
  <2>4. \A e \in Entries(queue') : e \in Entries(queue) /\ e.task \notin W
    BY <1>4, <1>5
  <2>5. W \in SUBSET Task
    BY <1>4
  <2> HIDE DEF W
  <2> QED
    BY <1>2, <2>1, <2>2, <2>3, <2>4, <2>5, DepsStay DEF Ordered
<1>10. PlanShape'
  <2>1. \A p \in Task : stage[p] = "flush" => stage'[p] = "flush"
    BY <1>3, <1>4, <1>6, RunFacts DEF RunOf
  <2> QED
    BY <1>2, <1>5, <2>1, PlanStays DEF Ordered, Restarted
<1>11. DrainShape'
  BY <1>4, <1>6, DrainStays DEF Ordered
<1>12. ScanShape'
  <2>1. ASSUME ResumesApart PROVE stage[t] = "off"
    BY <1>3, <1>4, <2>1, RunFacts DEF Calm, GapShape, GapOf, RunOf
  <2>2. ResumesApart /\ Hunted => Hunted'
    BY <1>2, <1>6, <2>1 DEF Hunted
  <2>3. ResumesApart => disposer # t
    BY <1>4, <2>1 DEF Ordered, ScanShape
  <2>4. \A u \in Task : stage[u] = "trip" \/ stage'[u] # "trip"
    BY <1>6
  <2>5. \A e \in Entries(queue') : \A d \in e.blocked :
          status'[e.task] \notin Terminal /\ status'[d] \in {"FAILED", "CANCELED"} =>
            /\ e \in Entries(queue) /\ status[e.task] \notin Terminal
            /\ status[d] \in {"FAILED", "CANCELED"}
    <3>1. \A e \in Entries(queue) : e.task \in Task /\ e.blocked \subseteq Task
      BY EntryIs
    <3> QED
      BY <1>4, <1>5, <1>6, <3>1
  <2> QED
    BY <1>2, <1>6, <2>2, <2>3, <2>4, <2>5, ScanStays DEF Ordered, ScanShape
<1> QED
  BY <1>9, <1>10, <1>11, <1>12 DEF Ordered

\* The drain has found nobody who may run.
LEMMA DrainEndsOrders ==
  ASSUME Inductive, Ordered, DrainEnds
  PROVE  Ordered'
<1>1. /\ host.at # "idle" \/ Ready = {}
      /\ UNCHANGED <<status, created, queue, succeeded, running, stage, result, host, tripped,
                     budget, disposer>>
  BY DEF DrainEnds, taskVars, queueVars, runVars, waitVars, tripVars, history
<1>2. Created' = Created /\ Queued' = Queued /\ Entries(queue') = Entries(queue)
  BY <1>1 DEF Created, Queued, Entries
<1>3. DepShape'
  BY <1>1, <1>2 DEF Ordered, DepShape, EndOf, StartOf, WaitOf, DepsMet, Met, Cold, Restarted
<1>4. PlanShape'
  BY <1>1, <1>2, PlanStays DEF Ordered, Restarted
<1>5. DrainShape'
  BY <1>1 DEF DrainShape, Ready, MayRun, BusyAgents, HeldPorts
<1>6. ScanShape'
  BY <1>1 DEF Ordered, ScanShape, Hunted, Victims
<1> QED
  BY <1>3, <1>4, <1>5, <1>6 DEF Ordered

\* A root waits for nobody.
LEMMA RootsAreFree ==
  ASSUME NEW t \in Roots
  PROVE  t \in Task /\ Deps[t] = {} /\ DepsMet(t)
<1>1. t \in Task /\ Parent[t] \notin Task
  BY Constants DEF Roots
<1> QED
  BY <1>1, PlansAssumption DEF DepsMet

\* What the decision of the threshold cancels.
LEMMA TripCancelOrders ==
  ASSUME Inductive, Ordered, NEW t \in Task, TripCancel(t)
  PROVE  Ordered'
<1>1. PICK u \in plan.cancel :
        /\ status' = IF status[u] \in Terminal THEN status ELSE [status EXCEPT ![u] = "CANCELED"]
        /\ queue' = CancelEntry(queue, u)
  BY DEF TripCancel
<1>2. /\ stage[t] = "trip"
      /\ UNCHANGED <<created, succeeded, stage, result, host, budget, tripped, disposer>>
  BY DEF TripCancel, runVars, waitVars, history
<1>3. u \in Task
  BY DEF Inductive, FlagTypes, PlanType
<1>4. /\ Queued' = Queued \ {u} /\ Created' = Created
      /\ Entries(queue') = {e \in Entries(queue) : e.task # u}
  <2>1. queue \in Seq(Entry) /\ Once(queue) /\ Queued = Tasks(queue) /\ Queued' = Tasks(queue')
    BY QueueIs DEF Inductive, Queued, Tasks
  <2> QED
    BY <1>1, <1>2, <1>3, <2>1, CancelFacts DEF Created
<1>5. /\ \A v \in Task : v # u => status'[v] = status[v]
      /\ status[u] \in Terminal => status'[u] = status[u]
      /\ status[u] \notin Terminal => status'[u] = "CANCELED"
  BY <1>1, <1>3 DEF Inductive, ArrayTypes
<1>6. status'[u] \in Terminal
  BY <1>5 DEF Terminal
<1>7. tripped
  BY <1>2 DEF Ordered, ScanShape
<1>8. DepShape'
  <2> DEFINE W == {u}
  <2>1. \A v \in Task \ W :
          /\ stage'[v] = stage[v] /\ status'[v] = status[v] /\ result'[v] = result[v]
          /\ v \in Created' <=> v \in Created
          /\ v \in Queued' <=> v \in Queued
    BY <1>2, <1>4, <1>5
  <2>2. (Restarted' <=> Restarted) /\ (host'.cold => Restarted) /\ (Cold => Cold')
    BY <1>2 DEF Restarted, Cold, Ordered, DepShape
  <2>3. EndOf(u)' /\ (Met(u) => Met(u)') /\ (status[u] = "FINISHED" => status'[u] = "FINISHED")
    <3>1. EndOf(u)
      BY <1>3, RunFacts
    <3>2. status'[u] = "FINISHED" <=> status[u] = "FINISHED"
      BY <1>5 DEF Terminal
    <3>3. EndOf(u)'
      BY <1>2, <1>4, <3>1, <3>2 DEF EndOf
    <3>4. Met(u) => Met(u)'
      BY <1>2, <1>4, <1>5, <3>2, <2>2 DEF Met
    <3> QED
      BY <3>2, <3>3, <3>4
  <2>4. \/ DepsMet(u)
        \/ stage'[u] = "off" /\ status'[u] \notin Parked
    BY <1>2, <1>3, <1>6, RunFacts DEF StartOf, Terminal, Parked
  <2>5. \A e \in Entries(queue') : e \in Entries(queue) /\ e.task \notin W
    BY <1>4
  <2>6. W \in SUBSET Task
    BY <1>3
  <2>7. \A v \in W :
          /\ EndOf(v)'
          /\ v \notin Roots =>
               (Met(v) => Met(v)') /\ (status[v] = "FINISHED" => status'[v] = "FINISHED")
          /\ \/ DepsMet(v)
             \/ /\ stage'[v] = "off" /\ status'[v] \notin Parked
                /\ status'[v] \in Terminal \/ v \in Queued'
    BY <1>6, <2>3, <2>4
  <2> HIDE DEF W
  <2> QED
    BY <1>2, <2>1, <2>2, <2>5, <2>6, <2>7, DepsStay DEF Ordered
<1>9. PlanShape'
  BY <1>2, <1>4, PlanStays DEF Ordered, Restarted
<1>10. DrainShape'
  BY <1>2, DrainStays DEF Ordered
<1>11. ScanShape'
  BY <1>2, <1>7 DEF Ordered, ScanShape
<1> QED
  BY <1>8, <1>9, <1>10, <1>11 DEF Ordered

\* The decision is carried out: the roots fail.
LEMMA TripEndsOrders ==
  ASSUME Inductive, Ordered, NEW t \in Task, TripEnds(t)
  PROVE  Ordered'
<1> DEFINE P == plan.roots
           W == {t} \cup P
<1>1. /\ stage[t] = "trip" /\ stage' = [stage EXCEPT ![t] = "off"]
      /\ result' = [result EXCEPT ![t] = "none"]
      /\ status' = [u \in Task |-> IF u \in P THEN "FAILED" ELSE status[u]]
      /\ UNCHANGED <<created, queue, succeeded, host, budget, tripped, disposer>>
  BY DEF TripEnds, Leave, Goto, queueVars, waitVars, history
<1>2. /\ stage'[t] = "off"
      /\ \A u \in Task : u # t => stage'[u] = stage[u] /\ result'[u] = result[u]
      /\ \A u \in Task : status'[u] = IF u \in P THEN "FAILED" ELSE status[u]
  BY <1>1 DEF Inductive, ArrayTypes
<1>3. P \subseteq Roots
  BY DEF Inductive, FlagTypes, PlanType
<1>4. tripped
  BY <1>1 DEF Ordered, ScanShape
<1>5. Created' = Created /\ Queued' = Queued /\ Entries(queue') = Entries(queue)
  BY <1>1 DEF Created, Queued, Entries
<1> HIDE DEF P
<1>6. DepShape'
  <2>1. \A u \in Task \ W :
          /\ stage'[u] = stage[u] /\ status'[u] = status[u] /\ result'[u] = result[u]
          /\ u \in Created' <=> u \in Created
          /\ u \in Queued' <=> u \in Queued
    BY <1>1, <1>2, <1>5
  <2>2. (Restarted' <=> Restarted) /\ (host'.cold => Restarted) /\ (Cold => Cold')
    BY <1>1 DEF Restarted, Cold, Ordered, DepShape
  <2>3. \A u \in W :
          /\ EndOf(u)'
          /\ u \notin Roots =>
               (Met(u) => Met(u)') /\ (status[u] = "FINISHED" => status'[u] = "FINISHED")
          /\ \/ DepsMet(u)
             \/ /\ stage'[u] = "off" /\ status'[u] \notin Parked
                /\ status'[u] \in Terminal \/ u \in Queued'
    <3>1. ASSUME NEW u \in P PROVE EndOf(u)' /\ u \in Roots /\ DepsMet(u)
      BY <1>2, <1>3, RootsAreFree DEF EndOf
    <3>2. EndOf(t) /\ DepsMet(t)
      BY <1>1, RunFacts DEF StartOf
    <3>3. status'[t] = "FINISHED" => status[t] = "FINISHED"
      BY <1>2
    <3>4. EndOf(t)'
      BY <1>1, <1>2, <1>5, <3>2, <3>3 DEF EndOf
    <3>5. t \notin Roots => status'[t] = status[t] /\ (Met(t) => Met(t)')
      BY <1>1, <1>2, <1>3 DEF Met
    <3> QED
      BY <3>1, <3>2, <3>4, <3>5
  <2>4. \A e \in Entries(queue') :
          \/ e \in Entries(queue) /\ e.task \notin W
          \/ /\ e.task \in W /\ e.blocked \subseteq Deps[e.task]
             /\ \A d \in Deps[e.task] : d \in e.blocked \/ Met(d)
             /\ e.blocked # {} => stage'[e.task] = "off" /\ status'[e.task] = "PENDING"
    <3>1. \A e \in Entries(queue) : WaitOf(e)
      BY DEF Ordered, DepShape
    <3>2. ASSUME NEW e \in Entries(queue), e.task = t PROVE e.blocked = {}
      BY <1>1, <3>1, <3>2 DEF WaitOf
    <3>3. ASSUME NEW e \in Entries(queue), e.task \in P PROVE e.blocked = {}
      BY <1>3, <3>1, <3>3, RootsAreFree DEF WaitOf
    <3> QED
      BY <1>5, <3>1, <3>2, <3>3 DEF WaitOf
  <2>5. W \in SUBSET Task
    BY <1>3 DEF Roots
  <2> HIDE DEF W
  <2> QED
    BY <1>1, <2>1, <2>2, <2>3, <2>4, <2>5, DepsStay DEF Ordered
<1>7. PlanShape'
  <2>1. \A p \in Task : stage[p] = "flush" => stage'[p] = "flush"
    BY <1>1, <1>2
  <2> QED
    BY <1>1, <1>5, <2>1, PlanStays DEF Ordered, Restarted
<1>8. DrainShape'
  BY <1>1, <1>4, DrainStays DEF Ordered
<1>9. ScanShape'
  <2>1. ResumesApart => disposer # t
    BY <1>1 DEF Ordered, ScanShape
  <2> QED
    BY <1>1, <1>2, <1>4, <2>1 DEF Ordered, ScanShape
<1> QED
  BY <1>6, <1>7, <1>8, <1>9 DEF Ordered

\* A task that is blocked for ever is canceled, and may have been its parent's last child.
LEMMA DisposeOneOrders ==
  ASSUME Inductive, Ordered, NEW w \in Task \cup {Host}, DisposeOne(w)
  PROVE  Ordered'
<1>1. PICK v \in Victims :
        LET st == [status EXCEPT ![v] = "CANCELED"] IN
        /\ status' = Awoken(st, v)
        /\ queue' = WithParent(CancelEntry(queue, v), st, v)
  BY DEF DisposeOne
<1> DEFINE st == [status EXCEPT ![v] = "CANCELED"]
           P == Woken(st, v)
           q == CancelEntry(queue, v)
           W == {v} \cup P
<1>2. /\ Scanning(w) /\ disposer' = w /\ RequestDrain
      /\ UNCHANGED <<created, succeeded, stage, result, host, budget, tripped>>
  BY DEF DisposeOne, waitVars, tripVars, history
<1>3. PICK f \in Entries(queue) : f.task = v /\ status[v] \notin Terminal /\ f.blocked # {}
  BY VictimsAre
<1>4. v \in Task /\ stage[v] = "off" /\ WaitOf(f)
  BY <1>3, EntryIs DEF Ordered, DepShape, WaitOf
<1>5. /\ st[v] = "CANCELED" /\ \A u \in Task : u # v => st[u] = status[u]
  BY <1>4 DEF Inductive, ArrayTypes
<1>6. \A u \in P : /\ u \in Task /\ u # v /\ status[u] = "SUSPENDED"
                   /\ u \notin Queued /\ DepsMet(u)
  <2>1. \A u \in P : u \in Task /\ st[u] = "SUSPENDED"
    BY WokenFacts
  <2>2. \A u \in P : u # v /\ status[u] = "SUSPENDED"
    BY <1>5, <2>1
  <2> QED
    BY <2>1, <2>2, RunFacts DEF StartOf, QueuedOf, Terminal, Parked
<1>7. \A u \in Task :
        status'[u] = IF u \in P THEN "PENDING" ELSE IF u = v THEN "CANCELED" ELSE status[u]
  BY <1>1, <1>4, <1>5 DEF Awoken
<1>8. /\ Queued' = (Queued \ {v}) \cup P /\ Created' = Created
      /\ \A e \in Entries(queue') :
           \/ e \in Entries(queue) /\ e.task # v
           \/ e.task \in P /\ e.blocked = {}
  <2>1. queue \in Seq(Entry) /\ Once(queue) /\ Queued = Tasks(queue) /\ Queued' = Tasks(queue')
    BY QueueIs DEF Inductive, Queued, Tasks
  <2>2. /\ q \in Seq(Entry) /\ Tasks(q) = Tasks(queue) \ {v}
        /\ Entries(q) = {e \in Entries(queue) : e.task # v}
    BY <1>4, <2>1, CancelFacts
  <2>3. queue' = WithParent(q, st, v)
    BY <1>1
  <2> HIDE DEF q, st
  <2> QED
    BY <1>2, <1>4, <2>1, <2>2, <2>3, WithParentEntries DEF Created
<1> HIDE DEF P, st, q
<1>9. DepShape'
  <2>1. \A u \in Task \ W :
          /\ stage'[u] = stage[u] /\ status'[u] = status[u] /\ result'[u] = result[u]
          /\ u \in Created' <=> u \in Created
          /\ u \in Queued' <=> u \in Queued
    BY <1>2, <1>7, <1>8
  <2>2. (Restarted' <=> Restarted) /\ (host'.cold => Restarted) /\ (Cold => Cold')
    BY <1>2 DEF Restarted, Cold, Ordered, DepShape
  <2>3. \A u \in W :
          /\ EndOf(u)'
          /\ u \notin Roots =>
               (Met(u) => Met(u)') /\ (status[u] = "FINISHED" => status'[u] = "FINISHED")
          /\ \/ DepsMet(u)
             \/ /\ stage'[u] = "off" /\ status'[u] \notin Parked
                /\ status'[u] \in Terminal \/ u \in Queued'
    <3>1. ASSUME NEW u \in P PROVE ~Met(u) /\ EndOf(u)' /\ DepsMet(u) /\ status[u] # "FINISHED"
      BY <1>6, <1>7 DEF Met, EndOf, Terminal
    <3>2. v \notin P /\ status'[v] = "CANCELED" /\ stage'[v] = "off"
      BY <1>2, <1>4, <1>6, <1>7
    <3>3. ~Met(v) /\ status[v] # "FINISHED"
      BY <1>3 DEF Met, Terminal
    <3>4. EndOf(v)'
      BY <3>2 DEF EndOf
    <3>5. "CANCELED" \in Terminal /\ "CANCELED" \notin Parked
      BY DEF Terminal, Parked
    <3> QED
      BY <3>1, <3>2, <3>3, <3>4, <3>5
  <2>4. \A e \in Entries(queue') :
          \/ e \in Entries(queue) /\ e.task \notin W
          \/ /\ e.task \in W /\ e.blocked \subseteq Deps[e.task]
             /\ \A d \in Deps[e.task] : d \in e.blocked \/ Met(d)
             /\ e.blocked # {} => stage'[e.task] = "off" /\ status'[e.task] = "PENDING"
    <3>1. \A e \in Entries(queue) : e.task \in Queued
      BY EntryIs
    <3> QED
      BY <1>6, <1>8, <3>1 DEF DepsMet
  <2>5. W \in SUBSET Task
    BY <1>4, <1>6
  <2> HIDE DEF W
  <2> QED
    BY <1>2, <2>1, <2>2, <2>3, <2>4, <2>5, DepsStay DEF Ordered
<1>10. PlanShape'
  BY <1>2, <1>8, PlanStays DEF Ordered, Restarted
<1>11. DrainShape'
  BY <1>2, DrainStays DEF Ordered
<1>12. ScanShape'
  <2>1. /\ w = Host => host'.at = "disposing"
        /\ w # Host => w \in Task /\ stage'[w] = "dispose"
    BY <1>2 DEF Scanning
  <2>2. Hunted'
    BY <2>1 DEF Hunted
  <2> QED
    BY <1>2, <2>1, <2>2, Constants DEF Ordered, ScanShape
<1> QED
  BY <1>9, <1>10, <1>11, <1>12 DEF Ordered

\* The next child of a plan is pushed: nobody it waits for exists yet.
LEMMA PushChildOrders ==
  ASSUME Inductive, Ordered, NEW t \in Task, PushChild(t)
  PROVE  Ordered'
<1>1. PICK i \in Staged(t) :
        LET c == Plan[t][i] IN
        /\ \A j \in Staged(t) : j <= i
        /\ created' = Append(created, c)
        /\ status' = [status EXCEPT ![c] = "PENDING"]
        /\ queue' = Push(queue, c, Deps[c])
  BY DEF PushChild
<1> DEFINE c == Plan[t][i]
<1>2. /\ stage[t] = "flush"
      /\ UNCHANGED <<succeeded, stage, result, host, budget, tripped, disposer>>
  BY DEF PushChild, runVars, waitVars, tripVars, history
<1>3. /\ i \in DOMAIN Plan[t] /\ c \notin Created
      /\ \A j \in DOMAIN Plan[t] : j > i => Plan[t][j] \in Created
  <2>1. Plan[t] \in Seq(Task \ Roots)
    BY Constants
  <2>2. DOMAIN Plan[t] \subseteq Nat
    BY <2>1
  <2>3. \A j \in DOMAIN Plan[t] : j > i => j \notin Staged(t)
    BY <1>1, <2>2 DEF Staged
  <2> QED
    BY <1>1, <2>3 DEF Staged
<1>4. c \in Task /\ Deps[c] \subseteq Task
  BY <1>3, Constants
<1>5. /\ \A p \in Task : \A j \in DOMAIN Plan[p] : Plan[p][j] = c => p = t /\ j = i
      /\ \A d \in Deps[c] : \E j \in DOMAIN Plan[t] : j < i /\ Plan[t][j] = d
  <2>1. Parent[c] = t
    BY <1>3, PlansAssumption
  <2>2. \A p \in Task : \A j \in DOMAIN Plan[p] : Plan[p][j] = c => p = t /\ j = i
    BY <1>3, <2>1, PlansAssumption
  <2>3. \A d \in Deps[c] : \E k, j \in DOMAIN Plan[t] : j < k /\ Plan[t][k] = c /\ Plan[t][j] = d
    BY <1>4, <2>1, PlansAssumption
  <2> QED
    BY <2>2, <2>3
<1>6. \A d \in Deps[c] : d \notin Created
  BY <1>3, <1>5 DEF Ordered, PlanShape
<1>7. /\ Queued' = Queued \cup {c} /\ Created' = Created \cup {c}
      /\ Entries(queue') = Entries(queue) \cup {[task |-> c, blocked |-> Deps[c] \ succeeded]}
      /\ c \notin Queued
  <2>1. queue \in Seq(Entry) /\ Queued = Tasks(queue) /\ Queued' = Tasks(queue')
    BY QueueIs DEF Inductive, Queued, Tasks
  <2>2. Created' = Created \cup {c}
    BY <1>1, <1>3, <1>4, CreateFacts DEF Inductive
  <2>3. c \notin Queued
    BY <1>3 DEF Inductive, QueueShape
  <2> QED
    BY <1>1, <1>4, <2>1, <2>2, <2>3, PushFacts
<1>8. status'[c] = "PENDING" /\ \A u \in Task : u # c => status'[u] = status[u]
  BY <1>1, <1>4 DEF Inductive, ArrayTypes
<1>9. /\ status[c] = "new" /\ stage[c] = "off" /\ \A d \in Deps[c] : status[d] = "new"
  BY <1>3, <1>4, <1>6 DEF Inductive, TaskShape
<1> HIDE DEF c
<1>10. DepShape'
  <2> DEFINE W == {c}
  <2>1. \A u \in Task \ W :
          /\ stage'[u] = stage[u] /\ status'[u] = status[u] /\ result'[u] = result[u]
          /\ u \in Created' <=> u \in Created
          /\ u \in Queued' <=> u \in Queued
    BY <1>2, <1>7, <1>8
  <2>2. (Restarted' <=> Restarted) /\ (host'.cold => Restarted) /\ (Cold => Cold')
    BY <1>2 DEF Restarted, Cold, Ordered, DepShape
  <2>3. \A u \in W :
          /\ EndOf(u)'
          /\ u \notin Roots =>
               (Met(u) => Met(u)') /\ (status[u] = "FINISHED" => status'[u] = "FINISHED")
          /\ \/ DepsMet(u)
             \/ /\ stage'[u] = "off" /\ status'[u] \notin Parked
                /\ status'[u] \in Terminal \/ u \in Queued'
    BY <1>2, <1>7, <1>8, <1>9 DEF EndOf, Met, Terminal, Parked
  <2>4. \A e \in Entries(queue') :
          \/ e \in Entries(queue) /\ e.task \notin W
          \/ /\ e.task \in W /\ e.blocked \subseteq Deps[e.task]
             /\ \A d \in Deps[e.task] : d \in e.blocked \/ Met(d)
             /\ e.blocked # {} => stage'[e.task] = "off" /\ status'[e.task] = "PENDING"
    <3>1. \A e \in Entries(queue) : e.task \in Queued
      BY EntryIs
    <3>2. \A d \in succeeded \ Roots : status[d] = "FINISHED"
      BY DEF Ordered, DepShape
    <3>3. \A d \in Deps[c] : d \in Deps[c] \ succeeded \/ Met(d)
      BY <1>4, <3>2, DepsAreSteps DEF Met
    <3> QED
      BY <1>2, <1>7, <1>8, <1>9, <3>1, <3>3
  <2>5. W \in SUBSET Task
    BY <1>4
  <2> HIDE DEF W
  <2> QED
    BY <1>2, <2>1, <2>2, <2>3, <2>4, <2>5, DepsStay DEF Ordered
<1>11. PlanShape'
  <2>1. ASSUME NEW p \in Task, NEW a \in DOMAIN Plan[p], NEW b \in DOMAIN Plan[p], a < b
        PROVE  /\ Plan[p][a] \in Created' => Plan[p][b] \in Created'
               /\ Plan[p][b] \in Created' =>
                    Plan[p][a] \in Created' \/ stage'[p] = "flush" \/ Restarted'
    <3>1. /\ Plan[p][a] \in Created => Plan[p][b] \in Created
          /\ Plan[p][b] \in Created => Plan[p][a] \in Created \/ stage[p] = "flush" \/ Restarted
      BY <2>1 DEF Ordered, PlanShape
    <3>2. Plan[p][a] = c => Plan[p][b] \in Created
      BY <1>3, <1>5, <2>1
    <3>3. Plan[p][b] = c => stage'[p] = "flush"
      BY <1>2, <1>5
    <3> QED
      BY <1>2, <1>7, <3>1, <3>2, <3>3 DEF Restarted
  <2> QED
    BY <2>1 DEF PlanShape
<1>12. DrainShape'
  BY <1>2, DrainStays DEF Ordered
<1>13. ScanShape'
  <2>1. Hunted => Hunted'
    BY <1>2 DEF Hunted
  <2>2. \A e \in Entries(queue') : \A d \in e.blocked :
          status'[e.task] \notin Terminal /\ status'[d] \in {"FAILED", "CANCELED"} =>
            /\ e \in Entries(queue) /\ status[e.task] \notin Terminal
            /\ status[d] \in {"FAILED", "CANCELED"}
    <3>1. \A e \in Entries(queue) : e.task \in Task /\ e.task # c /\ e.blocked \subseteq Task
      BY <1>7, EntryIs
    <3>2. ASSUME NEW d \in Deps[c], status'[d] \in {"FAILED", "CANCELED"} PROVE FALSE
      BY <1>4, <1>8, <1>9, <3>2
    <3> QED
      BY <1>7, <1>8, <3>1, <3>2
  <2> QED
    BY <1>2, <2>1, <2>2, ScanStays DEF Ordered, ScanShape
<1> QED
  BY <1>10, <1>11, <1>12, <1>13 DEF Ordered

\* What a step that leaves all this alone keeps.
LEMMA OrderStays ==
  ASSUME Inductive, Ordered,
         UNCHANGED <<status, created, queue, succeeded, running, stage, result, host, tripped,
                     disposer, draining>>,
         budget'.crashes = budget.crashes
  PROVE  Ordered'
<1>1. Created' = Created /\ Queued' = Queued /\ Entries(queue') = Entries(queue)
  BY DEF Created, Queued, Entries
<1>2. DepShape'
  BY <1>1 DEF Ordered, DepShape, EndOf, StartOf, WaitOf, DepsMet, Met, Cold, Restarted
<1>3. PlanShape'
  BY <1>1, PlanStays DEF Ordered, Restarted
<1>4. DrainShape'
  BY DrainStays DEF Ordered
<1>5. ScanShape'
  BY DEF Ordered, ScanShape, Hunted, Victims
<1> QED
  BY <1>2, <1>3, <1>4, <1>5 DEF Ordered

\* A new root waits for nobody.
LEMMA PushRootOrders ==
  ASSUME Inductive, Ordered, NEW c \in Task, PushRoot(c),
         UNCHANGED <<succeeded, stage, result, host, budget>>
  PROVE  /\ DepShape' /\ PlanShape'
         /\ \A e \in Entries(queue') : e.blocked # {} => e \in Entries(queue) /\ e.task # c
         /\ status[c] = "new" /\ status'[c] = "ACTIVE"
         /\ \A u \in Task : u # c => status'[u] = status[u]
<1>1. /\ c \in Roots \ Created /\ Created' = Created \cup {c} /\ Queued' = Queued \cup {c}
      /\ stage[c] = "off" /\ c \notin Queued
      /\ status'[c] = "ACTIVE" /\ status[c] = "new"
      /\ \A u \in Task : u # c => status'[u] = status[u]
  BY PushRootFacts DEF PushRoot
<1>2. Entries(queue') = Entries(queue) \cup {[task |-> c, blocked |-> {}]}
  <2>1. queue' = Push(queue, c, Deps[c]) /\ Deps[c] = {} /\ queue \in Seq(Entry)
    BY <1>1, RootsAreFree, QueueIs DEF PushRoot, Inductive
  <2>2. {} \ succeeded = {} /\ {} \in SUBSET Task
    OBVIOUS
  <2> QED
    BY <2>1, <2>2, PushFacts
<1>3. \A e \in Entries(queue) : e.task # c
  BY <1>1, EntryIs
<1>4. DepShape'
  <2> DEFINE W == {c}
  <2>1. \A u \in Task \ W :
          /\ stage'[u] = stage[u] /\ status'[u] = status[u] /\ result'[u] = result[u]
          /\ u \in Created' <=> u \in Created
          /\ u \in Queued' <=> u \in Queued
    BY <1>1
  <2>2. (Restarted' <=> Restarted) /\ (host'.cold => Restarted) /\ (Cold => Cold')
    BY DEF Restarted, Cold, Ordered, DepShape
  <2>3. \A u \in W :
          /\ EndOf(u)'
          /\ u \notin Roots =>
               (Met(u) => Met(u)') /\ (status[u] = "FINISHED" => status'[u] = "FINISHED")
          /\ \/ DepsMet(u)
             \/ /\ stage'[u] = "off" /\ status'[u] \notin Parked
                /\ status'[u] \in Terminal \/ u \in Queued'
    BY <1>1, RootsAreFree DEF EndOf
  <2>4. \A e \in Entries(queue') :
          \/ e \in Entries(queue) /\ e.task \notin W
          \/ /\ e.task \in W /\ e.blocked \subseteq Deps[e.task]
             /\ \A d \in Deps[e.task] : d \in e.blocked \/ Met(d)
             /\ e.blocked # {} => stage'[e.task] = "off" /\ status'[e.task] = "PENDING"
    BY <1>1, <1>2, <1>3, RootsAreFree
  <2>5. W \in SUBSET Task
    OBVIOUS
  <2> HIDE DEF W
  <2> QED
    BY <2>1, <2>2, <2>3, <2>4, <2>5, DepsStay DEF Ordered
<1>5. PlanShape'
  <2>1. \A p \in Task : \A i \in DOMAIN Plan[p] : Plan[p][i] \in Task \ Roots
    BY Constants
  <2>2. \A p \in Task : \A i \in DOMAIN Plan[p] : Plan[p][i] \in Created' <=> Plan[p][i] \in Created
    BY <1>1, <2>1
  <2> QED
    BY <2>2 DEF Ordered, PlanShape, Restarted
<1> QED
  BY <1>1, <1>2, <1>3, <1>4, <1>5

\* A message.
LEMMA SubmitOrders ==
  ASSUME Inductive, Ordered, NEW c \in Task, Submit(c)
  PROVE  Ordered'
<1>1. /\ PushRoot(c) /\ RequestDrain
      /\ UNCHANGED <<succeeded, stage, result, host, budget, tripped, disposer>>
  BY DEF Submit, runVars, waitVars, tripVars, history
<1>2. /\ DepShape' /\ PlanShape'
      /\ \A e \in Entries(queue') : e.blocked # {} => e \in Entries(queue) /\ e.task # c
      /\ status[c] = "new" /\ status'[c] = "ACTIVE"
      /\ \A u \in Task : u # c => status'[u] = status[u]
  BY <1>1, PushRootOrders
<1>3. DrainShape'
  BY <1>1, DrainStays DEF Ordered
<1>4. ScanShape'
  <2>1. Hunted => Hunted'
    BY <1>1 DEF Hunted
  <2>2. \A e \in Entries(queue') : \A d \in e.blocked :
          status'[e.task] \notin Terminal /\ status'[d] \in {"FAILED", "CANCELED"} =>
            /\ e \in Entries(queue) /\ status[e.task] \notin Terminal
            /\ status[d] \in {"FAILED", "CANCELED"}
    <3>1. \A e \in Entries(queue) : e.task \in Task /\ e.blocked \subseteq Task
      BY EntryIs
    <3> QED
      BY <1>2, <3>1
  <2> QED
    BY <1>1, <2>1, <2>2, ScanStays DEF Ordered, ScanShape
<1> QED
  BY <1>2, <1>3, <1>4 DEF Ordered

\* A new round.
LEMMA NewRoundOrders ==
  ASSUME Inductive, Ordered, NEW c \in Task, NewRound(c)
  PROVE  Ordered'
<1>1. /\ PushRoot(c) /\ RequestDrain /\ AllOver /\ ~AtWork
      /\ UNCHANGED <<succeeded, stage, result, host, budget, disposer>>
  BY DEF NewRound, runVars, waitVars, history
<1>2. /\ DepShape' /\ PlanShape'
      /\ \A e \in Entries(queue') : e.blocked # {} => e \in Entries(queue) /\ e.task # c
      /\ \A u \in Task : u # c => status'[u] = status[u]
  BY <1>1, PushRootOrders
<1>3. DrainShape'
  BY <1>1, DrainStays DEF Ordered
<1>4. ScanShape'
  <2>1. \A u \in Task : stage'[u] = "off"
    BY <1>1 DEF AtWork
  <2>2. Victims' = {}
    <3>1. \A e \in Entries(queue) : e.task \in Task /\ status[e.task] \in Terminal
      BY <1>1, EntryIs DEF AllOver, Inductive, QueueShape
    <3> QED
      BY <1>2, <3>1, VictimsAre
  <2> QED
    BY <1>1, <2>1, <2>2 DEF Ordered, ScanShape
<1> QED
  BY <1>2, <1>3, <1>4 DEF Ordered

\* The host prepares a command.
LEMMA PreparingOrders ==
  ASSUME Inductive, Ordered, host = IdleHost, host'.at = "preparing", ~host'.cold,
         UNCHANGED <<status, created, queue, succeeded, stage, result, tripped, disposer>>,
         budget'.crashes = budget.crashes
  PROVE  Ordered'
<1>1. Created' = Created /\ Queued' = Queued /\ Entries(queue') = Entries(queue) /\ ~Cold
  BY DEF Created, Queued, Entries, Cold, IdleHost
<1>2. DepShape'
  BY <1>1 DEF Ordered, DepShape, EndOf, StartOf, WaitOf, DepsMet, Met, Restarted
<1>3. PlanShape'
  BY <1>1, PlanStays DEF Ordered, Restarted
<1>4. DrainShape'
  BY DEF Ordered, DrainShape
<1>5. ScanShape'
  BY DEF Ordered, ScanShape, Hunted, Victims, IdleHost
<1> QED
  BY <1>2, <1>3, <1>4, <1>5 DEF Ordered

\* An answer.
LEMMA ReplyOrders ==
  ASSUME Inductive, Ordered, NEW t \in Task, Reply(t)
  PROVE  Ordered'
<1>1. /\ host = IdleHost /\ host' = [IdleHost EXCEPT !.at = "preparing", !.on = t]
      /\ UNCHANGED <<status, created, queue, succeeded, stage, result, tripped, disposer, budget>>
  BY DEF Reply, taskVars, queueVars, runVars, tripVars, history
<1>2. host'.at = "preparing" /\ ~host'.cold
  BY <1>1 DEF IdleHost
<1> QED
  BY <1>1, <1>2, PreparingOrders

\* /resume.
LEMMA ResumeOrders ==
  ASSUME Inductive, Ordered, Resume
  PROVE  Ordered'
<1>1. /\ host = IdleHost /\ host' = [IdleHost EXCEPT !.at = "preparing"]
      /\ budget' = [budget EXCEPT !.resumes = @ - 1, !.upsets = @ - 1]
      /\ UNCHANGED <<status, created, queue, succeeded, stage, result, tripped, disposer>>
  BY DEF Resume, taskVars, queueVars, runVars, tripVars
<1>2. host'.at = "preparing" /\ ~host'.cold
  BY <1>1 DEF IdleHost
<1>3. budget'.crashes = budget.crashes
  BY <1>1 DEF Inductive, FlagTypes, BudgetType
<1> QED
  BY <1>1, <1>2, <1>3, PreparingOrders

\* Tasks are put back in the queue.
LEMMA BackOrders ==
  ASSUME Inductive, Ordered, NEW B, Back(B),
         UNCHANGED <<created, succeeded, stage, result, budget, tripped, disposer>>,
         RequestDrain, host'.cold => Restarted, host.at = "disposing" => host'.at = "disposing",
         Cold => Cold' \/ \A u \in Created \ (B \cup Queued) : status[u] \in Terminal \cup Parked,
         \A u \in B : stage[u] = "off" \/ DepsMet(u),
         \A e \in Entries(queue') :
           \/ e \in Entries(queue)
           \/ /\ e.task \in B /\ e.blocked \subseteq Deps[e.task]
              /\ \A d \in Deps[e.task] : d \in e.blocked \/ Met(d)
              /\ \A d \in e.blocked : status[d] \notin Terminal
              /\ e.blocked # {} => stage[e.task] = "off"
  PROVE  Ordered'
<1>1. /\ B \subseteq Task /\ B \cap Queued = {} /\ Queued' = Queued \cup B
      /\ \A u \in B : status[u] \notin Terminal
      /\ \A u \in Task : status'[u] = IF u \in B THEN "PENDING" ELSE status[u]
  BY DEF Back
<1>2. Created' = Created /\ (Restarted' <=> Restarted)
  BY DEF Created, Restarted
<1>3. \A e \in Entries(queue) : e.task \in Task /\ e.task \notin B /\ e.blocked \subseteq Task
  BY <1>1, EntryIs
<1>4. DepShape'
  <2>1. \A u \in Task \ B :
          /\ stage'[u] = stage[u] /\ status'[u] = status[u] /\ result'[u] = result[u]
          /\ u \in Created' <=> u \in Created
          /\ u \in Queued' <=> u \in Queued
    BY <1>1, <1>2
  <2>2. \A u \in B :
          /\ EndOf(u)'
          /\ u \notin Roots =>
               (Met(u) => Met(u)') /\ (status[u] = "FINISHED" => status'[u] = "FINISHED")
          /\ \/ DepsMet(u)
             \/ /\ stage'[u] = "off" /\ status'[u] \notin Parked
                /\ status'[u] \in Terminal \/ u \in Queued'
    BY <1>1 DEF EndOf, Met, Terminal, Parked
  <2>3. \A e \in Entries(queue') :
          \/ e \in Entries(queue) /\ e.task \notin B
          \/ /\ e.task \in B /\ e.blocked \subseteq Deps[e.task]
             /\ \A d \in Deps[e.task] : d \in e.blocked \/ Met(d)
             /\ e.blocked # {} => stage'[e.task] = "off" /\ status'[e.task] = "PENDING"
    BY <1>1, <1>3
  <2> QED
    BY <1>1, <1>2, <2>1, <2>2, <2>3, DepsStay DEF Ordered
<1>5. PlanShape'
  BY <1>2, PlanStays DEF Ordered
<1>6. DrainShape'
  BY DrainStays DEF Ordered
<1>7. ScanShape'
  <2>1. Hunted => Hunted'
    BY DEF Hunted
  <2>2. \A e \in Entries(queue') : \A d \in e.blocked :
          status'[e.task] \notin Terminal /\ status'[d] \in {"FAILED", "CANCELED"} =>
            /\ e \in Entries(queue) /\ status[e.task] \notin Terminal
            /\ status[d] \in {"FAILED", "CANCELED"}
    <3>1. ASSUME NEW e \in Entries(queue'), e \notin Entries(queue), NEW d \in e.blocked
          PROVE  status'[d] \notin {"FAILED", "CANCELED"}
      <4>1. e.task \in Task /\ d \in Deps[e.task] /\ status[d] \notin Terminal
        BY <1>1, <3>1
      <4>2. d \in Task
        BY <4>1, Constants
      <4> QED
        BY <1>1, <4>1, <4>2 DEF Terminal
    <3>2. ASSUME NEW e \in Entries(queue), NEW d \in e.blocked,
                 status'[e.task] \notin Terminal, status'[d] \in {"FAILED", "CANCELED"}
          PROVE  status[e.task] \notin Terminal /\ status[d] \in {"FAILED", "CANCELED"}
      <4>1. d \in Task /\ e.task \in Task /\ e.task \notin B
        BY <1>3, <3>2
      <4> QED
        BY <1>1, <3>2, <4>1
    <3> QED
      BY <3>1, <3>2
  <2> QED
    BY <2>1, <2>2, ScanStays DEF Ordered, ScanShape
<1> QED
  BY <1>4, <1>5, <1>6, <1>7 DEF Ordered

\* One task is put back, which has nothing to wait for.
LEMMA BackOneOrders ==
  ASSUME Inductive, Ordered, NEW t \in Task, Idle(t), BackInQueue(t),
         UNCHANGED <<created, succeeded, stage, result, budget, tripped, disposer>>,
         RequestDrain, host'.cold => Restarted, host.at = "disposing" => host'.at = "disposing",
         Cold => Cold', status[t] \in Parked \/ ~Cold
  PROVE  Ordered'
<1>1. Back({t})
  BY BackOne
<1>2. DepsMet(t)
  BY RunFacts DEF StartOf, Idle
<1>3. Entries(queue') = Entries(queue) \cup {[task |-> t, blocked |-> {}]}
  <2>1. queue \in Seq(Entry) /\ queue' = Push(queue, t, {})
    BY QueueIs DEF BackInQueue, Inductive
  <2>2. {} \ succeeded = {} /\ {} \in SUBSET Task
    OBVIOUS
  <2> QED
    BY <2>1, <2>2, PushFacts
<1>4. \A e \in Entries(queue') :
        \/ e \in Entries(queue)
        \/ /\ e.task \in {t} /\ e.blocked \subseteq Deps[e.task]
           /\ \A d \in Deps[e.task] : d \in e.blocked \/ Met(d)
           /\ \A d \in e.blocked : status[d] \notin Terminal
           /\ e.blocked # {} => stage[e.task] = "off"
  BY <1>2, <1>3 DEF DepsMet
<1> QED
  BY <1>1, <1>2, <1>4, BackOrders

\* What comes after a drain.
LEMMA CloseOrders ==
  ASSUME Inductive, Ordered, NEW w \in Task \cup {Host}, NEW tail \in TailKind, Close(w, tail)
  PROVE  Ordered'
<1>1. /\ UNCHANGED <<created, succeeded, running, stage, result, host, budget, tripped, disposer>>
      /\ IF AnsweredMeanwhile(w, tail)
           THEN BackInQueue(w) /\ RequestDrain
           ELSE UNCHANGED <<status, retries, queue, draining>>
  BY DEF Close, waitVars, tripVars, history
<1>2. CASE AnsweredMeanwhile(w, tail)
  <2>1. Idle(w) /\ w \in Task /\ status[w] \in Parked
    BY <1>2, CreatedIsTask DEF AnsweredMeanwhile, Idle, Parked, Inductive
  <2>2. (host'.cold => Restarted) /\ (Cold => Cold')
    BY <1>1 DEF Ordered, DepShape, Cold
  <2> QED
    BY <1>1, <1>2, <2>1, <2>2, BackOneOrders
<1>3. CASE ~AnsweredMeanwhile(w, tail)
  BY <1>1, <1>3, OrderStays
<1> QED
  BY <1>2, <1>3

\* A timer.
LEMMA TimerFiresOrders ==
  ASSUME Inductive, Ordered, NEW t \in Task, TimerFires(t)
  PROVE  Ordered'
<1>1. /\ UNCHANGED <<created, succeeded, running, stage, result, host, budget, tripped, disposer>>
      /\ IF ~tripped /\ Idle(t) /\ status[t] = "INTERRUPTED"
           THEN BackInQueue(t) /\ RequestDrain
           ELSE UNCHANGED <<status, queue, draining>>
  BY DEF TimerFires, runVars, tripVars, history
<1>2. CASE ~tripped /\ Idle(t) /\ status[t] = "INTERRUPTED"
  <2>1. status[t] \in Parked
    BY <1>2 DEF Parked
  <2>2. (host'.cold => Restarted) /\ (Cold => Cold')
    BY <1>1 DEF Ordered, DepShape, Cold
  <2> QED
    BY <1>1, <1>2, <2>1, <2>2, BackOneOrders
<1>3. CASE ~(~tripped /\ Idle(t) /\ status[t] = "INTERRUPTED")
  BY <1>1, <1>3, OrderStays
<1> QED
  BY <1>2, <1>3

\* The command requeues.
LEMMA RequeueOrders ==
  ASSUME Inductive, Ordered, Requeue
  PROVE  Ordered'
<1>1. /\ host.at = "preparing" /\ RequestDrain
      /\ host' = IF host.cold THEN [host EXCEPT !.at = "disposing"] ELSE IdleHost
      /\ UNCHANGED <<created, succeeded, stage, result, budget, tripped, disposer>>
  BY DEF Requeue, runVars, tripVars, history
<1>2. /\ host \in HostType /\ (host.cold => host.on = None /\ Restarted)
      /\ ~Cold => \A u \in Task : status[u] \notin Terminal /\ u \in Created \ Queued => DepsMet(u)
  BY RunFacts DEF Inductive, FlagTypes, HostShape, Ordered, DepShape, StartOf
<1>3. (host'.cold => Restarted) /\ (host.at = "disposing" => host'.at = "disposing")
  BY <1>1, <1>2 DEF IdleHost
<1>4. CASE host.on = None /\ RequeueResumable
  <2> DEFINE B == {t \in Created : Resumable(t)}
  <2>1. /\ Back(B)
        /\ \A e \in Entries(queue') :
             e \in Entries(queue) \/ (e.task \in B /\ e.blocked = StillOpen(e.task) \ succeeded)
    BY <1>4, BackAll
  <2>2. \A u \in B : u \in Task /\ u \in Created \ Queued /\ status[u] \notin Terminal
    BY CreatedIsTask DEF Resumable, Idle, Inductive
  <2>3. Cold => /\ \A u \in Task : stage[u] = "off"
                /\ Queued = {} /\ running = {} /\ Restarted
    BY <1>2 DEF Cold, Inductive, HostShape, Queued
  <2>4. Cold => Cold' \/ \A u \in Created \ (B \cup Queued) : status[u] \in Terminal \cup Parked
    BY <2>3 DEF Resumable, Idle, Parked
  <2>5. \A u \in B : stage[u] = "off" \/ DepsMet(u)
    BY <1>2, <2>2, <2>3
  <2>6. ASSUME NEW e \in Entries(queue'), e \notin Entries(queue)
        PROVE  /\ e.task \in B /\ e.blocked \subseteq Deps[e.task]
               /\ \A d \in Deps[e.task] : d \in e.blocked \/ Met(d)
               /\ \A d \in e.blocked : status[d] \notin Terminal
               /\ e.blocked # {} => stage[e.task] = "off"
    <3> DEFINE t == e.task
    <3>1. t \in B /\ e.blocked = StillOpen(t) \ succeeded
      BY <2>1, <2>6
    <3>2. t \in Task /\ Deps[t] \subseteq Task \ Roots /\ StartOf(t)
      BY <2>2, <3>1, DepsAreSteps, RunFacts
    <3>3. e.blocked \subseteq Deps[t] /\ \A d \in e.blocked : status[d] \notin Terminal
      BY <3>1 DEF StillOpen
    <3>4. ASSUME DepsMet(t) PROVE e.blocked = {}
      BY <3>3, <3>4 DEF DepsMet, Met, Terminal
    <3>5. ASSUME ~DepsMet(t), NEW d \in Deps[t], d \notin e.blocked PROVE Met(d)
      <4>1. status[t] # "SUSPENDED"
        BY <3>2, <3>5 DEF StartOf, Parked
      <4>2. status[d] \in Terminal \/ d \in succeeded
        BY <3>1, <3>5, <4>1 DEF StillOpen
      <4>3. Cold
        BY <1>2, <2>2, <3>1, <3>5
      <4>4. d \in succeeded => status[d] = "FINISHED"
        BY <3>2 DEF Ordered, DepShape
      <4> QED
        BY <2>3, <3>2, <4>2, <4>3, <4>4 DEF Met
    <3>6. ~DepsMet(t) => stage[t] = "off"
      BY <2>5, <3>1
    <3> HIDE DEF t, B
    <3>7. \A d \in Deps[t] : d \in e.blocked \/ Met(d)
      BY <3>5 DEF DepsMet
    <3> QED
      BY <3>1, <3>3, <3>4, <3>6, <3>7 DEF t
  <2> HIDE DEF B
  <2> QED
    BY <1>1, <1>3, <2>1, <2>4, <2>5, <2>6, BackOrders
<1>5. CASE host.on # None /\ Idle(host.on) /\ BackInQueue(host.on)
  <2>1. host.on \in Task /\ ~Cold
    BY <1>2, <1>5 DEF HostType, Cold
  <2> QED
    BY <1>1, <1>3, <1>5, <2>1, BackOneOrders
<1>6. CASE host.on # None /\ UNCHANGED <<status, retries, queue>>
  <2>1. Back({}) /\ ~Cold
    BY <1>2, <1>6, BackNone DEF Cold
  <2>2. Entries(queue') = Entries(queue)
    BY <1>6
  <2> QED
    BY <1>1, <1>3, <2>1, <2>2, BackOrders
<1> QED
  BY <1>4, <1>5, <1>6 DEF Requeue

\* The rebuilt session is back.
LEMMA RecoveredOrders ==
  ASSUME Inductive, Ordered, Recovered
  PROVE  Ordered'
<1>1. /\ host.at = "disposing" /\ Victims = {} /\ host' = IdleHost /\ disposer' = None
      /\ UNCHANGED <<status, created, queue, succeeded, stage, result, tripped, budget>>
      /\ RequestDrain
  BY DEF Recovered, taskVars, queueVars, tripVars, history
<1>2. /\ Created' = Created /\ Queued' = Queued /\ Entries(queue') = Entries(queue)
      /\ ~Cold /\ ~host'.cold
  BY <1>1 DEF Created, Queued, Entries, Cold, IdleHost
<1>3. DepShape'
  BY <1>1, <1>2 DEF Ordered, DepShape, EndOf, StartOf, WaitOf, DepsMet, Met, Restarted
<1>4. PlanShape'
  BY <1>1, <1>2, PlanStays DEF Ordered, Restarted
<1>5. DrainShape'
  BY <1>1, DrainStays DEF Ordered
<1>6. ScanShape'
  <2>1. Victims' = {}
    BY <1>1 DEF Victims
  <2> QED
    BY <1>1, <2>1, SchedulingAssumption DEF Ordered, ScanShape
<1> QED
  BY <1>3, <1>4, <1>5, <1>6 DEF Ordered

\* A crash: whatever had finished has.
LEMMA CrashOrders ==
  ASSUME Inductive, Ordered, Crash
  PROVE  Ordered'
<1>1. /\ queue' = <<>> /\ created' = created /\ disposer' = None
      /\ stage' = [t \in Task |-> "off"]
      /\ status' = [t \in Task |-> IF stage[t] = "finish" THEN result[t] ELSE status[t]]
      /\ succeeded' = {t \in Task : status'[t] = "FINISHED"}
      /\ host' = [at |-> "preparing", on |-> None, cold |-> TRUE]
      /\ budget.crashes > 0
      /\ budget' = [budget EXCEPT !.crashes = @ - 1, !.upsets = @ - 1]
  BY DEF Crash
<1>2. Created' = Created /\ Queued' = {} /\ Entries(queue') = {} /\ Victims' = {} /\ Cold'
  BY <1>1 DEF Created, Queued, Entries, Victims, Cold
<1>3. Restarted'
  <2>1. budget'.crashes = budget.crashes - 1 /\ budget.crashes \in 0..MaxCrashes
    BY <1>1 DEF Inductive, FlagTypes, BudgetType
  <2> QED
    BY <2>1, Constants DEF Restarted
<1>4. \A u \in Task :
        /\ stage'[u] = "off"
        /\ status'[u] = status[u] \/ (status'[u] \in Terminal /\ stage[u] = "finish")
        /\ status[u] = "FINISHED" => status'[u] = "FINISHED"
  <2>1. \A u \in Task : RunOf(u) /\ EndOf(u)
    BY RunFacts
  <2> QED
    BY <1>1, <2>1 DEF RunOf, EndOf
<1>5. ASSUME NEW d \in Task, Met(d) PROVE Met(d)'
  BY <1>2, <1>3, <1>4, <1>5 DEF Met
<1>6. DepShape'
  <2>1. ASSUME NEW t \in Task PROVE EndOf(t)'
    BY <1>1, <1>2, <1>4 DEF EndOf
  <2>2. ASSUME NEW t \in Task PROVE StartOf(t)'
    <3>1. ASSUME status'[t] \in Parked PROVE DepsMet(t)'
      <4>1. status[t] \in Parked
        BY <1>4, <3>1 DEF Terminal, Parked
      <4>2. DepsMet(t) /\ Deps[t] \subseteq Task
        BY <4>1, RunFacts, Constants DEF StartOf
      <4> QED
        BY <1>5, <4>2 DEF DepsMet
    <3> QED
      BY <1>2, <1>4, <3>1 DEF StartOf
  <2> QED
    BY <1>1, <1>2, <1>3, <2>1, <2>2 DEF DepShape
<1>7. PlanShape'
  BY <1>2, <1>3, PlanStays DEF Ordered
<1>8. DrainShape'
  BY <1>1 DEF DrainShape
<1>9. ScanShape'
  BY <1>1, <1>2, <1>4, SchedulingAssumption DEF ScanShape
<1> QED
  BY <1>6, <1>7, <1>8, <1>9 DEF Ordered

\* At the start nobody waits.
LEMMA InitOrders ==
  ASSUME Init
  PROVE  Ordered
<1>1. /\ status = [t \in Task |-> "new"] /\ created = <<>> /\ queue = <<>> /\ succeeded = {}
      /\ stage = [t \in Task |-> "off"] /\ disposer = None /\ host = IdleHost
  BY DEF Init
<1>2. Created = {} /\ Queued = {} /\ Entries(queue) = {} /\ Victims = {} /\ Ready = {}
  BY <1>1 DEF Created, Queued, Entries, Victims, Ready
<1>3. DepShape
  BY <1>1, <1>2 DEF DepShape, EndOf, StartOf, Parked, IdleHost
<1>4. PlanShape
  BY <1>2 DEF PlanShape
<1>5. ScanShape
  BY <1>1, <1>2, SchedulingAssumption DEF ScanShape
<1>6. DrainShape
  BY <1>2 DEF DrainShape
<1> QED
  BY <1>3, <1>4, <1>5, <1>6 DEF Ordered

\* The steps of a run.
LEMMA RunStepOrders ==
  ASSUME Inductive, Ordered, NEW t \in Task, RunStep(t)
  PROVE  Ordered'
<1>1. CASE Assembled(t)
  BY <1>1, AssembledOrders
<1>2. CASE FailDoomed(t)
  BY <1>2, FailDoomedOrders
<1>3. CASE AssemblyInVain(t)
  BY <1>3, AssemblyInVainOrders
<1>4. CASE PushChild(t)
  BY <1>4, PushChildOrders
<1>5. CASE Flushed(t)
  BY <1>5, FlushedOrders
<1>6. CASE \E kind \in {"crash", "outage"} : AssemblyFails(t, kind)
  BY <1>6, AssemblyFailsComes, CameToOrders
<1>7. CASE \E kind \in {"success", "fail", "continue", "human", "children", "crash", "outage",
                       "cancel"} : RunEnds(t, kind)
  BY <1>7, RunEndsComes, CameToOrders
<1> QED
  BY <1>1, <1>2, <1>3, <1>4, <1>5, <1>6, <1>7 DEF RunStep

\* The steps of its settlement.
LEMMA EndStepOrders ==
  ASSUME Inductive, Ordered, NEW t \in Task, EndStep(t)
  PROVE  Ordered'
BY SettleParkedOrders, SettleExhaustedOrders, SettlePendingOrders, FinishOrders, TripOrders,
   TripCancelOrders, TripEndsOrders, DisposeEndsOrders, WakeOrders, TimerFiresOrders DEF EndStep

\* All steps.
LEMMA NextOrders ==
  ASSUME Inductive, Calm, Ordered, Next
  PROVE  Ordered'
<1>1. CASE \E t \in Task : RunStep(t) \/ EndStep(t)
  BY <1>1, RunStepOrders, EndStepOrders
<1>2. CASE Dispatch \/ DrainEnds
  BY <1>2, DispatchOrders, DrainEndsOrders
<1>3. CASE \E w \in Task \cup {Host} : DisposeOne(w)
  BY <1>3, DisposeOneOrders
<1>4. CASE \E w \in Task \cup {Host}, tail \in TailKind : Close(w, tail)
  BY <1>4, CloseOrders
<1>5. CASE Requeue \/ Recovered
  BY <1>5, RequeueOrders, RecoveredOrders
<1>6. CASE \E t \in Task : Submit(t) \/ NewRound(t) \/ Reply(t)
  BY <1>6, SubmitOrders, NewRoundOrders, ReplyOrders
<1>7. CASE Resume \/ Crash
  BY <1>7, ResumeOrders, CrashOrders
<1> QED
  BY <1>1, <1>2, <1>3, <1>4, <1>5, <1>6, <1>7 DEF Next, Drain, Tails, Command

\* Who waits for whom, the plans, the scans and the drains are in order in every behaviour.
THEOREM WaitingInOrder == Spec => []Ordered
<1>1. Init => Ordered
  BY InitOrders
<1>2. Inductive /\ Calm /\ Ordered /\ [Next]_vars => Ordered'
  <2>1. ASSUME Inductive, Ordered, UNCHANGED vars PROVE Ordered'
    BY <2>1, OrderStays DEF vars, taskVars, queueVars, runVars, waitVars, tripVars, history
  <2> QED
    BY <2>1, NextOrders
<1> QED
  BY <1>1, <1>2, InductiveInvariant, PTL DEF Spec

\* A step of the coroutine goes on, never back to the start.
LEMMA OnwardOnly ==
  ASSUME Inductive, NEW t \in Task, NEW u \in Task, NEW from, NEW to, to # "assemble",
         Goto(u, from, to)
  PROVE  ~Starts(t)
BY DEF Goto, Starts, Inductive, ArrayTypes

\* Only the drain starts a task.
LEMMA OnlyDrainStarts ==
  ASSUME Inductive, NEW t \in Task, Starts(t), Next
  PROVE  Dispatch
<1>1. ASSUME NEW u \in Task, RunStep(u) PROVE FALSE
  <2>1. CASE Assembled(u) \/ AssemblyInVain(u) \/ Flushed(u)
    BY <2>1, OnwardOnly DEF Assembled, AssemblyInVain, Flushed, Leave
  <2>2. CASE FailDoomed(u)
    BY <2>2, OnwardOnly DEF FailDoomed
  <2>3. CASE PushChild(u)
    BY <2>3 DEF PushChild, runVars, Starts
  <2>4. CASE \E kind \in {"crash", "outage"} : AssemblyFails(u, kind)
    BY <2>4, OnwardOnly DEF AssemblyFails
  <2>5. CASE \E kind \in {"success", "fail", "continue", "human", "children", "crash", "outage",
                         "cancel"} : RunEnds(u, kind)
    <3>1. \A st : Onward(st) # "assemble"
      BY DEF Onward
    <3>2. Goto(u, "execute", Onward(result'[u]))
      BY <2>5 DEF RunEnds
    <3> QED
      BY <3>1, <3>2, OnwardOnly
  <2> QED
    BY <1>1, <2>1, <2>2, <2>3, <2>4, <2>5 DEF RunStep
<1>2. ASSUME NEW u \in Task, EndStep(u) PROVE FALSE
  <2>1. CASE SettleParked(u) \/ SettleExhausted(u) \/ SettlePending(u)
    BY <2>1, OnwardOnly DEF SettleParked, SettleExhausted, SettlePending, Leave
  <2>2. CASE Finish(u) \/ Trip(u) \/ TripEnds(u) \/ DisposeEnds(u) \/ Wake(u)
    BY <2>2, OnwardOnly DEF Finish, Trip, TripEnds, DisposeEnds, Wake, Leave
  <2>3. CASE TripCancel(u) \/ TimerFires(u)
    BY <2>3 DEF TripCancel, TimerFires, runVars, Starts
  <2> QED
    BY <1>2, <2>1, <2>2, <2>3 DEF EndStep
<1>3. CASE DrainEnds \/ \E w \in Task \cup {Host} :
             DisposeOne(w) \/ \E tail \in TailKind : Close(w, tail)
  BY <1>3 DEF DrainEnds, DisposeOne, Close, runVars, Starts
<1>4. CASE Requeue \/ Recovered \/ Resume \/ \E u \in Task : Submit(u) \/ NewRound(u) \/ Reply(u)
  BY <1>4 DEF Requeue, Recovered, Resume, Submit, NewRound, Reply, runVars, Starts
<1>5. CASE Crash
  BY <1>5 DEF Crash, Starts
<1> QED
  BY <1>1, <1>2, <1>3, <1>4, <1>5 DEF Next, Drain, Tails, Command

\* What a task waits for is over when it is dispatched.
LEMMA DispatchMeets ==
  ASSUME Inductive, Ordered, NEW t \in Task, Starts(t), Dispatch
  PROVE  DepsMet(t)
<1>1. PICK i \in Ready : stage' = [stage EXCEPT ![queue[i].task] = "assemble"]
  BY DEF Dispatch
<1>2. queue[i] \in Entries(queue) /\ queue[i].blocked \subseteq succeeded
  BY DEF Ready, MayRun, Entries
<1>3. t = queue[i].task
  BY <1>1, <1>2, EntryIs DEF Starts, Inductive, ArrayTypes
<1>4. WaitOf(queue[i]) /\ \A d \in succeeded \ Roots : status[d] = "FINISHED"
  BY <1>2 DEF Ordered, DepShape
<1>5. ASSUME NEW d \in Deps[t] PROVE Met(d)
  <2>1. d \in Task \ Roots
    BY DepsAreSteps
  <2>2. d \in succeeded => status[d] = "FINISHED"
    BY <1>4, <2>1
  <2> QED
    BY <1>2, <1>3, <1>4, <2>2 DEF WaitOf, Met
<1> QED
  BY <1>5 DEF DepsMet

\* A task starts when all it depends on is over, whoever puts it in the queue and however
\* often the process dies; unless it has died, all of that has finished.
THEOREM DependenciesGoFirst == Spec => DependenciesFirst
<1>1. ASSUME Inductive, Ordered, [Next]_vars, NEW t \in Task, Starts(t)
      PROVE  \A d \in Deps[t] : status[d] \in IF Restarted THEN Terminal ELSE {"FINISHED"}
  <2>1. Dispatch
    <3>1. CASE Next
      BY <1>1, <3>1, OnlyDrainStarts
    <3>2. CASE UNCHANGED vars
      BY <1>1, <3>2 DEF vars, runVars, Starts
    <3> QED
      BY <1>1, <3>1, <3>2
  <2>2. DepsMet(t)
    BY <1>1, <2>1, DispatchMeets
  <2> QED
    BY <2>2 DEF DepsMet, Met, Terminal
<1>2. Inductive /\ Ordered /\ [Next]_vars =>
        [\A t \in Task : Starts(t) =>
           \A d \in Deps[t] : status[d] \in IF Restarted THEN Terminal ELSE {"FINISHED"}]_vars
  BY <1>1
<1> QED
  BY <1>2, InductiveInvariant, WaitingInOrder, PTL DEF Spec, DependenciesFirst

\* When nothing is at work, no slot is taken and nobody is left in the queue who could
\* run or never can, if the pool has a slot at all.
THEOREM NobodyIsForgotten ==
  ASSUME ResumesApart, MaxConcurrent > 0
  PROVE  Spec => []NothingForgotten
<1>1. ASSUME Inductive, Ordered, Quiet, ~tripped
      PROVE  /\ running = {} /\ Victims = {}
             /\ \A i \in DOMAIN queue :
                  \/ \E d \in queue[i].blocked :
                       status[d] \notin Terminal /\ (d \in Created \/ Restarted)
                  \/ Port[queue[i].task] \in HeldPorts
  <2>1. (\A t \in Task : stage[t] = "off") /\ host.at = "idle" /\ ~draining
    BY <1>1 DEF Quiet, AtWork, IdleHost
  <2>2. running = {}
    BY <1>1, <2>1 DEF Inductive, SetTypes, RunShape, RunOf
  <2>3. Victims = {}
    BY <1>1, <2>1 DEF Ordered, ScanShape, Hunted
  <2>4. Ready = {}
    BY <1>1, <2>1 DEF Ordered, DrainShape, AtWork
  <2>5. ASSUME NEW i \in DOMAIN queue, Port[queue[i].task] \notin HeldPorts
        PROVE  \E d \in queue[i].blocked : status[d] \notin Terminal /\ (d \in Created \/ Restarted)
    <3> DEFINE e == queue[i]
    <3>1. e \in Entries(queue)
      BY DEF Entries
    <3>2. e.task \in Task /\ e.task \in Created /\ WaitOf(e)
      BY <1>1, <3>1, EntryIs DEF Ordered, DepShape, Inductive, QueueShape
    <3>3. ~MayRun(e)
      BY <2>4 DEF Ready
    <3>4. ~(e.blocked \subseteq succeeded)
      <4>1. Cardinality(running) = 0 /\ BusyAgents = {}
        BY <2>2, FS_EmptySet DEF BusyAgents
      <4>2. e.task \notin running /\ Port[e.task] \notin HeldPorts
        BY <2>2, <2>5
      <4> QED
        BY <3>3, <4>1, <4>2 DEF MayRun
    <3>5. PICK d \in e.blocked : d \notin succeeded
      BY <3>4
    <3>6. d \in Deps[e.task] /\ d \in Task /\ status[e.task] = "PENDING"
      BY <3>2, <3>5, Constants DEF WaitOf
    <3>7. status[d] \notin {"FAILED", "CANCELED"}
      BY <2>3, <3>1, <3>6, VictimsAre DEF Terminal
    <3>8. status[d] # "FINISHED"
      BY <1>1, <2>1, <3>5, <3>6, RunFacts DEF EndOf
    <3>9. d \in Created \/ Restarted
      <4>1. Parent[e.task] \in Task
        BY <3>2, <3>6, PlansAssumption
      <4>2. PICK a \in DOMAIN Plan[Parent[e.task]], b \in DOMAIN Plan[Parent[e.task]] :
              b < a /\ Plan[Parent[e.task]][a] = e.task /\ Plan[Parent[e.task]][b] = d
        BY <3>2, <3>6, PlansAssumption
      <4> QED
        BY <1>1, <2>1, <3>2, <4>1, <4>2 DEF Ordered, PlanShape
    <3> QED
      BY <3>5, <3>7, <3>8, <3>9 DEF Terminal
  <2> QED
    BY <2>2, <2>3, <2>5
<1>2. Inductive /\ Ordered => NothingForgotten
  BY <1>1 DEF NothingForgotten
<1> QED
  BY <1>2, InductiveInvariant, WaitingInOrder, PTL
================================================================================
