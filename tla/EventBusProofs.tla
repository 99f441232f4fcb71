---------------------------- MODULE EventBusProofs ----------------------------
(***************************************************************************)
(* "Notified implies stored", for any number of runs, tasks and windows,   *)
(* whatever the store refuses or forgets to confirm.  The notification     *)
(* happens steps after the store's answer, so the invariant has to carry   *)
(* that answer through the emit and through the window: ConfirmedIsStored. *)
(*                                                                         *)
(* The order of the log and of what subscribers are told, and that a round *)
(* is in the log as a whole or not at all, need to know where the events   *)
(* of a run can be at any moment: Orderly, in the second part.             *)
(*                                                                         *)
(* What is rebuilt from the log: that nothing said is lost to the memory,  *)
(* however often the process stops (RecoveryInductive, in the last part).  *)
(***************************************************************************)
EXTENDS EventBus, Recovery, FiniteSetTheorems, WellFoundedInduction, TLAPS

\* What a step of the bus takes for stored is in the log: the batches of the
\* ledger, the event of an emit that goes on to notify, the batch of a window
\* that was confirmed.
ConfirmedIsStored ==
  /\ \A batch \in ledger : Elems(batch) \subseteq Elems(log)
  /\ \A r \in Runs : out[r] = "notify" => Current(r) \in Elems(log)
  /\ \A t \in Tasks : win[t].confirmed => Elems(win[t].frozen) \subseteq Elems(log)

\* An emit that is under way has an event to emit.
EmitHasEvent == \A r \in Runs : out[r] # "idle" => next[r] <= RunLength

Inductive == TypeOK /\ EmitHasEvent /\ ConfirmedIsStored /\ SeenIsDurable
-------------------------------------------------------------------------------
(***************************************************************************)
(* Sequences and the store                                                 *)
(***************************************************************************)

\* Appending one element, or a batch, adds just those elements.
LEMMA AppendElems ==
  ASSUME NEW S, NEW s \in Seq(S), NEW e \in S
  PROVE  Append(s, e) \in Seq(S) /\ Elems(Append(s, e)) = Elems(s) \cup {e}
<1>1. Append(s, e) \in Seq(S)
  OBVIOUS
<1>2. \A x \in Elems(s) \cup {e} : x \in Elems(Append(s, e))
  <2>1. e = Append(s, e)[Len(s) + 1] /\ Len(s) + 1 \in DOMAIN Append(s, e)
    OBVIOUS
  <2>2. \A i \in DOMAIN s : i \in DOMAIN Append(s, e) /\ Append(s, e)[i] = s[i]
    OBVIOUS
  <2> QED
    BY <2>1, <2>2 DEF Elems
<1>3. \A x \in Elems(Append(s, e)) : x \in Elems(s) \cup {e}
  BY DEF Elems
<1> QED
  BY <1>1, <1>2, <1>3

\* Appending a batch loses nothing of the one or the other.
LEMMA ConcatElems ==
  ASSUME NEW S, NEW s \in Seq(S), NEW b \in Seq(S)
  PROVE  /\ s \o b \in Seq(S)
         /\ Elems(s) \subseteq Elems(s \o b) /\ Elems(b) \subseteq Elems(s \o b)
<1>1. \A i \in DOMAIN s : i \in DOMAIN (s \o b) /\ (s \o b)[i] = s[i]
  OBVIOUS
<1>2. \A i \in DOMAIN b :
        Len(s) + i \in DOMAIN (s \o b) /\ (s \o b)[Len(s) + i] = b[i]
  OBVIOUS
<1>3. s \o b \in Seq(S)
  OBVIOUS
<1>4. \A x \in Elems(s) : x \in Elems(s \o b)
  BY <1>1 DEF Elems
<1>5. \A x \in Elems(b) : x \in Elems(s \o b)
  BY <1>2 DEF Elems
<1> QED
  BY <1>3, <1>4, <1>5

\* A store that confirmed a batch holds it, and what it held it still holds.
LEMMA StoredHolds ==
  ASSUME log \in Seq(Event), ledger \subseteq Seq(Event), NEW batch \in Seq(Event),
         \A b \in ledger : Elems(b) \subseteq Elems(log), Stored(batch)
  PROVE  /\ log' \in Seq(Event) /\ ledger' \subseteq Seq(Event)
         /\ \A b \in ledger' : Elems(b) \subseteq Elems(log')
         /\ Elems(log) \subseteq Elems(log')
         /\ Elems(batch) \subseteq Elems(log')
<1>1. CASE batch \in ledger /\ UNCHANGED storeVars
  BY <1>1 DEF storeVars
<1>2. CASE log' = log \o batch /\ ledger' = ledger \cup {batch}
  BY <1>2, ConcatElems
<1> QED
  BY <1>1, <1>2 DEF Stored

\* The same without the confirmation, where the store may have done nothing.
LEMMA NotConfirmedHolds ==
  ASSUME log \in Seq(Event), ledger \subseteq Seq(Event), NEW batch \in Seq(Event),
         \A b \in ledger : Elems(b) \subseteq Elems(log), NotConfirmed(batch)
  PROVE  /\ log' \in Seq(Event) /\ ledger' \subseteq Seq(Event)
         /\ \A b \in ledger' : Elems(b) \subseteq Elems(log')
         /\ Elems(log) \subseteq Elems(log')
<1>1. CASE UNCHANGED storeVars
  BY <1>1 DEF storeVars
<1> QED
  BY <1>1, StoredHolds DEF NotConfirmed

\* The event an emit is about is an event, and a batch of its own.
LEMMA CurrentType ==
  ASSUME TypeOK, NEW r \in Runs, next[r] <= RunLength
  PROVE  Current(r) \in Event /\ <<Current(r)>> \in Seq(Event)
         /\ Elems(<<Current(r)>>) = {Current(r)}
<1>1. next[r] \in 1..RunLength
  BY EventBusAssumption DEF TypeOK
<1>2. Current(r) \in Event
  BY <1>1 DEF Current, Event
<1> QED
  BY <1>2 DEF Elems

\* A window as begin_provisional or the next batch makes it.
LEMMA FreshWindowType ==
  ASSUME NEW f \in Seq(Event), NEW runs \in SUBSET Runs
  PROVE  FreshWindow(f, runs) \in Window /\ FreshWindow(f, runs).confirmed = FALSE
<1>1. <<>> \in Seq(Event) /\ 0 \in Nat /\ FALSE \in BOOLEAN
  OBVIOUS
<1> QED
  BY <1>1 DEF FreshWindow, Window

\* Fixing the next batch leaves no window confirmed that was not.
LEMMA FreezeType ==
  ASSUME TypeOK, NEW t \in Tasks, Freeze(t)
  PROVE  /\ open' \subseteq Tasks /\ busy' \subseteq Tasks
         /\ win' \in [Tasks -> Window]
         /\ \A u \in Tasks : win'[u].confirmed => win'[u] = win[u]
<1>1. win[t].events \in Seq(Event) /\ win[t].independent \in SUBSET Runs
  BY DEF TypeOK, Window
<1>2. PICK f \in Seq(Event), runs \in SUBSET Runs :
        win' = [win EXCEPT ![t] = FreshWindow(f, runs)]
  <2>1. <<>> \in Seq(Event) /\ {} \in SUBSET Runs
    OBVIOUS
  <2> QED
    BY <1>1, <2>1 DEF Freeze
<1> QED
  BY <1>2, FreshWindowType DEF Freeze, TypeOK
-------------------------------------------------------------------------------
(***************************************************************************)
(* Types                                                                   *)
(***************************************************************************)

\* What is tracked are runs.
LEMMA TrackingType ==
  ASSUME TypeOK, NEW r \in Runs, NEW n
  PROVE  Tracking(r, n) \subseteq Runs
BY DEF TypeOK, Tracking

\* Changing one field of a window.
LEMMA WindowUpdate ==
  ASSUME NEW w \in Window
  PROVE  /\ \A events \in Seq(Event) : [w EXCEPT !.events = events] \in Window
         /\ \A runs \in SUBSET Runs : [w EXCEPT !.independent = runs] \in Window
         /\ \A n \in Nat : [w EXCEPT !.notified = n] \in Window
         /\ [w EXCEPT !.confirmed = TRUE] \in Window
BY DEF Window

\* ... leaves the batch and its confirmation alone, unless it is that field.
LEMMA WindowKeeps ==
  ASSUME NEW w \in Window, NEW x
  PROVE  /\ [w EXCEPT !.independent = x].confirmed = w.confirmed
         /\ [w EXCEPT !.independent = x].frozen = w.frozen
         /\ [w EXCEPT !.events = x].confirmed = w.confirmed
         /\ [w EXCEPT !.events = x].frozen = w.frozen
         /\ [w EXCEPT !.notified = x].confirmed = w.confirmed
         /\ [w EXCEPT !.notified = x].frozen = w.frozen
BY DEF Window

\* The event a confirmed window notifies next.
LEMMA ToNotifyType ==
  ASSUME TypeOK, NEW t \in Tasks, win[t].notified < Len(win[t].frozen)
  PROVE  ToNotify(t) \in Elems(win[t].frozen) /\ ToNotify(t) \in Event
<1>1. win[t].frozen \in Seq(Event) /\ win[t].notified \in Nat
  BY DEF TypeOK, Window
<1>2. win[t].notified + 1 \in DOMAIN win[t].frozen
  BY <1>1
<1> QED
  BY <1>1, <1>2 DEF ToNotify, Elems

\* The steps of one emit.
LEMMA EmitTypes ==
  ASSUME TypeOK, EmitHasEvent, ConfirmedIsStored, NEW r \in Runs, EmitStep(r)
  PROVE  TypeOK' /\ EmitHasEvent'
<1> USE EventBusAssumption
<1>1. next[r] \in Nat /\ RunLength \in Nat
  BY DEF TypeOK
<1>2. CASE EmitBuffered(r)
  <2>1. Current(r) \in Event /\ win[TaskOf[r]].events \in Seq(Event)
    BY <1>2, CurrentType DEF EmitBuffered, TypeOK, Window
  <2>2. Append(win[TaskOf[r]].events, Current(r)) \in Seq(Event)
    BY <2>1
  <2>3. win' \in [Tasks -> Window]
    <3> DEFINE t == TaskOf[r]
               w2 == [win[t] EXCEPT !.events = Append(@, Current(r))]
    <3>1. t \in Tasks /\ win[t] \in Window
      BY DEF TypeOK
    <3>2. w2 \in Window
      BY <2>2, <3>1, WindowUpdate
    <3>3. win' = [win EXCEPT ![t] = w2]
      BY <1>2 DEF EmitBuffered
    <3> HIDE DEF w2
    <3> QED
      BY <3>1, <3>2, <3>3 DEF TypeOK
  <2>4. next' \in [Runs -> 1..RunLength + 1]
    BY <1>1, <1>2 DEF EmitBuffered, TypeOK
  <2>5. EmitHasEvent'
    BY <1>2 DEF EmitBuffered, EmitHasEvent, TypeOK
  <2> QED
    BY <1>2, <2>3, <2>4, <2>5 DEF EmitBuffered, TypeOK, storeVars, histVars
<1>3. CASE EmitDirect(r)
  <2>1. win' \in [Tasks -> Window]
    <3> DEFINE t == TaskOf[r]
    <3>1. t \in Tasks /\ win[t] \in Window
      BY DEF TypeOK
    <3>2. win[t].independent \cup {r} \in SUBSET Runs
      BY <3>1 DEF Window
    <3>3. [win[t] EXCEPT !.independent = @ \cup {r}] \in Window
      BY <3>1, <3>2, WindowUpdate
    <3>4. \/ win' = win
          \/ win' = [win EXCEPT ![t] = [win[t] EXCEPT !.independent = @ \cup {r}]]
      BY <1>3 DEF EmitDirect
    <3> QED
      BY <3>3, <3>4 DEF TypeOK
  <2>2. tracked' \subseteq Runs
    BY <1>3 DEF EmitDirect, TypeOK
  <2>3. out' \in [Runs -> Stages] /\ EmitHasEvent'
    BY <1>3 DEF EmitDirect, TypeOK, Stages, EmitHasEvent
  <2> QED
    BY <1>3, <2>1, <2>2, <2>3 DEF EmitDirect, TypeOK, storeVars, histVars
<1>4. CASE StoreDirect(r) \/ StoreDirectFails(r)
  <2>1. <<Current(r)>> \in Seq(Event)
    BY <1>4, CurrentType DEF StoreDirect, StoreDirectFails, EmitHasEvent
  <2>2. log' \in Seq(Event) /\ ledger' \subseteq Seq(Event)
    BY <1>4, <2>1, StoredHolds, NotConfirmedHolds
    DEF StoreDirect, StoreDirectFails, TypeOK, ConfirmedIsStored
  <2>3. tracked' \subseteq Runs
    BY <1>4, TrackingType DEF StoreDirect, StoreDirectFails, TypeOK
  <2>4. out' \in [Runs -> Stages] /\ EmitHasEvent'
    BY <1>4 DEF StoreDirect, StoreDirectFails, TypeOK, Stages, EmitHasEvent
  <2> QED
    BY <1>4, <2>2, <2>3, <2>4
    DEF StoreDirect, StoreDirectFails, TypeOK, winVars, histVars
<1>5. CASE NotifyDirect(r)
  <2>1. next[r] <= RunLength
    BY <1>5 DEF NotifyDirect, EmitHasEvent
  <2>2. seen' \in Seq(Event)
    <3>1. Current(r) \in Event /\ seen \in Seq(Event)
      BY <2>1, CurrentType DEF TypeOK
    <3> QED
      BY <1>5, <3>1, AppendElems DEF NotifyDirect
  <2>3. next' \in [Runs -> 1..RunLength + 1]
    BY <1>1, <1>5, <2>1 DEF NotifyDirect, TypeOK
  <2>4. out' \in [Runs -> Stages] /\ EmitHasEvent'
    BY <1>5 DEF NotifyDirect, TypeOK, Stages, EmitHasEvent
  <2> QED
    BY <1>5, <2>2, <2>3, <2>4 DEF NotifyDirect, TypeOK, winVars, storeVars, histVars
<1>6. CASE RetryActor(r) \/ EndBackground(r)
  <2>1. next' \in [Runs -> 1..RunLength + 1]
    BY <1>1, <1>6 DEF RetryActor, EndBackground, TypeOK
  <2>2. out' \in [Runs -> Stages]
    BY <1>6 DEF RetryActor, EndBackground, TypeOK, Stages
  <2>3. EmitHasEvent'
    <3>1. \A s \in Runs \ {r} : out'[s] = out[s] /\ next'[s] = next[s]
      BY <1>6 DEF RetryActor, EndBackground, TypeOK
    <3>2. out'[r] # "idle" => next'[r] \in {1, RunLength}
      BY <1>6 DEF RetryActor, EndBackground, TypeOK
    <3> QED
      BY <3>1, <3>2 DEF EmitHasEvent
  <2> QED
    BY <1>6, <2>1, <2>2, <2>3
    DEF RetryActor, EndBackground, TypeOK, winVars, storeVars, histVars
<1>7. CASE Bind(r)
  <2>1. win' \in [Tasks -> Window]
    <3> DEFINE t == TaskOf[r]
               w2 == [win[t] EXCEPT !.independent = @ \ {r}]
    <3>1. t \in Tasks /\ win[t] \in Window
      BY DEF TypeOK
    <3>2. win[t].independent \ {r} \in SUBSET Runs
      BY <3>1 DEF Window
    <3>3. w2 \in Window
      BY <3>1, <3>2, WindowUpdate
    <3>4. win' = [win EXCEPT ![t] = w2]
      BY <1>7 DEF Bind
    <3> HIDE DEF w2
    <3> QED
      BY <3>1, <3>3, <3>4 DEF TypeOK
  <2>2. bound' \subseteq Runs
    BY <1>7 DEF Bind, TypeOK
  <2> QED
    BY <1>7, <2>1, <2>2 DEF Bind, TypeOK, EmitHasEvent, runVars, storeVars
<1> QED
  BY <1>2, <1>3, <1>4, <1>5, <1>6, <1>7 DEF EmitStep

\* The steps of one window.
LEMMA WindowTypes ==
  ASSUME TypeOK, EmitHasEvent, ConfirmedIsStored, NEW t \in Tasks, WindowStep(t)
  PROVE  TypeOK' /\ EmitHasEvent'
<1> USE EventBusAssumption
<1>1. /\ win[t] \in Window /\ win[t].events \in Seq(Event)
      /\ win[t].frozen \in Seq(Event) /\ win[t].notified \in Nat
  BY DEF TypeOK, Window
<1>2. <<>> \in Seq(Event) /\ FreshWindow(<<>>, {}) \in Window
  <2>1. <<>> \in Seq(Event) /\ {} \in SUBSET Runs
    OBVIOUS
  <2> QED
    BY <2>1, FreshWindowType
<1>3. EmitHasEvent'
  BY DEF WindowStep, Begin, CommitStart, StoreBatch, StoreBatchFails, NotifyBatch,
         InterruptNotify, FinishBatch, Discard, runVars, EmitHasEvent
<1>4. CASE Begin(t)
  <2>1. {r \in tracked : TaskOf[r] = t} \in SUBSET Runs
    BY DEF TypeOK
  <2>2. FreshWindow(<<>>, {r \in tracked : TaskOf[r] = t}) \in Window
    BY <1>2, <2>1, FreshWindowType
  <2>3. win' \in [Tasks -> Window]
    BY <1>4, <2>2 DEF Begin, TypeOK
  <2>4. windows' \in 0..MaxWindows
    BY <1>4 DEF Begin, TypeOK
  <2> QED
    BY <1>3, <1>4, <2>3, <2>4 DEF Begin, TypeOK, runVars, storeVars
<1>5. CASE CommitStart(t)
  <2>1. open' \subseteq Tasks /\ busy' \subseteq Tasks /\ win' \in [Tasks -> Window]
    BY <1>5, FreezeType DEF CommitStart, TypeOK
  <2> QED
    BY <1>3, <1>5, <2>1 DEF CommitStart, TypeOK, runVars, storeVars, histVars
<1>6. CASE StoreBatch(t) \/ StoreBatchFails(t)
  <2>1. log' \in Seq(Event) /\ ledger' \subseteq Seq(Event)
    BY <1>1, <1>6, StoredHolds, NotConfirmedHolds
    DEF StoreBatch, StoreBatchFails, TypeOK, ConfirmedIsStored
  <2>2. win' \in [Tasks -> Window]
    <3>1. [win[t] EXCEPT !.confirmed = TRUE] \in Window
      BY <1>1, WindowUpdate
    <3>2. win' = win \/ win' = [win EXCEPT ![t] = [win[t] EXCEPT !.confirmed = TRUE]]
      BY <1>6 DEF StoreBatch, StoreBatchFails
    <3> QED
      BY <3>1, <3>2 DEF TypeOK
  <2>3. busy' \subseteq Tasks
    BY <1>6 DEF StoreBatch, StoreBatchFails, TypeOK
  <2> QED
    BY <1>3, <1>6, <2>1, <2>2, <2>3
    DEF StoreBatch, StoreBatchFails, TypeOK, runVars, histVars
<1>7. CASE NotifyBatch(t) \/ InterruptNotify(t)
  <2>1. ToNotify(t) \in Event
    BY <1>7, ToNotifyType DEF NotifyBatch, InterruptNotify
  <2>2. tracked' \subseteq Runs
    BY <1>7, <2>1, TrackingType DEF NotifyBatch, InterruptNotify, Event
  <2>3. seen' \in Seq(Event)
    <3>1. Append(seen, ToNotify(t)) \in Seq(Event)
      BY <2>1, AppendElems DEF TypeOK
    <3> QED
      BY <1>7, <3>1 DEF NotifyBatch, InterruptNotify, TypeOK
  <2>4. win' \in [Tasks -> Window]
    <3>1. [win[t] EXCEPT !.notified = @ + 1] \in Window
      <4>1. win[t].notified + 1 \in Nat
        BY <1>1
      <4> QED
        BY <1>1, <4>1, WindowUpdate
    <3>2. win' = win \/ win' = [win EXCEPT ![t] = [win[t] EXCEPT !.notified = @ + 1]]
      BY <1>7 DEF NotifyBatch, InterruptNotify
    <3> QED
      BY <3>1, <3>2 DEF TypeOK
  <2>5. busy' \subseteq Tasks /\ interrupts' \in 0..MaxInterrupts
    BY <1>7 DEF NotifyBatch, InterruptNotify, TypeOK, histVars
  <2> QED
    BY <1>3, <1>7, <2>2, <2>3, <2>4, <2>5
    DEF NotifyBatch, InterruptNotify, TypeOK, storeVars, histVars
<1>8. CASE FinishBatch(t)
  BY <1>3, <1>8, FreezeType DEF FinishBatch, TypeOK, runVars, storeVars, histVars
<1>9. CASE Discard(t)
  <2>1. win' \in [Tasks -> Window] /\ open' \subseteq Tasks
    BY <1>2, <1>9 DEF Discard, TypeOK
  <2>2. dropped' \subseteq Event
    <3>1. Elems(win[t].events) \subseteq Event
      BY <1>1 DEF Elems
    <3> QED
      BY <1>9, <3>1 DEF Discard, TypeOK
  <2> QED
    BY <1>3, <1>9, <2>1, <2>2 DEF Discard, TypeOK, runVars, storeVars
<1> QED
  BY <1>4, <1>5, <1>6, <1>7, <1>8, <1>9 DEF WindowStep

\* Every step keeps the types.
LEMMA TypeStep ==
  ASSUME TypeOK, EmitHasEvent, ConfirmedIsStored, [Next]_vars
  PROVE  TypeOK' /\ EmitHasEvent'
<1>1. CASE UNCHANGED vars
  BY <1>1 DEF vars, runVars, winVars, storeVars, histVars, TypeOK, EmitHasEvent
<1> QED
  BY <1>1, EmitTypes, WindowTypes DEF Next
-------------------------------------------------------------------------------
(***************************************************************************)
(* Stored before notified                                                  *)
(***************************************************************************)

\* Where the log only grows, no emit newly goes on to notify and no window is
\* newly confirmed, the invariant carries over.
LEMMA Carried ==
  ASSUME ConfirmedIsStored, SeenIsDurable,
         Elems(log) \subseteq Elems(log'),
         \A batch \in ledger' : Elems(batch) \subseteq Elems(log'),
         \A r \in Runs : out'[r] = "notify" =>
            \/ out[r] = "notify" /\ next'[r] = next[r]
            \/ Current(r)' \in Elems(log'),
         \A t \in Tasks : win'[t].confirmed =>
            \/ win[t].confirmed /\ win'[t].frozen = win[t].frozen
            \/ Elems(win'[t].frozen) \subseteq Elems(log'),
         Elems(seen') \subseteq Elems(seen) \cup Elems(log')
  PROVE  ConfirmedIsStored' /\ SeenIsDurable'
<1>1. \A r \in Runs : out'[r] = "notify" => Current(r)' \in Elems(log')
  BY DEF ConfirmedIsStored, Current
<1>2. \A t \in Tasks : win'[t].confirmed => Elems(win'[t].frozen) \subseteq Elems(log')
  BY DEF ConfirmedIsStored
<1>3. Elems(seen') \subseteq Elems(log')
  BY DEF SeenIsDurable
<1> QED
  BY <1>1, <1>2, <1>3 DEF ConfirmedIsStored, SeenIsDurable, Elems

\* The steps of one emit keep what is stored before what is notified.
LEMMA EmitCarries ==
  ASSUME TypeOK, EmitHasEvent, ConfirmedIsStored, SeenIsDurable,
         NEW r \in Runs, EmitStep(r)
  PROVE  ConfirmedIsStored' /\ SeenIsDurable'
<1>1. log \in Seq(Event) /\ ledger \subseteq Seq(Event) /\ seen \in Seq(Event)
  BY DEF TypeOK
<1>2. \A batch \in ledger : Elems(batch) \subseteq Elems(log)
  BY DEF ConfirmedIsStored
<1>3. CASE StoreDirect(r)
  <2>1. <<Current(r)>> \in Seq(Event) /\ Elems(<<Current(r)>>) = {Current(r)}
    BY <1>3, CurrentType DEF StoreDirect, EmitHasEvent
  <2>2. /\ \A batch \in ledger' : Elems(batch) \subseteq Elems(log')
        /\ Elems(log) \subseteq Elems(log') /\ Current(r) \in Elems(log')
    BY <1>1, <1>2, <1>3, <2>1, StoredHolds DEF StoreDirect
  <2>3. Current(r)' = Current(r) /\ UNCHANGED <<next, win, seen>>
    BY <1>3 DEF StoreDirect, Current, winVars
  <2>4. \A s \in Runs \ {r} : out'[s] = out[s]
    BY <1>3 DEF StoreDirect, TypeOK
  <2> QED
    BY <2>2, <2>3, <2>4, Carried
<1>4. CASE StoreDirectFails(r)
  <2>1. <<Current(r)>> \in Seq(Event)
    BY <1>4, CurrentType DEF StoreDirectFails, EmitHasEvent
  <2>2. /\ \A batch \in ledger' : Elems(batch) \subseteq Elems(log')
        /\ Elems(log) \subseteq Elems(log')
    BY <1>1, <1>2, <1>4, <2>1, NotConfirmedHolds DEF StoreDirectFails
  <2>3. UNCHANGED <<next, win, seen>> /\ \A s \in Runs : out'[s] \in {out[s], "failed"}
    BY <1>4 DEF StoreDirectFails, winVars, TypeOK
  <2> QED
    BY <2>2, <2>3, Carried
<1>5. CASE NotifyDirect(r)
  <2>1. Current(r) \in Elems(log) /\ Current(r) \in Event
    BY <1>5, CurrentType DEF NotifyDirect, ConfirmedIsStored, EmitHasEvent
  <2>2. Elems(seen') = Elems(seen) \cup {Current(r)}
    BY <1>1, <1>5, <2>1, AppendElems DEF NotifyDirect
  <2>3. /\ UNCHANGED <<win, log, ledger>>
        /\ out'[r] = "idle" /\ \A s \in Runs \ {r} : out'[s] = out[s] /\ next'[s] = next[s]
    BY <1>5 DEF NotifyDirect, winVars, storeVars, TypeOK
  <2> QED
    BY <1>2, <2>1, <2>2, <2>3, Carried
<1>6. ASSUME UNCHANGED <<log, ledger, seen>>,
             \A s \in Runs : out'[s] = "notify" => out[s] = "notify" /\ next'[s] = next[s],
             \A t \in Tasks : win'[t].confirmed = win[t].confirmed /\ win'[t].frozen = win[t].frozen
      PROVE  ConfirmedIsStored' /\ SeenIsDurable'
  BY <1>2, <1>6, Carried
<1>7. CASE EmitBuffered(r) \/ EmitDirect(r) \/ Bind(r)
  <2>1. \A t \in Tasks : win'[t].confirmed = win[t].confirmed /\ win'[t].frozen = win[t].frozen
    <3> DEFINE w == win[TaskOf[r]]
    <3>1. TaskOf[r] \in Tasks /\ w \in Window
      BY EventBusAssumption DEF TypeOK
    <3>2. \/ win' = win
          \/ win' = [win EXCEPT ![TaskOf[r]] = [w EXCEPT !.events = Append(@, Current(r))]]
          \/ win' = [win EXCEPT ![TaskOf[r]] = [w EXCEPT !.independent = @ \cup {r}]]
          \/ win' = [win EXCEPT ![TaskOf[r]] = [w EXCEPT !.independent = @ \ {r}]]
      BY <1>7 DEF EmitBuffered, EmitDirect, Bind
    <3>3. CASE win' = win
      BY <3>3
    <3>4. CASE win' = [win EXCEPT ![TaskOf[r]] = [w EXCEPT !.events = Append(@, Current(r))]]
      <4> DEFINE w2 == [w EXCEPT !.events = Append(@, Current(r))]
      <4>1. w2.confirmed = w.confirmed /\ w2.frozen = w.frozen
        BY <3>1, WindowKeeps
      <4>2. win' = [win EXCEPT ![TaskOf[r]] = w2]
        BY <3>4
      <4> HIDE DEF w2
      <4> QED
        BY <3>1, <4>1, <4>2 DEF TypeOK
    <3>5. CASE win' = [win EXCEPT ![TaskOf[r]] = [w EXCEPT !.independent = @ \cup {r}]]
      <4> DEFINE w2 == [w EXCEPT !.independent = @ \cup {r}]
      <4>1. w2.confirmed = w.confirmed /\ w2.frozen = w.frozen
        BY <3>1, WindowKeeps
      <4>2. win' = [win EXCEPT ![TaskOf[r]] = w2]
        BY <3>5
      <4> HIDE DEF w2
      <4> QED
        BY <3>1, <4>1, <4>2 DEF TypeOK
    <3>6. CASE win' = [win EXCEPT ![TaskOf[r]] = [w EXCEPT !.independent = @ \ {r}]]
      <4> DEFINE w2 == [w EXCEPT !.independent = @ \ {r}]
      <4>1. w2.confirmed = w.confirmed /\ w2.frozen = w.frozen
        BY <3>1, WindowKeeps
      <4>2. win' = [win EXCEPT ![TaskOf[r]] = w2]
        BY <3>6
      <4> HIDE DEF w2
      <4> QED
        BY <3>1, <4>1, <4>2 DEF TypeOK
    <3> QED
      BY <3>2, <3>3, <3>4, <3>5, <3>6
  <2>2. \A s \in Runs : out'[s] = "notify" => out[s] = "notify" /\ next'[s] = next[s]
    BY <1>7 DEF EmitBuffered, EmitDirect, Bind, TypeOK, runVars
  <2> QED
    BY <1>6, <1>7, <2>1, <2>2 DEF EmitBuffered, EmitDirect, Bind, storeVars
<1>8. CASE RetryActor(r) \/ EndBackground(r)
  <2>1. \A s \in Runs : out'[s] = "notify" => out[s] = "notify" /\ next'[s] = next[s]
    BY <1>8 DEF RetryActor, EndBackground, TypeOK
  <2> QED
    BY <1>6, <1>8, <2>1 DEF RetryActor, EndBackground, winVars, storeVars
<1> QED
  BY <1>3, <1>4, <1>5, <1>7, <1>8 DEF EmitStep

\* The steps of one window keep what is stored before what is notified.
LEMMA WindowCarries ==
  ASSUME TypeOK, ConfirmedIsStored, SeenIsDurable, NEW t \in Tasks, WindowStep(t)
  PROVE  ConfirmedIsStored' /\ SeenIsDurable'
<1>1. log \in Seq(Event) /\ ledger \subseteq Seq(Event) /\ seen \in Seq(Event)
  BY DEF TypeOK
<1>2. \A batch \in ledger : Elems(batch) \subseteq Elems(log)
  BY DEF ConfirmedIsStored
<1>3. win[t].frozen \in Seq(Event)
  BY DEF TypeOK, Window
<1>4. UNCHANGED <<out, next>>
  BY DEF WindowStep, Begin, CommitStart, StoreBatch, StoreBatchFails, NotifyBatch,
         InterruptNotify, FinishBatch, Discard, runVars
<1>5. ASSUME UNCHANGED <<log, ledger, seen>>,
             \A u \in Tasks : win'[u].confirmed => win'[u] = win[u]
      PROVE  ConfirmedIsStored' /\ SeenIsDurable'
  BY <1>2, <1>4, <1>5, Carried
<1>6. CASE Begin(t) \/ Discard(t)
  <2>1. \A runs \in SUBSET Runs : FreshWindow(<<>>, runs).confirmed = FALSE
    BY DEF FreshWindow
  <2>2. \A u \in Tasks : win'[u].confirmed => win'[u] = win[u]
    BY <1>6, <2>1 DEF Begin, Discard, TypeOK
  <2> QED
    BY <1>5, <1>6, <2>2 DEF Begin, Discard, storeVars
<1>7. CASE CommitStart(t) \/ FinishBatch(t)
  <2>1. \A u \in Tasks : win'[u].confirmed => win'[u] = win[u]
    BY <1>7, FreezeType DEF CommitStart, FinishBatch
  <2> QED
    BY <1>5, <1>7, <2>1 DEF CommitStart, FinishBatch, storeVars
<1>8. CASE StoreBatch(t)
  <2>1. /\ \A batch \in ledger' : Elems(batch) \subseteq Elems(log')
        /\ Elems(log) \subseteq Elems(log') /\ Elems(win[t].frozen) \subseteq Elems(log')
    BY <1>1, <1>2, <1>3, <1>8, StoredHolds DEF StoreBatch
  <2>2. /\ win'[t].frozen = win[t].frozen /\ \A u \in Tasks \ {t} : win'[u] = win[u]
        /\ UNCHANGED seen
    BY <1>8 DEF StoreBatch, TypeOK, Window
  <2> QED
    BY <1>4, <2>1, <2>2, Carried
<1>9. CASE StoreBatchFails(t)
  <2>1. /\ \A batch \in ledger' : Elems(batch) \subseteq Elems(log')
        /\ Elems(log) \subseteq Elems(log')
    BY <1>1, <1>2, <1>3, <1>9, NotConfirmedHolds DEF StoreBatchFails
  <2>2. UNCHANGED <<win, seen>>
    BY <1>9 DEF StoreBatchFails
  <2> QED
    BY <1>4, <2>1, <2>2, Carried
<1>10. CASE NotifyBatch(t) \/ InterruptNotify(t)
  <2>1. ToNotify(t) \in Elems(log) /\ ToNotify(t) \in Event
    BY <1>10, ToNotifyType
    DEF NotifyBatch, InterruptNotify, Notifying, ConfirmedIsStored
  <2>2. seen' = seen \/ seen' = Append(seen, ToNotify(t))
    BY <1>10 DEF NotifyBatch, InterruptNotify
  <2>3. Elems(seen') \subseteq Elems(seen) \cup Elems(log)
    <3>1. Elems(Append(seen, ToNotify(t))) = Elems(seen) \cup {ToNotify(t)}
      BY <1>1, <2>1, AppendElems
    <3>2. CASE seen' = seen
      BY <3>2
    <3>3. CASE seen' = Append(seen, ToNotify(t))
      BY <2>1, <3>1, <3>3
    <3> QED
      BY <2>2, <3>2, <3>3
  <2>4. \A u \in Tasks : win'[u].confirmed = win[u].confirmed /\ win'[u].frozen = win[u].frozen
    <3>1. win[t] \in Window
      BY DEF TypeOK
    <3>2. win' = win \/ win' = [win EXCEPT ![t] = [win[t] EXCEPT !.notified = @ + 1]]
      BY <1>10 DEF NotifyBatch, InterruptNotify
    <3> DEFINE w2 == [win[t] EXCEPT !.notified = @ + 1]
    <3>3. w2.confirmed = win[t].confirmed /\ w2.frozen = win[t].frozen
      BY <3>1, WindowKeeps
    <3> HIDE DEF w2
    <3> QED
      BY <3>2, <3>3 DEF TypeOK, w2
  <2>5. UNCHANGED <<log, ledger>>
    BY <1>10 DEF NotifyBatch, InterruptNotify, storeVars
  <2> QED
    BY <1>2, <1>4, <2>3, <2>4, <2>5, Carried
<1> QED
  BY <1>6, <1>7, <1>8, <1>9, <1>10 DEF WindowStep
-------------------------------------------------------------------------------
\* The inductive invariant holds of every instance.
THEOREM InductiveInvariant == Spec => []Inductive
<1>1. Init => Inductive
  <2> SUFFICES ASSUME Init PROVE Inductive
    OBVIOUS
  <2> USE EventBusAssumption
  <2>1. <<>> \in Seq(Event) /\ {} \in SUBSET Runs /\ Elems(<<>>) = {}
    BY DEF Elems
  <2>2. FreshWindow(<<>>, {}) \in Window /\ FreshWindow(<<>>, {}).confirmed = FALSE
    BY <2>1, FreshWindowType
  <2>3. TypeOK
    BY <2>1, <2>2 DEF Init, TypeOK, Stages
  <2>4. EmitHasEvent /\ ConfirmedIsStored /\ SeenIsDurable
    BY <2>1, <2>2 DEF Init, EmitHasEvent, ConfirmedIsStored, SeenIsDurable
  <2> QED
    BY <2>3, <2>4 DEF Inductive
<1>2. Inductive /\ [Next]_vars => Inductive'
  <2> SUFFICES ASSUME Inductive, [Next]_vars PROVE Inductive'
    OBVIOUS
  <2>1. TypeOK' /\ EmitHasEvent'
    BY TypeStep DEF Inductive
  <2>2. CASE UNCHANGED vars
    <3>1. UNCHANGED <<out, next, win, log, ledger, seen>>
      BY <2>2 DEF vars, runVars, winVars, storeVars
    <3>2. ConfirmedIsStored' /\ SeenIsDurable'
      BY <3>1, Carried DEF Inductive, ConfirmedIsStored
    <3> QED
      BY <2>1, <3>2 DEF Inductive
  <2>3. CASE Next
    BY <2>1, <2>3, EmitCarries, WindowCarries DEF Next, Inductive
  <2> QED
    BY <2>2, <2>3
<1> QED
  BY <1>1, <1>2, PTL DEF Spec

\* TypeOK holds of every instance.
THEOREM TypeCorrect == Spec => []TypeOK
BY InductiveInvariant, PTL DEF Inductive

\* No ordinary subscriber is ever told of an event the log does not hold
\* (emit and commit_provisional notify after the gate's confirmation only).
THEOREM NotifiedIsStored == Spec => []SeenIsDurable
BY InductiveInvariant, PTL DEF Inductive
-------------------------------------------------------------------------------
(***************************************************************************)
(* Order, and rounds as a whole                                            *)
(***************************************************************************)
\* Each event of S comes before each event of T that its run has emitted.
Before(S, T) == \A e \in S, f \in T : e.run = f.run => e.n < f.n

\* s has the events of a run in the order it emitted them.
Ordered(s) == \A i, j \in DOMAIN s : i < j /\ s[i].run = s[j].run => s[i].n < s[j].n

\* The events the window of t holds, and those of them nobody was told of.
Held(t) == Elems(win[t].events) \cup Elems(win[t].frozen)
Untold(t, e) ==
  \/ e \in Elems(win[t].events)
  \/ \E i \in DOMAIN win[t].frozen : i > win[t].notified /\ win[t].frozen[i] = e

First(r) == [run |-> r, n |-> 1]

\* Where an event can be is bounded by what its run has emitted, and a run that awaits an
\* emit has nothing in the window of its task.
EmittedOnly ==
  /\ \A e \in Elems(log) : e.n <= next[e.run] /\ (e.n = next[e.run] => out[e.run] # "idle")
  /\ \A e \in Elems(seen) \cup dropped : e.n < next[e.run]
  /\ \A t \in Tasks : \A e \in Held(t) :
       /\ TaskOf[e.run] = t /\ t \in open /\ e.n < next[e.run]
       /\ out[e.run] = "idle" /\ e.run \notin win[t].independent

\* The lock is held only for a window with a batch.
WindowShape ==
  \A t \in Tasks :
    /\ t \notin open => win[t].events = <<>> /\ win[t].frozen = <<>>
    /\ t \in busy => t \in open /\ win[t].frozen # <<>>
    /\ win[t].notified <= Len(win[t].frozen)

\* Log, fixed batch and buffer follow one another.
LogThenWindow ==
  /\ Ordered(log)
  /\ \A t \in Tasks :
       /\ Ordered(win[t].frozen) /\ Ordered(win[t].events)
       /\ Before(Elems(win[t].frozen), Elems(win[t].events))
       /\ Before(Elems(log), Elems(win[t].events))
       /\ win[t].frozen \in ledger \/ Before(Elems(log), Elems(win[t].frozen))
       /\ Before(dropped, Held(t))
  /\ dropped \cap Elems(log) = {}

\* The subscribers have nothing of what they are told next, but for the event that an
\* interrupted commit may have been notifying.
SeenThenFrozen ==
  /\ \A i, j \in DOMAIN seen : i < j /\ seen[i].run = seen[j].run => seen[i].n <= seen[j].n
  /\ \A t \in Tasks : \A i \in DOMAIN win[t].frozen : \A e \in Elems(seen) :
       i > win[t].notified /\ e.run = win[t].frozen[i].run =>
         e.n < win[t].frozen[i].n \/ (i = win[t].notified + 1 /\ e = win[t].frozen[i])

\* The tasks whose next event to notify was already seen.
Again == {t \in Tasks : win[t].notified < Len(win[t].frozen) /\ ToNotify(t) \in Elems(seen)}
SeenTwiceIsCounted ==
  /\ IsFiniteSet(Again) /\ IsFiniteSet(Elems(seen))
  /\ Len(seen) + Cardinality(Again) <= Cardinality(Elems(seen)) + interrupts

\* The run has started and not finished: it is tracked, or its start is still to be told.
Underway(r) ==
  /\ next[r] <= RunLength
  /\ next[r] > 1 \/ out[r] = "notify" \/ (r \in Background /\ out[r] # "idle")
  /\ ~(next[r] = RunLength /\ out[r] = "notify")
StartsAreKnown ==
  /\ \A r \in Runs : Underway(r) => r \in tracked \/ Untold(TaskOf[r], First(r))
  /\ \A r \in Runs : LET t == TaskOf[r] IN
       /\ t \in open /\ r \notin win[t].independent /\ win[t].frozen = <<>> /\ Underway(r) =>
            r \in bound \/ First(r) \in Elems(win[t].events)
       /\ t \in open /\ r \notin Background /\ Starts(r) /\ out[r] \in {"commit", "failed"} =>
            r \in win[t].independent
  /\ \A t \in Tasks : win[t].frozen = <<>> =>
       \A e \in Elems(win[t].events) : e.run \in bound \/ First(e.run) \in Elems(win[t].events)
  /\ \A e \in dropped : e.run \in bound \/ First(e.run) \in dropped

Orderly ==
  /\ EmittedOnly /\ WindowShape /\ LogThenWindow /\ SeenThenFrozen
  /\ SeenTwiceIsCounted /\ StartsAreKnown
-------------------------------------------------------------------------------
(***************************************************************************)
(* Sequences of events                                                     *)
(***************************************************************************)
\* An event is its run and its number.
LEMMA EventFacts ==
  ASSUME NEW e \in Event
  PROVE  /\ e.run \in Runs /\ e.n \in Nat /\ e.n >= 1 /\ TaskOf[e.run] \in Tasks
         /\ \A f \in Event : e.run = f.run /\ e.n = f.n => e = f
BY EventBusAssumption DEF Event

\* ... and adds nothing.
LEMMA ConcatAllElems ==
  ASSUME NEW S, NEW s \in Seq(S), NEW b \in Seq(S)
  PROVE  s \o b \in Seq(S) /\ Elems(s \o b) = Elems(s) \cup Elems(b)
<1>1. \A x \in Elems(s \o b) : x \in Elems(s) \cup Elems(b)
  <2> SUFFICES ASSUME NEW i \in DOMAIN (s \o b)
               PROVE  (s \o b)[i] \in Elems(s) \cup Elems(b)
    BY DEF Elems
  <2>1. CASE i \in DOMAIN s
    BY <2>1 DEF Elems
  <2>2. CASE i \notin DOMAIN s
    <3>1. i - Len(s) \in DOMAIN b /\ (s \o b)[i] = b[i - Len(s)]
      BY <2>2
    <3> QED
      BY <3>1 DEF Elems
  <2> QED
    BY <2>1, <2>2
<1> QED
  BY <1>1, ConcatElems

\* Two sequences that follow one another are one.
LEMMA OrderedConcat ==
  ASSUME NEW s \in Seq(Event), NEW b \in Seq(Event), Ordered(s), Ordered(b),
         Before(Elems(s), Elems(b))
  PROVE  Ordered(s \o b)
<1> SUFFICES ASSUME NEW i \in DOMAIN (s \o b), NEW j \in DOMAIN (s \o b), i < j,
                    (s \o b)[i].run = (s \o b)[j].run
             PROVE  (s \o b)[i].n < (s \o b)[j].n
  BY DEF Ordered
<1>1. CASE j \in DOMAIN s
  <2>1. i \in DOMAIN s /\ (s \o b)[i] = s[i] /\ (s \o b)[j] = s[j]
    BY <1>1
  <2> QED
    BY <1>1, <2>1 DEF Ordered
<1>2. CASE i \in DOMAIN s /\ j \notin DOMAIN s
  <2>1. (s \o b)[i] = s[i] /\ j - Len(s) \in DOMAIN b /\ (s \o b)[j] = b[j - Len(s)]
    BY <1>2
  <2>2. s[i] \in Elems(s) /\ b[j - Len(s)] \in Elems(b)
    BY <1>2, <2>1 DEF Elems
  <2> QED
    BY <2>1, <2>2 DEF Before
<1>3. CASE i \notin DOMAIN s
  <2>1. /\ i - Len(s) \in DOMAIN b /\ (s \o b)[i] = b[i - Len(s)]
        /\ j - Len(s) \in DOMAIN b /\ (s \o b)[j] = b[j - Len(s)]
        /\ i - Len(s) < j - Len(s)
    BY <1>3
  <2> QED
    BY <2>1 DEF Ordered
<1> QED
  BY <1>1, <1>2, <1>3

\* A batch of one event is in order.
LEMMA OrderedOne == ASSUME NEW e \in Event PROVE Ordered(<<e>>)
BY DEF Ordered

\* An event after all those of its run goes to the end.
LEMMA OrderedAppend ==
  ASSUME NEW s \in Seq(Event), NEW e \in Event, Ordered(s), Before(Elems(s), {e})
  PROVE  Ordered(Append(s, e))
<1>1. Append(s, e) = s \o <<e>> /\ <<e>> \in Seq(Event) /\ Elems(<<e>>) = {e}
  BY DEF Elems
<1> QED
  BY <1>1, OrderedOne, OrderedConcat

\* What everything is known to be made of.
LEMMA AllEvents ==
  ASSUME TypeOK
  PROVE  /\ Elems(log) \subseteq Event /\ Elems(seen) \subseteq Event /\ dropped \subseteq Event
         /\ \A t \in Tasks : /\ Elems(win[t].events) \subseteq Event
                             /\ Elems(win[t].frozen) \subseteq Event
                             /\ win[t].events \in Seq(Event) /\ win[t].frozen \in Seq(Event)
                             /\ win[t].notified \in Nat /\ win[t].independent \subseteq Runs
         /\ \A r \in Runs : TaskOf[r] \in Tasks /\ next[r] \in Nat /\ next[r] >= 1
         /\ RunLength \in Nat /\ RunLength >= 2
<1>1. \A t \in Tasks : /\ win[t].events \in Seq(Event) /\ win[t].frozen \in Seq(Event)
                       /\ win[t].notified \in Nat /\ win[t].independent \subseteq Runs
  BY DEF TypeOK, Window
<1>2. \A s \in Seq(Event) : Elems(s) \subseteq Event
  BY DEF Elems
<1> QED
  BY <1>1, <1>2, EventBusAssumption DEF TypeOK

\* The next event of a run, told from the others.
LEMMA CurrentIs ==
  ASSUME TypeOK, NEW r \in Runs
  PROVE  /\ Current(r).run = r /\ Current(r).n = next[r]
         /\ \A e \in Event : e.run = r /\ e.n = next[r] => e = Current(r)
BY DEF Current, Event
-------------------------------------------------------------------------------
(***************************************************************************)
(* The steps of an emit                                                    *)
(***************************************************************************)
\* The event goes to the end of the window's buffer.
LEMMA EmitBufferedOrderly ==
  ASSUME TypeOK, EmitHasEvent, Orderly, NEW r \in Runs, EmitBuffered(r)
  PROVE  Orderly'
<1> DEFINE t == TaskOf[r]
<1>0. PICK e \in Event : e = Current(r)
  BY CurrentType DEF EmitBuffered
<1>1. /\ out[r] = "idle" /\ next[r] <= RunLength /\ t \in open /\ r \notin win[t].independent
      /\ ~(next[r] = 1 /\ r \in Background)
      /\ UNCHANGED <<out, tracked, open, busy, log, ledger, seen, dropped, bound, windows, interrupts>>
  BY DEF EmitBuffered, Provisional, StartsBackground, Starts, storeVars, histVars
<1>2. t \in Tasks /\ win[t] \in Window /\ e \in Event /\ e.run = r /\ e.n = next[r]
      /\ t = TaskOf[r]
  BY <1>0, AllEvents, CurrentIs DEF TypeOK
<1>3. /\ win'[t].events = Append(win[t].events, e) /\ win'[t].frozen = win[t].frozen
      /\ win'[t].notified = win[t].notified /\ win'[t].independent = win[t].independent
      /\ \A u \in Tasks \ {t} : win'[u] = win[u]
  <2> DEFINE w2 == [win[t] EXCEPT !.events = Append(@, e)]
  <2>1. /\ w2.events = Append(win[t].events, e) /\ w2.frozen = win[t].frozen
        /\ w2.notified = win[t].notified /\ w2.independent = win[t].independent
    BY <1>2 DEF Window
  <2>2. win' = [win EXCEPT ![t] = w2]
    BY <1>0 DEF EmitBuffered
  <2> HIDE DEF w2
  <2> QED
    BY <1>2, <2>1, <2>2 DEF TypeOK
<1>4. /\ next'[r] = next[r] + 1 /\ \A s \in Runs \ {r} : next'[s] = next[s]
      /\ next[r] \in Nat
  BY DEF EmitBuffered, TypeOK
<1>5. Elems(win'[t].events) = Elems(win[t].events) \cup {e}
  BY <1>2, <1>3, AllEvents, AppendElems
<1> HIDE DEF t
<1>6. /\ Before(Elems(win[t].events), {e}) /\ Before(Elems(win[t].frozen), {e})
      /\ Before(Elems(log), {e}) /\ Before(dropped, {e})
  BY <1>1, <1>2, AllEvents, EventFacts DEF Orderly, EmittedOnly, Held, Before
<1>7. EmittedOnly'
  <2>1. \A f \in Elems(log) : f.n <= next'[f.run] /\ (f.n = next'[f.run] => out[f.run] # "idle")
    BY <1>1, <1>4, AllEvents, EventFacts DEF Orderly, EmittedOnly
  <2>2. \A f \in Elems(seen) \cup dropped : f.n < next'[f.run]
    BY <1>4, AllEvents, EventFacts DEF Orderly, EmittedOnly
  <2>3. \A u \in Tasks : \A f \in Held(u)' :
          f \in Held(u) \/ (u = t /\ f = e)
    BY <1>2, <1>3, <1>5 DEF Held
  <2>4. \A u \in Tasks : \A f \in Held(u) : f.n < next'[f.run]
    BY <1>4, AllEvents, EventFacts DEF Orderly, EmittedOnly, Held
  <2>5. \A u \in Tasks : win'[u].independent = win[u].independent
    BY <1>3
  <2>6. \A u \in Tasks : \A f \in Held(u)' :
          /\ TaskOf[f.run] = u /\ u \in open /\ f.n < next'[f.run]
          /\ out[f.run] = "idle" /\ f.run \notin win'[u].independent
    BY <1>1, <1>2, <1>4, <2>3, <2>4, <2>5 DEF Orderly, EmittedOnly
  <2> QED
    BY <1>1, <2>1, <2>2, <2>6 DEF EmittedOnly
<1>8. WindowShape'
  BY <1>1, <1>2, <1>3 DEF Orderly, WindowShape
<1>9. LogThenWindow'
  <2>1. Ordered(win'[t].events)
    BY <1>2, <1>3, <1>6, AllEvents, OrderedAppend DEF Orderly, LogThenWindow
  <2>2. /\ Before(Elems(win'[t].frozen), Elems(win'[t].events))
        /\ Before(Elems(log), Elems(win'[t].events)) /\ Before(dropped, Held(t)')
    BY <1>2, <1>3, <1>5, <1>6 DEF Orderly, LogThenWindow, Before, Held
  <2>3. \A u \in Tasks \ {t} : Held(u)' = Held(u)
    BY <1>3 DEF Held
  <2> QED
    BY <1>1, <1>2, <1>3, <2>1, <2>2, <2>3 DEF Orderly, LogThenWindow
<1>10. SeenThenFrozen'
  BY <1>1, <1>2, <1>3 DEF Orderly, SeenThenFrozen
<1>11. SeenTwiceIsCounted'
  <2>1. Again' = Again
    BY <1>1, <1>2, <1>3 DEF Again, ToNotify
  <2> QED
    BY <1>1, <2>1 DEF Orderly, SeenTwiceIsCounted
<1>12. StartsAreKnown'
  <2>1. \A u \in Tasks : \A f \in Event : Untold(u, f) => Untold(u, f)'
    <3> SUFFICES ASSUME NEW u \in Tasks, NEW f \in Event, Untold(u, f)
                 PROVE  Untold(u, f)'
      OBVIOUS
    <3>1. CASE u = t
      BY <1>3, <1>5, <3>1 DEF Untold
    <3>2. CASE u # t
      BY <1>3, <3>2 DEF Untold
    <3> QED
      BY <3>1, <3>2
  <2>2. next[r] = 1 => First(r) = e
    BY <1>0 DEF First, Current
  <2>3. \A s \in Runs : Underway(s)' /\ (s # r \/ next[r] # 1) => Underway(s)
    BY <1>1, <1>4, AllEvents DEF Underway
  <2>4. Untold(t, e)'
    BY <1>5 DEF Untold
  <2>12. \A s \in Runs : First(s) \in Event
    BY AllEvents DEF First, Event
  <2>5. \A s \in Runs : Underway(s)' => s \in tracked \/ Untold(TaskOf[s], First(s))'
    BY <1>2, <2>1, <2>2, <2>3, <2>4, <2>12, AllEvents DEF Orderly, StartsAreKnown
  <2>6. next[r] # 1 => Underway(r)
    BY <1>1, <1>4, AllEvents DEF Underway
  <2>7. win[t].frozen = <<>> => r \in bound \/ First(r) \in Elems(win'[t].events)
    BY <1>1, <1>2, <1>5, <2>2, <2>6 DEF Orderly, StartsAreKnown
  <2>8. \A u \in Tasks : /\ win'[u].frozen = win[u].frozen /\ win'[u].independent = win[u].independent
                        /\ Elems(win[u].events) \subseteq Elems(win'[u].events)
    BY <1>2, <1>3, <1>5
  <2>9. \A s \in Runs : LET u == TaskOf[s] IN
          /\ u \in open /\ s \notin win'[u].independent /\ win'[u].frozen = <<>> /\ Underway(s)' =>
               s \in bound \/ First(s) \in Elems(win'[u].events)
    BY <1>1, <1>2, <2>3, <2>7, <2>8, AllEvents DEF Orderly, StartsAreKnown
  <2>10. \A s \in Runs : LET u == TaskOf[s] IN
           /\ u \in open /\ s \notin Background /\ Starts(s)' /\ out[s] \in {"commit", "failed"} =>
                s \in win'[u].independent
    BY <1>1, <1>4, <2>8, AllEvents DEF Orderly, StartsAreKnown, Starts
  <2>11. \A u \in Tasks : win'[u].frozen = <<>> =>
           \A f \in Elems(win'[u].events) : f.run \in bound \/ First(f.run) \in Elems(win'[u].events)
    <3>1. \A f \in Elems(win'[t].events) : f \in Elems(win[t].events) \/ f.run = r
      BY <1>2, <1>5
    <3> QED
      <4>1. win'[t].frozen = <<>> =>
              \A f \in Elems(win'[t].events) : f.run \in bound \/ First(f.run) \in Elems(win'[t].events)
        BY <1>2, <2>7, <2>8, <3>1 DEF Orderly, StartsAreKnown
      <4> QED
        BY <1>3, <4>1 DEF Orderly, StartsAreKnown
  <2> QED
    BY <1>1, <2>5, <2>9, <2>10, <2>11 DEF Orderly, StartsAreKnown
<1> QED
  BY <1>7, <1>8, <1>9, <1>10, <1>11, <1>12 DEF Orderly

\* The emit waits for the gate; a background observe that starts leaves the window.
LEMMA EmitDirectOrderly ==
  ASSUME TypeOK, EmitHasEvent, Orderly, NEW r \in Runs, EmitDirect(r)
  PROVE  Orderly'
<1> DEFINE t == TaskOf[r]
<1>1. /\ out[r] = "idle" /\ next[r] <= RunLength
      /\ out' = [out EXCEPT ![r] = "commit"]
      /\ UNCHANGED <<next, open, busy, log, ledger, seen, dropped, bound, windows, interrupts>>
  BY DEF EmitDirect, storeVars, histVars
<1>2. t \in Tasks /\ win[t] \in Window /\ t = TaskOf[r]
  BY AllEvents DEF TypeOK
<1>3. /\ \A u \in Tasks : /\ win'[u].events = win[u].events /\ win'[u].frozen = win[u].frozen
                          /\ win'[u].notified = win[u].notified
                          /\ win[u].independent \subseteq win'[u].independent
                          /\ win'[u].independent \subseteq win[u].independent \cup {r}
      /\ tracked \subseteq tracked'
  <2>1. CASE win' = win
    BY <2>1 DEF EmitDirect
  <2>2. CASE win' = [win EXCEPT ![t].independent = @ \cup {r}]
    <3> DEFINE w2 == [win[t] EXCEPT !.independent = @ \cup {r}]
    <3>1. /\ w2.events = win[t].events /\ w2.frozen = win[t].frozen
          /\ w2.notified = win[t].notified /\ w2.independent = win[t].independent \cup {r}
      BY <1>2 DEF Window
    <3>2. win' = [win EXCEPT ![t] = w2]
      BY <2>2
    <3> HIDE DEF w2
    <3> QED
      BY <1>2, <3>1, <3>2 DEF TypeOK, EmitDirect
  <2> QED
    BY <2>1, <2>2 DEF EmitDirect
<1>4. \/ next[r] = 1 /\ r \in Background /\ r \in tracked' /\ (t \in open => r \in win'[t].independent)
      \/ (t \in open => r \in win[t].independent) /\ ~(next[r] = 1 /\ r \in Background)
  <2>1. CASE StartsBackground(r) /\ t \in open
    <3> DEFINE w2 == [win[t] EXCEPT !.independent = @ \cup {r}]
    <3>1. w2.independent = win[t].independent \cup {r}
      BY <1>2 DEF Window
    <3>2. win' = [win EXCEPT ![t] = w2]
      BY <2>1 DEF EmitDirect
    <3> HIDE DEF w2
    <3> QED
      BY <1>2, <2>1, <3>1, <3>2 DEF TypeOK, EmitDirect, StartsBackground, Starts
  <2> QED
    BY <2>1 DEF EmitDirect, StartsBackground, Starts, Provisional
<1> HIDE DEF t
<1>5. out'[r] = "commit" /\ \A s \in Runs \ {r} : out'[s] = out[s]
  BY <1>1 DEF TypeOK
\* The run has nothing in a window: it starts, or is independent of it.
<1>6. \A u \in Tasks : \A e \in Held(u) : e.run # r
  BY <1>1, <1>2, <1>4, AllEvents, EventFacts DEF Orderly, EmittedOnly, Held
<1>7. \A u \in Tasks : Held(u)' = Held(u)
  BY <1>3 DEF Held
<1>8. EmittedOnly'
  <2>1. \A e \in Elems(log) : e.n <= next[e.run] /\ (e.n = next[e.run] => out'[e.run] # "idle")
    BY <1>1, <1>5, AllEvents, EventFacts DEF Orderly, EmittedOnly
  <2>2. \A u \in Tasks : \A e \in Held(u) :
          /\ TaskOf[e.run] = u /\ u \in open /\ e.n < next[e.run]
          /\ out'[e.run] = "idle" /\ e.run \notin win'[u].independent
    <3>1. \A u \in Tasks : \A e \in Held(u) : e.run \in Runs
      BY AllEvents, EventFacts DEF Held
    <3> QED
      BY <1>3, <1>5, <1>6, <3>1 DEF Orderly, EmittedOnly
  <2> QED
    BY <1>1, <1>7, <2>1, <2>2 DEF Orderly, EmittedOnly
<1>9. WindowShape'
  BY <1>1, <1>3 DEF Orderly, WindowShape
<1>10. LogThenWindow'
  BY <1>1, <1>3, <1>7 DEF Orderly, LogThenWindow
<1>11. SeenThenFrozen'
  BY <1>1, <1>3 DEF Orderly, SeenThenFrozen
<1>12. SeenTwiceIsCounted'
  <2>1. Again' = Again
    BY <1>1, <1>3 DEF Again, ToNotify
  <2> QED
    BY <1>1, <2>1 DEF Orderly, SeenTwiceIsCounted
<1>13. StartsAreKnown'
  <2>1. \A u \in Tasks, f \in Event : Untold(u, f)' <=> Untold(u, f)
    BY <1>3 DEF Untold
  <2>2. \A s \in Runs : Underway(s)' => Underway(s) \/ (s = r /\ next[r] = 1 /\ r \in Background)
    BY <1>1, <1>5, AllEvents DEF Underway
  <2>3. \A s \in Runs : First(s) \in Event
    BY AllEvents DEF First, Event
  <2>4. \A s \in Runs : Underway(s)' => s \in tracked' \/ Untold(TaskOf[s], First(s))'
    BY <1>3, <1>4, <2>1, <2>2, <2>3, AllEvents DEF Orderly, StartsAreKnown
  <2>5. \A s \in Runs : LET u == TaskOf[s] IN
          /\ u \in open /\ s \notin win'[u].independent /\ win'[u].frozen = <<>> /\ Underway(s)' =>
               s \in bound \/ First(s) \in Elems(win'[u].events)
    BY <1>2, <1>3, <1>4, <2>2, AllEvents DEF Orderly, StartsAreKnown
  <2>6. \A s \in Runs : LET u == TaskOf[s] IN
          /\ u \in open /\ s \notin Background /\ Starts(s)' /\ out'[s] \in {"commit", "failed"} =>
               s \in win'[u].independent
    BY <1>1, <1>2, <1>3, <1>4, <1>5, AllEvents DEF Orderly, StartsAreKnown, Starts
  <2> QED
    BY <1>1, <1>3, <2>4, <2>5, <2>6 DEF Orderly, StartsAreKnown
<1> QED
  BY <1>8, <1>9, <1>10, <1>11, <1>12, <1>13 DEF Orderly

\* What the store does for a batch that follows what it has: the log stays in order.
LEMMA StoredOrderly ==
  ASSUME TypeOK, Orderly, NEW b \in Seq(Event), Ordered(b),
         b \in ledger \/ Before(Elems(log), Elems(b)), Elems(b) \cap dropped = {},
         NotConfirmed(b)
  PROVE  /\ Ordered(log') /\ dropped \cap Elems(log') = {}
         /\ ledger \subseteq ledger'
         /\ \A e \in Elems(log') : e \in Elems(log) \/ (e \in Elems(b) /\ b \notin ledger)
         /\ Stored(b) => b \in ledger'
<1>1. CASE UNCHANGED storeVars
  BY <1>1 DEF Orderly, LogThenWindow, storeVars, Stored
<1>2. CASE b \notin ledger /\ log' = log \o b /\ ledger' = ledger \cup {b}
  <2>1. log \in Seq(Event)
    BY DEF TypeOK
  <2>2. Ordered(log') /\ Elems(log') = Elems(log) \cup Elems(b)
    BY <1>2, <2>1, ConcatAllElems, OrderedConcat DEF Orderly, LogThenWindow
  <2> QED
    BY <1>2, <2>2 DEF Orderly, LogThenWindow
<1> QED
  BY <1>1, <1>2 DEF NotConfirmed, Stored

\* The store's answer to one event, whether the emit gets it or not.
LEMMA StoreDirectOrderly ==
  ASSUME TypeOK, EmitHasEvent, Orderly, NEW r \in Runs, StoreDirect(r) \/ StoreDirectFails(r)
  PROVE  Orderly'
<1>1. /\ out[r] = "commit" /\ NotConfirmed(<<Current(r)>>)
      /\ out' \in {[out EXCEPT ![r] = "notify"], [out EXCEPT ![r] = "failed"]}
      /\ UNCHANGED <<next, open, win, busy, seen, dropped, bound, windows, interrupts>>
  BY DEF StoreDirect, StoreDirectFails, NotConfirmed, winVars, histVars
<1>2. PICK c \in Event : c = Current(r) /\ c.run = r /\ c.n = next[r] /\ next[r] <= RunLength
  BY <1>1, CurrentType, CurrentIs DEF EmitHasEvent
<1>3. out'[r] \in {"notify", "failed"} /\ \A s \in Runs \ {r} : out'[s] = out[s]
  BY <1>1 DEF TypeOK
<1>4. \/ out'[r] = "failed" /\ tracked' = tracked
      \/ out'[r] = "notify" /\ tracked' = Tracking(r, next[r])
  BY <1>1 DEF StoreDirect, StoreDirectFails, TypeOK
<1>5. /\ <<c>> \in Seq(Event) /\ Elems(<<c>>) = {c} /\ Ordered(<<c>>)
      /\ Before(Elems(log) \ {c}, {c}) /\ c \notin dropped
  <2>1. <<c>> \in Seq(Event) /\ Elems(<<c>>) = {c} /\ Ordered(<<c>>)
    BY OrderedOne DEF Elems
  <2>2. c \notin dropped
    BY <1>2, AllEvents DEF Orderly, EmittedOnly
  <2>3. Before(Elems(log) \ {c}, {c})
    <3> SUFFICES ASSUME NEW e \in Elems(log), e # c, e.run = r
                 PROVE  e.n < next[r]
      BY <1>2 DEF Before
    <3>1. e \in Event /\ e.n <= next[r] /\ e.n # next[r]
      BY <1>2, AllEvents, EventFacts DEF Orderly, EmittedOnly
    <3> QED
      BY <3>1, AllEvents, EventFacts
  <2> QED
    BY <2>1, <2>2, <2>3
\* The store refuses an event it has in another batch.
<1>6. /\ Ordered(log') /\ dropped \cap Elems(log') = {} /\ ledger \subseteq ledger'
      /\ \A e \in Elems(log') : e \in Elems(log) \/ e = c
  <2>1. CASE c \notin Elems(log)
    <3>1. Before(Elems(log), {c})
      BY <1>5, <2>1
    <3>2. NotConfirmed(<<c>>) /\ Before(Elems(log), Elems(<<c>>)) /\ Elems(<<c>>) \cap dropped = {}
      BY <1>1, <1>2, <1>5, <3>1
    <3>3. Ordered(<<c>>) /\ <<c>> \in Seq(Event)
      BY <1>5
    <3> QED
      BY <1>5, <3>2, <3>3, StoredOrderly
  <2>2. CASE c \in Elems(log)
    <3>1. ~Fresh(<<c>>)
      BY <1>5, <2>2 DEF Fresh
    <3>2. UNCHANGED storeVars
      BY <1>1, <1>2, <3>1 DEF NotConfirmed, Stored
    <3> QED
      BY <3>2 DEF Orderly, LogThenWindow, storeVars
  <2> QED
    BY <2>1, <2>2
\* A run that awaits an emit has nothing in the windows.
<1>7. \A t \in Tasks : \A e \in Held(t) : e.run # r
  BY <1>1 DEF Orderly, EmittedOnly
<1>8. \A t \in Tasks : Held(t)' = Held(t)
  BY <1>1 DEF Held
<1>9. EmittedOnly'
  <2>1. \A e \in Elems(log') : e.n <= next[e.run] /\ (e.n = next[e.run] => out'[e.run] # "idle")
    <3>1. \A e \in Elems(log) : out[e.run] # "idle" => out'[e.run] # "idle"
      BY <1>3, AllEvents, EventFacts
    <3> QED
      BY <1>2, <1>3, <1>6, <3>1, AllEvents DEF Orderly, EmittedOnly
  <2>2. \A t \in Tasks : \A e \in Held(t) : out'[e.run] = "idle"
    <3>1. \A t \in Tasks : \A e \in Held(t) : e.run \in Runs
      BY AllEvents, EventFacts DEF Held
    <3> QED
      BY <1>3, <1>7, <3>1 DEF Orderly, EmittedOnly
  <2> QED
    BY <1>1, <1>8, <2>1, <2>2 DEF Orderly, EmittedOnly
<1>10. WindowShape'
  BY <1>1 DEF Orderly, WindowShape
<1>11. LogThenWindow'
  <2>1. \A t \in Tasks : /\ Before(Elems(log'), Elems(win[t].events))
                         /\ win[t].frozen \in ledger' \/ Before(Elems(log'), Elems(win[t].frozen))
    BY <1>2, <1>6, <1>7 DEF Orderly, LogThenWindow, Before, Held
  <2> QED
    BY <1>1, <1>6, <1>8, <2>1 DEF Orderly, LogThenWindow
<1>12. SeenThenFrozen'
  BY <1>1 DEF Orderly, SeenThenFrozen
<1>13. SeenTwiceIsCounted'
  BY <1>1 DEF Orderly, SeenTwiceIsCounted, Again, ToNotify
<1>14. StartsAreKnown'
  <2>1. \A t \in Tasks, f \in Event : Untold(t, f)' <=> Untold(t, f)
    BY <1>1 DEF Untold
  <2>2. \A s \in Runs : First(s) \in Event
    BY AllEvents DEF First, Event
  <2>3. \A s \in Runs : Underway(s)' =>
          Underway(s) \/ (s = r /\ next[r] = 1 /\ out'[r] = "notify" /\ r \notin Background)
    <3>1. \A s \in Runs \ {r} : Underway(s)' => Underway(s)
      BY <1>1, <1>3 DEF Underway
    <3>2. Underway(r)' => Underway(r) \/ (next[r] = 1 /\ out'[r] = "notify" /\ r \notin Background)
      BY <1>1, <1>2, <1>3, AllEvents DEF Underway
    <3> QED
      BY <3>1, <3>2
  <2>4. \A s \in Runs : Underway(s)' /\ s \in tracked => s \in tracked'
    <3>1. \A s \in tracked : s # r => s \in tracked'
      BY <1>4 DEF Tracking
    <3>2. Underway(r)' /\ out'[r] = "notify" => next[r] # RunLength
      BY <1>1 DEF Underway
    <3>3. Underway(r)' /\ r \in tracked => r \in tracked'
      BY <1>3, <1>4, <3>2 DEF Tracking
    <3> QED
      BY <3>1, <3>3
  <2>5. next[r] = 1 /\ out'[r] = "notify" => r \in tracked'
    <3> SUFFICES ASSUME next[r] = 1, out'[r] = "notify" PROVE r \in tracked'
      OBVIOUS
    <3>1. tracked' = Tracking(r, 1)
      BY <1>4
    <3> QED
      BY <3>1, EventBusAssumption DEF Tracking
  <2>6. \A s \in Runs : Underway(s)' => s \in tracked' \/ Untold(TaskOf[s], First(s))'
    BY <2>1, <2>2, <2>3, <2>4, <2>5, AllEvents DEF Orderly, StartsAreKnown
  <2>7. TaskOf[r] \in open /\ next[r] = 1 /\ r \notin Background => r \in win[TaskOf[r]].independent
    BY <1>1 DEF Orderly, StartsAreKnown, Starts
  <2>8. \A s \in Runs : LET u == TaskOf[s] IN
          /\ u \in open /\ s \notin win[u].independent /\ win[u].frozen = <<>> /\ Underway(s)' =>
               s \in bound \/ First(s) \in Elems(win[u].events)
    BY <2>3, <2>7 DEF Orderly, StartsAreKnown
  <2>9. \A s \in Runs : LET u == TaskOf[s] IN
          /\ u \in open /\ s \notin Background /\ next[s] = 1 /\ out'[s] \in {"commit", "failed"} =>
               s \in win[u].independent
    BY <1>3, <2>7 DEF Orderly, StartsAreKnown, Starts
  <2> QED
    BY <1>1, <2>6, <2>8, <2>9 DEF Orderly, StartsAreKnown, Starts
<1> QED
  BY <1>9, <1>10, <1>11, <1>12, <1>13, <1>14 DEF Orderly

\* A subscriber is told an event that it can have, at most, as the last one of its run.
LEMMA SeenAppend ==
  ASSUME TypeOK, Orderly, NEW e \in Event,
         \A f \in Elems(seen) : f.run = e.run => f.n <= e.n
  PROVE  /\ Append(seen, e) \in Seq(Event) /\ Elems(Append(seen, e)) = Elems(seen) \cup {e}
         /\ Len(Append(seen, e)) = Len(seen) + 1
         /\ \A i, j \in DOMAIN Append(seen, e) :
              i < j /\ Append(seen, e)[i].run = Append(seen, e)[j].run =>
                Append(seen, e)[i].n <= Append(seen, e)[j].n
         /\ Cardinality(Elems(seen) \cup {e}) =
              IF e \in Elems(seen) THEN Cardinality(Elems(seen)) ELSE Cardinality(Elems(seen)) + 1
         /\ IsFiniteSet(Elems(seen) \cup {e})
<1>1. seen \in Seq(Event)
  BY DEF TypeOK
<1>2. ASSUME NEW i \in DOMAIN Append(seen, e), NEW j \in DOMAIN Append(seen, e), i < j,
             Append(seen, e)[i].run = Append(seen, e)[j].run
      PROVE  Append(seen, e)[i].n <= Append(seen, e)[j].n
  <2>1. i \in DOMAIN seen /\ Append(seen, e)[i] = seen[i] /\ seen[i] \in Elems(seen)
    BY <1>1, <1>2 DEF Elems
  <2>2. CASE j \in DOMAIN seen
    BY <1>1, <1>2, <2>1, <2>2 DEF Orderly, SeenThenFrozen
  <2>3. CASE j \notin DOMAIN seen
    <3>1. Append(seen, e)[j] = e
      BY <1>1, <2>3
    <3> QED
      BY <1>2, <2>1, <3>1
  <2> QED
    BY <2>2, <2>3
<1>3. Append(seen, e) \in Seq(Event) /\ Elems(Append(seen, e)) = Elems(seen) \cup {e}
  BY <1>1, AppendElems
<1>4. Len(Append(seen, e)) = Len(seen) + 1
  BY <1>1
<1>5. IsFiniteSet(Elems(seen))
  BY DEF Orderly, SeenTwiceIsCounted
<1>6. /\ IsFiniteSet(Elems(seen) \cup {e})
      /\ Cardinality(Elems(seen) \cup {e}) =
              IF e \in Elems(seen) THEN Cardinality(Elems(seen)) ELSE Cardinality(Elems(seen)) + 1
  BY <1>5, FS_AddElement
<1> QED
  BY <1>2, <1>3, <1>4, <1>6

\* The subscribers are told of an event that no window holds.
LEMMA NotifyDirectOrderly ==
  ASSUME TypeOK, EmitHasEvent, Orderly, NEW r \in Runs, NotifyDirect(r)
  PROVE  Orderly'
<1>1. /\ out[r] = "notify"
      /\ next' = [next EXCEPT ![r] = @ + 1] /\ out' = [out EXCEPT ![r] = "idle"]
      /\ UNCHANGED <<tracked, open, win, busy, log, ledger, dropped, bound, windows, interrupts>>
  BY DEF NotifyDirect, winVars, storeVars, histVars
<1>2. PICK c \in Event : /\ c = Current(r) /\ c.run = r /\ c.n = next[r]
                         /\ next[r] <= RunLength /\ seen' = Append(seen, c)
  BY <1>1, CurrentType, CurrentIs DEF NotifyDirect, EmitHasEvent
<1>3. /\ next'[r] = next[r] + 1 /\ \A s \in Runs \ {r} : next'[s] = next[s]
      /\ out'[r] = "idle" /\ \A s \in Runs \ {r} : out'[s] = out[s]
  BY <1>1 DEF TypeOK
<1>4. \A e \in Elems(seen) : e.run = r => e.n < c.n
  BY <1>2, AllEvents DEF Orderly, EmittedOnly
<1>5. c \notin Elems(seen) /\ \A e \in Elems(seen) : e.run = c.run => e.n <= c.n
  BY <1>2, <1>4, AllEvents, EventFacts
<1>6. \A t \in Tasks : \A e \in Held(t) : e.run # r
  BY <1>1 DEF Orderly, EmittedOnly
<1>7. \A t \in Tasks : Held(t)' = Held(t)
  BY <1>1 DEF Held
<1>8. Elems(seen') = Elems(seen) \cup {c}
  BY <1>2, <1>5, SeenAppend
<1>9. EmittedOnly'
  <2>1. \A e \in Elems(log) : e.n <= next'[e.run] /\ (e.n = next'[e.run] => out'[e.run] # "idle")
    BY <1>3, AllEvents, EventFacts DEF Orderly, EmittedOnly
  <2>2. \A e \in Elems(seen) \cup dropped : e.n < next'[e.run]
    BY <1>3, AllEvents, EventFacts DEF Orderly, EmittedOnly
  <2>3. c.n < next'[c.run]
    BY <1>2, <1>3, AllEvents
  <2>4. \A t \in Tasks : \A e \in Held(t) : e.run \in Runs
    BY AllEvents, EventFacts DEF Held
  <2> QED
    BY <1>1, <1>3, <1>6, <1>7, <1>8, <2>1, <2>2, <2>3, <2>4 DEF Orderly, EmittedOnly
<1>10. WindowShape'
  BY <1>1 DEF Orderly, WindowShape
<1>11. LogThenWindow'
  BY <1>1, <1>7 DEF Orderly, LogThenWindow
<1>12. SeenThenFrozen'
  <2>1. \A t \in Tasks : \A i \in DOMAIN win[t].frozen : win[t].frozen[i].run # r
    BY <1>6 DEF Held, Elems
  <2>2. \A t \in Tasks : \A i \in DOMAIN win[t].frozen : \A e \in Elems(seen') :
          i > win[t].notified /\ e.run = win[t].frozen[i].run =>
            e.n < win[t].frozen[i].n \/ (i = win[t].notified + 1 /\ e = win[t].frozen[i])
    BY <1>2, <1>8, <2>1 DEF Orderly, SeenThenFrozen
  <2>3. \A i, j \in DOMAIN seen' : i < j /\ seen'[i].run = seen'[j].run => seen'[i].n <= seen'[j].n
    BY <1>2, <1>5, SeenAppend
  <2> QED
    BY <1>1, <2>2, <2>3 DEF SeenThenFrozen
<1>13. SeenTwiceIsCounted'
  <2>1. \A t \in Tasks : win[t].notified < Len(win[t].frozen) => ToNotify(t) # c
    <3>1. \A t \in Tasks : win[t].notified < Len(win[t].frozen) => ToNotify(t) \in Held(t)
      BY ToNotifyType DEF Held
    <3> QED
      BY <1>2, <1>6, <3>1
  <2>2. Again' = Again
    BY <1>1, <1>8, <2>1 DEF Again, ToNotify
  <2>3. /\ Len(seen') = Len(seen) + 1 /\ Cardinality(Elems(seen')) = Cardinality(Elems(seen)) + 1
        /\ IsFiniteSet(Elems(seen'))
    BY <1>2, <1>5, <1>8, SeenAppend
  <2>4. /\ Len(seen) \in Nat /\ interrupts \in Nat /\ Cardinality(Again) \in Nat
        /\ Cardinality(Elems(seen)) \in Nat
    BY FS_CardinalityType, EventBusAssumption DEF TypeOK, Orderly, SeenTwiceIsCounted
  <2> QED
    BY <1>1, <2>2, <2>3, <2>4 DEF Orderly, SeenTwiceIsCounted
<1>14. StartsAreKnown'
  <2>1. \A t \in Tasks, f \in Event : Untold(t, f)' <=> Untold(t, f)
    BY <1>1 DEF Untold
  <2>2. \A s \in Runs : First(s) \in Event
    BY AllEvents DEF First, Event
  <2>3. \A s \in Runs : Underway(s)' => Underway(s)
    <3>1. \A s \in Runs \ {r} : Underway(s)' => Underway(s)
      BY <1>3 DEF Underway
    <3>2. Underway(r)' => Underway(r)
      BY <1>1, <1>3, AllEvents DEF Underway
    <3> QED
      BY <3>1, <3>2
  <2>4. \A s \in Runs : Starts(s)' /\ out'[s] \in {"commit", "failed"} => Starts(s) /\ out[s] = out'[s]
    BY <1>3 DEF Starts
  <2> QED
    BY <1>1, <2>1, <2>2, <2>3, <2>4, AllEvents DEF Orderly, StartsAreKnown
<1> QED
  BY <1>9, <1>10, <1>11, <1>12, <1>13, <1>14 DEF Orderly

\* A failed emit is tried again, or its run ends.
LEMMA GoOnOrderly ==
  ASSUME TypeOK, EmitHasEvent, Orderly, NEW r \in Runs, RetryActor(r) \/ EndBackground(r)
  PROVE  Orderly'
<1>1. /\ out[r] = "failed"
      /\ UNCHANGED <<tracked, open, win, busy, log, ledger, seen, dropped, bound, windows, interrupts>>
  BY DEF RetryActor, EndBackground, winVars, storeVars, histVars
<1>2. /\ \A s \in Runs \ {r} : next'[s] = next[s] /\ out'[s] = out[s]
      /\ \/ /\ r \notin Background /\ out'[r] = "commit"
            /\ next'[r] = IF next[r] = 1 THEN 1 ELSE RunLength
         \/ /\ r \in Background /\ out'[r] = "idle"
            /\ next'[r] = IF next[r] = 1 \/ next[r] = RunLength THEN RunLength + 1 ELSE RunLength
  BY DEF TypeOK, RetryActor, EndBackground, Starts, Finishes
<1>3. next[r] <= RunLength /\ next[r] \in Nat /\ RunLength \in Nat /\ next[r] >= 1 /\ RunLength >= 2
  BY <1>1, AllEvents DEF EmitHasEvent
<1>4. /\ next[r] <= next'[r] /\ next'[r] \in Nat
      /\ out'[r] = "idle" => next[r] < next'[r]
  BY <1>2, <1>3
<1>5. \A t \in Tasks : \A e \in Held(t) : e.run # r
  BY <1>1 DEF Orderly, EmittedOnly
<1>6. \A t \in Tasks : Held(t)' = Held(t)
  BY <1>1 DEF Held
<1>7. EmittedOnly'
  <2>1. \A e \in Elems(log) : e.n <= next'[e.run] /\ (e.n = next'[e.run] => out'[e.run] # "idle")
    <3>1. ASSUME NEW e \in Elems(log), e.run = r
          PROVE  e.n <= next'[r] /\ (e.n = next'[r] => out'[r] # "idle")
      <4>1. e.n \in Nat /\ e.n <= next[r]
        BY <3>1, AllEvents, EventFacts DEF Orderly, EmittedOnly
      <4> QED
        BY <1>3, <1>4, <4>1
    <3>2. \A e \in Elems(log) : e.run \in Runs
      BY AllEvents, EventFacts
    <3> QED
      BY <1>2, <3>1, <3>2 DEF Orderly, EmittedOnly
  <2>2. \A e \in Elems(seen) \cup dropped : e.n < next'[e.run]
    <3>1. \A e \in Elems(seen) \cup dropped : e.run \in Runs /\ e.n \in Nat /\ e.n < next[e.run]
      BY AllEvents, EventFacts DEF Orderly, EmittedOnly
    <3>2. \A s \in Runs : next[s] \in Nat /\ next'[s] \in Nat /\ next[s] <= next'[s]
      BY <1>2, <1>3, <1>4, AllEvents
    <3> QED
      BY <3>1, <3>2
  <2>3. \A t \in Tasks : \A e \in Held(t) : e.run \in Runs
    BY AllEvents, EventFacts DEF Held
  <2> QED
    BY <1>1, <1>2, <1>5, <1>6, <2>1, <2>2, <2>3 DEF Orderly, EmittedOnly
<1>8. WindowShape' /\ SeenThenFrozen'
  BY <1>1 DEF Orderly, WindowShape, SeenThenFrozen
<1>9. LogThenWindow'
  BY <1>1, <1>6 DEF Orderly, LogThenWindow
<1>10. SeenTwiceIsCounted'
  BY <1>1 DEF Orderly, SeenTwiceIsCounted, Again, ToNotify
<1>11. StartsAreKnown'
  <2>1. \A t \in Tasks, f \in Event : Untold(t, f)' <=> Untold(t, f)
    BY <1>1 DEF Untold
  <2>2. \A s \in Runs : First(s) \in Event
    BY AllEvents DEF First, Event
  <2>3. \A s \in Runs : Underway(s)' => Underway(s)
    <3>1. \A s \in Runs \ {r} : Underway(s)' => Underway(s)
      BY <1>2 DEF Underway
    <3>2. Underway(r)' => Underway(r)
      BY <1>1, <1>2, <1>3 DEF Underway
    <3> QED
      BY <3>1, <3>2
  <2>4. \A s \in Runs : Starts(s)' /\ s \notin Background /\ out'[s] \in {"commit", "failed"} =>
          Starts(s) /\ out[s] \in {"commit", "failed"}
    BY <1>1, <1>2, <1>3 DEF Starts
  <2> QED
    BY <1>1, <2>1, <2>2, <2>3, <2>4, AllEvents DEF Orderly, StartsAreKnown
<1> QED
  BY <1>7, <1>8, <1>9, <1>10, <1>11 DEF Orderly

\* The run a hot answer goes on with becomes the round's.
LEMMA BindOrderly ==
  ASSUME TypeOK, EmitHasEvent, Orderly, NEW r \in Runs, Bind(r)
  PROVE  Orderly'
<1> DEFINE t == TaskOf[r]
<1>1. /\ t \in open /\ out[r] = "idle" /\ bound' = bound \cup {r}
      /\ UNCHANGED <<next, out, tracked, open, busy, log, ledger, seen, dropped, windows, interrupts>>
  BY DEF Bind, runVars, storeVars
<1>2. t \in Tasks /\ win[t] \in Window /\ t = TaskOf[r]
  BY AllEvents DEF TypeOK
<1>3. \A u \in Tasks : /\ win'[u].events = win[u].events /\ win'[u].frozen = win[u].frozen
                       /\ win'[u].notified = win[u].notified
                       /\ win'[u].independent \subseteq win[u].independent
                       /\ win[u].independent \subseteq win'[u].independent \cup {r}
  <2> DEFINE w2 == [win[t] EXCEPT !.independent = @ \ {r}]
  <2>1. /\ w2.events = win[t].events /\ w2.frozen = win[t].frozen
        /\ w2.notified = win[t].notified /\ w2.independent = win[t].independent \ {r}
    BY <1>2 DEF Window
  <2>2. win' = [win EXCEPT ![t] = w2]
    BY DEF Bind
  <2> HIDE DEF w2
  <2> QED
    BY <1>2, <2>1, <2>2 DEF TypeOK
<1> HIDE DEF t
<1>4. \A u \in Tasks : Held(u)' = Held(u)
  BY <1>3 DEF Held
<1>5. EmittedOnly'
  <2>1. \A u \in Tasks : \A e \in Held(u) : e.run \notin win'[u].independent
    BY <1>3 DEF Orderly, EmittedOnly
  <2> QED
    BY <1>1, <1>4, <2>1 DEF Orderly, EmittedOnly
<1>6. WindowShape'
  BY <1>1, <1>3 DEF Orderly, WindowShape
<1>7. LogThenWindow'
  BY <1>1, <1>3, <1>4 DEF Orderly, LogThenWindow
<1>8. SeenThenFrozen'
  BY <1>1, <1>3 DEF Orderly, SeenThenFrozen
<1>9. SeenTwiceIsCounted'
  <2>1. Again' = Again
    BY <1>1, <1>3 DEF Again, ToNotify
  <2> QED
    BY <1>1, <2>1 DEF Orderly, SeenTwiceIsCounted
<1>10. StartsAreKnown'
  <2>1. \A u \in Tasks, f \in Event : Untold(u, f)' <=> Untold(u, f)
    BY <1>3 DEF Untold
  <2>2. \A s \in Runs : First(s) \in Event
    BY AllEvents DEF First, Event
  <2>3. \A s \in Runs : (Underway(s)' <=> Underway(s)) /\ (Starts(s)' <=> Starts(s))
    BY <1>1 DEF Underway, Starts
  <2>4. \A s \in Runs : Underway(s)' => s \in tracked' \/ Untold(TaskOf[s], First(s))'
    BY <1>1, <2>1, <2>2, <2>3, AllEvents DEF Orderly, StartsAreKnown
  <2>5. \A s \in Runs : LET u == TaskOf[s] IN
          /\ u \in open /\ s \notin win'[u].independent /\ win'[u].frozen = <<>> /\ Underway(s)' =>
               s \in bound' \/ First(s) \in Elems(win'[u].events)
    BY <1>1, <1>3, <2>3, AllEvents DEF Orderly, StartsAreKnown
  <2>6. \A s \in Runs : LET u == TaskOf[s] IN
          /\ u \in open /\ s \notin Background /\ Starts(s)' /\ out'[s] \in {"commit", "failed"} =>
               s \in win'[u].independent
    BY <1>1, <1>3, <2>3, AllEvents DEF Orderly, StartsAreKnown
  <2>7. \A u \in Tasks : win'[u].frozen = <<>> =>
          \A e \in Elems(win'[u].events) : e.run \in bound' \/ First(e.run) \in Elems(win'[u].events)
    BY <1>1, <1>3 DEF Orderly, StartsAreKnown
  <2>8. \A e \in dropped : e.run \in bound' \/ First(e.run) \in dropped
    BY <1>1 DEF Orderly, StartsAreKnown
  <2> QED
    BY <1>1, <2>4, <2>5, <2>6, <2>7, <2>8 DEF StartsAreKnown
<1> QED
  BY <1>5, <1>6, <1>7, <1>8, <1>9, <1>10 DEF Orderly
-------------------------------------------------------------------------------
(***************************************************************************)
(* The steps of a window                                                   *)
(***************************************************************************)
\* A window as begin_provisional or the next batch makes it, field by field.
LEMMA FreshFields ==
  ASSUME NEW f, NEW runs
  PROVE  /\ FreshWindow(f, runs).events = <<>> /\ FreshWindow(f, runs).frozen = f
         /\ FreshWindow(f, runs).notified = 0 /\ FreshWindow(f, runs).independent = runs
         /\ Elems(<<>>) = {} /\ Len(<<>>) = 0 /\ DOMAIN <<>> = {}
<1>1. Len(<<>>) = 0 /\ DOMAIN <<>> = {}
  OBVIOUS
<1> QED
  BY <1>1 DEF FreshWindow, Elems

\* A round opens: its window keeps apart the runs that are known already.
LEMMA BeginOrderly ==
  ASSUME TypeOK, EmitHasEvent, Orderly, NEW t \in Tasks, Begin(t)
  PROVE  Orderly'
<1>1. /\ t \notin open /\ open' = open \cup {t}
      /\ UNCHANGED <<next, out, tracked, busy, log, ledger, seen, dropped, bound, interrupts>>
      /\ \A r \in Runs : TaskOf[r] = t /\ r \notin Background =>
            out[r] # "failed" /\ ~(Starts(r) /\ out[r] = "commit")
  BY DEF Begin, runVars, storeVars
<1>2. /\ win'[t].events = <<>> /\ win'[t].frozen = <<>> /\ win'[t].notified = 0
      /\ win'[t].independent = {r \in tracked : TaskOf[r] = t}
      /\ \A u \in Tasks \ {t} : win'[u] = win[u]
  BY FreshFields DEF Begin, TypeOK
<1>3. win[t].events = <<>> /\ win[t].frozen = <<>> /\ t \notin busy
  BY <1>1 DEF Orderly, WindowShape
<1>4. \A u \in Tasks : /\ win'[u].events = win[u].events /\ win'[u].frozen = win[u].frozen
  BY <1>2, <1>3
<1>5. (\A u \in Tasks : Held(u)' = Held(u)) /\ Held(t) = {}
  BY <1>3, <1>4, FreshFields DEF Held
<1>6. EmittedOnly'
  <2>1. \A u \in Tasks \ {t} : \A e \in Held(u) : e.run \notin win'[u].independent
    BY <1>2 DEF Orderly, EmittedOnly
  <2> QED
    BY <1>1, <1>5, <2>1 DEF Orderly, EmittedOnly
<1>7. WindowShape'
  BY <1>1, <1>2, <1>3, FreshFields DEF Orderly, WindowShape
<1>8. LogThenWindow'
  BY <1>1, <1>4, <1>5 DEF Orderly, LogThenWindow
<1>9. SeenThenFrozen'
  BY <1>1, <1>2, FreshFields DEF Orderly, SeenThenFrozen
<1>10. SeenTwiceIsCounted'
  <2>1. \A u \in Tasks : u \in Again' <=> u \in Again
    <3>1. t \notin Again
      BY <1>3, AllEvents, FreshFields DEF Again
    <3>2. t \notin Again'
      BY <1>2, FreshFields DEF Again
    <3>3. \A u \in Tasks \ {t} : u \in Again' <=> u \in Again
      BY <1>1, <1>2 DEF Again, ToNotify
    <3> QED
      BY <3>1, <3>2, <3>3
  <2>2. Again' = Again
    BY <2>1 DEF Again
  <2> QED
    BY <1>1, <2>2 DEF Orderly, SeenTwiceIsCounted
<1>11. StartsAreKnown'
  <2>1. \A u \in Tasks \ {t}, f \in Event : Untold(u, f)' <=> Untold(u, f)
    BY <1>2 DEF Untold
  <2>2. \A f \in Event : ~Untold(t, f)
    BY <1>3, FreshFields DEF Untold
  <2>3. \A s \in Runs : First(s) \in Event
    BY AllEvents DEF First, Event
  <2>4. \A s \in Runs : (Underway(s)' <=> Underway(s)) /\ (Starts(s)' <=> Starts(s))
    BY <1>1 DEF Underway, Starts
  <2>5. \A s \in Runs : TaskOf[s] = t /\ Underway(s) => s \in tracked
    BY <2>2, <2>3 DEF Orderly, StartsAreKnown
  <2>6. \A s \in Runs : Underway(s)' => s \in tracked' \/ Untold(TaskOf[s], First(s))'
    BY <1>1, <2>1, <2>3, <2>4, <2>5, AllEvents DEF Orderly, StartsAreKnown
  <2>7. \A s \in Runs : LET u == TaskOf[s] IN
          /\ u \in open' /\ s \notin win'[u].independent /\ win'[u].frozen = <<>> /\ Underway(s)' =>
               s \in bound \/ First(s) \in Elems(win'[u].events)
    <3> SUFFICES ASSUME NEW s \in Runs, NEW u \in Tasks, u = TaskOf[s], u \in open',
                        s \notin win'[u].independent, win'[u].frozen = <<>>, Underway(s)
                 PROVE  s \in bound \/ First(s) \in Elems(win'[u].events)
      BY <2>4, AllEvents
    <3>1. u # t
      BY <1>2, <2>5
    <3> QED
      BY <1>1, <1>2, <3>1 DEF Orderly, StartsAreKnown
  <2>8. \A s \in Runs : LET u == TaskOf[s] IN
          /\ u \in open' /\ s \notin Background /\ Starts(s)' /\ out[s] \in {"commit", "failed"} =>
               s \in win'[u].independent
    BY <1>1, <1>2, <2>4, AllEvents DEF Orderly, StartsAreKnown
  <2>9. \A u \in Tasks : win'[u].frozen = <<>> =>
          \A e \in Elems(win'[u].events) : e.run \in bound \/ First(e.run) \in Elems(win'[u].events)
    BY <1>4 DEF Orderly, StartsAreKnown
  <2> QED
    BY <1>1, <2>6, <2>7, <2>8, <2>9 DEF Orderly, StartsAreKnown
<1> QED
  BY <1>6, <1>7, <1>8, <1>9, <1>10, <1>11 DEF Orderly

\* The buffer becomes the next batch when the batch before it is told, or the window
\* closes on an empty one.
LEMMA FreezeOrderly ==
  ASSUME TypeOK, EmitHasEvent, SeenIsDurable, Orderly, NEW t \in Tasks, t \in open,
         win[t].notified = Len(win[t].frozen), Freeze(t),
         UNCHANGED <<runVars, storeVars, seen, histVars>>
  PROVE  Orderly'
<1>1. UNCHANGED <<next, out, tracked, log, ledger, seen, dropped, bound, interrupts>>
  BY DEF runVars, storeVars, histVars
<1>2. /\ win'[t].events = <<>> /\ win'[t].frozen = win[t].events /\ win'[t].notified = 0
      /\ \A u \in Tasks \ {t} : win'[u] = win[u]
  BY FreshFields DEF Freeze, TypeOK
<1>3. \/ win[t].events = <<>> /\ open' = open \ {t} /\ busy' = busy \ {t}
      \/ /\ win[t].events # <<>> /\ open' = open /\ busy' = busy \cup {t}
         /\ win'[t].independent = win[t].independent
  BY FreshFields DEF Freeze, TypeOK
<1>4. /\ Held(t)' = Elems(win[t].events)
      /\ \A u \in Tasks \ {t} : Held(u)' = Held(u)
  BY <1>2, FreshFields DEF Held
\* What was seen is in the log, before everything in the buffer.
<1>5. \A e \in Elems(seen), f \in Elems(win[t].events) : e.run = f.run => e.n < f.n
  BY DEF SeenIsDurable, Orderly, LogThenWindow, Before
<1>6. EmittedOnly'
  <2>1. \A u \in Tasks \ {t} : \A e \in Held(u) : e.run \notin win'[u].independent /\ u \in open'
    BY <1>2, <1>3 DEF Orderly, EmittedOnly
  <2>2. \A e \in Held(t)' : e \in Held(t) /\ t \in open' /\ win'[t].independent = win[t].independent
    BY <1>3, <1>4, FreshFields DEF Held
  <2> QED
    BY <1>1, <1>4, <2>1, <2>2 DEF Orderly, EmittedOnly
<1>7. WindowShape'
  BY <1>2, <1>3, AllEvents DEF Orderly, WindowShape
<1>8. LogThenWindow'
  <2>1. Ordered(<<>>) /\ \A S : Before(S, Elems(<<>>))
    BY FreshFields DEF Ordered, Before
  <2>2. Before(dropped, Held(t)')
    BY <1>4 DEF Orderly, LogThenWindow, Before, Held
  <2> QED
    BY <1>1, <1>2, <1>4, <2>1, <2>2 DEF Orderly, LogThenWindow
<1>9. SeenThenFrozen'
  <2>1. \A i \in DOMAIN win[t].events : win[t].events[i] \in Elems(win[t].events)
    BY DEF Elems
  <2> QED
    BY <1>1, <1>2, <1>5, <2>1 DEF Orderly, SeenThenFrozen
<1>10. SeenTwiceIsCounted'
  <2>1. t \notin Again
    BY AllEvents DEF Again
  <2>2. t \notin Again'
    <3> SUFFICES ASSUME 0 < Len(win[t].events) PROVE win[t].events[0 + 1] \notin Elems(seen)
      BY <1>1, <1>2 DEF Again, ToNotify
    <3>1. 0 + 1 \in DOMAIN win[t].events
      BY AllEvents
    <3>2. win[t].events[0 + 1] \in Elems(win[t].events)
      BY <3>1 DEF Elems
    <3> QED
      BY <1>5, <3>2, AllEvents, EventFacts
  <2>3. \A u \in Tasks \ {t} : u \in Again' <=> u \in Again
    BY <1>1, <1>2 DEF Again, ToNotify
  <2>4. Again' = Again
    BY <2>1, <2>2, <2>3 DEF Again
  <2> QED
    BY <1>1, <2>4 DEF Orderly, SeenTwiceIsCounted
<1>11. StartsAreKnown'
  <2>1. \A u \in Tasks \ {t}, f \in Event : Untold(u, f)' <=> Untold(u, f)
    BY <1>2 DEF Untold
  <2>2. \A f \in Event : Untold(t, f) => Untold(t, f)'
    <3> SUFFICES ASSUME NEW f \in Event, Untold(t, f) PROVE Untold(t, f)'
      OBVIOUS
    <3>1. f \in Elems(win[t].events)
      BY AllEvents DEF Untold
    <3>2. PICK i \in DOMAIN win[t].events : win[t].events[i] = f
      BY <3>1 DEF Elems
    <3>3. i > 0
      BY <3>2, AllEvents
    <3> QED
      BY <1>2, <3>2, <3>3 DEF Untold
  <2>3. \A s \in Runs : First(s) \in Event
    BY AllEvents DEF First, Event
  <2>4. \A s \in Runs : (Underway(s)' <=> Underway(s)) /\ (Starts(s)' <=> Starts(s))
    BY <1>1 DEF Underway, Starts
  <2>5. \A s \in Runs : Underway(s)' => s \in tracked' \/ Untold(TaskOf[s], First(s))'
    BY <1>1, <2>1, <2>2, <2>3, <2>4, AllEvents DEF Orderly, StartsAreKnown
  <2>6. \A s \in Runs : LET u == TaskOf[s] IN
          /\ u \in open' /\ s \notin win'[u].independent /\ win'[u].frozen = <<>> /\ Underway(s)' =>
               s \in bound \/ First(s) \in Elems(win'[u].events)
    <3> SUFFICES ASSUME NEW s \in Runs, NEW u \in Tasks, u = TaskOf[s], u \in open',
                        s \notin win'[u].independent, win'[u].frozen = <<>>, Underway(s)
                 PROVE  s \in bound \/ First(s) \in Elems(win'[u].events)
      BY <2>4, AllEvents
    <3>1. u # t
      BY <1>2, <1>3
    <3> QED
      BY <1>2, <1>3, <3>1 DEF Orderly, StartsAreKnown
  <2>7. \A s \in Runs : LET u == TaskOf[s] IN
          /\ u \in open' /\ s \notin Background /\ Starts(s)' /\ out[s] \in {"commit", "failed"} =>
               s \in win'[u].independent
    BY <1>2, <1>3, <2>4, AllEvents DEF Orderly, StartsAreKnown
  <2>8. \A u \in Tasks : win'[u].frozen = <<>> =>
          \A e \in Elems(win'[u].events) : e.run \in bound \/ First(e.run) \in Elems(win'[u].events)
    BY <1>2, FreshFields DEF Orderly, StartsAreKnown
  <2> QED
    BY <1>1, <2>5, <2>6, <2>7, <2>8 DEF Orderly, StartsAreKnown
<1> QED
  BY <1>6, <1>7, <1>8, <1>9, <1>10, <1>11 DEF Orderly

\* The store's answer to a batch, whether the committer gets it or not.
LEMMA BatchOrderly ==
  ASSUME TypeOK, EmitHasEvent, Orderly, NEW t \in Tasks, StoreBatch(t) \/ StoreBatchFails(t)
  PROVE  Orderly'
<1>1. /\ t \in busy /\ busy' \subseteq busy
      /\ UNCHANGED <<next, out, tracked, open, seen, dropped, bound, windows, interrupts>>
  BY DEF StoreBatch, StoreBatchFails, Storing, runVars, histVars
<1>2. \A u \in Tasks : /\ win'[u].events = win[u].events /\ win'[u].frozen = win[u].frozen
                       /\ win'[u].notified = win[u].notified
                       /\ win'[u].independent = win[u].independent
  <2>1. CASE StoreBatch(t)
    <3> DEFINE w2 == [win[t] EXCEPT !.confirmed = TRUE]
    <3>1. win[t] \in Window
      BY DEF TypeOK
    <3>2. /\ w2.events = win[t].events /\ w2.frozen = win[t].frozen
          /\ w2.notified = win[t].notified /\ w2.independent = win[t].independent
      BY <3>1 DEF Window
    <3>3. win' = [win EXCEPT ![t] = w2]
      BY <2>1 DEF StoreBatch
    <3> HIDE DEF w2
    <3> QED
      BY <3>2, <3>3 DEF TypeOK
  <2>2. CASE StoreBatchFails(t)
    BY <2>2 DEF StoreBatchFails
  <2> QED
    BY <2>1, <2>2
<1>3. PICK b \in Seq(Event) : b = win[t].frozen
  BY AllEvents
<1>4. /\ Ordered(b) /\ (b \in ledger \/ Before(Elems(log), Elems(b)))
      /\ Elems(b) \subseteq Held(t) /\ t \in open
      /\ Before(Elems(b), Elems(win[t].events))
  BY <1>1, <1>3 DEF Orderly, LogThenWindow, WindowShape, Held
<1>5. Elems(b) \cap dropped = {}
  <2> SUFFICES ASSUME NEW e \in Elems(b), e \in dropped PROVE FALSE
    OBVIOUS
  <2>1. e.n < e.n /\ e \in Event
    BY <1>4, AllEvents DEF Orderly, LogThenWindow, Before
  <2> QED
    BY <2>1, EventFacts
<1>6. NotConfirmed(b)
  BY <1>3 DEF StoreBatch, StoreBatchFails, NotConfirmed
<1>7. /\ Ordered(log') /\ dropped \cap Elems(log') = {} /\ ledger \subseteq ledger'
      /\ \A e \in Elems(log') : e \in Elems(log) \/ (e \in Elems(b) /\ b \notin ledger)
      /\ b \in ledger' \/ (log' = log /\ ledger' = ledger)
  <2>1. Stored(b) \/ UNCHANGED storeVars
    BY <1>6 DEF NotConfirmed
  <2> QED
    BY <1>4, <1>5, <1>6, <2>1, StoredOrderly DEF storeVars
<1>8. \A u \in Tasks : Held(u)' = Held(u)
  BY <1>2 DEF Held
\* The batch has nothing of the runs of the other tasks.
<1>9. \A u \in Tasks \ {t} : \A e \in Elems(b), f \in Held(u) : e.run # f.run
  BY <1>4 DEF Orderly, EmittedOnly
<1>10. EmittedOnly'
  <2>1. \A e \in Elems(b) : e.n < next[e.run] /\ e.n \in Nat /\ next[e.run] \in Nat
    <3>1. \A e \in Elems(b) : e \in Event /\ e.n < next[e.run]
      BY <1>4 DEF Orderly, EmittedOnly, Elems
    <3> QED
      BY <3>1, AllEvents, EventFacts
  <2>2. \A e \in Elems(log') : e.n <= next[e.run] /\ (e.n = next[e.run] => out[e.run] # "idle")
    <3> SUFFICES ASSUME NEW e \in Elems(log')
                 PROVE  e.n <= next[e.run] /\ (e.n = next[e.run] => out[e.run] # "idle")
      OBVIOUS
    <3>1. CASE e \in Elems(log)
      BY <3>1 DEF Orderly, EmittedOnly
    <3>2. CASE e \in Elems(b)
      BY <2>1, <3>2
    <3> QED
      BY <1>7, <3>1, <3>2
  <2> QED
    BY <1>1, <1>2, <1>8, <2>2 DEF Orderly, EmittedOnly
<1>11. WindowShape'
  BY <1>1, <1>2 DEF Orderly, WindowShape
<1>12. LogThenWindow'
  <2>1. \A u \in Tasks : Before(Elems(log'), Elems(win[u].events))
    BY <1>4, <1>7, <1>9 DEF Orderly, LogThenWindow, Before, Held
  <2>2. \A u \in Tasks \ {t} : win[u].frozen \in ledger' \/ Before(Elems(log'), Elems(win[u].frozen))
    BY <1>7, <1>9 DEF Orderly, LogThenWindow, Before, Held
  <2>3. win[t].frozen \in ledger' \/ Before(Elems(log'), Elems(win[t].frozen))
    BY <1>3, <1>4, <1>7
  <2> QED
    BY <1>1, <1>2, <1>7, <1>8, <2>1, <2>2, <2>3 DEF Orderly, LogThenWindow
<1>13. SeenThenFrozen'
  BY <1>1, <1>2 DEF Orderly, SeenThenFrozen
<1>14. SeenTwiceIsCounted'
  <2>1. Again' = Again
    BY <1>1, <1>2 DEF Again, ToNotify
  <2> QED
    BY <1>1, <2>1 DEF Orderly, SeenTwiceIsCounted
<1>15. StartsAreKnown'
  <2>1. \A u \in Tasks, f \in Event : Untold(u, f)' <=> Untold(u, f)
    BY <1>2 DEF Untold
  <2>2. \A s \in Runs : First(s) \in Event
    BY AllEvents DEF First, Event
  <2>3. \A s \in Runs : (Underway(s)' <=> Underway(s)) /\ (Starts(s)' <=> Starts(s))
    BY <1>1 DEF Underway, Starts
  <2> QED
    BY <1>1, <1>2, <2>1, <2>2, <2>3, AllEvents DEF Orderly, StartsAreKnown
<1> QED
  BY <1>10, <1>11, <1>12, <1>13, <1>14, <1>15 DEF Orderly

\* An event of the batch is told, and the commit goes on or is cancelled meanwhile.
LEMMA NotifyOrderly ==
  ASSUME TypeOK, EmitHasEvent, Orderly, NEW t \in Tasks, NotifyBatch(t) \/ InterruptNotify(t)
  PROVE  Orderly'
<1> DEFINE k == win[t].notified + 1
<1>1. /\ t \in busy /\ win[t].notified < Len(win[t].frozen) /\ busy' \subseteq busy
      /\ UNCHANGED <<next, out, open, log, ledger, dropped, bound, windows>>
  BY DEF NotifyBatch, InterruptNotify, Notifying, storeVars, histVars
<1>2. PICK e \in Event : /\ e = ToNotify(t) /\ e \in Elems(win[t].frozen)
                         /\ tracked' = Tracking(e.run, e.n)
  BY <1>1, ToNotifyType DEF NotifyBatch, InterruptNotify
<1>3. /\ win[t].frozen \in Seq(Event) /\ win[t].notified \in Nat /\ k \in Nat
      /\ k \in DOMAIN win[t].frozen /\ win[t].frozen[k] = e
  BY <1>1, <1>2, AllEvents DEF ToNotify
<1>4. \A u \in Tasks : /\ win'[u].events = win[u].events /\ win'[u].frozen = win[u].frozen
                       /\ win'[u].independent = win[u].independent
                       /\ u # t => win'[u].notified = win[u].notified
  <2>1. CASE NotifyBatch(t)
    <3> DEFINE w2 == [win[t] EXCEPT !.notified = @ + 1]
    <3>1. win[t] \in Window
      BY DEF TypeOK
    <3>2. /\ w2.events = win[t].events /\ w2.frozen = win[t].frozen
          /\ w2.independent = win[t].independent
      BY <3>1 DEF Window
    <3>3. win' = [win EXCEPT ![t] = w2]
      BY <2>1 DEF NotifyBatch
    <3> HIDE DEF w2
    <3> QED
      BY <3>2, <3>3 DEF TypeOK
  <2>2. CASE InterruptNotify(t)
    BY <2>2 DEF InterruptNotify
  <2> QED
    BY <2>1, <2>2
<1>5. \/ seen' = Append(seen, e) /\ win'[t].notified = k /\ interrupts' = interrupts
      \/ /\ seen' = seen \/ seen' = Append(seen, e)
         /\ win'[t].notified = win[t].notified /\ interrupts' = interrupts + 1
  <2>1. CASE NotifyBatch(t)
    <3> DEFINE w2 == [win[t] EXCEPT !.notified = @ + 1]
    <3>1. win[t] \in Window
      BY DEF TypeOK
    <3>2. w2.notified = k
      BY <3>1 DEF Window
    <3>3. win' = [win EXCEPT ![t] = w2]
      BY <2>1 DEF NotifyBatch
    <3> HIDE DEF w2, k
    <3> QED
      BY <1>2, <2>1, <3>2, <3>3 DEF TypeOK, NotifyBatch, histVars
  <2>2. CASE InterruptNotify(t)
    BY <1>2, <2>2 DEF InterruptNotify
  <2> QED
    BY <2>1, <2>2
<1> HIDE DEF k
<1>6. (\A u \in Tasks : Held(u)' = Held(u)) /\ e \in Held(t)
  BY <1>2, <1>4 DEF Held
<1>7. \A u \in Tasks \ {t} : \A f \in Held(u) : f.run # e.run
  BY <1>6 DEF Orderly, EmittedOnly
<1>8. \A f \in Elems(seen) : f.run = e.run => f.n <= e.n
  <2> SUFFICES ASSUME NEW f \in Elems(seen), f.run = e.run PROVE f.n <= e.n
    OBVIOUS
  <2>1. k > win[t].notified
    BY <1>3 DEF k
  <2>2. f.n < e.n \/ f = e
    BY <1>3, <2>1 DEF Orderly, SeenThenFrozen
  <2>3. f \in Event
    BY AllEvents
  <2> QED
    BY <2>2, <2>3, EventFacts
<1>9. Elems(seen') \subseteq Elems(seen) \cup {e}
  BY <1>5, <1>8, SeenAppend
\* What is told after e has its number above that of e.
<1>10. \A i \in DOMAIN win[t].frozen : i > k => \A f \in Elems(seen) \cup {e} :
         f.run = win[t].frozen[i].run => f.n < win[t].frozen[i].n
  <2> SUFFICES ASSUME NEW i \in DOMAIN win[t].frozen, i > k, NEW f \in Elems(seen) \cup {e},
                      f.run = win[t].frozen[i].run
               PROVE  f.n < win[t].frozen[i].n
    OBVIOUS
  <2>1. CASE f = e
    BY <1>3, <2>1 DEF Orderly, LogThenWindow, Ordered
  <2>2. CASE f \in Elems(seen)
    <3>1. i > win[t].notified /\ i # win[t].notified + 1
      BY <1>3 DEF k
    <3> QED
      BY <2>2, <3>1 DEF Orderly, SeenThenFrozen
  <2> QED
    BY <2>1, <2>2
<1>11. EmittedOnly'
  <2>1. \A f \in Elems(seen') : f.n < next[f.run]
    BY <1>6, <1>9 DEF Orderly, EmittedOnly
  <2> QED
    BY <1>1, <1>4, <1>6, <2>1 DEF Orderly, EmittedOnly
<1>12. WindowShape'
  BY <1>1, <1>3, <1>4, <1>5 DEF Orderly, WindowShape, k
<1>13. LogThenWindow'
  BY <1>1, <1>4, <1>6 DEF Orderly, LogThenWindow
<1>14. SeenThenFrozen'
  <2>1. \A i, j \in DOMAIN seen' : i < j /\ seen'[i].run = seen'[j].run => seen'[i].n <= seen'[j].n
    BY <1>5, <1>8, SeenAppend DEF Orderly, SeenThenFrozen
  <2>2. \A u \in Tasks \ {t} : \A i \in DOMAIN win[u].frozen : \A f \in Elems(seen') :
          i > win[u].notified /\ f.run = win[u].frozen[i].run =>
            f.n < win[u].frozen[i].n \/ (i = win[u].notified + 1 /\ f = win[u].frozen[i])
    <3>1. \A u \in Tasks \ {t} : \A i \in DOMAIN win[u].frozen : win[u].frozen[i].run # e.run
      BY <1>7 DEF Held, Elems
    <3> QED
      BY <1>9, <3>1 DEF Orderly, SeenThenFrozen
  <2>3. \A i \in DOMAIN win[t].frozen : \A f \in Elems(seen') :
          i > win'[t].notified /\ f.run = win[t].frozen[i].run =>
            f.n < win[t].frozen[i].n \/ (i = win'[t].notified + 1 /\ f = win[t].frozen[i])
    <3> SUFFICES ASSUME NEW i \in DOMAIN win[t].frozen, NEW f \in Elems(seen'),
                        i > win'[t].notified, f.run = win[t].frozen[i].run
                 PROVE  f.n < win[t].frozen[i].n \/ (i = win'[t].notified + 1 /\ f = win[t].frozen[i])
      OBVIOUS
    <3>1. CASE i > k
      BY <1>9, <1>10, <3>1
    <3>2. CASE i = k
      <4>1. win'[t].notified = win[t].notified
        BY <1>3, <1>5, <3>2
      <4>2. f = e \/ f \in Elems(seen)
        BY <1>9
      <4> QED
        BY <1>3, <3>2, <4>1, <4>2 DEF k, Orderly, SeenThenFrozen
    <3>3. i >= k /\ i \in Nat
      BY <1>3, <1>5 DEF k
    <3> QED
      BY <1>3, <3>1, <3>2, <3>3
  <2> QED
    BY <1>4, <2>1, <2>2, <2>3 DEF SeenThenFrozen
<1>15. SeenTwiceIsCounted'
  <2>1. \A u \in Tasks \ {t} : u \in Again' <=> u \in Again
    <3> SUFFICES ASSUME NEW u \in Tasks \ {t} PROVE u \in Again' <=> u \in Again
      OBVIOUS
    <3>1. ToNotify(u)' = ToNotify(u)
      BY <1>4 DEF ToNotify
    <3>2. win[u].notified < Len(win[u].frozen) => ToNotify(u) # e
      BY <1>7, ToNotifyType DEF Held
    <3>3. Elems(seen) \subseteq Elems(seen')
      BY <1>5, <1>8, SeenAppend
    <3> QED
      BY <1>4, <1>9, <3>1, <3>2, <3>3 DEF Again
  <2>2. t \in Again <=> e \in Elems(seen)
    BY <1>1, <1>2 DEF Again
  <2>3. /\ Len(seen) \in Nat /\ interrupts \in Nat /\ Cardinality(Again) \in Nat
        /\ Cardinality(Elems(seen)) \in Nat /\ IsFiniteSet(Again)
    BY FS_CardinalityType, EventBusAssumption DEF TypeOK, Orderly, SeenTwiceIsCounted
  <2>4. /\ Cardinality(Again \cup {t}) =
             IF e \in Elems(seen) THEN Cardinality(Again) ELSE Cardinality(Again) + 1
        /\ IsFiniteSet(Again \cup {t})
    BY <2>2, <2>3, FS_AddElement
  <2>5. /\ Cardinality(Again \ {t}) =
             IF e \in Elems(seen) THEN Cardinality(Again) - 1 ELSE Cardinality(Again)
        /\ IsFiniteSet(Again \ {t})
    BY <2>2, <2>3, FS_RemoveElement
  <2>6. seen' = Append(seen, e) =>
          /\ Len(seen') = Len(seen) + 1 /\ IsFiniteSet(Elems(seen'))
          /\ Cardinality(Elems(seen')) =
               IF e \in Elems(seen) THEN Cardinality(Elems(seen)) ELSE Cardinality(Elems(seen)) + 1
          /\ e \in Elems(seen')
    BY <1>8, SeenAppend
  <2>7. CASE win'[t].notified = k /\ seen' = Append(seen, e) /\ interrupts' = interrupts
    <3>1. t \notin Again'
      <4> SUFFICES ASSUME k < Len(win[t].frozen) PROVE win[t].frozen[k + 1] \notin Elems(seen')
        BY <1>4, <2>7 DEF Again, ToNotify
      <4>1. k + 1 \in DOMAIN win[t].frozen /\ k + 1 > k
        BY <1>3
      <4>2. win[t].frozen[k + 1] \in Event
        BY <1>3, <4>1
      <4> QED
        BY <1>9, <1>10, <4>1, <4>2, EventFacts
    <3>2. Again' = Again \ {t}
      BY <2>1, <3>1 DEF Again
    <3> QED
      BY <2>3, <2>5, <2>6, <2>7, <3>2 DEF Orderly, SeenTwiceIsCounted
  <2>8. CASE /\ win'[t].notified = win[t].notified /\ interrupts' = interrupts + 1
             /\ seen' = Append(seen, e)
    <3>1. t \in Again'
      BY <1>1, <1>2, <1>4, <2>6, <2>8 DEF Again, ToNotify
    <3>2. Again' = Again \cup {t}
      BY <2>1, <3>1 DEF Again
    <3> QED
      BY <2>3, <2>4, <2>6, <2>8, <3>2 DEF Orderly, SeenTwiceIsCounted
  <2>9. CASE /\ win'[t].notified = win[t].notified /\ interrupts' = interrupts + 1
             /\ seen' = seen
    <3>1. Again' = Again
      BY <1>4, <2>1, <2>9 DEF Again, ToNotify
    <3> QED
      BY <2>3, <2>9, <3>1 DEF Orderly, SeenTwiceIsCounted
  <2> QED
    BY <1>5, <2>7, <2>8, <2>9
<1>16. StartsAreKnown'
  <2>1. \A u \in Tasks \ {t}, f \in Event : Untold(u, f)' <=> Untold(u, f)
    BY <1>4 DEF Untold
  <2>2. \A f \in Event : f # e /\ Untold(t, f) => Untold(t, f)'
    <3> SUFFICES ASSUME NEW f \in Event, f # e, Untold(t, f), f \notin Elems(win[t].events)
                 PROVE  Untold(t, f)'
      BY <1>4 DEF Untold
    <3>1. PICK i \in DOMAIN win[t].frozen : i > win[t].notified /\ win[t].frozen[i] = f
      BY DEF Untold
    <3>2. i > win'[t].notified
      BY <1>3, <1>5, <3>1 DEF k
    <3> QED
      BY <1>4, <3>1, <3>2 DEF Untold
  <2>3. \A s \in Runs : First(s) \in Event
    BY AllEvents DEF First, Event
  <2>4. \A s \in Runs : (Underway(s)' <=> Underway(s)) /\ (Starts(s)' <=> Starts(s))
    BY <1>1 DEF Underway, Starts
  <2>5. \A s \in Runs : First(s) = e => s \in tracked'
    <3> SUFFICES ASSUME NEW s \in Runs, First(s) = e PROVE s \in tracked'
      OBVIOUS
    <3>1. tracked' = Tracking(s, 1)
      BY <1>2 DEF First
    <3> QED
      BY <3>1, EventBusAssumption DEF Tracking
  <2>6. \A s \in tracked : Underway(s) => s \in tracked'
    <3> SUFFICES ASSUME NEW s \in tracked, Underway(s), s \notin tracked' PROVE FALSE
      OBVIOUS
    <3>1. s = e.run /\ e.n = RunLength
      BY <1>2 DEF Tracking
    <3>2. e.n < next[e.run]
      BY <1>6 DEF Orderly, EmittedOnly
    <3> QED
      BY <3>1, <3>2, AllEvents, EventFacts DEF Underway
  <2>7. \A s \in Runs : Underway(s)' => s \in tracked' \/ Untold(TaskOf[s], First(s))'
    <3> SUFFICES ASSUME NEW s \in Runs, Underway(s), s \notin tracked'
                 PROVE  Untold(TaskOf[s], First(s))'
      BY <2>4
    <3>1. PICK u \in Tasks : u = TaskOf[s] /\ Untold(u, First(s))
      BY <2>6, AllEvents DEF Orderly, StartsAreKnown
    <3>2. First(s) # e
      BY <2>5
    <3>3. Untold(u, First(s))'
      BY <2>1, <2>2, <2>3, <3>1, <3>2
    <3> QED
      BY <3>1, <3>3
  <2> QED
    BY <1>1, <1>4, <2>4, <2>7, AllEvents DEF Orderly, StartsAreKnown
<1> QED
  BY <1>11, <1>12, <1>13, <1>14, <1>15, <1>16 DEF Orderly

\* A round is dropped.
LEMMA DiscardOrderly ==
  ASSUME TypeOK, EmitHasEvent, Orderly, NEW t \in Tasks, Discard(t)
  PROVE  Orderly'
<1>1. /\ t \in open /\ win[t].frozen = <<>> /\ open' = open \ {t}
      /\ dropped' = dropped \cup Elems(win[t].events) /\ Unwound(t)
      /\ UNCHANGED <<next, out, tracked, busy, log, ledger, seen, bound, windows, interrupts>>
  BY DEF Discard, runVars, storeVars
<1>2. /\ win'[t].events = <<>> /\ win'[t].frozen = <<>> /\ win'[t].notified = 0
      /\ \A u \in Tasks \ {t} : win'[u] = win[u]
  BY FreshFields DEF Discard, TypeOK
<1>3. t \notin busy
  BY <1>1 DEF Orderly, WindowShape
<1>4. /\ Held(t) = Elems(win[t].events) /\ Held(t)' = {}
      /\ \A u \in Tasks \ {t} : Held(u)' = Held(u)
  BY <1>1, <1>2, FreshFields DEF Held
<1>5. EmittedOnly'
  <2>1. \A u \in Tasks \ {t} : \A e \in Held(u) : e.run \notin win'[u].independent /\ u \in open'
    BY <1>1, <1>2 DEF Orderly, EmittedOnly
  <2>2. \A e \in dropped' : e.n < next[e.run]
    BY <1>1, <1>4 DEF Orderly, EmittedOnly
  <2> QED
    BY <1>1, <1>4, <2>1, <2>2 DEF Orderly, EmittedOnly
<1>6. WindowShape'
  BY <1>1, <1>2, <1>3, FreshFields DEF Orderly, WindowShape
<1>7. LogThenWindow'
  <2>1. Ordered(<<>>) /\ \A S : Before(S, Elems(<<>>)) /\ Before(S, {})
    BY FreshFields DEF Ordered, Before
  <2>2. \A u \in Tasks \ {t} : Before(dropped', Held(u))
    <3>1. \A u \in Tasks \ {t} : \A e \in Elems(win[t].events), f \in Held(u) : e.run # f.run
      BY <1>4 DEF Orderly, EmittedOnly
    <3> QED
      BY <1>1, <3>1 DEF Orderly, LogThenWindow, Before
  <2>3. dropped' \cap Elems(log) = {}
    <3> SUFFICES ASSUME NEW e \in Elems(log), e \in Elems(win[t].events) PROVE FALSE
      BY <1>1 DEF Orderly, LogThenWindow
    <3>1. e.n < e.n /\ e \in Event
      BY AllEvents DEF Orderly, LogThenWindow, Before
    <3> QED
      BY <3>1, EventFacts
  <2> QED
    BY <1>1, <1>2, <1>4, <2>1, <2>2, <2>3 DEF Orderly, LogThenWindow
<1>8. SeenThenFrozen'
  BY <1>1, <1>2, FreshFields DEF Orderly, SeenThenFrozen
<1>9. SeenTwiceIsCounted'
  <2>1. t \notin Again
    BY <1>1, AllEvents, FreshFields DEF Again
  <2>2. t \notin Again'
    BY <1>2, FreshFields DEF Again
  <2>3. \A u \in Tasks \ {t} : u \in Again' <=> u \in Again
    BY <1>1, <1>2 DEF Again, ToNotify
  <2>4. Again' = Again
    BY <2>1, <2>2, <2>3 DEF Again
  <2> QED
    BY <1>1, <2>4 DEF Orderly, SeenTwiceIsCounted
<1>10. StartsAreKnown'
  <2>1. \A u \in Tasks \ {t}, f \in Event : Untold(u, f)' <=> Untold(u, f)
    BY <1>2 DEF Untold
  <2>2. \A s \in Runs : First(s) \in Event
    BY AllEvents DEF First, Event
  <2>3. \A s \in Runs : (Underway(s)' <=> Underway(s)) /\ (Starts(s)' <=> Starts(s))
    BY <1>1 DEF Underway, Starts
  <2>4. \A s \in Runs : TaskOf[s] = t /\ Untold(t, First(s)) => ~Underway(s)
    <3> SUFFICES ASSUME NEW s \in Runs, TaskOf[s] = t, Untold(t, First(s))
                 PROVE  ~Underway(s)
      OBVIOUS
    <3>1. First(s) \in Elems(win[t].events)
      BY <1>1, FreshFields DEF Untold
    <3>2. s \notin win[t].independent
      BY <1>4, <3>1 DEF Orderly, EmittedOnly, First
    <3>3. next[s] = RunLength + 1
      BY <1>1, <3>1, <3>2 DEF Unwound, Provisional, First
    <3> QED
      BY <3>3, AllEvents DEF Underway
  <2>5. \A s \in Runs : Underway(s)' => s \in tracked' \/ Untold(TaskOf[s], First(s))'
    BY <1>1, <2>1, <2>2, <2>3, <2>4, AllEvents DEF Orderly, StartsAreKnown
  <2>6. \A u \in Tasks : win'[u].frozen = <<>> =>
          \A e \in Elems(win'[u].events) : e.run \in bound \/ First(e.run) \in Elems(win'[u].events)
    BY <1>2, FreshFields DEF Orderly, StartsAreKnown
  <2>7. \A e \in dropped' : e.run \in bound \/ First(e.run) \in dropped'
    BY <1>1 DEF Orderly, StartsAreKnown
  <2>8. \A s \in Runs : TaskOf[s] \in open' => TaskOf[s] \in open /\ win'[TaskOf[s]] = win[TaskOf[s]]
    BY <1>1, <1>2, AllEvents
  <2> QED
    BY <1>1, <2>3, <2>5, <2>6, <2>7, <2>8 DEF Orderly, StartsAreKnown
<1> QED
  BY <1>5, <1>6, <1>7, <1>8, <1>9, <1>10 DEF Orderly

\* A step that changes no more than who holds the lock of a window.
LEMMA IdleOrderly ==
  ASSUME Orderly, WindowShape',
         UNCHANGED <<next, out, tracked, open, win, log, ledger, seen, dropped, bound,
                     windows, interrupts>>
  PROVE  Orderly'
<1>1. \A t \in Tasks : Held(t)' = Held(t)
  BY DEF Held
<1>2. EmittedOnly'
  BY <1>1 DEF Orderly, EmittedOnly
<1>3. LogThenWindow'
  BY <1>1 DEF Orderly, LogThenWindow
<1>4. SeenThenFrozen'
  BY DEF Orderly, SeenThenFrozen
<1>5. SeenTwiceIsCounted'
  BY DEF Orderly, SeenTwiceIsCounted, Again, ToNotify
<1>6. \A t, e : Untold(t, e)' <=> Untold(t, e)
  BY DEF Untold
<1>7. \A r \in Runs : (Underway(r)' <=> Underway(r)) /\ (Starts(r)' <=> Starts(r))
  BY DEF Underway, Starts
<1>8. StartsAreKnown'
  BY <1>6, <1>7 DEF Orderly, StartsAreKnown
<1> QED
  BY <1>2, <1>3, <1>4, <1>5, <1>8 DEF Orderly
-------------------------------------------------------------------------------
\* The order of the log, of the windows and of what was told is kept by every step.
THEOREM OrderlyInvariant == Spec => [](Inductive /\ Orderly)
<1>1. Init => Orderly
  <2> SUFFICES ASSUME Init PROVE Orderly
    OBVIOUS
  <2>1. \A t \in Tasks : /\ win[t].events = <<>> /\ win[t].frozen = <<>> /\ win[t].notified = 0
                         /\ win[t].independent = {}
    BY FreshFields DEF Init
  <2>2. /\ \A r \in Runs : next[r] = 1 /\ out[r] = "idle"
        /\ open = {} /\ busy = {} /\ log = <<>> /\ seen = <<>> /\ dropped = {} /\ interrupts = 0
    BY DEF Init
  <2>3. \A t \in Tasks : Held(t) = {}
    BY <2>1, FreshFields DEF Held
  <2>4. EmittedOnly /\ WindowShape
    BY <2>1, <2>2, <2>3, FreshFields DEF EmittedOnly, WindowShape
  <2>5. LogThenWindow
    BY <2>1, <2>2, <2>3, FreshFields DEF LogThenWindow, Ordered, Before
  <2>6. SeenThenFrozen
    BY <2>1, <2>2, FreshFields DEF SeenThenFrozen
  <2>7. SeenTwiceIsCounted
    <3>1. Again = {}
      BY <2>1, FreshFields DEF Again
    <3> QED
      BY <2>2, <3>1, FreshFields, FS_EmptySet DEF SeenTwiceIsCounted
  <2>8. \A r \in Runs : ~Underway(r)
    BY <2>2 DEF Underway
  <2>9. StartsAreKnown
    BY <2>1, <2>2, <2>8, FreshFields DEF StartsAreKnown
  <2> QED
    BY <2>4, <2>5, <2>6, <2>7, <2>9 DEF Orderly
<1>2. Inductive /\ Orderly /\ [Next]_vars => Orderly'
  <2> SUFFICES ASSUME Inductive, Orderly, [Next]_vars PROVE Orderly'
    OBVIOUS
  <2>1. TypeOK /\ EmitHasEvent /\ SeenIsDurable
    BY DEF Inductive
  <2>2. ASSUME NEW r \in Runs, EmitStep(r) PROVE Orderly'
    BY <2>1, <2>2, EmitBufferedOrderly, EmitDirectOrderly, StoreDirectOrderly,
       NotifyDirectOrderly, GoOnOrderly, BindOrderly DEF EmitStep
  <2>3. ASSUME NEW t \in Tasks, WindowStep(t) PROVE Orderly'
    <3>1. CASE CommitStart(t)
      <4>1. CASE win[t].frozen # <<>>
        <5>1. UNCHANGED <<next, out, tracked, open, win, log, ledger, seen, dropped, bound,
                          windows, interrupts>>
              /\ busy' = busy \cup {t} /\ t \in open
          BY <3>1, <4>1 DEF CommitStart, runVars, storeVars, histVars
        <5>2. WindowShape'
          BY <4>1, <5>1 DEF Orderly, WindowShape
        <5> QED
          BY <5>1, <5>2, IdleOrderly
      <4>2. CASE win[t].frozen = <<>>
        <5>1. win[t].notified = Len(win[t].frozen)
          BY <2>1, <4>2, AllEvents, FreshFields DEF Orderly, WindowShape
        <5>2. t \in open /\ Freeze(t) /\ UNCHANGED <<runVars, storeVars, seen, histVars>>
          BY <3>1, <4>2 DEF CommitStart
        <5> QED
          BY <2>1, <5>1, <5>2, FreezeOrderly
      <4> QED
        BY <4>1, <4>2
    <3>2. CASE FinishBatch(t)
      <4>1. t \in open
        BY <3>2 DEF FinishBatch, Notifying, Orderly, WindowShape
      <4> QED
        BY <2>1, <3>2, <4>1, FreezeOrderly DEF FinishBatch
    <3> QED
      BY <2>1, <2>3, <3>1, <3>2, BeginOrderly, BatchOrderly, NotifyOrderly, DiscardOrderly
      DEF WindowStep
  <2>4. CASE UNCHANGED vars
    <3>1. UNCHANGED <<next, out, tracked, open, win, busy, log, ledger, seen, dropped, bound,
                      windows, interrupts>>
      BY <2>4 DEF vars, runVars, winVars, storeVars, histVars
    <3>2. WindowShape'
      BY <3>1 DEF Orderly, WindowShape
    <3> QED
      BY <3>1, <3>2, IdleOrderly
  <2> QED
    BY <2>2, <2>3, <2>4 DEF Next
<1> QED
  BY <1>1, <1>2, InductiveInvariant, PTL DEF Spec

\* The log has the events of a run in the order it emitted them, each once, and the
\* ordinary subscribers are told of them in that order; only what a cancelled commit was
\* notifying comes twice (emit, commit_provisional).
THEOREM OrderStaysKept == Spec => []OrderIsKept
<1>1. Inductive /\ Orderly => OrderIsKept
  <2> SUFFICES ASSUME Inductive, Orderly PROVE OrderIsKept
    OBVIOUS
  <2>1. LogKeepsRunOrder
    BY DEF Orderly, LogThenWindow, Ordered, LogKeepsRunOrder
  <2>2. /\ Len(seen) \in Nat /\ interrupts \in Nat /\ Cardinality(Again) \in Nat
        /\ Cardinality(Elems(seen)) \in Nat
    BY FS_CardinalityType, EventBusAssumption
    DEF Inductive, TypeOK, Orderly, SeenTwiceIsCounted
  <2>3. SeenKeepsRunOrder
    BY <2>2 DEF Orderly, SeenThenFrozen, SeenTwiceIsCounted, SeenKeepsRunOrder
  <2> QED
    BY <2>1, <2>3 DEF OrderIsKept
<1> QED
  BY <1>1, OrderlyInvariant, PTL

\* A round is in the log as a whole or not at all: what was dropped is in no batch, a run
\* that is not the round's own loses nothing, and no retry of a batch is refused
\* (commit_provisional, discard_provisional).
THEOREM RoundsStayAtomic == Spec => []RoundsAreAtomic
<1>1. Inductive /\ Orderly => RoundsAreAtomic
  <2> SUFFICES ASSUME Inductive, Orderly PROVE RoundsAreAtomic
    OBVIOUS
  <2>1. DiscardedNeverDurable /\ IndependentRunsKeepTheirEvents
    BY DEF Orderly, LogThenWindow, StartsAreKnown, First, DiscardedNeverDurable,
           IndependentRunsKeepTheirEvents
  <2>2. ASSUME NEW t \in open, Before(Elems(log), Elems(win[t].frozen))
        PROVE  Fresh(win[t].frozen)
    <3> SUFFICES ASSUME NEW e \in Elems(log), e \in Elems(win[t].frozen) PROVE FALSE
      BY DEF Fresh
    <3>1. e.n < e.n /\ e \in Event
      BY <2>2, AllEvents DEF Before, Inductive
    <3> QED
      BY <3>1, EventFacts
  <2>3. RetriesAreReplays
    BY <2>2 DEF Orderly, LogThenWindow, RetriesAreReplays, Inductive, TypeOK
  <2> QED
    BY <2>1, <2>3 DEF RoundsAreAtomic
<1> QED
  BY <1>1, OrderlyInvariant, PTL

-------------------------------------------------------------------------------
(***************************************************************************)
(* What a session is rebuilt from (Recovery).  A snapshot forgets tasks,   *)
(* but what it has of them agrees with the log (Agrees), and an event that *)
(* is applied to both leaves it so.  An input that is not in memory is one *)
(* that somebody still writes (Awaited): a snapshot is taken only while no *)
(* round is open, so it declares none of them.                             *)
(***************************************************************************)

\* A set of natural numbers has a least element.
LEMMA LeastNumber ==
  ASSUME NEW S, S \subseteq Nat, S # {}
  PROVE  \E n \in S : \A m \in S : n <= m
<1> DEFINE R == OpToRel(<, Nat)
<1>1. IsWellFoundedOn(R, Nat)
  BY NatLessThanWellFounded
<1>2. \A x, y \in Nat : x < y => <<x, y>> \in R
  BY DEF OpToRel
<1> HIDE DEF R
<1>3. \E x \in S : \A y \in S : ~ (<<y, x>> \in R)
  BY <1>1, WFMin
<1>4. PICK n \in S : \A m \in S : ~ (<<m, n>> \in R)
  BY <1>3
<1>5. \A m \in S : m \in Nat /\ n \in Nat /\ ~(m < n)
  BY <1>2, <1>4
<1> QED
  BY <1>5

FoldsTo(f, v, events, k) ==
  f = [n \in 0..k |-> IF n = 0 THEN v ELSE Apply(f[n - 1], events[n])]

\* The recursion of Fold has a solution, for every length.
LEMMA FoldExists ==
  ASSUME NEW v, NEW events, NEW k \in Nat
  PROVE  \E f : FoldsTo(f, v, events, k)
<1> DEFINE Bad == {n \in Nat : ~ \E f : FoldsTo(f, v, events, n)}
<1>1. SUFFICES ASSUME Bad # {} PROVE FALSE
  OBVIOUS
<1>2. PICK n \in Bad : \A m \in Bad : n <= m
  BY <1>1, LeastNumber
<1>3. n # 0
  <2>1. FoldsTo([i \in 0..0 |-> v], v, events, 0)
    BY DEF FoldsTo
  <2> QED
    BY <2>1
<1>4. n - 1 \in Nat /\ n \in Nat /\ ~(n <= n - 1)
  BY <1>3
<1>5. PICK g : FoldsTo(g, v, events, n - 1)
  BY <1>2, <1>4
<1> DEFINE h == [i \in 0..n |-> IF i = n THEN Apply(g[n - 1], events[n]) ELSE g[i]]
<1>6. FoldsTo(h, v, events, n)
  <2>1. \A i \in 0..(n - 1) : g[i] = IF i = 0 THEN v ELSE Apply(g[i - 1], events[i])
    BY <1>5 DEF FoldsTo
  <2>2. \A i \in 0..n : h[i] = IF i = 0 THEN v ELSE Apply(h[i - 1], events[i])
    <3> TAKE i \in 0..n
    <3>1. CASE i = n
      <4>1. h[i - 1] = g[n - 1]
        BY <3>1, <1>4
      <4> QED
        BY <3>1, <1>3, <4>1
    <3>2. CASE i # n
      <4>1. i \in 0..(n - 1) /\ h[i] = g[i]
        BY <3>2, <1>4
      <4>2. i # 0 => h[i - 1] = g[i - 1]
        BY <3>2, <1>4
      <4> QED
        BY <2>1, <4>1, <4>2
    <3> QED
      BY <3>1, <3>2
  <2> HIDE DEF h
  <2>3. h = [i \in 0..n |-> h[i]]
    BY DEF h
  <2> QED
    BY <2>2, <2>3 DEF FoldsTo
<1> QED
  BY <1>6

\* What holds of two views and is kept by each event holds of what they are folded to.
LEMMA FoldKeeps ==
  ASSUME NEW v, NEW w, NEW E, NEW events \in Seq(E), NEW Q,
         <<v, w>> \in Q[0],
         \A n \in 1..Len(events) : \A a, b :
           <<a, b>> \in Q[n - 1] => <<Apply(a, events[n]), Apply(b, events[n])>> \in Q[n]
  PROVE  <<Fold(v, events), Fold(w, events)>> \in Q[Len(events)]
<1> DEFINE k == Len(events)
<1>0. k \in Nat
  OBVIOUS
<1> HIDE DEF k
<1>1. \A x : \E f : FoldsTo(f, x, events, k)
  BY <1>0, FoldExists
<1> DEFINE F(x) == CHOOSE f : FoldsTo(f, x, events, k)
<1>2. \A x : FoldsTo(F(x), x, events, k)
  BY <1>1
<1>3. \A x : Fold(x, events) = F(x)[k]
  BY DEF Fold, FoldsTo, k
<1> HIDE DEF F
<1>4. \A x : F(x)[0] = x /\ \A n \in 1..k : F(x)[n] = Apply(F(x)[n - 1], events[n])
  BY <1>0, <1>2 DEF FoldsTo
<1> DEFINE Bad == {n \in 0..k : <<F(v)[n], F(w)[n]>> \notin Q[n]}
<1>5. Bad = {}
  <2> SUFFICES ASSUME Bad # {} PROVE FALSE
    OBVIOUS
  <2>1. Bad \subseteq Nat
    BY <1>0
  <2>2. PICK n \in Bad : \A m \in Bad : n <= m
    BY <2>1, LeastNumber
  <2>3. n # 0
    BY <1>4
  <2>4. n \in 1..k /\ n - 1 \in 0..k /\ ~(n <= n - 1)
    BY <1>0, <2>3
  <2>5. <<F(v)[n - 1], F(w)[n - 1]>> \in Q[n - 1]
    BY <2>2, <2>4
  <2> QED
    BY <1>4, <2>4, <2>5 DEF k
<1>6. <<F(v)[k], F(w)[k]>> \in Q[k]
  BY <1>0, <1>5
<1> QED
  BY <1>3, <1>6 DEF k
-------------------------------------------------------------------------------
Status == {"PENDING", "ACTIVE", "SUSPENDED", "AWAITING_HUMAN", "INTERRUPTED"} \cup Terminal
TaskState == [status : Status, parent : Task \cup {None}, owner : Agent \cup {None},
              canceled : BOOLEAN, finalized : BOOLEAN, full : BOOLEAN]
View == [tasks : UNION {[known -> TaskState] : known \in SUBSET Task},
         runs : SUBSET Task, asks : SUBSET Task, answered : SUBSET Task, observe : SUBSET Task,
         agents : [Agent -> [status : {AgentStatusBy[e] : e \in DOMAIN AgentStatusBy},
                             current : Task \cup {None}]]]
Questions == {"HitlOpened", "HitlResolved", "HitlCancelled", "HitlClosed"}
EventType == DOMAIN StatusBy \cup DOMAIN AgentStatusBy \cup Questions \cup
             {"TaskCreated", "TaskFinalized", "RunStarted", "RunFinished", "ObserveApplied"}
LogEvent == {e \in [type : EventType, task : Task \cup {None}, who : Agent \cup {None}] :
               e.type \notin DOMAIN AgentStatusBy => e.task \in Task}
TaskMap == UNION {[known -> TaskState] : known \in SUBSET Task}

\* The names of the events and what they lead to.
LEMMA StatusNames ==
  /\ DOMAIN StatusBy = {"TaskStarted", "TaskSuspended", "TaskAwaitingHuman", "TaskInterrupted",
                        "TaskFinished", "TaskFailed", "TaskCanceled", "TaskResumed",
                        "TaskRequeued", "TaskHumanResolved"}
  /\ \A type \in DOMAIN StatusBy : StatusBy[type] \in Status
  /\ DOMAIN AgentStatusBy = {"AgentRunning", "AgentIdle", "AgentTerminated", "AgentWaitingHuman",
                             "AgentInterrupted"}
BY DEF StatusBy, AgentStatusBy, Status, Terminal

\* What a map of tasks is.
LEMMA TaskMaps ==
  ASSUME NEW f
  PROVE  f \in TaskMap <=> /\ f = [t \in DOMAIN f |-> f[t]] /\ DOMAIN f \subseteq Task
                           /\ \A t \in DOMAIN f : f[t] \in TaskState
<1>1. ASSUME f \in TaskMap
      PROVE  /\ f = [t \in DOMAIN f |-> f[t]] /\ DOMAIN f \subseteq Task
             /\ \A t \in DOMAIN f : f[t] \in TaskState
  <2>1. PICK known \in SUBSET Task : f \in [known -> TaskState]
    BY <1>1 DEF TaskMap
  <2> QED
    BY <2>1
<1>2. ASSUME f = [t \in DOMAIN f |-> f[t]], DOMAIN f \subseteq Task,
             \A t \in DOMAIN f : f[t] \in TaskState
      PROVE  f \in TaskMap
  <2>1. f \in [DOMAIN f -> TaskState]
    BY <1>2
  <2> QED
    BY <1>2, <2>1 DEF TaskMap
<1> QED
  BY <1>1, <1>2

\* The parts of a view.
LEMMA ViewParts ==
  ASSUME NEW v \in View
  PROVE  /\ v = [tasks |-> v.tasks, runs |-> v.runs, asks |-> v.asks, answered |-> v.answered,
                 observe |-> v.observe, agents |-> v.agents]
         /\ v.tasks \in TaskMap /\ DOMAIN v.tasks \subseteq Task
         /\ v.tasks = [t \in DOMAIN v.tasks |-> v.tasks[t]]
         /\ \A t \in DOMAIN v.tasks : v.tasks[t] \in TaskState
         /\ v.runs \subseteq Task /\ v.asks \subseteq Task /\ v.answered \subseteq Task
         /\ v.observe \subseteq Task
         /\ v.agents \in [Agent -> [status : {AgentStatusBy[e] : e \in DOMAIN AgentStatusBy},
                                    current : Task \cup {None}]]
<1>1. v.tasks \in TaskMap
  BY DEF View, TaskMap
<1>2. /\ v.tasks = [t \in DOMAIN v.tasks |-> v.tasks[t]] /\ DOMAIN v.tasks \subseteq Task
      /\ \A t \in DOMAIN v.tasks : v.tasks[t] \in TaskState
  BY <1>1, TaskMaps
<1> QED
  BY <1>1, <1>2 DEF View

\* A task at its creation.
LEMMA CreatedTyped ==
  ASSUME shape \in Shape, NEW t \in Task
  PROVE  /\ Created(t) \in TaskState /\ Created(t).status = "PENDING"
         /\ ~Created(t).canceled /\ shape.agent[t] \in Agent
<1>1. /\ shape.parent \in [Task -> Task \cup {None}] /\ shape.agent \in [Task -> Agent]
  BY RecoveryAssumption
<1> QED
  BY <1>1, RecoveryAssumption DEF Created, TaskState, Status

\* What an event leaves of a task.
LEMMA TaskAfterTyped ==
  ASSUME shape \in Shape, NEW task \in TaskState, NEW e \in LogEvent
  PROVE  /\ TaskAfter(task, e) \in TaskState
         /\ TaskAfter(task, e).status = IF e.type \in DOMAIN StatusBy THEN StatusBy[e.type] ELSE task.status
         /\ e.type \notin DOMAIN StatusBy /\ task.status = "CANCELED" => TaskAfter(task, e).canceled = task.canceled
         /\ e.type = "TaskCanceled" => TaskAfter(task, e).canceled = (e.who # None)
<1> USE DEF TaskState
<1>1. CASE e.type \in DOMAIN StatusBy
  <2>1. e.type \notin DOMAIN AgentStatusBy /\ e.task \in Task
    BY <1>1, StatusNames DEF LogEvent
  <2>2. shape.agent[e.task] \in Agent
    BY <2>1, CreatedTyped
  <2>3. StatusBy[e.type] \in Status
    BY <1>1, StatusNames
  <2> DEFINE owner == IF e.type = "TaskStarted" THEN shape.agent[e.task] ELSE task.owner
             canceled == CASE e.type = "TaskCanceled" -> e.who # None
                           [] e.type = "TaskFailed" -> FALSE
                           [] OTHER -> task.canceled
             finalized == task.finalized /\ e.type # "TaskCanceled"
  <2>4. TaskAfter(task, e) = [task EXCEPT !.status = StatusBy[e.type], !.owner = owner,
                                          !.canceled = canceled, !.finalized = finalized]
    BY <1>1 DEF TaskAfter
  <2>5. owner \in Agent \cup {None} /\ canceled \in BOOLEAN /\ finalized \in BOOLEAN
    BY <2>2
  <2>6. e.type = "TaskCanceled" => canceled = (e.who # None)
    OBVIOUS
  <2> HIDE DEF owner, canceled, finalized
  <2> QED
    BY <1>1, <2>3, <2>4, <2>5, <2>6
<1>2. CASE e.type \notin DOMAIN StatusBy
  <2>1. e.type # "TaskCanceled"
    BY <1>2, StatusNames
  <2> QED
    BY <1>2, <2>1 DEF TaskAfter, Terminal
<1> QED
  BY <1>1, <1>2

\* Events keep a view a view.
LEMMA ApplyTyped ==
  ASSUME shape \in Shape, NEW v \in View, NEW e \in LogEvent
  PROVE  Apply(v, e) \in View
<1> DEFINE w == Apply(v, e)
<1>1. w.tasks \in TaskMap
  <2>1. CASE e.type = "TaskCreated"
    <3>1. e.task \in Task
      BY <2>1, StatusNames DEF LogEvent
    <3>2. w.tasks = [t \in DOMAIN v.tasks \cup {e.task} |-> IF t = e.task THEN Created(t) ELSE v.tasks[t]]
      BY <2>1 DEF Apply
    <3> DEFINE f == [t \in DOMAIN v.tasks \cup {e.task} |-> IF t = e.task THEN Created(t) ELSE v.tasks[t]]
    <3>3. /\ DOMAIN f \subseteq Task /\ f = [t \in DOMAIN f |-> f[t]]
          /\ \A t \in DOMAIN f : f[t] \in TaskState
      BY <3>1, ViewParts, CreatedTyped
    <3> HIDE DEF f
    <3>4. f \in TaskMap
      BY <3>3, TaskMaps
    <3> QED
      BY <3>2, <3>4 DEF f
  <2>2. CASE e.type # "TaskCreated" /\ e.task \in DOMAIN v.tasks
    <3>1. w.tasks = [v.tasks EXCEPT ![e.task] = TaskAfter(v.tasks[e.task], e)]
      BY <2>2 DEF Apply
    <3>2. TaskAfter(v.tasks[e.task], e) \in TaskState
      BY <2>2, ViewParts, TaskAfterTyped
    <3> DEFINE f == [v.tasks EXCEPT ![e.task] = TaskAfter(v.tasks[e.task], e)]
    <3>3. /\ DOMAIN f \subseteq Task /\ f = [t \in DOMAIN f |-> f[t]]
          /\ \A t \in DOMAIN f : f[t] \in TaskState
      BY <2>2, <3>2, ViewParts
    <3> HIDE DEF f
    <3>4. f \in TaskMap
      BY <3>3, TaskMaps
    <3> QED
      BY <3>1, <3>4 DEF f
  <2>3. CASE e.type # "TaskCreated" /\ e.task \notin DOMAIN v.tasks
    BY <2>3, ViewParts DEF Apply
  <2> QED
    BY <2>1, <2>2, <2>3
<1>2. AgentsAfter(v, e) \in [Agent -> [status : {AgentStatusBy[n] : n \in DOMAIN AgentStatusBy},
                                       current : Task \cup {None}]]
  <2> DEFINE root == e.type = "TaskCreated" /\ shape.parent[e.task] = None
             a == IF root THEN shape.agent[e.task] ELSE e.who
             after == [status |-> IF root THEN v.agents[a].status ELSE AgentStatusBy[e.type],
                       current |-> IF e.task = None THEN v.agents[a].current ELSE e.task]
  <2>1. AgentsAfter(v, e) = IF ~(root \/ e.type \in DOMAIN AgentStatusBy) \/ v.agents[a].status = "terminated"
                            THEN v.agents ELSE [v.agents EXCEPT ![a] = after]
    BY DEF AgentsAfter
  <2>2. e.task \in Task \cup {None}
    BY DEF LogEvent
  <2>3. a \in Agent /\ (root \/ e.type \in DOMAIN AgentStatusBy) =>
          after \in [status : {AgentStatusBy[n] : n \in DOMAIN AgentStatusBy}, current : Task \cup {None}]
    <3> SUFFICES ASSUME a \in Agent, root \/ e.type \in DOMAIN AgentStatusBy
                 PROVE  after \in [status : {AgentStatusBy[n] : n \in DOMAIN AgentStatusBy},
                                   current : Task \cup {None}]
      OBVIOUS
    <3> HIDE DEF a, root
    <3>1. /\ v.agents[a].status \in {AgentStatusBy[n] : n \in DOMAIN AgentStatusBy}
          /\ v.agents[a].current \in Task \cup {None}
      BY ViewParts
    <3>2. /\ after.status \in {AgentStatusBy[n] : n \in DOMAIN AgentStatusBy}
          /\ after.current \in Task \cup {None}
      BY <2>2, <3>1
    <3> QED
      BY <3>2
  <2> HIDE DEF after, a, root
  <2> QED
    BY <2>1, <2>3, ViewParts
<1>3. e.task \in Task \/ e.type \in DOMAIN AgentStatusBy
  BY DEF LogEvent
<1>4. /\ RunsAfter(v, e) \subseteq Task /\ AsksAfter(v, e) \subseteq Task
      /\ AnsweredAfter(v, e) \subseteq Task /\ ObserveAfter(v, e) \subseteq Task
  BY <1>3, ViewParts, StatusNames DEF RunsAfter, AsksAfter, AnsweredAfter, ObserveAfter, Tracked
<1> QED
  BY <1>1, <1>2, <1>4 DEF Apply, View, TaskMap

\* What an event does to the tasks of a view.
LEMMA ApplyTasks ==
  ASSUME shape \in Shape, NEW v \in View, NEW e \in LogEvent
  PROVE  /\ e.type = "TaskCreated" => DOMAIN Apply(v, e).tasks = DOMAIN v.tasks \cup {e.task}
         /\ e.type # "TaskCreated" => DOMAIN Apply(v, e).tasks = DOMAIN v.tasks
         /\ e.type = "TaskCreated" => e.task \in Task /\ Apply(v, e).tasks[e.task] = Created(e.task)
         /\ \A u \in DOMAIN v.tasks :
              /\ u # e.task => Apply(v, e).tasks[u] = v.tasks[u]
              /\ u = e.task /\ e.type # "TaskCreated" => Apply(v, e).tasks[u] = TaskAfter(v.tasks[u], e)
<1>1. v.tasks = [t \in DOMAIN v.tasks |-> v.tasks[t]]
  BY ViewParts
<1>2. CASE e.type = "TaskCreated"
  <2>1. Apply(v, e).tasks = [t \in DOMAIN v.tasks \cup {e.task} |-> IF t = e.task THEN Created(t) ELSE v.tasks[t]]
    BY <1>2 DEF Apply
  <2>2. e.task \in Task
    BY <1>2, StatusNames DEF LogEvent
  <2> QED
    BY <1>2, <2>1, <2>2
<1>3. CASE e.type # "TaskCreated"
  <2>1. Apply(v, e).tasks = IF e.task \in DOMAIN v.tasks
                            THEN [v.tasks EXCEPT ![e.task] = TaskAfter(v.tasks[e.task], e)] ELSE v.tasks
    BY <1>3 DEF Apply
  <2> QED
    BY <1>1, <1>3, <2>1
<1> QED
  BY <1>2, <1>3

\* What an event does to the questions of a view.
LEMMA ApplyQuestions ==
  ASSUME NEW v, NEW e
  PROVE  /\ Apply(v, e).asks = AsksAfter(v, e) /\ Apply(v, e).answered = AnsweredAfter(v, e)
         /\ e.type \notin Questions => Apply(v, e).asks = v.asks /\ Apply(v, e).answered = v.answered
BY DEF Apply, AsksAfter, AnsweredAfter, Tracked, Questions

\* What an event does to the rest of a view.
LEMMA ApplyRest ==
  ASSUME NEW x, NEW v, NEW e, x.runs = v.runs, x.observe = v.observe, x.agents = v.agents
  PROVE  /\ Apply(x, e).runs = Apply(v, e).runs /\ Apply(x, e).observe = Apply(v, e).observe
         /\ Apply(x, e).agents = Apply(v, e).agents
<1>1. /\ RunsAfter(x, e) = RunsAfter(v, e) /\ ObserveAfter(x, e) = ObserveAfter(v, e)
      /\ AgentsAfter(x, e) = AgentsAfter(v, e)
  BY DEF RunsAfter, ObserveAfter, AgentsAfter
<1> QED
  BY <1>1 DEF Apply

\* What a snapshot has of a task: the whole of it, or its status.
Matches(task, whole) == task.status = whole.status /\ (task.full => task = whole)

LEMMA TaskAfterMatches ==
  ASSUME shape \in Shape, NEW task \in TaskState, NEW whole \in TaskState, Matches(task, whole),
         NEW e \in LogEvent
  PROVE  Matches(TaskAfter(task, e), TaskAfter(whole, e))
<1>1. TaskAfter(task, e).full = task.full
  BY DEF TaskAfter, TaskState
<1>2. TaskAfter(task, e).status = TaskAfter(whole, e).status
  BY TaskAfterTyped DEF Matches
<1> QED
  BY <1>1, <1>2 DEF Matches

\* A view of a snapshot knows of the tasks it has what the whole log knows, and all of the
\* questions, runs, observations and agents.
Agrees(x, v) ==
  /\ x.asks = v.asks /\ x.answered = v.answered
  /\ x.runs = v.runs /\ x.observe = v.observe /\ x.agents = v.agents
  /\ DOMAIN x.tasks \subseteq DOMAIN v.tasks
  /\ \A t \in DOMAIN x.tasks : Matches(x.tasks[t], v.tasks[t])

LEMMA ApplyAgrees ==
  ASSUME shape \in Shape, NEW x \in View, NEW v \in View, Agrees(x, v), NEW e \in LogEvent
  PROVE  Agrees(Apply(x, e), Apply(v, e))
<1>1. /\ Apply(x, e).asks = Apply(v, e).asks /\ Apply(x, e).answered = Apply(v, e).answered
  <2>1. AsksAfter(x, e) = AsksAfter(v, e) /\ AnsweredAfter(x, e) = AnsweredAfter(v, e)
    BY DEF Agrees, AsksAfter, AnsweredAfter
  <2> QED
    BY <2>1, ApplyQuestions
<1>2. DOMAIN Apply(x, e).tasks \subseteq DOMAIN Apply(v, e).tasks
  BY ApplyTasks DEF Agrees
<1>3. ASSUME NEW t \in DOMAIN Apply(x, e).tasks
      PROVE  Matches(Apply(x, e).tasks[t], Apply(v, e).tasks[t])
  <2>1. CASE t = e.task /\ e.type = "TaskCreated"
    <3>1. Apply(x, e).tasks[e.task] = Created(e.task) /\ Apply(v, e).tasks[e.task] = Created(e.task)
      BY <2>1, ApplyTasks
    <3> QED
      BY <2>1, <3>1 DEF Matches
  <2>2. CASE t = e.task /\ e.type # "TaskCreated"
    <3>1. t \in DOMAIN x.tasks /\ t \in DOMAIN v.tasks /\ Matches(x.tasks[t], v.tasks[t])
      BY <1>3, <2>2, ApplyTasks DEF Agrees
    <3>2. /\ Apply(x, e).tasks[t] = TaskAfter(x.tasks[t], e) /\ Apply(v, e).tasks[t] = TaskAfter(v.tasks[t], e)
      BY <2>2, <3>1, ApplyTasks
    <3>3. x.tasks[t] \in TaskState /\ v.tasks[t] \in TaskState
      BY <3>1, ViewParts
    <3> QED
      BY <3>1, <3>2, <3>3, TaskAfterMatches
  <2>3. CASE t # e.task
    <3>1. t \in DOMAIN x.tasks /\ t \in DOMAIN v.tasks /\ Matches(x.tasks[t], v.tasks[t])
      BY <1>3, <2>3, ApplyTasks DEF Agrees
    <3> QED
      BY <2>3, <3>1, ApplyTasks
  <2> QED
    BY <2>1, <2>2, <2>3
<1>4. /\ Apply(x, e).runs = Apply(v, e).runs /\ Apply(x, e).observe = Apply(v, e).observe
      /\ Apply(x, e).agents = Apply(v, e).agents
  BY ApplyRest DEF Agrees
<1> QED
  BY <1>1, <1>2, <1>3, <1>4 DEF Agrees

\* From v to w the tasks outside of T have stayed what they are.
Steady(v, w, T) ==
  /\ DOMAIN v.tasks \subseteq DOMAIN w.tasks /\ DOMAIN w.tasks \subseteq DOMAIN v.tasks \cup T
  /\ \A u \in DOMAIN v.tasks \ T :
       /\ w.tasks[u].status = v.tasks[u].status
       /\ v.tasks[u].status = "CANCELED" => w.tasks[u].canceled = v.tasks[u].canceled

About(T) == {e \in LogEvent : e.type \in DOMAIN StatusBy \cup {"TaskCreated"} => e.task \in T}

\* Which events are about the tasks of T.
LEMMA WhatIsAbout ==
  ASSUME NEW T, NEW e
  PROVE  e \in About(T) <=> e \in LogEvent /\ (e.type \in DOMAIN StatusBy \cup {"TaskCreated"} => e.task \in T)
BY Zenon DEF About

LEMMA ApplySteady ==
  ASSUME shape \in Shape, NEW v \in View, NEW w \in View, NEW T, Steady(v, w, T), NEW e \in About(T)
  PROVE  Steady(v, Apply(w, e), T)
<1>1. e \in LogEvent
  BY DEF About
<1>2. DOMAIN v.tasks \subseteq DOMAIN Apply(w, e).tasks /\ DOMAIN Apply(w, e).tasks \subseteq DOMAIN v.tasks \cup T
  BY <1>1, ApplyTasks DEF Steady, About
<1>3. ASSUME NEW u \in DOMAIN v.tasks \ T
      PROVE  /\ Apply(w, e).tasks[u].status = v.tasks[u].status
             /\ v.tasks[u].status = "CANCELED" => Apply(w, e).tasks[u].canceled = v.tasks[u].canceled
  <2>1. /\ u \in DOMAIN w.tasks /\ w.tasks[u].status = v.tasks[u].status
        /\ v.tasks[u].status = "CANCELED" => w.tasks[u].canceled = v.tasks[u].canceled
    BY DEF Steady
  <2>2. CASE u # e.task
    BY <1>1, <2>1, <2>2, ApplyTasks
  <2>3. CASE u = e.task
    <3>1. e.type \notin DOMAIN StatusBy /\ e.type # "TaskCreated"
      BY <2>3 DEF About
    <3>2. w.tasks[u] \in TaskState
      BY <2>1, ViewParts
    <3>3. Apply(w, e).tasks[u] = TaskAfter(w.tasks[u], e)
      BY <1>1, <2>1, <2>3, <3>1, ApplyTasks
    <3> QED
      BY <1>1, <2>1, <3>1, <3>2, <3>3, TaskAfterTyped
  <2> QED
    BY <2>2, <2>3
<1> QED
  BY <1>2, <1>3 DEF Steady

\* What holds of two views and is kept by every event of a sequence.
LEMMA FoldKeepsPairs ==
  ASSUME NEW v, NEW w, NEW E, NEW events \in Seq(E), NEW P, <<v, w>> \in P,
         \A a, b : \A e \in E : <<a, b>> \in P => <<Apply(a, e), Apply(b, e)>> \in P
  PROVE  <<Fold(v, events), Fold(w, events)>> \in P
<1> DEFINE Q == [n \in 0..Len(events) |-> P]
<1>1. Len(events) \in Nat /\ \A n \in 1..Len(events) : events[n] \in E
  OBVIOUS
<1>2. \A n \in 0..Len(events) : Q[n] = P
  OBVIOUS
<1>3. <<v, w>> \in Q[0] /\ Q[Len(events)] = P
  BY <1>1, <1>2
<1>4. \A n \in 1..Len(events) : \A a, b :
        <<a, b>> \in Q[n - 1] => <<Apply(a, events[n]), Apply(b, events[n])>> \in Q[n]
  <2> TAKE n \in 1..Len(events)
  <2>1. Q[n - 1] = P /\ Q[n] = P /\ events[n] \in E
    BY <1>1, <1>2
  <2> QED
    BY <2>1
<1> HIDE DEF Q
<1>5. <<Fold(v, events), Fold(w, events)>> \in Q[Len(events)]
  BY <1>3, <1>4, FoldKeeps
<1> QED
  BY <1>3, <1>5

\* The fold of one event.
LEMMA FoldOne ==
  ASSUME NEW v, NEW e
  PROVE  Fold(v, <<e>>) = Apply(v, e)
<1> DEFINE Q == [n \in 0..1 |-> IF n = 0 THEN {<<v, v>>} ELSE {<<Apply(v, e), Apply(v, e)>>}]
<1>1. <<e>> \in Seq({e}) /\ Len(<<e>>) = 1 /\ <<e>>[1] = e
  OBVIOUS
<1>2. <<v, v>> \in Q[0] /\ Q[1] = {<<Apply(v, e), Apply(v, e)>>}
  OBVIOUS
<1>3. \A n \in 1..Len(<<e>>) : \A a, b :
        <<a, b>> \in Q[n - 1] => <<Apply(a, <<e>>[n]), Apply(b, <<e>>[n])>> \in Q[n]
  <2> TAKE n \in 1..Len(<<e>>)
  <2>1. n = 1 /\ n - 1 = 0
    BY <1>1
  <2>2. Q[0] = {<<v, v>>}
    OBVIOUS
  <2> QED
    BY <1>1, <1>2, <2>1, <2>2
<1> HIDE DEF Q
<1>4. <<Fold(v, <<e>>), Fold(v, <<e>>)>> \in Q[1]
  BY <1>1, <1>2, <1>3, FoldKeeps
<1> QED
  BY <1>2, <1>4

\* A fold of a view is a view.
LEMMA FoldTyped ==
  ASSUME shape \in Shape, NEW v \in View, NEW events \in Seq(LogEvent)
  PROVE  Fold(v, events) \in View
<1> DEFINE P == View \X View
<1>1. \A a, b : \A e \in LogEvent : <<a, b>> \in P => <<Apply(a, e), Apply(b, e)>> \in P
  BY ApplyTyped
<1>2. <<v, v>> \in P
  OBVIOUS
<1> HIDE DEF P
<1>3. <<Fold(v, events), Fold(v, events)>> \in P
  BY <1>1, <1>2, FoldKeepsPairs
<1> QED
  BY <1>3 DEF P

\* The same events keep two views in agreement.
LEMMA FoldAgrees ==
  ASSUME shape \in Shape, NEW x \in View, NEW v \in View, Agrees(x, v), NEW events \in Seq(LogEvent)
  PROVE  Agrees(Fold(x, events), Fold(v, events))
<1> DEFINE P == {p \in View \X View : Agrees(p[1], p[2])}
<1>1. \A a, b : \A e \in LogEvent : <<a, b>> \in P => <<Apply(a, e), Apply(b, e)>> \in P
  BY ApplyTyped, ApplyAgrees
<1>2. <<x, v>> \in P
  OBVIOUS
<1> HIDE DEF P
<1>3. <<Fold(x, events), Fold(v, events)>> \in P
  BY <1>1, <1>2, FoldKeepsPairs
<1> QED
  BY <1>3 DEF P

\* Events about the tasks of T touch no others.
LEMMA FoldSteady ==
  ASSUME shape \in Shape, NEW v \in View, NEW T, NEW events \in Seq(About(T))
  PROVE  Fold(v, events) \in View /\ Steady(v, Fold(v, events), T)
<1> DEFINE P == {p \in View \X View : Steady(v, p[1], T)}
<1>1. \A a, b : \A e \in About(T) : <<a, b>> \in P => <<Apply(a, e), Apply(b, e)>> \in P
  <2>1. About(T) \subseteq LogEvent
    BY DEF About
  <2> QED
    BY <2>1, ApplyTyped, ApplySteady
<1>2. <<v, v>> \in P
  BY DEF Steady
<1> HIDE DEF P
<1>3. <<Fold(v, events), Fold(v, events)>> \in P
  BY <1>1, <1>2, FoldKeepsPairs
<1> QED
  BY <1>3 DEF P

\* Events that are not about questions leave them alone.
Quiet == {e \in LogEvent : e.type \notin Questions}
LEMMA FoldQuiet ==
  ASSUME shape \in Shape, NEW v \in View, NEW events \in Seq(Quiet)
  PROVE  Fold(v, events).asks = v.asks /\ Fold(v, events).answered = v.answered
<1> DEFINE P == {p \in View \X View : p[1].asks = v.asks /\ p[1].answered = v.answered}
<1>1. \A a, b : \A e \in Quiet : <<a, b>> \in P => <<Apply(a, e), Apply(b, e)>> \in P
  BY ApplyTyped, ApplyQuestions DEF Quiet
<1>2. <<v, v>> \in P
  OBVIOUS
<1> HIDE DEF P
<1>3. <<Fold(v, events), Fold(v, events)>> \in P
  BY <1>1, <1>2, FoldKeepsPairs
<1> QED
  BY <1>3 DEF P
-------------------------------------------------------------------------------
Item == [kind : {"message", "answer", "reply"}, task : Task]
Snapshot == [view : View, startup : View, depth : Nat]
Writing == [by : Task \cup {None}, step : {"head", "check", "append"}, view : View,
            startup : View, depth : Nat, told : SUBSET Item]
Owing == [agent : Agent \cup {None}, to : {"running", "waiting_human", "interrupted", "idle"},
          task : Task]
Place == {"off", "window", "turn", "store", "close", "queued", "ready", "start", "run", "said",
          "spoken", "end", "settle", "spawn"}

RecoveryTypeOK ==
  /\ shape \in Shape /\ truth \in View /\ base \in Snapshot \cup {None}
  /\ write \in Writing \cup {None}
  /\ up \in {"down", "cold", "loaded", "up"} /\ at \in [Task -> Place]
  /\ result \in [Task -> DOMAIN StatusBy \cup {None}] /\ current \in [Agent -> Task \cup {None}]
  /\ owed \subseteq Owing /\ missing \subseteq Item /\ declared \subseteq Item
  /\ budget \in [{"crashes", "snapshots", "upsets"} -> Nat]

Canceled(t) == t \in DOMAIN truth.tasks /\ truth.tasks[t].status = "CANCELED"

\* Both views of a snapshot know what the log knows.
Faithful(w, v) ==
  w # None => Agrees(w.view, v) /\ Agrees(w.startup, v)
SnapshotsAgree ==
  /\ Faithful(base, truth)
  /\ write # None /\ write.step # "head" => Faithful(write, truth)

\* A task that is on its way is not canceled, is known once its round is committed, and
\* has come to something when it settles.
InPlaceOf(t) ==
  at[t] # "off" =>
    /\ ~Canceled(t)
    /\ at[t] \notin {"window", "turn"} => t \in DOMAIN truth.tasks
    /\ at[t] \in {"end", "settle"} => result[t] \in DOMAIN StatusBy
    /\ at[t] = "queued" => t \notin truth.asks
InPlace ==
  /\ up # "up" => at = Idle
  /\ \A t \in Task : InPlaceOf(t)

\* A question is of a known task; of a canceled one only if it was canceled with its agent.
AskedAreKnown ==
  \A t \in truth.asks : t \in DOMAIN truth.tasks /\ (Canceled(t) => truth.tasks[t].canceled)

\* Who still writes an input that is not in memory: the round that committed it, or the
\* recovery, which finds an answer among those that are not closed.
Awaited(m) ==
  /\ up = "up" => at[m.task] = "store"
  /\ up = "loaded" => m.kind = "answer"
  /\ m.kind = "answer" => /\ m.task \in truth.answered
                          /\ truth.tasks[m.task].status \notin {"FINISHED", "FAILED"}

MissingIsAwaited ==
  \A m \in missing : /\ m.task \in DOMAIN truth.tasks
                     /\ m.kind = "reply" \/ Canceled(m.task) \/ Awaited(m)

\* Of what a snapshot declares, or is about to declare, only the inputs and replies of
\* canceled tasks are not in memory.
DeclaredIsCanceled == \A m \in declared : Canceled(m.task)
ToldIsCanceled ==
  write # None /\ write.step = "append" => \A m \in write.told \cap missing : Canceled(m.task)

RecoveryInductive ==
  /\ RecoveryTypeOK /\ SnapshotsAgree /\ InPlace /\ AskedAreKnown
  /\ MissingIsAwaited /\ DeclaredIsCanceled /\ ToldIsCanceled

\* The fold of a snapshot goes on with that of the log.
LEMMA ProgressKeeps ==
  ASSUME shape \in Shape, NEW v \in View, NEW events \in Seq(LogEvent),
         NEW w, w \in Snapshot \/ w \in Writing, Faithful(w, v), w # None
  PROVE  /\ w \in Snapshot => Progress(w, events) \in Snapshot
         /\ w \in Writing => /\ Progress(w, events) \in Writing
                             /\ Progress(w, events).step = w.step
                             /\ Progress(w, events).told = w.told
         /\ Faithful(Progress(w, events), Fold(v, events))
<1>1. w.view \in View /\ w.startup \in View
  <2>1. CASE w \in Snapshot
    BY <2>1 DEF Snapshot
  <2>2. CASE w \in Writing
    BY <2>2 DEF Writing
  <2> QED
    BY <2>1, <2>2
<1>2. Fold(w.view, events) \in View /\ Fold(w.startup, events) \in View
  BY <1>1, FoldTyped
<1>3. Agrees(Fold(w.view, events), Fold(v, events)) /\ Agrees(Fold(w.startup, events), Fold(v, events))
  BY <1>1, FoldAgrees DEF Faithful
<1>4. Progress(w, events) = [w EXCEPT !.view = Fold(w.view, events), !.startup = Fold(w.startup, events)]
  BY DEF Progress
<1>5. CASE w \in Snapshot
  <2>1. Progress(w, events) \in Snapshot /\ Progress(w, events).view = Fold(w.view, events)
        /\ Progress(w, events).startup = Fold(w.startup, events)
    BY <1>2, <1>4, <1>5 DEF Snapshot
  <2>2. w \in Writing => Progress(w, events).step = w.step /\ Progress(w, events).told = w.told
    BY <1>4 DEF Writing
  <2>3. w \in Writing => Progress(w, events) \in Writing
    BY <1>2, <1>4 DEF Writing
  <2> QED
    BY <1>3, <2>1, <2>2, <2>3 DEF Faithful
<1>6. CASE w \in Writing
  <2>1. /\ Progress(w, events).view = Fold(w.view, events)
        /\ Progress(w, events).startup = Fold(w.startup, events)
        /\ Progress(w, events).step = w.step /\ Progress(w, events).told = w.told
    BY <1>4, <1>6 DEF Writing
  <2>2. w \in Snapshot => Progress(w, events) \in Snapshot
    BY <1>2, <1>4 DEF Snapshot
  <2>3. Progress(w, events) \in Writing
    BY <1>2, <1>4, <1>6 DEF Writing
  <2> QED
    BY <1>3, <2>1, <2>2, <2>3 DEF Faithful
<1> QED
  BY <1>5, <1>6

\* What is stored reaches every fold of the log.
LEMMA Logged ==
  ASSUME shape \in Shape, truth \in View, base \in Snapshot \cup {None}, Faithful(base, truth),
         NEW events \in Seq(LogEvent), NEW w \in Writing \cup {None},
         w # None /\ w.step # "head" => Faithful(w, truth), LogBeside(events, w)
  PROVE  /\ truth' \in View /\ base' \in Snapshot \cup {None} /\ write' \in Writing \cup {None}
         /\ SnapshotsAgree'
         /\ write' # None => w # None /\ write'.step = w.step /\ write'.told = w.told
<1>1. truth' = Fold(truth, events) /\ base' = Progress(base, events)
      /\ write' = IF w # None /\ w.step = "head" THEN w ELSE Progress(w, events)
  BY DEF LogBeside
<1>2. truth' \in View
  BY <1>1, FoldTyped
<1>3. base' \in Snapshot \cup {None} /\ Faithful(base', truth')
  <2>1. CASE base = None
    BY <1>1, <2>1 DEF Progress, Faithful
  <2>2. CASE base # None
    BY <1>1, <2>2, ProgressKeeps
  <2> QED
    BY <2>1, <2>2
<1>4. /\ write' \in Writing \cup {None}
      /\ write' # None /\ write'.step # "head" => Faithful(write', truth')
      /\ write' # None => w # None /\ write'.step = w.step /\ write'.told = w.told
  <2>1. CASE w = None
    BY <1>1, <2>1 DEF Progress, Faithful
  <2>2. CASE w # None /\ w.step = "head"
    BY <1>1, <2>2
  <2>3. CASE w # None /\ w.step # "head"
    <3>1. w \in Writing /\ Faithful(w, truth)
      BY <2>3
    <3>2. /\ Progress(w, events) \in Writing /\ Faithful(Progress(w, events), Fold(truth, events))
          /\ Progress(w, events).step = w.step /\ Progress(w, events).told = w.told
      BY <2>3, <3>1, ProgressKeeps
    <3> QED
      BY <1>1, <2>3, <3>2
  <2> QED
    BY <2>1, <2>2, <2>3
<1> QED
  BY <1>2, <1>3, <1>4 DEF SnapshotsAgree
-------------------------------------------------------------------------------
\* A finite set can be written as a sequence.
LEMMA SetAsSequence ==
  ASSUME NEW S, IsFiniteSet(S)
  PROVE  SetToSeq(S) \in Seq(S)
<1>1. PICK n \in Nat : ExistsBijection(1..n, S)
  BY FS_NatBijection
<1>2. Cardinality(S) = n
  BY <1>1, FS_CountingElements
<1>3. PICK f \in Bijection(1..n, S) : TRUE
  BY <1>1 DEF ExistsBijection
<1>4. f \in [1..Cardinality(S) -> S] /\ IsInjective(f)
  BY <1>2, <1>3 DEF Bijection, Injection, IsInjective
<1>5. SetToSeq(S) \in [1..Cardinality(S) -> S]
  BY <1>4, Zenon DEF SetToSeq
<1>6. SetToSeq(S) \in [1..n -> S]
  BY <1>2, <1>5
<1> HIDE DEF SetToSeq
<1> QED
  BY <1>6

\* What a finite set is mapped to is finite.
LEMMA FiniteImage ==
  ASSUME NEW S, IsFiniteSet(S), NEW f
  PROVE  IsFiniteSet({f[x] : x \in S})
<1> DEFINE T == {f[x] : x \in S}
           g == [x \in S |-> f[x]]
<1>1. g \in Surjection(S, T)
  BY DEF Surjection
<1> QED
  BY <1>1, FS_Surjection

\* The event with which an agent gets to a status.
TypeTo(status) == CHOOSE e \in DOMAIN AgentStatusBy : AgentStatusBy[e] = status

LEMMA MoveTyped ==
  ASSUME NEW v, NEW a, NEW t,
         NEW status \in {"running", "waiting_human", "interrupted", "idle"}
  PROVE  /\ TypeTo(status) \in DOMAIN AgentStatusBy
         /\ Move(v, a, status, t) \in Seq({By(a, TypeTo(status), t)})
<1>1. \E e \in DOMAIN AgentStatusBy : AgentStatusBy[e] = status
  BY DEF AgentStatusBy
<1>2. TypeTo(status) \in DOMAIN AgentStatusBy
  BY <1>1 DEF TypeTo
<1> DEFINE e == By(a, TypeTo(status), t)
<1>3. Move(v, a, status, t) = <<>> \/ Move(v, a, status, t) = <<e>>
  BY DEF Move, TypeTo
<1> HIDE DEF e
<1>4. <<>> \in Seq({e}) /\ <<e>> \in Seq({e})
  OBVIOUS
<1>5. Move(v, a, status, t) \in Seq({e})
  BY <1>3, <1>4
<1> QED
  BY <1>2, <1>5 DEF e

\* The kinds of events.
AgentEvent == {e \in LogEvent : e.type \in DOMAIN AgentStatusBy}

LEMMA AgentMoves ==
  ASSUME NEW a \in Agent \cup {None}, NEW type \in DOMAIN AgentStatusBy, NEW t \in Task \cup {None}
  PROVE  By(a, type, t) \in AgentEvent
BY DEF By, AgentEvent, LogEvent, EventType

LEMMA EventsTyped ==
  ASSUME NEW t \in Task, NEW type \in EventType, NEW a \in Agent \cup {None}
  PROVE  /\ Ev(type, t) \in LogEvent /\ Ev(type, t).type = type /\ Ev(type, t).task = t
         /\ By(a, type, t) \in LogEvent /\ By(a, type, t).type = type /\ By(a, type, t).task = t
         /\ By(a, type, t).who = a
BY DEF Ev, By, LogEvent

LEMMA MoveIsAgents ==
  ASSUME NEW v, NEW a \in Agent \cup {None}, NEW t \in Task \cup {None},
         NEW status \in {"running", "waiting_human", "interrupted", "idle"}
  PROVE  Move(v, a, status, t) \in Seq(AgentEvent)
<1>1. TypeTo(status) \in DOMAIN AgentStatusBy
  BY MoveTyped
<1> DEFINE S == {By(a, TypeTo(status), t)}
<1>2. S \subseteq AgentEvent
  BY <1>1, AgentMoves
<1>3. Move(v, a, status, t) \in Seq(S)
  BY MoveTyped
<1> HIDE DEF S
<1> QED
  BY <1>2, <1>3

\* None of an agent's events is about a question or the status of a task.
LEMMA AgentEventsQuiet ==
  AgentEvent \subseteq About({}) \cap Quiet
<1>1. DOMAIN AgentStatusBy \cap (DOMAIN StatusBy \cup {"TaskCreated"} \cup Questions) = {}
  BY StatusNames DEF Questions
<1> QED
  BY <1>1 DEF AgentEvent, About, Quiet

-------------------------------------------------------------------------------
\* A sequence is one of any set that has its elements.
LEMMA SequenceOf ==
  ASSUME NEW S, NEW s \in Seq(S), NEW T, \A n \in 1..Len(s) : s[n] \in T
  PROVE  s \in Seq(T)
<1>1. Len(s) \in Nat /\ s \in [1..Len(s) -> S]
  OBVIOUS
<1>2. s \in [1..Len(s) -> T]
  BY <1>1
<1> QED
  BY <1>1, <1>2

\* A committed round starts with the event that opens it; what follows makes its task
\* active at most.
AfterOpening(t) ==
  {e \in LogEvent : /\ e.type # "TaskCreated"
                    /\ e.type \in DOMAIN StatusBy => e.task = t /\ e.type = "TaskStarted"}
OpensWith(events, e, t) ==
  /\ events \in Seq(LogEvent) /\ Len(events) >= 1 /\ events[1] = e
  /\ \A n \in 2..Len(events) : events[n] \in AfterOpening(t)

\* What follows the opening of a round, event by event.
LEMMA WhatFollows ==
  ASSUME NEW t, NEW e
  PROVE  e \in AfterOpening(t) <=>
           /\ e \in LogEvent /\ e.type # "TaskCreated"
           /\ e.type \in DOMAIN StatusBy => e.task = t /\ e.type = "TaskStarted"
BY Zenon DEF AfterOpening

LEMMA OpensWithMore ==
  ASSUME NEW e \in LogEvent, NEW t, NEW events, OpensWith(events, e, t),
         NEW rest \in Seq(AfterOpening(t))
  PROVE  OpensWith(events \o rest, e, t)
<1> DEFINE all == events \o rest
<1>1. rest \in Seq(LogEvent)
  <2>1. AfterOpening(t) \subseteq LogEvent
    BY DEF AfterOpening
  <2> QED
    BY <2>1
<1>2. /\ all \in Seq(LogEvent) /\ Len(all) = Len(events) + Len(rest)
      /\ \A n \in 1..Len(all) : all[n] = IF n <= Len(events) THEN events[n] ELSE rest[n - Len(events)]
  BY <1>1 DEF OpensWith
<1>3. \A n \in 1..Len(rest) : rest[n] \in AfterOpening(t)
  OBVIOUS
<1>4. Len(events) \in Nat /\ Len(rest) \in Nat /\ Len(events) >= 1
  BY DEF OpensWith
<1>5. all[1] = e
  BY <1>2, <1>4 DEF OpensWith
<1>6. ASSUME NEW n \in 2..Len(all)
      PROVE  all[n] \in AfterOpening(t)
  <2>1. CASE n <= Len(events)
    <3>1. all[n] = events[n] /\ n \in 2..Len(events)
      BY <1>2, <1>4, <2>1
    <3> QED
      BY <3>1 DEF OpensWith
  <2>2. CASE ~(n <= Len(events))
    <3>1. all[n] = rest[n - Len(events)] /\ n - Len(events) \in 1..Len(rest)
      BY <1>2, <1>4, <2>2
    <3> QED
      BY <1>3, <3>1
  <2> QED
    BY <2>1, <2>2
<1> HIDE DEF all
<1>7. Len(all) >= 1
  BY <1>2, <1>4
<1> QED
  BY <1>2, <1>5, <1>6, <1>7 DEF OpensWith, all

LEMMA OpensWithOne ==
  ASSUME NEW e \in LogEvent, NEW t
  PROVE  OpensWith(<<e>>, e, t)
<1>1. <<e>> \in Seq(LogEvent) /\ Len(<<e>>) = 1 /\ <<e>>[1] = e
  OBVIOUS
<1>2. 2..1 = {}
  OBVIOUS
<1> QED
  BY <1>1, <1>2 DEF OpensWith

OpeningTypes == {"TaskCreated", "TaskHumanResolved", "TaskRequeued"}

\* The task of a committed round is known, and waits or runs.
LEMMA FoldOpens ==
  ASSUME shape \in Shape, NEW v \in View, NEW t \in Task, NEW e \in LogEvent, e.task = t,
         e.type \in OpeningTypes, e.type = "TaskCreated" \/ t \in DOMAIN v.tasks,
         NEW events, OpensWith(events, e, t)
  PROVE  /\ events \in Seq(About({t}))
         /\ t \in DOMAIN Fold(v, events).tasks
         /\ Fold(v, events).tasks[t].status \in {"PENDING", "ACTIVE"}
<1> DEFINE P == {p \in View \X View : /\ t \in DOMAIN p[1].tasks
                                      /\ p[1].tasks[t].status \in {"PENDING", "ACTIVE"}}
           Q == [n \in 0..Len(events) |-> IF n = 0 THEN {<<v, v>>} ELSE P]
<1>1. events \in Seq(LogEvent) /\ Len(events) \in Nat /\ Len(events) >= 1
  BY DEF OpensWith
<1>2. <<Apply(v, e), Apply(v, e)>> \in P
  <2>1. Apply(v, e) \in View
    BY ApplyTyped
  <2>2. CASE e.type = "TaskCreated"
    <3>1. t \in DOMAIN Apply(v, e).tasks /\ Apply(v, e).tasks[t] = Created(t)
      BY <2>2, ApplyTasks
    <3> QED
      BY <2>1, <3>1, CreatedTyped
  <2>3. CASE e.type # "TaskCreated"
    <3>1. t \in DOMAIN Apply(v, e).tasks /\ Apply(v, e).tasks[t] = TaskAfter(v.tasks[t], e)
      BY <2>3, ApplyTasks
    <3>2. e.type \in DOMAIN StatusBy /\ StatusBy[e.type] = "PENDING"
      BY <2>3 DEF OpeningTypes, StatusBy
    <3>3. TaskAfter(v.tasks[t], e).status = "PENDING"
      BY <2>3, <3>2, TaskAfterTyped, ViewParts
    <3> QED
      BY <2>1, <3>1, <3>3
  <2> QED
    BY <2>2, <2>3
<1>3. ASSUME NEW a, NEW b, <<a, b>> \in P, NEW f \in AfterOpening(t)
      PROVE  <<Apply(a, f), Apply(b, f)>> \in P
  <2>1. a \in View /\ b \in View /\ f \in LogEvent /\ t \in DOMAIN a.tasks
        /\ a.tasks[t].status \in {"PENDING", "ACTIVE"} /\ f.type # "TaskCreated"
    <3>1. a \in View /\ b \in View /\ t \in DOMAIN a.tasks /\ a.tasks[t].status \in {"PENDING", "ACTIVE"}
      BY <1>3
    <3> HIDE DEF P
    <3> QED
      BY <3>1, WhatFollows, Zenon
  <2>2. Apply(a, f) \in View /\ Apply(b, f) \in View
    BY <2>1, ApplyTyped
  <2>3. t \in DOMAIN Apply(a, f).tasks
    BY <2>1, ApplyTasks
  <2>4. Apply(a, f).tasks[t].status \in {"PENDING", "ACTIVE"}
    <3>1. CASE f.task # t
      BY <2>1, <3>1, ApplyTasks
    <3>2. CASE f.task = t
      <4>1. Apply(a, f).tasks[t] = TaskAfter(a.tasks[t], f)
        BY <2>1, <3>2, ApplyTasks
      <4>2. f.type \in DOMAIN StatusBy => StatusBy[f.type] = "ACTIVE"
        BY DEF AfterOpening, StatusBy
      <4>3. TaskAfter(a.tasks[t], f).status = IF f.type \in DOMAIN StatusBy THEN StatusBy[f.type]
                                              ELSE a.tasks[t].status
        BY <2>1, TaskAfterTyped, ViewParts
      <4> QED
        BY <2>1, <4>1, <4>2, <4>3
    <3> QED
      BY <3>1, <3>2
  <2> QED
    BY <2>2, <2>3, <2>4
<1>4. <<v, v>> \in Q[0] /\ Q[Len(events)] = P
  BY <1>1
<1>5. \A n \in 1..Len(events) : \A a, b :
        <<a, b>> \in Q[n - 1] => <<Apply(a, events[n]), Apply(b, events[n])>> \in Q[n]
  <2> SUFFICES ASSUME NEW n \in 1..Len(events), NEW a, NEW b, <<a, b>> \in Q[n - 1]
               PROVE  <<Apply(a, events[n]), Apply(b, events[n])>> \in Q[n]
    OBVIOUS
  <2>1. Q[n] = P
    BY <1>1
  <2>2. CASE n = 1
    <3>1. Q[n - 1] = {<<v, v>>}
      BY <1>1, <2>2
    <3>2. events[n] = e
      BY <2>2 DEF OpensWith
    <3> HIDE DEF P, Q
    <3>3. a = v /\ b = v
      BY <3>1
    <3> QED
      BY <1>2, <2>1, <3>2, <3>3
  <2>3. CASE n # 1
    <3>1. Q[n - 1] = P /\ n \in 2..Len(events)
      BY <1>1, <2>3
    <3>2. events[n] \in AfterOpening(t)
      BY <3>1 DEF OpensWith
    <3> HIDE DEF P, Q
    <3> QED
      BY <1>3, <2>1, <3>1, <3>2
  <2> QED
    BY <2>2, <2>3
<1> HIDE DEF Q
<1>6. <<Fold(v, events), Fold(v, events)>> \in P
  <2> HIDE DEF P
  <2>1. <<Fold(v, events), Fold(v, events)>> \in Q[Len(events)]
    BY <1>1, <1>4, <1>5, FoldKeeps
  <2> QED
    BY <1>4, <2>1
<1>7. events \in Seq(About({t}))
  <2>1. e \in About({t}) /\ AfterOpening(t) \subseteq About({t})
    BY WhatIsAbout, WhatFollows
  <2>2. \A n \in 1..Len(events) : n = 1 \/ n \in 2..Len(events)
    BY <1>1
  <2>3. \A n \in 1..Len(events) : events[n] \in About({t})
    BY <2>1, <2>2 DEF OpensWith
  <2> QED
    BY <1>1, <2>3, SequenceOf
<1> QED
  BY <1>6, <1>7

\* A question that is answered last.
LEMMA FoldAnswers ==
  ASSUME shape \in Shape, NEW v \in View, NEW t \in Task, NEW events \in Seq(Quiet)
  PROVE  LET w == Fold(v, events \o <<Ev("HitlResolved", t)>>)
         IN w.asks = v.asks \ {t} /\ w.answered = v.answered \cup {t}
<1> DEFINE e == Ev("HitlResolved", t)
           all == events \o <<e>>
           k == Len(events)
           before == {p \in View \X View : p[1].asks = v.asks /\ p[1].answered = v.answered}
           after == {p \in View \X View : p[1].asks = v.asks \ {t} /\ p[1].answered = v.answered \cup {t}}
           Q == [n \in 0..(k + 1) |-> IF n <= k THEN before ELSE after]
<1>1. e \in LogEvent /\ e.type = "HitlResolved" /\ e.task = t
  BY EventsTyped DEF EventType, Questions
<1>2. k \in Nat /\ Quiet \subseteq LogEvent
  BY DEF Quiet
<1>3. /\ all \in Seq(LogEvent) /\ Len(all) = k + 1 /\ all[k + 1] = e
      /\ \A n \in 1..k : all[n] \in Quiet
  BY <1>1, <1>2
<1> HIDE DEF e, all, k
<1>4. ASSUME NEW a, NEW b, <<a, b>> \in before, NEW f \in Quiet
      PROVE  <<Apply(a, f), Apply(b, f)>> \in before
  BY <1>2, <1>4, ApplyTyped, ApplyQuestions DEF Quiet
<1>5. ASSUME NEW a, NEW b, <<a, b>> \in before
      PROVE  <<Apply(a, e), Apply(b, e)>> \in after
  <2>1. a \in View /\ b \in View /\ a.asks = v.asks /\ a.answered = v.answered
    BY <1>5
  <2>2. Apply(a, e) \in View /\ Apply(b, e) \in View
    BY <1>1, <2>1, ApplyTyped
  <2>3. Apply(a, e).asks = AsksAfter(a, e) /\ Apply(a, e).answered = AnsweredAfter(a, e)
    BY ApplyQuestions
  <2>4. AsksAfter(a, e) = v.asks \ {t} /\ AnsweredAfter(a, e) = v.answered \cup {t}
    BY <1>1, <2>1 DEF AsksAfter, AnsweredAfter, Tracked
  <2> QED
    BY <2>2, <2>3, <2>4
<1>6. /\ Q[0] = before /\ Q[k + 1] = after /\ <<v, v>> \in before
      /\ \A n \in 1..k : Q[n - 1] = before /\ Q[n] = before
      /\ Q[k] = before
  BY <1>2
<1> HIDE DEF Q, before, after
<1>7. \A n \in 1..Len(all) : \A a, b :
        <<a, b>> \in Q[n - 1] => <<Apply(a, all[n]), Apply(b, all[n])>> \in Q[n]
  <2> SUFFICES ASSUME NEW n \in 1..Len(all), NEW a, NEW b, <<a, b>> \in Q[n - 1]
               PROVE  <<Apply(a, all[n]), Apply(b, all[n])>> \in Q[n]
    OBVIOUS
  <2>1. CASE n \in 1..k
    BY <1>3, <1>4, <1>6, <2>1
  <2>2. CASE n \notin 1..k
    <3>1. n = k + 1 /\ n - 1 = k
      BY <1>2, <1>3, <2>2
    <3> QED
      BY <1>3, <1>5, <1>6, <3>1
  <2> QED
    BY <2>1, <2>2
<1>8. <<Fold(v, all), Fold(v, all)>> \in Q[Len(all)]
  BY <1>3, <1>6, <1>7, FoldKeeps
<1>9. <<Fold(v, all), Fold(v, all)>> \in after
  BY <1>3, <1>6, <1>8
<1> QED
  BY <1>9 DEF after, all, e

\* Where every task is either what it was or canceled with an agent.
CanceledOnly(v, w, T) ==
  /\ DOMAIN w.tasks = DOMAIN v.tasks
  /\ \A u \in DOMAIN v.tasks :
       \/ /\ w.tasks[u].status = v.tasks[u].status
          /\ v.tasks[u].status = "CANCELED" => w.tasks[u].canceled = v.tasks[u].canceled
       \/ u \in T /\ w.tasks[u].status = "CANCELED" /\ w.tasks[u].canceled

Cancellation(T) == {e \in LogEvent : e.type = "TaskCanceled" /\ e.who # None /\ e.task \in T}

LEMMA FoldCancels ==
  ASSUME shape \in Shape, NEW v \in View, NEW T, NEW events \in Seq(Cancellation(T))
  PROVE  /\ events \in Seq(About(T) \cap Quiet)
         /\ CanceledOnly(v, Fold(v, events), T)
<1> DEFINE P == {p \in View \X View : CanceledOnly(v, p[1], T)}
<1>1. \A a, b : \A e \in Cancellation(T) : <<a, b>> \in P => <<Apply(a, e), Apply(b, e)>> \in P
  <2> SUFFICES ASSUME NEW a, NEW b, NEW e \in Cancellation(T), <<a, b>> \in P
               PROVE  <<Apply(a, e), Apply(b, e)>> \in P
    OBVIOUS
  <2>1. /\ a \in View /\ b \in View /\ CanceledOnly(v, a, T)
        /\ e \in LogEvent /\ e.type = "TaskCanceled" /\ e.who # None /\ e.task \in T
    BY DEF Cancellation
  <2>2. Apply(a, e) \in View /\ Apply(b, e) \in View
    BY <2>1, ApplyTyped
  <2>3. DOMAIN Apply(a, e).tasks = DOMAIN v.tasks
    <3>1. e.type # "TaskCreated"
      BY <2>1
    <3>2. DOMAIN Apply(a, e).tasks = DOMAIN a.tasks
      BY <2>1, <3>1, ApplyTasks
    <3> QED
      BY <2>1, <3>2 DEF CanceledOnly
  <2>4. ASSUME NEW u \in DOMAIN v.tasks
        PROVE  LET w == Apply(a, e)
               IN \/ /\ w.tasks[u].status = v.tasks[u].status
                     /\ v.tasks[u].status = "CANCELED" => w.tasks[u].canceled = v.tasks[u].canceled
                  \/ u \in T /\ w.tasks[u].status = "CANCELED" /\ w.tasks[u].canceled
    <3>1. u \in DOMAIN a.tasks
      BY <2>1, <2>4 DEF CanceledOnly
    <3>2. CASE u # e.task
      <4>1. Apply(a, e).tasks[u] = a.tasks[u]
        BY <2>1, <3>1, <3>2, ApplyTasks
      <4> QED
        BY <2>1, <2>4, <4>1 DEF CanceledOnly
    <3>3. CASE u = e.task
      <4>1. Apply(a, e).tasks[u] = TaskAfter(a.tasks[u], e)
        BY <2>1, <3>1, <3>3, ApplyTasks
      <4>2. e.type \in DOMAIN StatusBy /\ StatusBy[e.type] = "CANCELED"
        BY <2>1 DEF StatusBy
      <4>3. TaskAfter(a.tasks[u], e).status = "CANCELED" /\ TaskAfter(a.tasks[u], e).canceled
        BY <2>1, <3>1, <4>2, TaskAfterTyped, ViewParts
      <4> QED
        BY <2>1, <3>3, <4>1, <4>3
    <3> QED
      BY <3>2, <3>3
  <2> QED
    BY <2>2, <2>3, <2>4 DEF CanceledOnly
<1>2. <<v, v>> \in P
  BY DEF CanceledOnly
<1> HIDE DEF P
<1>3. <<Fold(v, events), Fold(v, events)>> \in P
  BY <1>1, <1>2, FoldKeepsPairs
<1>4. Cancellation(T) \subseteq About(T) \cap Quiet
  BY DEF Cancellation, About, Quiet, Questions
<1>5. events \in Seq(About(T) \cap Quiet)
  BY <1>4
<1> QED
  BY <1>3, <1>5 DEF P

\* What calibration writes keeps every task from being over that was not.
Interruption(T) ==
  {e \in LogEvent : /\ e.type \notin Questions /\ e.type # "TaskCreated"
                    /\ e.type \in DOMAIN StatusBy =>
                         e.task \in T /\ e.type \in {"TaskAwaitingHuman", "TaskInterrupted"}}

LEMMA WhatInterrupts ==
  ASSUME NEW T, NEW e, e \in Interruption(T)
  PROVE  /\ e \in LogEvent /\ e.type \notin Questions /\ e.type # "TaskCreated"
         /\ e.type \in DOMAIN StatusBy => e.task \in T /\ e.type \in {"TaskAwaitingHuman", "TaskInterrupted"}
BY Zenon DEF Interruption

LEMMA FoldInterrupts ==
  ASSUME shape \in Shape, NEW v \in View, NEW T, NEW events \in Seq(Interruption(T))
  PROVE  /\ events \in Seq(About(T) \cap Quiet)
         /\ \A u \in DOMAIN v.tasks : \/ Fold(v, events).tasks[u].status = v.tasks[u].status
                                      \/ Fold(v, events).tasks[u].status \in {"AWAITING_HUMAN", "INTERRUPTED"}
<1> DEFINE Kept(w) == /\ DOMAIN w.tasks = DOMAIN v.tasks
                      /\ \A u \in DOMAIN v.tasks : \/ w.tasks[u].status = v.tasks[u].status
                                                   \/ w.tasks[u].status \in {"AWAITING_HUMAN", "INTERRUPTED"}
           P == {p \in View \X View : Kept(p[1])}
<1>1. \A a, b : \A e \in Interruption(T) : <<a, b>> \in P => <<Apply(a, e), Apply(b, e)>> \in P
  <2> SUFFICES ASSUME NEW a, NEW b, NEW e \in Interruption(T), <<a, b>> \in P
               PROVE  <<Apply(a, e), Apply(b, e)>> \in P
    OBVIOUS
  <2>1. a \in View /\ b \in View /\ Kept(a) /\ e \in LogEvent /\ e.type # "TaskCreated"
    <3> HIDE DEF Kept
    <3>1. a \in View /\ b \in View /\ Kept(a)
      OBVIOUS
    <3> HIDE DEF P
    <3> QED
      BY <3>1, WhatInterrupts, Zenon
  <2>2. Apply(a, e) \in View /\ Apply(b, e) \in View
    BY <2>1, ApplyTyped
  <2>3. DOMAIN Apply(a, e).tasks = DOMAIN v.tasks
    <3> HIDE DEF Kept
    <3>1. a \in View /\ e \in LogEvent /\ e.type # "TaskCreated"
      BY <2>1
    <3>2. DOMAIN Apply(a, e).tasks = DOMAIN a.tasks
      BY <3>1, ApplyTasks
    <3> QED
      BY <2>1, <3>2 DEF Kept
  <2>4. ASSUME NEW u \in DOMAIN v.tasks
        PROVE  \/ Apply(a, e).tasks[u].status = v.tasks[u].status
               \/ Apply(a, e).tasks[u].status \in {"AWAITING_HUMAN", "INTERRUPTED"}
    <3>1. u \in DOMAIN a.tasks
      BY <2>1, <2>4
    <3>2. CASE u # e.task
      BY <2>1, <2>4, <3>1, <3>2, ApplyTasks
    <3>3. CASE u = e.task
      <4>1. Apply(a, e).tasks[u] = TaskAfter(a.tasks[u], e)
        BY <2>1, <3>1, <3>3, ApplyTasks
      <4>2. e.type \in DOMAIN StatusBy => StatusBy[e.type] \in {"AWAITING_HUMAN", "INTERRUPTED"}
        <5>1. /\ StatusBy["TaskAwaitingHuman"] = "AWAITING_HUMAN"
              /\ StatusBy["TaskInterrupted"] = "INTERRUPTED"
          BY DEF StatusBy
        <5>2. e.type \in DOMAIN StatusBy => e.type \in {"TaskAwaitingHuman", "TaskInterrupted"}
          BY WhatInterrupts
        <5> HIDE DEF P
        <5> QED
          BY <5>1, <5>2
      <4>3. TaskAfter(a.tasks[u], e).status = IF e.type \in DOMAIN StatusBy THEN StatusBy[e.type]
                                              ELSE a.tasks[u].status
        BY <2>1, <3>1, TaskAfterTyped, ViewParts
      <4> QED
        BY <2>1, <2>4, <4>1, <4>2, <4>3
    <3> QED
      BY <3>2, <3>3
  <2> QED
    BY <2>2, <2>3, <2>4
<1>2. <<v, v>> \in P
  OBVIOUS
<1> HIDE DEF P
<1>3. <<Fold(v, events), Fold(v, events)>> \in P
  BY <1>1, <1>2, FoldKeepsPairs
<1>4. Interruption(T) \subseteq About(T) \cap Quiet
  <2>1. \A e \in Interruption(T) : e \in About(T) /\ e \in Quiet
    BY WhatInterrupts, WhatIsAbout DEF Quiet
  <2> QED
    BY <2>1
<1>5. events \in Seq(About(T) \cap Quiet)
  BY <1>4
<1> QED
  BY <1>3, <1>5 DEF P

-------------------------------------------------------------------------------
\* A step that stores events about tasks that are not canceled keeps the snapshots and what
\* they declare.
LEMMA LogKeeps ==
  ASSUME RecoveryInductive, shape' = shape, declared' = declared,
         NEW T, \A u \in T : ~Canceled(u),
         NEW events \in Seq(About(T)), NEW w \in Writing \cup {None},
         w # None /\ w.step # "head" => Faithful(w, truth),
         w # None /\ w.step = "append" => \A m \in w.told \cap missing' : Canceled(m.task),
         LogBeside(events, w)
  PROVE  /\ truth' = Fold(truth, events) /\ truth' \in View
         /\ base' \in Snapshot \cup {None} /\ write' \in Writing \cup {None}
         /\ shape' \in Shape /\ declared' \subseteq Item
         /\ SnapshotsAgree' /\ DeclaredIsCanceled' /\ ToldIsCanceled'
         /\ Steady(truth, truth', T)
         /\ \A u : Canceled(u) => Canceled(u)'
<1>1. /\ shape \in Shape /\ truth \in View /\ base \in Snapshot \cup {None} /\ declared \subseteq Item
      /\ Faithful(base, truth) /\ DeclaredIsCanceled
  BY DEF RecoveryInductive, RecoveryTypeOK, SnapshotsAgree
<1>2. events \in Seq(LogEvent)
  <2>1. About(T) \subseteq LogEvent
    BY DEF About
  <2> QED
    BY <2>1
<1>3. /\ truth' \in View /\ base' \in Snapshot \cup {None} /\ write' \in Writing \cup {None}
      /\ SnapshotsAgree'
      /\ write' # None => w # None /\ write'.step = w.step /\ write'.told = w.told
  BY <1>1, <1>2, Logged
<1>4. truth' = Fold(truth, events)
  BY DEF LogBeside
<1>5. Steady(truth, truth', T)
  BY <1>1, <1>4, FoldSteady
<1>6. \A u : Canceled(u) => Canceled(u)'
  BY <1>5 DEF Canceled, Steady
<1>7. DeclaredIsCanceled'
  BY <1>1, <1>6 DEF DeclaredIsCanceled
<1>8. ToldIsCanceled'
  BY <1>3, <1>6 DEF ToldIsCanceled
<1> QED
  BY <1>1, <1>3, <1>4, <1>5, <1>6, <1>7, <1>8

\* An input that is not in memory is one somebody still waits for, as before.
StillAwaited(m) ==
  /\ up' = "up" => at'[m.task] = "store"
  /\ up' = "loaded" => m.kind = "answer"
  /\ m.kind = "answer" => m.task \in truth'.answered

\* A step that stores events and has nothing new to be written to memory.
LEMMA LogStep ==
  ASSUME RecoveryInductive, shape' = shape, declared' = declared, missing' \subseteq missing,
         NEW T, \A u \in T : ~Canceled(u),
         NEW events \in Seq(About(T)), NEW w \in Writing \cup {None}, w = write \/ w.step = "head",
         LogBeside(events, w),
         \A u \in truth'.asks : \/ u \in truth.asks /\ u \notin T
                                \/ u \in DOMAIN truth'.tasks /\ (Canceled(u)' => truth'.tasks[u].canceled),
         \A m \in missing' : m.kind # "reply" /\ ~Canceled(m.task) =>
           /\ m.task \in T => truth'.tasks[m.task].status \notin {"FINISHED", "FAILED"}
           /\ StillAwaited(m)
  PROVE  /\ truth' = Fold(truth, events) /\ truth' \in View
         /\ base' \in Snapshot \cup {None} /\ write' \in Writing \cup {None}
         /\ shape' \in Shape /\ declared' \subseteq Item /\ missing' \subseteq Item
         /\ SnapshotsAgree' /\ DeclaredIsCanceled' /\ ToldIsCanceled'
         /\ AskedAreKnown' /\ MissingIsAwaited'
         /\ Steady(truth, truth', T)
         /\ \A u : Canceled(u) => Canceled(u)'
<1>1. /\ shape \in Shape /\ truth \in View /\ missing \subseteq Item
      /\ SnapshotsAgree /\ ToldIsCanceled /\ AskedAreKnown /\ MissingIsAwaited
  BY DEF RecoveryInductive, RecoveryTypeOK
<1>2. w # None /\ w.step # "head" => Faithful(w, truth)
  BY <1>1 DEF SnapshotsAgree
<1>3. w # None /\ w.step = "append" => \A m \in w.told \cap missing' : Canceled(m.task)
  BY <1>1 DEF ToldIsCanceled
<1>4. /\ truth' = Fold(truth, events) /\ truth' \in View
      /\ base' \in Snapshot \cup {None} /\ write' \in Writing \cup {None}
      /\ shape' \in Shape /\ declared' \subseteq Item
      /\ SnapshotsAgree' /\ DeclaredIsCanceled' /\ ToldIsCanceled'
      /\ Steady(truth, truth', T) /\ \A u : Canceled(u) => Canceled(u)'
  BY <1>2, <1>3, LogKeeps
<1>5. AskedAreKnown'
  <2> SUFFICES ASSUME NEW u \in truth'.asks
               PROVE  u \in DOMAIN truth'.tasks /\ (Canceled(u)' => truth'.tasks[u].canceled)
    BY DEF AskedAreKnown
  <2>1. CASE u \in truth.asks /\ u \notin T
    <3>1. u \in DOMAIN truth.tasks /\ (Canceled(u) => truth.tasks[u].canceled)
      BY <1>1, <2>1 DEF AskedAreKnown
    <3> QED
      BY <1>4, <2>1, <3>1 DEF Steady, Canceled
  <2> QED
    BY <2>1
<1>6. MissingIsAwaited'
  <2> SUFFICES ASSUME NEW m \in missing'
               PROVE  /\ m.task \in DOMAIN truth'.tasks
                      /\ m.kind = "reply" \/ Canceled(m.task)' \/ Awaited(m)'
    BY DEF MissingIsAwaited
  <2>1. /\ m.task \in DOMAIN truth.tasks
        /\ m.kind = "reply" \/ Canceled(m.task) \/ Awaited(m)
    BY <1>1 DEF MissingIsAwaited
  <2>2. m.task \in DOMAIN truth'.tasks
    BY <1>4, <2>1 DEF Steady
  <2>3. CASE m.kind = "reply" \/ Canceled(m.task)
    BY <1>4, <2>2, <2>3
  <2>4. CASE m.kind # "reply" /\ ~Canceled(m.task)
    <3>1. StillAwaited(m) /\ Awaited(m)
      BY <2>1, <2>4
    <3>2. m.kind = "answer" => truth'.tasks[m.task].status \notin {"FINISHED", "FAILED"}
      <4>1. CASE m.task \in T
        BY <2>4, <4>1
      <4>2. CASE m.task \notin T
        BY <1>4, <2>1, <3>1, <4>2 DEF Steady, Awaited
      <4> QED
        BY <4>1, <4>2
    <3> QED
      BY <2>2, <3>1, <3>2 DEF StillAwaited, Awaited
  <2> QED
    BY <2>3, <2>4
<1> QED
  BY <1>1, <1>4, <1>5, <1>6

\* A step that stores events which are not about questions.
LEMMA QuietStep ==
  ASSUME RecoveryInductive, shape' = shape, declared' = declared, missing' \subseteq missing,
         NEW T, \A u \in T : ~Canceled(u),
         NEW events \in Seq(About(T) \cap Quiet), NEW w \in Writing \cup {None},
         w = write \/ w.step = "head", LogBeside(events, w),
         \A u \in T \cap truth.asks : Canceled(u)' => truth'.tasks[u].canceled,
         \A m \in missing' : m.kind # "reply" /\ ~Canceled(m.task) =>
           /\ m.task \in T => truth'.tasks[m.task].status \notin {"FINISHED", "FAILED"}
           /\ up' = "up" => at'[m.task] = "store"
           /\ up' = "loaded" => m.kind = "answer"
  PROVE  /\ truth' = Fold(truth, events) /\ truth' \in View
         /\ base' \in Snapshot \cup {None} /\ write' \in Writing \cup {None}
         /\ shape' \in Shape /\ declared' \subseteq Item /\ missing' \subseteq Item
         /\ SnapshotsAgree' /\ DeclaredIsCanceled' /\ ToldIsCanceled'
         /\ AskedAreKnown' /\ MissingIsAwaited'
         /\ truth'.asks = truth.asks /\ truth'.answered = truth.answered
         /\ Steady(truth, truth', T)
         /\ \A u : Canceled(u) => Canceled(u)'
<1>1. shape \in Shape /\ truth \in View /\ AskedAreKnown /\ MissingIsAwaited
  BY DEF RecoveryInductive, RecoveryTypeOK
<1>2. events \in Seq(About(T)) /\ events \in Seq(Quiet)
  OBVIOUS
<1>3. truth' = Fold(truth, events)
  BY DEF LogBeside
<1>4. truth'.asks = truth.asks /\ truth'.answered = truth.answered
  BY <1>1, <1>2, <1>3, FoldQuiet
<1>5. Steady(truth, truth', T)
  BY <1>1, <1>2, <1>3, FoldSteady
<1>6. \A u \in truth'.asks : \/ u \in truth.asks /\ u \notin T
                             \/ u \in DOMAIN truth'.tasks /\ (Canceled(u)' => truth'.tasks[u].canceled)
  BY <1>1, <1>4, <1>5 DEF AskedAreKnown, Steady
<1>7. \A m \in missing' : m.kind # "reply" /\ ~Canceled(m.task) =>
           /\ m.task \in T => truth'.tasks[m.task].status \notin {"FINISHED", "FAILED"}
           /\ StillAwaited(m)
  BY <1>1, <1>4 DEF MissingIsAwaited, Awaited, StillAwaited
<1>8. /\ truth' \in View
      /\ base' \in Snapshot \cup {None} /\ write' \in Writing \cup {None}
      /\ shape' \in Shape /\ declared' \subseteq Item /\ missing' \subseteq Item
      /\ SnapshotsAgree' /\ DeclaredIsCanceled' /\ ToldIsCanceled'
      /\ AskedAreKnown' /\ MissingIsAwaited' /\ \A u : Canceled(u) => Canceled(u)'
  BY <1>2, <1>6, <1>7, LogStep
<1> QED
  BY <1>3, <1>4, <1>5, <1>8

\* One event about the status of a task.
LEMMA StatusEvent ==
  ASSUME shape \in Shape, NEW v \in View, NEW t \in DOMAIN v.tasks,
         NEW type \in DOMAIN StatusBy, NEW a \in Agent \cup {None}
  PROVE  /\ <<By(a, type, t)>> \in Seq(About({t}) \cap Quiet)
         /\ t \in DOMAIN Fold(v, <<By(a, type, t)>>).tasks
         /\ Fold(v, <<By(a, type, t)>>).tasks[t].status = StatusBy[type]
         /\ type = "TaskCanceled" => Fold(v, <<By(a, type, t)>>).tasks[t].canceled = (a # None)
<1> DEFINE e == By(a, type, t)
<1>1. /\ t \in Task /\ v.tasks[t] \in TaskState
  BY ViewParts
<1>2. type \in EventType
  BY DEF EventType
<1>3. e \in LogEvent /\ e.type = type /\ e.task = t /\ e.who = a
  BY <1>1, <1>2, EventsTyped
<1> HIDE DEF e
<1>5. e \in About({t}) \cap Quiet
  BY <1>3, StatusNames DEF About, Quiet, Questions
<1>6. Fold(v, <<e>>) = Apply(v, e)
  BY FoldOne
<1>7. e.type # "TaskCreated"
  BY <1>3, StatusNames
<1>8. t \in DOMAIN Apply(v, e).tasks /\ Apply(v, e).tasks[t] = TaskAfter(v.tasks[t], e)
  BY <1>3, <1>7, ApplyTasks
<1>9. /\ TaskAfter(v.tasks[t], e).status = StatusBy[type]
      /\ type = "TaskCanceled" => TaskAfter(v.tasks[t], e).canceled = (a # None)
  BY <1>1, <1>3, TaskAfterTyped
<1>10. <<e>> \in Seq(About({t}) \cap Quiet)
  BY <1>5
<1> QED
  BY <1>6, <1>8, <1>9, <1>10 DEF e

LEMMA TaskEvent ==
  ASSUME shape \in Shape, NEW v \in View, NEW t \in DOMAIN v.tasks, NEW type \in DOMAIN StatusBy
  PROVE  /\ <<Ev(type, t)>> \in Seq(About({t}) \cap Quiet)
         /\ t \in DOMAIN Fold(v, <<Ev(type, t)>>).tasks
         /\ Fold(v, <<Ev(type, t)>>).tasks[t].status = StatusBy[type]
<1>1. Ev(type, t) = By(None, type, t)
  BY DEF Ev, By
<1>2. /\ <<By(None, type, t)>> \in Seq(About({t}) \cap Quiet)
      /\ t \in DOMAIN Fold(v, <<By(None, type, t)>>).tasks
      /\ Fold(v, <<By(None, type, t)>>).tasks[t].status = StatusBy[type]
  BY StatusEvent
<1> QED
  BY <1>1, <1>2

\* One event that is neither about a status nor about a question.
LEMMA OtherEvent ==
  ASSUME NEW t \in Task, NEW T,
         NEW type \in {"RunStarted", "RunFinished", "ObserveApplied", "TaskFinalized"}
  PROVE  <<Ev(type, t)>> \in Seq(About(T) \cap Quiet)
<1>1. Ev(type, t) \in LogEvent /\ Ev(type, t).type = type
  BY EventsTyped DEF EventType
<1>2. type \notin DOMAIN StatusBy \cup {"TaskCreated"} \cup Questions
  BY StatusNames DEF Questions
<1>3. Ev(type, t) \in About(T) \cap Quiet
  BY <1>1, <1>2 DEF About, Quiet
<1> QED
  BY <1>3

\* Where a task is, whose step it is.
LEMMA PlaceStep ==
  ASSUME at \in [Task -> Place], InPlace, up = "up", up' = "up", NEW t \in Task,
         Steady(truth, truth', {t}), NEW p \in Place, at' = [at EXCEPT ![t] = p],
         \A u \in Task \ {t} : result'[u] = result[u],
         truth'.asks \subseteq truth.asks \cup {t}, InPlaceOf(t)'
  PROVE  InPlace' /\ at' \in [Task -> Place]
<1>1. ASSUME NEW u \in Task
      PROVE  InPlaceOf(u)'
  <2>1. CASE u = t
    BY <2>1
  <2>2. CASE u # t
    <3>1. at'[u] = at[u] /\ result'[u] = result[u] /\ InPlaceOf(u)
      BY <2>2 DEF InPlace
    <3>2. (u \in truth'.asks => u \in truth.asks)
      BY <2>2
    <3>3. Canceled(u)' => Canceled(u)
      BY <2>2 DEF Canceled, Steady
    <3>4. u \in DOMAIN truth.tasks => u \in DOMAIN truth'.tasks
      BY DEF Steady
    <3> QED
      BY <3>1, <3>2, <3>3, <3>4 DEF InPlaceOf
  <2> QED
    BY <2>1, <2>2
<1>2. InPlace'
  BY <1>1 DEF InPlace
<1> QED
  BY <1>2

\* Nothing but a reply is missing of a task that is not canceled and stores no input.
LEMMA NothingAwaited ==
  ASSUME RecoveryInductive, up = "up", NEW t, at[t] # "store", ~Canceled(t)
  PROVE  \A m \in missing : m.task = t => m.kind = "reply"
BY DEF RecoveryInductive, MissingIsAwaited, Awaited

\* A step of one task in a session that is up.
LEMMA TaskStep ==
  ASSUME RecoveryInductive, shape' = shape, declared' = declared, missing' \subseteq missing,
         up = "up", up' = "up", NEW t \in Task, ~Canceled(t), at[t] # "store",
         NEW p \in Place, at' = [at EXCEPT ![t] = p], \A u \in Task \ {t} : result'[u] = result[u],
         NEW T, T \subseteq {t},
         NEW events \in Seq(About(T) \cap Quiet), NEW w \in Writing \cup {None},
         w = write \/ w.step = "head", LogBeside(events, w),
         t \in truth.asks => (Canceled(t)' => truth'.tasks[t].canceled)
  PROVE  /\ truth' = Fold(truth, events) /\ truth' \in View
         /\ base' \in Snapshot \cup {None} /\ write' \in Writing \cup {None}
         /\ shape' \in Shape /\ declared' \subseteq Item /\ missing' \subseteq Item
         /\ SnapshotsAgree' /\ DeclaredIsCanceled' /\ ToldIsCanceled'
         /\ AskedAreKnown' /\ MissingIsAwaited'
         /\ at' \in [Task -> Place] /\ (InPlaceOf(t)' => InPlace')
         /\ truth'.asks = truth.asks /\ Steady(truth, truth', T)
<1>1. at \in [Task -> Place] /\ InPlace /\ MissingIsAwaited /\ missing \subseteq Item
  BY DEF RecoveryInductive, RecoveryTypeOK
<1>2. \A m \in missing' : m.kind # "reply" /\ ~Canceled(m.task) =>
           /\ m.task \in T => truth'.tasks[m.task].status \notin {"FINISHED", "FAILED"}
           /\ up' = "up" => at'[m.task] = "store"
           /\ up' = "loaded" => m.kind = "answer"
  <2> SUFFICES ASSUME NEW m \in missing', m.kind # "reply", ~Canceled(m.task)
               PROVE  m.task \notin T /\ at'[m.task] = "store"
    OBVIOUS
  <2>1. m.task # t
    BY NothingAwaited
  <2>2. m.task \in Task /\ at[m.task] = "store"
    BY <1>1 DEF MissingIsAwaited, Awaited, Item
  <2> QED
    BY <1>1, <2>1, <2>2
<1>3. /\ truth' = Fold(truth, events) /\ truth' \in View
      /\ base' \in Snapshot \cup {None} /\ write' \in Writing \cup {None}
      /\ shape' \in Shape /\ declared' \subseteq Item /\ missing' \subseteq Item
      /\ SnapshotsAgree' /\ DeclaredIsCanceled' /\ ToldIsCanceled'
      /\ AskedAreKnown' /\ MissingIsAwaited'
      /\ truth'.asks = truth.asks /\ Steady(truth, truth', T)
  BY <1>2, QuietStep
<1>4. InPlaceOf(t)' => InPlace'
  <2>1. Steady(truth, truth', {t})
    BY <1>3 DEF Steady
  <2> QED
    BY <1>1, <1>3, <2>1, PlaceStep
<1>5. at' \in [Task -> Place]
  BY <1>1
<1> QED
  BY <1>3, <1>4, <1>5

-------------------------------------------------------------------------------
\* What an event has yet to lead to, and what is left of a bound.
LEMMA OwedTyped ==
  ASSUME shape \in Shape, truth \in View, NEW t \in DOMAIN truth.tasks, NEW type \in DOMAIN StatusBy
  PROVE  Owed(type, t) \in Owing
<1>1. t \in Task /\ truth.tasks[t].owner \in Agent \cup {None}
  BY ViewParts DEF TaskState
<1>2. shape.agent[t] \in Agent
  BY <1>1, CreatedTyped
<1>3. LeadsTo(type) \in {"running", "waiting_human", "interrupted", "idle"}
  BY DEF LeadsTo
<1> QED
  BY <1>1, <1>2, <1>3 DEF Owed, Owing

LEMMA SpendTyped ==
  ASSUME budget \in [{"crashes", "snapshots", "upsets"} -> Nat],
         NEW what \in {"crashes", "snapshots", "upsets"}, Spend(what)
  PROVE  budget' \in [{"crashes", "snapshots", "upsets"} -> Nat]
<1>1. budget[what] \in Nat /\ budget[what] > 0 /\ budget' = [budget EXCEPT ![what] = @ - 1]
  BY DEF Spend
<1>2. budget[what] - 1 \in Nat
  BY <1>1
<1> QED
  BY <1>1, <1>2

-------------------------------------------------------------------------------
(***************************************************************************)
(* Each action of Recovery keeps the invariant.                            *)
(***************************************************************************)

LEMMA DispatchKeeps ==
  ASSUME RecoveryInductive, NEW t \in Task, Dispatch(t)
  PROVE  RecoveryInductive'
<1>1. /\ shape' = shape /\ declared' = declared /\ missing' = missing /\ up = "up" /\ up' = up
      /\ result' = result /\ current' = current /\ budget' = budget
      /\ at[t] \in {"queued", "ready"} /\ at' = [at EXCEPT ![t] = "start"]
      /\ Log(<<Ev("TaskStarted", t)>>) /\ owed' = owed \cup {Owed("TaskStarted", t)}
  BY DEF Dispatch, Goto, Announce
<1>2. /\ shape \in Shape /\ truth \in View /\ write \in Writing \cup {None} /\ owed \subseteq Owing
      /\ InPlaceOf(t)
  BY DEF RecoveryInductive, RecoveryTypeOK, InPlace
<1>3. ~Canceled(t) /\ t \in DOMAIN truth.tasks
  BY <1>1, <1>2 DEF InPlaceOf
<1>4. "TaskStarted" \in DOMAIN StatusBy /\ StatusBy["TaskStarted"] = "ACTIVE"
  BY DEF StatusBy
<1>5. /\ <<Ev("TaskStarted", t)>> \in Seq(About({t}) \cap Quiet)
      /\ t \in DOMAIN Fold(truth, <<Ev("TaskStarted", t)>>).tasks
      /\ Fold(truth, <<Ev("TaskStarted", t)>>).tasks[t].status = "ACTIVE"
  BY <1>2, <1>3, <1>4, TaskEvent
<1>6. LogBeside(<<Ev("TaskStarted", t)>>, write)
  BY <1>1 DEF Log
<1>7. truth' = Fold(truth, <<Ev("TaskStarted", t)>>)
  BY <1>6 DEF LogBeside
<1>8. ~Canceled(t)' /\ t \in DOMAIN truth'.tasks
  BY <1>5, <1>7 DEF Canceled
<1>9. /\ truth' \in View
      /\ base' \in Snapshot \cup {None} /\ write' \in Writing \cup {None}
      /\ shape' \in Shape /\ declared' \subseteq Item /\ missing' \subseteq Item
      /\ SnapshotsAgree' /\ DeclaredIsCanceled' /\ ToldIsCanceled'
      /\ AskedAreKnown' /\ MissingIsAwaited'
      /\ at' \in [Task -> Place] /\ (InPlaceOf(t)' => InPlace')
  BY <1>1, <1>2, <1>3, <1>5, <1>6, <1>8, TaskStep DEF Place
<1>10. InPlaceOf(t)'
  <2>1. at'[t] = "start"
    BY <1>1, <1>9 DEF RecoveryInductive, RecoveryTypeOK
  <2> QED
    BY <1>8, <2>1 DEF InPlaceOf
<1>11. owed' \subseteq Owing
  BY <1>1, <1>2, <1>3, <1>4, OwedTyped
<1> QED
  BY <1>1, <1>9, <1>10, <1>11 DEF RecoveryInductive, RecoveryTypeOK

LEMMA StartRunKeeps ==
  ASSUME RecoveryInductive, NEW t \in Task, StartRun(t)
  PROVE  RecoveryInductive'
<1>1. /\ shape' = shape /\ declared' = declared /\ missing' \subseteq missing /\ up = "up" /\ up' = up
      /\ result' = result /\ current' = current /\ budget' = budget /\ owed' = owed
      /\ at[t] = "start" /\ at' = [at EXCEPT ![t] = "run"]
      /\ LogBeside(<<Ev("RunStarted", t)>>, write)
  BY DEF StartRun, Goto, Log
<1>2. /\ shape \in Shape /\ truth \in View /\ write \in Writing \cup {None} /\ at \in [Task -> Place]
      /\ InPlaceOf(t) /\ AskedAreKnown
  BY DEF RecoveryInductive, RecoveryTypeOK, InPlace
<1>3. ~Canceled(t) /\ t \in DOMAIN truth.tasks
  BY <1>1, <1>2 DEF InPlaceOf
<1>4. <<Ev("RunStarted", t)>> \in Seq(About({}) \cap Quiet)
  BY OtherEvent
<1>5. truth' = Fold(truth, <<Ev("RunStarted", t)>>)
  BY <1>1 DEF LogBeside
<1>6. Steady(truth, truth', {})
  <2>1. <<Ev("RunStarted", t)>> \in Seq(About({}))
    BY <1>4
  <2> QED
    BY <1>2, <1>5, <2>1, FoldSteady
<1>7. ~Canceled(t)' /\ t \in DOMAIN truth'.tasks
  BY <1>3, <1>6 DEF Steady, Canceled
<1>8. /\ truth' \in View
      /\ base' \in Snapshot \cup {None} /\ write' \in Writing \cup {None}
      /\ shape' \in Shape /\ declared' \subseteq Item /\ missing' \subseteq Item
      /\ SnapshotsAgree' /\ DeclaredIsCanceled' /\ ToldIsCanceled'
      /\ AskedAreKnown' /\ MissingIsAwaited'
      /\ at' \in [Task -> Place] /\ (InPlaceOf(t)' => InPlace')
  BY <1>1, <1>2, <1>3, <1>4, <1>7, TaskStep DEF Place
<1>9. InPlaceOf(t)'
  <2>1. at'[t] = "run"
    BY <1>1, <1>2
  <2> QED
    BY <1>7, <2>1 DEF InPlaceOf
<1> QED
  BY <1>1, <1>8, <1>9 DEF RecoveryInductive, RecoveryTypeOK

LEMMA WakeParentKeeps ==
  ASSUME RecoveryInductive, NEW t \in Task, WakeParent(t)
  PROVE  RecoveryInductive'
<1>1. /\ shape' = shape /\ declared' = declared /\ missing' = missing /\ up = "up" /\ up' = up
      /\ result' = result /\ current' = current /\ budget' = budget
      /\ at[t] = "off" /\ at' = [at EXCEPT ![t] = "ready"]
      /\ t \in DOMAIN truth.tasks /\ truth.tasks[t].status = "SUSPENDED"
      /\ Log(<<Ev("TaskResumed", t)>>) /\ owed' = owed \cup {Owed("TaskResumed", t)}
  BY DEF WakeParent, Goto, Announce, Live
<1>2. /\ shape \in Shape /\ truth \in View /\ write \in Writing \cup {None} /\ owed \subseteq Owing
      /\ at \in [Task -> Place]
  BY DEF RecoveryInductive, RecoveryTypeOK
<1>3. ~Canceled(t)
  BY <1>1 DEF Canceled
<1>4. "TaskResumed" \in DOMAIN StatusBy /\ StatusBy["TaskResumed"] = "PENDING"
  BY DEF StatusBy
<1>5. /\ <<Ev("TaskResumed", t)>> \in Seq(About({t}) \cap Quiet)
      /\ t \in DOMAIN Fold(truth, <<Ev("TaskResumed", t)>>).tasks
      /\ Fold(truth, <<Ev("TaskResumed", t)>>).tasks[t].status = "PENDING"
  BY <1>1, <1>2, <1>4, TaskEvent
<1>6. LogBeside(<<Ev("TaskResumed", t)>>, write)
  BY <1>1 DEF Log
<1>7. truth' = Fold(truth, <<Ev("TaskResumed", t)>>)
  BY <1>6 DEF LogBeside
<1>8. ~Canceled(t)' /\ t \in DOMAIN truth'.tasks
  BY <1>5, <1>7 DEF Canceled
<1>9. /\ truth' \in View
      /\ base' \in Snapshot \cup {None} /\ write' \in Writing \cup {None}
      /\ shape' \in Shape /\ declared' \subseteq Item /\ missing' \subseteq Item
      /\ SnapshotsAgree' /\ DeclaredIsCanceled' /\ ToldIsCanceled'
      /\ AskedAreKnown' /\ MissingIsAwaited'
      /\ at' \in [Task -> Place] /\ (InPlaceOf(t)' => InPlace')
  BY <1>1, <1>2, <1>3, <1>5, <1>6, <1>8, TaskStep DEF Place
<1>10. InPlaceOf(t)'
  <2>1. at'[t] = "ready"
    BY <1>1, <1>2
  <2> QED
    BY <1>8, <2>1 DEF InPlaceOf
<1>11. owed' \subseteq Owing
  BY <1>1, <1>2, <1>4, OwedTyped
<1> QED
  BY <1>1, <1>9, <1>10, <1>11 DEF RecoveryInductive, RecoveryTypeOK

LEMMA DisposeKeeps ==
  ASSUME RecoveryInductive, NEW t \in Task, Dispose(t)
  PROVE  RecoveryInductive'
<1>1. /\ shape' = shape /\ declared' = declared /\ missing' = missing /\ up = "up" /\ up' = up
      /\ result' = result /\ current' = current /\ budget' = budget
      /\ at[t] = "queued" /\ at' = [at EXCEPT ![t] = "off"]
      /\ Log(<<Ev("TaskCanceled", t)>>) /\ owed' = owed \cup {Owed("TaskCanceled", t)}
  BY DEF Dispose, Goto, Announce
<1>2. /\ shape \in Shape /\ truth \in View /\ write \in Writing \cup {None} /\ owed \subseteq Owing
      /\ at \in [Task -> Place] /\ InPlaceOf(t)
  BY DEF RecoveryInductive, RecoveryTypeOK, InPlace
<1>3. ~Canceled(t) /\ t \in DOMAIN truth.tasks /\ t \notin truth.asks
  BY <1>1, <1>2 DEF InPlaceOf
<1>4. "TaskCanceled" \in DOMAIN StatusBy
  BY DEF StatusBy
<1>5. <<Ev("TaskCanceled", t)>> \in Seq(About({t}) \cap Quiet)
  BY <1>2, <1>3, <1>4, TaskEvent
<1>6. LogBeside(<<Ev("TaskCanceled", t)>>, write)
  BY <1>1 DEF Log
<1>7. /\ truth' \in View
      /\ base' \in Snapshot \cup {None} /\ write' \in Writing \cup {None}
      /\ shape' \in Shape /\ declared' \subseteq Item /\ missing' \subseteq Item
      /\ SnapshotsAgree' /\ DeclaredIsCanceled' /\ ToldIsCanceled'
      /\ AskedAreKnown' /\ MissingIsAwaited'
      /\ at' \in [Task -> Place] /\ (InPlaceOf(t)' => InPlace')
  BY <1>1, <1>2, <1>3, <1>5, <1>6, TaskStep DEF Place
<1>8. InPlaceOf(t)'
  <2>1. at'[t] = "off"
    BY <1>1, <1>2
  <2> QED
    BY <2>1 DEF InPlaceOf
<1>9. owed' \subseteq Owing
  BY <1>1, <1>2, <1>3, <1>4, OwedTyped
<1> QED
  BY <1>1, <1>7, <1>8, <1>9 DEF RecoveryInductive, RecoveryTypeOK

LEMMA SettleKeeps ==
  ASSUME RecoveryInductive, NEW t \in Task, Settle(t)
  PROVE  RecoveryInductive'
<1> DEFINE who == IF result[t] = "TaskCanceled" THEN shape.agent[t] ELSE None
           p == IF result[t] = "TaskSuspended" THEN "spawn" ELSE "off"
<1>1. /\ shape' = shape /\ declared' = declared /\ missing' = missing /\ up = "up" /\ up' = up
      /\ result' = result /\ current' = current /\ budget' = budget
      /\ at[t] = "settle" /\ at' = [at EXCEPT ![t] = p]
      /\ Log(<<By(who, result[t], t)>>) /\ owed' = owed \cup {Owed(result[t], t)}
  BY DEF Settle, Goto
<1>2. /\ shape \in Shape /\ truth \in View /\ write \in Writing \cup {None} /\ owed \subseteq Owing
      /\ at \in [Task -> Place] /\ InPlaceOf(t)
  BY DEF RecoveryInductive, RecoveryTypeOK, InPlace
<1>3. ~Canceled(t) /\ t \in DOMAIN truth.tasks /\ result[t] \in DOMAIN StatusBy
  BY <1>1, <1>2 DEF InPlaceOf
<1>4. shape.agent[t] \in Agent /\ who \in Agent \cup {None} /\ None \notin Agent
  BY <1>2, CreatedTyped, RecoveryAssumption
<1> HIDE DEF who
<1>5. /\ <<By(who, result[t], t)>> \in Seq(About({t}) \cap Quiet)
      /\ t \in DOMAIN Fold(truth, <<By(who, result[t], t)>>).tasks
      /\ Fold(truth, <<By(who, result[t], t)>>).tasks[t].status = StatusBy[result[t]]
      /\ result[t] = "TaskCanceled" =>
           Fold(truth, <<By(who, result[t], t)>>).tasks[t].canceled = (who # None)
  BY <1>2, <1>3, <1>4, StatusEvent
<1>6. LogBeside(<<By(who, result[t], t)>>, write)
  BY <1>1 DEF Log
<1>7. truth' = Fold(truth, <<By(who, result[t], t)>>)
  BY <1>6 DEF LogBeside
<1>8. /\ Canceled(t)' => truth'.tasks[t].canceled
      /\ result[t] = "TaskSuspended" => ~Canceled(t)'
  <2>1. StatusBy[result[t]] = "CANCELED" => result[t] = "TaskCanceled"
    BY <1>3 DEF StatusBy
  <2>2. result[t] = "TaskCanceled" => who # None
    BY <1>4 DEF who
  <2>3. Canceled(t)' => truth'.tasks[t].status = "CANCELED"
    BY DEF Canceled
  <2>4. Canceled(t)' => result[t] = "TaskCanceled"
    BY <1>5, <1>7, <2>1, <2>3
  <2> QED
    BY <1>5, <1>7, <2>2, <2>4
<1>9. p \in Place
  BY DEF Place
<1>10. /\ truth' \in View
      /\ base' \in Snapshot \cup {None} /\ write' \in Writing \cup {None}
      /\ shape' \in Shape /\ declared' \subseteq Item /\ missing' \subseteq Item
      /\ SnapshotsAgree' /\ DeclaredIsCanceled' /\ ToldIsCanceled'
      /\ AskedAreKnown' /\ MissingIsAwaited'
      /\ at' \in [Task -> Place] /\ (InPlaceOf(t)' => InPlace') /\ Steady(truth, truth', {t})
  <2> HIDE DEF p
  <2> QED
    BY <1>1, <1>2, <1>3, <1>5, <1>6, <1>8, <1>9, TaskStep
<1>11. InPlaceOf(t)'
  <2>1. at'[t] = p
    BY <1>1, <1>2, <1>9
  <2>2. t \in DOMAIN truth'.tasks
    BY <1>3, <1>10 DEF Steady
  <2> QED
    BY <1>8, <2>1, <2>2 DEF InPlaceOf
<1>12. owed' \subseteq Owing
  BY <1>1, <1>2, <1>3, OwedTyped
<1> QED
  BY <1>1, <1>10, <1>11, <1>12 DEF RecoveryInductive, RecoveryTypeOK

LEMMA EmptyViewTyped ==
  EmptyView \in View
<1> DEFINE f == [u \in {} |-> None]
<1>1. DOMAIN f \subseteq Task /\ f = [u \in DOMAIN f |-> f[u]] /\ \A u \in DOMAIN f : f[u] \in TaskState
  OBVIOUS
<1> HIDE DEF f
<1>2. f \in TaskMap
  BY <1>1, TaskMaps
<1>3. "idle" \in {AgentStatusBy[e] : e \in DOMAIN AgentStatusBy}
  BY DEF AgentStatusBy
<1> QED
  BY <1>2, <1>3 DEF EmptyView, View, TaskMap, f

LEMMA SnapshotBegins ==
  ASSUME NEW t \in Task \cup {None}
  PROVE  BeginSnapshot(t) \in Writing /\ BeginSnapshot(t).step = "head"
BY EmptyViewTyped DEF BeginSnapshot, Writing

LEMMA RunEndsKeeps ==
  ASSUME RecoveryInductive, NEW t \in Task, RunEnds(t)
  PROVE  RecoveryInductive'
<1>1. /\ shape' = shape /\ declared' = declared /\ missing' = missing /\ up = "up" /\ up' = up
      /\ result' = result /\ current' = current /\ owed' = owed
      /\ at[t] = "end" /\ at' = [at EXCEPT ![t] = "settle"]
      /\ \/ LogBeside(<<Ev("RunFinished", t)>>, BeginSnapshot(t)) /\ Spend("snapshots")
         \/ LogBeside(<<Ev("RunFinished", t)>>, write) /\ budget' = budget
  BY DEF RunEnds, Goto, Log, MayBegin
<1>2. /\ shape \in Shape /\ truth \in View /\ write \in Writing \cup {None} /\ at \in [Task -> Place]
      /\ InPlaceOf(t) /\ budget \in [{"crashes", "snapshots", "upsets"} -> Nat]
  BY DEF RecoveryInductive, RecoveryTypeOK, InPlace
<1>3. ~Canceled(t) /\ t \in DOMAIN truth.tasks /\ result[t] \in DOMAIN StatusBy
  BY <1>1, <1>2 DEF InPlaceOf
<1>4. PICK w \in Writing \cup {None} : /\ w = write \/ w.step = "head"
                                       /\ LogBeside(<<Ev("RunFinished", t)>>, w)
  BY <1>1, <1>2, SnapshotBegins
<1>5. <<Ev("RunFinished", t)>> \in Seq(About({}) \cap Quiet)
  BY OtherEvent
<1>6. truth' = Fold(truth, <<Ev("RunFinished", t)>>)
  BY <1>4 DEF LogBeside
<1>7. Steady(truth, truth', {})
  <2>1. <<Ev("RunFinished", t)>> \in Seq(About({}))
    BY <1>5
  <2> QED
    BY <1>2, <1>6, <2>1, FoldSteady
<1>8. ~Canceled(t)' /\ t \in DOMAIN truth'.tasks
  BY <1>3, <1>7 DEF Steady, Canceled
<1>9. /\ truth' \in View
      /\ base' \in Snapshot \cup {None} /\ write' \in Writing \cup {None}
      /\ shape' \in Shape /\ declared' \subseteq Item /\ missing' \subseteq Item
      /\ SnapshotsAgree' /\ DeclaredIsCanceled' /\ ToldIsCanceled'
      /\ AskedAreKnown' /\ MissingIsAwaited'
      /\ at' \in [Task -> Place] /\ (InPlaceOf(t)' => InPlace')
  BY <1>1, <1>2, <1>3, <1>4, <1>5, <1>8, TaskStep DEF Place
<1>10. InPlaceOf(t)'
  <2>1. at'[t] = "settle"
    BY <1>1, <1>2
  <2> QED
    BY <1>1, <1>3, <1>8, <2>1 DEF InPlaceOf
<1>11. budget' \in [{"crashes", "snapshots", "upsets"} -> Nat]
  BY <1>1, <1>2, SpendTyped
<1> QED
  BY <1>1, <1>9, <1>10, <1>11 DEF RecoveryInductive, RecoveryTypeOK

LEMMA SpawnKeeps ==
  ASSUME RecoveryInductive, NEW t \in Task, NEW c \in Task, Spawn(t, c)
  PROVE  RecoveryInductive'
<1> DEFINE p == IF ToSpawn(t) = {c} THEN "off" ELSE at[t]
           e == Ev("TaskCreated", c)
<1>1. /\ shape' = shape /\ declared' = declared /\ missing' = missing /\ up = "up" /\ up' = up
      /\ result' = result /\ current' = current /\ owed' = owed /\ budget' = budget
      /\ at[t] = "spawn" /\ c \notin DOMAIN truth.tasks
      /\ at' = [at EXCEPT ![c] = "queued", ![t] = p]
      /\ LogBeside(<<e>>, write)
  BY DEF Spawn, ToSpawn, Log
<1>2. /\ shape \in Shape /\ truth \in View /\ write \in Writing \cup {None} /\ at \in [Task -> Place]
      /\ InPlace /\ AskedAreKnown /\ MissingIsAwaited
  BY DEF RecoveryInductive, RecoveryTypeOK
<1>3. t \in DOMAIN truth.tasks /\ c # t /\ c \notin truth.asks
  BY <1>1, <1>2 DEF InPlace, InPlaceOf, AskedAreKnown
<1>4. /\ \A u \in Task \ {c, t} : at'[u] = at[u]
      /\ at'[c] = "queued" /\ at'[t] \in {"off", "spawn"} /\ at' \in [Task -> Place]
  BY <1>1, <1>2, <1>3 DEF Place
<1>5. e \in LogEvent /\ e.type = "TaskCreated" /\ e.task = c
  BY EventsTyped DEF EventType
<1> HIDE DEF e
<1>6. <<e>> \in Seq(About({c}) \cap Quiet)
  <2>1. e \in About({c}) \cap Quiet
    BY <1>5, StatusNames DEF About, Quiet, Questions
  <2> QED
    BY <2>1
<1>7. truth' = Apply(truth, e)
  BY <1>1, FoldOne DEF LogBeside
<1>8. c \in DOMAIN truth'.tasks /\ truth'.tasks[c].status = "PENDING"
  BY <1>2, <1>5, <1>7, ApplyTasks, CreatedTyped
<1>9. ~Canceled(c)
  BY <1>1 DEF Canceled
<1>10. \A m \in missing' : m.kind # "reply" /\ ~Canceled(m.task) =>
         /\ m.task \in {c} => truth'.tasks[m.task].status \notin {"FINISHED", "FAILED"}
         /\ up' = "up" => at'[m.task] = "store"
         /\ up' = "loaded" => m.kind = "answer"
  <2> SUFFICES ASSUME NEW m \in missing, m.kind # "reply", ~Canceled(m.task)
               PROVE  m.task # c /\ at'[m.task] = "store"
    BY <1>1
  <2>1. m.task \in DOMAIN truth.tasks /\ at[m.task] = "store"
    BY <1>1, <1>2 DEF MissingIsAwaited, Awaited
  <2>2. m.task \in Task /\ m.task # c /\ m.task # t
    BY <1>1, <1>2, <2>1, ViewParts
  <2> QED
    BY <1>4, <2>1, <2>2
<1>11. /\ truth' \in View
       /\ base' \in Snapshot \cup {None} /\ write' \in Writing \cup {None}
       /\ shape' \in Shape /\ declared' \subseteq Item /\ missing' \subseteq Item
       /\ SnapshotsAgree' /\ DeclaredIsCanceled' /\ ToldIsCanceled'
       /\ AskedAreKnown' /\ MissingIsAwaited'
       /\ truth'.asks = truth.asks /\ Steady(truth, truth', {c})
  <2>1. c \notin {c} \cap truth.asks /\ \A u \in {c} : ~Canceled(u)
    BY <1>3, <1>9
  <2>2. \A u \in {c} \cap truth.asks : Canceled(u)' => truth'.tasks[u].canceled
    BY <1>3
  <2> QED
    BY <1>1, <1>2, <1>6, <1>10, <2>1, <2>2, QuietStep
<1>12. InPlace'
  <2>1. ASSUME NEW u \in Task
        PROVE  InPlaceOf(u)'
    <3>1. CASE u = c
      BY <1>3, <1>4, <1>8, <1>11, <3>1 DEF InPlaceOf, Canceled
    <3>2. CASE u # c
      <4>1. InPlaceOf(u) /\ (at'[u] # "off" => at'[u] = at[u])
        BY <1>1, <1>2, <1>4, <3>2 DEF InPlace
      <4>2. /\ Canceled(u)' => Canceled(u)
            /\ u \in DOMAIN truth.tasks => u \in DOMAIN truth'.tasks
        BY <1>11, <3>2 DEF Canceled, Steady
      <4> QED
        BY <1>1, <1>11, <4>1, <4>2 DEF InPlaceOf
    <3> QED
      BY <3>1, <3>2
  <2> QED
    BY <1>1, <2>1 DEF InPlace
<1> QED
  BY <1>1, <1>4, <1>11, <1>12 DEF RecoveryInductive, RecoveryTypeOK

\* A step that stores events of agents, or of no task's status, and moves no task.
LEMMA BesideStep ==
  ASSUME RecoveryInductive, shape' = shape, declared' = declared, missing' = missing,
         up' = up, at' = at, result' = result,
         NEW events \in Seq(About({}) \cap Quiet), Log(events)
  PROVE  /\ truth' \in View
         /\ base' \in Snapshot \cup {None} /\ write' \in Writing \cup {None}
         /\ shape' \in Shape /\ declared' \subseteq Item /\ missing' \subseteq Item
         /\ SnapshotsAgree' /\ DeclaredIsCanceled' /\ ToldIsCanceled'
         /\ AskedAreKnown' /\ MissingIsAwaited' /\ InPlace'
<1>1. MissingIsAwaited /\ InPlace /\ write \in Writing \cup {None}
  BY DEF RecoveryInductive, RecoveryTypeOK
<1>2. \A m \in missing' : m.kind # "reply" /\ ~Canceled(m.task) =>
         /\ m.task \in {} => truth'.tasks[m.task].status \notin {"FINISHED", "FAILED"}
         /\ up' = "up" => at'[m.task] = "store"
         /\ up' = "loaded" => m.kind = "answer"
  BY <1>1 DEF MissingIsAwaited, Awaited
<1>3. LogBeside(events, write)
  BY DEF Log
<1>4. /\ truth' \in View
      /\ base' \in Snapshot \cup {None} /\ write' \in Writing \cup {None}
      /\ shape' \in Shape /\ declared' \subseteq Item /\ missing' \subseteq Item
      /\ SnapshotsAgree' /\ DeclaredIsCanceled' /\ ToldIsCanceled'
      /\ AskedAreKnown' /\ MissingIsAwaited'
      /\ truth'.asks = truth.asks /\ Steady(truth, truth', {})
  BY <1>1, <1>2, <1>3, QuietStep
<1>5. InPlace'
  <2>1. ASSUME NEW u \in Task
        PROVE  InPlaceOf(u)'
    <3>1. InPlaceOf(u)
      BY <1>1 DEF InPlace
    <3>2. /\ Canceled(u)' => Canceled(u)
          /\ u \in DOMAIN truth.tasks => u \in DOMAIN truth'.tasks
      BY <1>4 DEF Canceled, Steady
    <3> QED
      BY <1>4, <3>1, <3>2 DEF InPlaceOf
  <2> QED
    BY <1>1, <2>1 DEF InPlace
<1> QED
  BY <1>4, <1>5

LEMMA ObserveAppliedKeeps ==
  ASSUME RecoveryInductive, NEW t \in Task, ObserveApplied(t)
  PROVE  RecoveryInductive'
<1>1. /\ shape' = shape /\ declared' = declared /\ missing' = missing /\ up' = up
      /\ at' = at /\ result' = result /\ current' = current /\ owed' = owed /\ budget' = budget
      /\ Log(<<Ev("ObserveApplied", t)>>)
  BY DEF ObserveApplied
<1>2. <<Ev("ObserveApplied", t)>> \in Seq(About({}) \cap Quiet)
  BY OtherEvent
<1>3. /\ truth' \in View
      /\ base' \in Snapshot \cup {None} /\ write' \in Writing \cup {None}
      /\ shape' \in Shape /\ declared' \subseteq Item /\ missing' \subseteq Item
      /\ SnapshotsAgree' /\ DeclaredIsCanceled' /\ ToldIsCanceled'
      /\ AskedAreKnown' /\ MissingIsAwaited' /\ InPlace'
  BY <1>1, <1>2, BesideStep
<1> QED
  BY <1>1, <1>3 DEF RecoveryInductive, RecoveryTypeOK

LEMMA CancelAgentKeeps ==
  ASSUME RecoveryInductive, NEW a \in Agent, NEW t \in Task, CancelAgent(a, t)
  PROVE  RecoveryInductive'
<1>1. /\ shape' = shape /\ declared' = declared /\ missing' = missing /\ up' = up
      /\ at' = at /\ result' = result /\ owed' = owed /\ Spend("upsets")
      /\ current' = [current EXCEPT ![a] = t]
      /\ Log(<<By(a, "AgentTerminated", t)>>)
  BY DEF CancelAgent
<1>2. <<By(a, "AgentTerminated", t)>> \in Seq(About({}) \cap Quiet)
  <2>1. "AgentTerminated" \in DOMAIN AgentStatusBy
    BY StatusNames
  <2>2. By(a, "AgentTerminated", t) \in AgentEvent
    BY <2>1, AgentMoves
  <2>3. By(a, "AgentTerminated", t) \in About({}) \cap Quiet
    BY <2>2, AgentEventsQuiet
  <2> QED
    BY <2>3
<1>3. /\ truth' \in View
      /\ base' \in Snapshot \cup {None} /\ write' \in Writing \cup {None}
      /\ shape' \in Shape /\ declared' \subseteq Item /\ missing' \subseteq Item
      /\ SnapshotsAgree' /\ DeclaredIsCanceled' /\ ToldIsCanceled'
      /\ AskedAreKnown' /\ MissingIsAwaited' /\ InPlace'
  BY <1>1, <1>2, BesideStep
<1>4. budget' \in [{"crashes", "snapshots", "upsets"} -> Nat] /\ current' \in [Agent -> Task \cup {None}]
  <2>1. budget \in [{"crashes", "snapshots", "upsets"} -> Nat] /\ current \in [Agent -> Task \cup {None}]
    BY DEF RecoveryInductive, RecoveryTypeOK
  <2> QED
    BY <1>1, <2>1, SpendTyped
<1> QED
  BY <1>1, <1>3, <1>4 DEF RecoveryInductive, RecoveryTypeOK

LEMMA TellKeeps ==
  ASSUME RecoveryInductive, NEW m \in owed, Tell(m)
  PROVE  RecoveryInductive'
<1>1. /\ shape' = shape /\ declared' = declared /\ missing' = missing /\ up' = up
      /\ at' = at /\ result' = result /\ owed' \subseteq owed /\ budget' = budget
      /\ \/ UNCHANGED <<logVars, current>>
         \/ /\ Log(Move(truth, m.agent, m.to, m.task))
            /\ current' = [current EXCEPT ![m.agent] = m.task]
  BY DEF Tell
<1>2. /\ m \in Owing /\ owed \subseteq Owing /\ current \in [Agent -> Task \cup {None}]
  BY DEF RecoveryInductive, RecoveryTypeOK
<1>3. /\ m.agent \in Agent \cup {None} /\ m.task \in Task
      /\ m.to \in {"running", "waiting_human", "interrupted", "idle"}
  BY <1>2 DEF Owing
<1>4. CASE UNCHANGED <<logVars, current>>
  BY <1>1, <1>2, <1>4 DEF logVars, RecoveryInductive, RecoveryTypeOK, SnapshotsAgree, InPlace, InPlaceOf,
       Canceled, AskedAreKnown, MissingIsAwaited, Awaited, DeclaredIsCanceled, ToldIsCanceled
<1>5. CASE /\ Log(Move(truth, m.agent, m.to, m.task))
           /\ current' = [current EXCEPT ![m.agent] = m.task]
  <2>1. Move(truth, m.agent, m.to, m.task) \in Seq(About({}) \cap Quiet)
    <3>1. Move(truth, m.agent, m.to, m.task) \in Seq(AgentEvent)
      BY <1>3, MoveIsAgents
    <3> QED
      BY <3>1, AgentEventsQuiet
  <2>2. /\ truth' \in View
        /\ base' \in Snapshot \cup {None} /\ write' \in Writing \cup {None}
        /\ shape' \in Shape /\ declared' \subseteq Item /\ missing' \subseteq Item
        /\ SnapshotsAgree' /\ DeclaredIsCanceled' /\ ToldIsCanceled'
        /\ AskedAreKnown' /\ MissingIsAwaited' /\ InPlace'
    BY <1>1, <1>5, <2>1, BesideStep
  <2>3. current' \in [Agent -> Task \cup {None}]
    BY <1>2, <1>3, <1>5
  <2> QED
    BY <1>1, <1>2, <2>2, <2>3 DEF RecoveryInductive, RecoveryTypeOK
<1> QED
  BY <1>1, <1>4, <1>5

\* One event about a question.
LEMMA QuestionEvent ==
  ASSUME shape \in Shape, NEW v \in View, NEW t \in Task, NEW type \in Questions
  PROVE  /\ <<Ev(type, t)>> \in Seq(About({}))
         /\ type = "HitlOpened" => Fold(v, <<Ev(type, t)>>).asks = v.asks \cup {t}
         /\ type # "HitlOpened" => Fold(v, <<Ev(type, t)>>).asks = v.asks \ {t}
         /\ type = "HitlClosed" => Fold(v, <<Ev(type, t)>>).answered = v.answered \ {t}
         /\ type \notin {"HitlResolved", "HitlClosed"} => Fold(v, <<Ev(type, t)>>).answered = v.answered
<1> DEFINE e == Ev(type, t)
<1>1. e \in LogEvent /\ e.type = type /\ e.task = t
  BY EventsTyped DEF EventType
<1> HIDE DEF e
<1>2. e \in About({})
  BY <1>1, StatusNames DEF About, Questions
<1>3. Fold(v, <<e>>).asks = AsksAfter(v, e) /\ Fold(v, <<e>>).answered = AnsweredAfter(v, e)
  BY FoldOne, ApplyQuestions
<1>4. /\ type = "HitlOpened" => AsksAfter(v, e) = v.asks \cup {t}
      /\ type # "HitlOpened" => AsksAfter(v, e) = v.asks \ {t}
      /\ type = "HitlClosed" => AnsweredAfter(v, e) = v.answered \ {t}
      /\ type \notin {"HitlResolved", "HitlClosed"} => AnsweredAfter(v, e) = v.answered
  BY <1>1 DEF AsksAfter, AnsweredAfter, Tracked, Questions
<1>5. <<e>> \in Seq(About({}))
  BY <1>2
<1> QED
  BY <1>3, <1>4, <1>5 DEF e

LEMMA QuestionStep ==
  ASSUME RecoveryInductive, shape' = shape, declared' = declared, missing' \subseteq missing,
         NEW t \in Task, NEW type \in Questions \ {"HitlResolved"}, Log(<<Ev(type, t)>>),
         type = "HitlOpened" => t \in DOMAIN truth.tasks /\ ~Canceled(t),
         \A m \in missing' : m.kind # "reply" /\ ~Canceled(m.task) =>
           /\ m.kind = "answer" /\ type = "HitlClosed" => m.task # t
           /\ up' = "up" => at'[m.task] = "store"
           /\ up' = "loaded" => m.kind = "answer"
  PROVE  /\ truth' \in View
         /\ base' \in Snapshot \cup {None} /\ write' \in Writing \cup {None}
         /\ shape' \in Shape /\ declared' \subseteq Item /\ missing' \subseteq Item
         /\ SnapshotsAgree' /\ DeclaredIsCanceled' /\ ToldIsCanceled'
         /\ AskedAreKnown' /\ MissingIsAwaited' /\ Steady(truth, truth', {})
         /\ type = "HitlOpened" => truth'.asks = truth.asks \cup {t}
         /\ type # "HitlOpened" => truth'.asks = truth.asks \ {t}
<1> DEFINE events == <<Ev(type, t)>>
<1>1. shape \in Shape /\ truth \in View /\ write \in Writing \cup {None} /\ MissingIsAwaited
      /\ LogBeside(events, write) /\ truth' = Fold(truth, events)
  BY DEF RecoveryInductive, RecoveryTypeOK, Log, LogBeside
<1>2. /\ events \in Seq(About({}))
      /\ type = "HitlOpened" => truth'.asks = truth.asks \cup {t}
      /\ type # "HitlOpened" => truth'.asks = truth.asks \ {t}
      /\ type = "HitlClosed" => truth'.answered = truth.answered \ {t}
      /\ type # "HitlClosed" => truth'.answered = truth.answered
  <2>1. type \in Questions /\ type # "HitlResolved"
    OBVIOUS
  <2>2. shape \in Shape /\ truth \in View /\ truth' = Fold(truth, events)
    BY <1>1
  <2> QED
    BY <2>1, <2>2, QuestionEvent
<1> HIDE DEF events
<1>3. Steady(truth, truth', {})
  BY <1>1, <1>2, FoldSteady
<1>4. \A u \in truth'.asks : \/ u \in truth.asks /\ u \notin {}
                             \/ u \in DOMAIN truth'.tasks /\ (Canceled(u)' => truth'.tasks[u].canceled)
  BY <1>2, <1>3 DEF Steady, Canceled
<1>5. \A m \in missing' : m.kind # "reply" /\ ~Canceled(m.task) =>
        /\ m.task \in {} => truth'.tasks[m.task].status \notin {"FINISHED", "FAILED"}
        /\ StillAwaited(m)
  BY <1>1, <1>2 DEF MissingIsAwaited, Awaited, StillAwaited
<1>6. \A u \in {} : ~Canceled(u)
  OBVIOUS
<1>7. /\ truth' \in View
      /\ base' \in Snapshot \cup {None} /\ write' \in Writing \cup {None}
      /\ shape' \in Shape /\ declared' \subseteq Item /\ missing' \subseteq Item
      /\ SnapshotsAgree' /\ DeclaredIsCanceled' /\ ToldIsCanceled'
      /\ AskedAreKnown' /\ MissingIsAwaited'
  BY <1>1, <1>2, <1>4, <1>5, <1>6, LogStep
<1> QED
  BY <1>2, <1>3, <1>7

LEMMA CloseAnswerKeeps ==
  ASSUME RecoveryInductive, NEW t \in Task, CloseAnswer(t)
  PROVE  RecoveryInductive'
<1>1. /\ shape' = shape /\ declared' = declared /\ missing' = missing /\ up = "up" /\ up' = up
      /\ result' = result /\ current' = current /\ owed' = owed /\ budget' = budget
      /\ at[t] = "close" /\ at' = [at EXCEPT ![t] = Onwards(t)]
      /\ Log(<<Ev("HitlClosed", t)>>)
  BY DEF CloseAnswer, Goto
<1>2. /\ at \in [Task -> Place] /\ InPlace /\ InPlaceOf(t) /\ MissingIsAwaited /\ missing \subseteq Item
  BY DEF RecoveryInductive, RecoveryTypeOK, InPlace
<1>3. ~Canceled(t) /\ t \in DOMAIN truth.tasks
  BY <1>1, <1>2 DEF InPlaceOf
<1>4. \A m \in missing' : m.kind # "reply" /\ ~Canceled(m.task) =>
        /\ m.kind = "answer" /\ "HitlClosed" = "HitlClosed" => m.task # t
        /\ up' = "up" => at'[m.task] = "store"
        /\ up' = "loaded" => m.kind = "answer"
  <2> SUFFICES ASSUME NEW m \in missing, m.kind # "reply", ~Canceled(m.task)
               PROVE  m.task # t /\ at'[m.task] = "store"
    BY <1>1
  <2>1. m.task # t
    BY <1>1, <1>3, NothingAwaited
  <2>2. m.task \in Task /\ at[m.task] = "store"
    BY <1>1, <1>2 DEF MissingIsAwaited, Awaited, Item
  <2> QED
    BY <1>1, <1>2, <2>1, <2>2
<1>5. /\ truth' \in View
      /\ base' \in Snapshot \cup {None} /\ write' \in Writing \cup {None}
      /\ shape' \in Shape /\ declared' \subseteq Item /\ missing' \subseteq Item
      /\ SnapshotsAgree' /\ DeclaredIsCanceled' /\ ToldIsCanceled'
      /\ AskedAreKnown' /\ MissingIsAwaited' /\ Steady(truth, truth', {})
      /\ truth'.asks = truth.asks \ {t}
  <2>1. "HitlClosed" \in Questions \ {"HitlResolved"}
    BY DEF Questions
  <2> QED
    BY <1>1, <1>4, <2>1, QuestionStep
<1>6. Onwards(t) \in {"run", "off"}
  BY DEF Onwards
<1>7. InPlace' /\ at' \in [Task -> Place]
  <2>1. at'[t] \in {"run", "off"}
    BY <1>1, <1>2, <1>6
  <2>2. ~Canceled(t)' /\ t \in DOMAIN truth'.tasks
    BY <1>3, <1>5 DEF Steady, Canceled
  <2>3. InPlaceOf(t)'
    BY <2>1, <2>2 DEF InPlaceOf
  <2>4. /\ Onwards(t) \in Place /\ truth'.asks \subseteq truth.asks \cup {t}
        /\ \A u \in Task \ {t} : result'[u] = result[u]
        /\ Steady(truth, truth', {t})
    BY <1>1, <1>5, <1>6 DEF Place, Steady
  <2> QED
    BY <1>1, <1>2, <1>5, <2>3, <2>4, PlaceStep
<1> QED
  BY <1>1, <1>5, <1>7 DEF RecoveryInductive, RecoveryTypeOK

LEMMA InjectAnswerKeeps ==
  ASSUME RecoveryInductive, NEW t \in Task, InjectAnswer(t)
  PROVE  RecoveryInductive'
<1>1. /\ shape' = shape /\ declared' = declared /\ up = "loaded" /\ up' = up /\ at' = at
      /\ result' = result /\ current' = current /\ owed' = owed /\ budget' = budget
      /\ missing' = missing \ {Said("answer", t)} /\ Log(<<Ev("HitlClosed", t)>>)
  BY DEF InjectAnswer, Written
<1>2. /\ at \in [Task -> Place] /\ InPlace /\ MissingIsAwaited /\ missing \subseteq Item
  BY DEF RecoveryInductive, RecoveryTypeOK
<1>3. \A m \in missing' : m.kind # "reply" /\ ~Canceled(m.task) =>
        /\ m.kind = "answer" /\ "HitlClosed" = "HitlClosed" => m.task # t
        /\ up' = "up" => at'[m.task] = "store"
        /\ up' = "loaded" => m.kind = "answer"
  <2> SUFFICES ASSUME NEW m \in missing', m.kind # "reply", ~Canceled(m.task)
               PROVE  m.kind = "answer" /\ m.task # t
    BY <1>1
  <2>1. m \in missing /\ m \in Item /\ m # Said("answer", t)
    BY <1>1, <1>2
  <2>2. m.kind = "answer"
    BY <1>1, <1>2, <2>1 DEF MissingIsAwaited, Awaited
  <2>3. m = [kind |-> m.kind, task |-> m.task]
    BY <2>1 DEF Item
  <2> QED
    BY <2>1, <2>2, <2>3 DEF Said
<1>4. /\ truth' \in View
      /\ base' \in Snapshot \cup {None} /\ write' \in Writing \cup {None}
      /\ shape' \in Shape /\ declared' \subseteq Item /\ missing' \subseteq Item
      /\ SnapshotsAgree' /\ DeclaredIsCanceled' /\ ToldIsCanceled'
      /\ AskedAreKnown' /\ MissingIsAwaited' /\ Steady(truth, truth', {})
  <2>1. "HitlClosed" \in Questions \ {"HitlResolved"}
    BY DEF Questions
  <2> QED
    BY <1>1, <1>3, <2>1, QuestionStep
<1>5. InPlace'
  <2>1. at' = Idle
    BY <1>1, <1>2 DEF InPlace
  <2>2. \A u \in Task : InPlaceOf(u)'
    BY <2>1 DEF Idle, InPlaceOf
  <2> QED
    BY <2>1, <2>2 DEF InPlace
<1> QED
  BY <1>1, <1>4, <1>5 DEF RecoveryInductive, RecoveryTypeOK

LEMMA FinalizeCanceledKeeps ==
  ASSUME RecoveryInductive, NEW t \in Task, FinalizeCanceled(t)
  PROVE  RecoveryInductive'
<1> DEFINE type == IF t \in truth.asks THEN "HitlCancelled" ELSE "HitlClosed"
<1>1. /\ shape' = shape /\ declared' = declared /\ missing' = missing /\ up' = up /\ at' = at
      /\ result' = result /\ current' = current /\ budget' = budget
      /\ t \in DOMAIN truth.tasks /\ truth.tasks[t].status = "CANCELED"
      /\ \/ Log(<<Ev(type, t)>>) /\ owed' = owed
         \/ Log(<<Ev("TaskFinalized", t)>>) /\ owed' = owed \cup {Owed("TaskFinalized", t)}
  BY DEF FinalizeCanceled, Announce, Unclosed
<1>2. /\ MissingIsAwaited /\ InPlace /\ shape \in Shape /\ truth \in View /\ owed \subseteq Owing
  BY DEF RecoveryInductive, RecoveryTypeOK
<1>3. Canceled(t)
  BY <1>1 DEF Canceled
<1>4. CASE Log(<<Ev(type, t)>>) /\ owed' = owed
  <2>1. type \in Questions \ {"HitlResolved"} /\ type # "HitlOpened"
    BY DEF Questions
  <2> HIDE DEF type
  <2>2. \A m \in missing' : m.kind # "reply" /\ ~Canceled(m.task) =>
          /\ m.kind = "answer" /\ type = "HitlClosed" => m.task # t
          /\ up' = "up" => at'[m.task] = "store"
          /\ up' = "loaded" => m.kind = "answer"
    BY <1>1, <1>2, <1>3 DEF MissingIsAwaited, Awaited
  <2>3. /\ truth' \in View
        /\ base' \in Snapshot \cup {None} /\ write' \in Writing \cup {None}
        /\ shape' \in Shape /\ declared' \subseteq Item /\ missing' \subseteq Item
        /\ SnapshotsAgree' /\ DeclaredIsCanceled' /\ ToldIsCanceled'
        /\ AskedAreKnown' /\ MissingIsAwaited' /\ Steady(truth, truth', {})
        /\ truth'.asks = truth.asks \ {t}
    BY <1>1, <1>4, <2>1, <2>2, QuestionStep
  <2>4. InPlace'
    <3>1. ASSUME NEW u \in Task
          PROVE  InPlaceOf(u)'
      <4>1. InPlaceOf(u)
        BY <1>2 DEF InPlace
      <4>2. /\ Canceled(u)' => Canceled(u)
            /\ u \in DOMAIN truth.tasks => u \in DOMAIN truth'.tasks
        BY <2>3 DEF Canceled, Steady
      <4> QED
        BY <1>1, <2>3, <4>1, <4>2 DEF InPlaceOf
    <3> QED
      BY <1>1, <1>2, <3>1 DEF InPlace
  <2> QED
    BY <1>1, <1>4, <2>3, <2>4 DEF RecoveryInductive, RecoveryTypeOK
<1>5. CASE Log(<<Ev("TaskFinalized", t)>>) /\ owed' = owed \cup {Owed("TaskFinalized", t)}
  <2>1. t \in Task /\ truth.tasks[t].owner \in Agent \cup {None}
    BY <1>1, <1>2, ViewParts DEF TaskState
  <2>2. <<Ev("TaskFinalized", t)>> \in Seq(About({}) \cap Quiet)
    BY OtherEvent
  <2>3. /\ truth' \in View
        /\ base' \in Snapshot \cup {None} /\ write' \in Writing \cup {None}
        /\ shape' \in Shape /\ declared' \subseteq Item /\ missing' \subseteq Item
        /\ SnapshotsAgree' /\ DeclaredIsCanceled' /\ ToldIsCanceled'
        /\ AskedAreKnown' /\ MissingIsAwaited' /\ InPlace'
    BY <1>1, <1>5, <2>2, BesideStep
  <2>4. Owed("TaskFinalized", t) \in Owing
    BY <2>1 DEF Owed, Owing, LeadsTo
  <2>5. owed' \subseteq Owing
    BY <1>2, <1>5, <2>4
  <2> QED
    BY <1>1, <2>3, <2>5 DEF RecoveryInductive, RecoveryTypeOK
<1> QED
  BY <1>1, <1>4, <1>5

LEMMA ConcludeKeeps ==
  ASSUME RecoveryInductive, NEW t \in Task, NEW event \in DOMAIN StatusBy, Conclude(t, event)
  PROVE  RecoveryInductive'
<1>1. /\ shape' = shape /\ declared' = declared /\ missing' = missing /\ up = "up" /\ up' = up
      /\ current' = current /\ owed' = owed
      /\ at[t] = "spoken" /\ at' = [at EXCEPT ![t] = "end"]
      /\ result' = [result EXCEPT ![t] = event]
      /\ UNCHANGED logVars \/ Log(<<Ev("HitlOpened", t)>>)
      /\ Spend("upsets") \/ UNCHANGED budget
  BY DEF Conclude, Goto
<1>2. /\ at \in [Task -> Place] /\ InPlace /\ InPlaceOf(t) /\ MissingIsAwaited /\ missing \subseteq Item
      /\ result \in [Task -> DOMAIN StatusBy \cup {None}] /\ truth \in View
      /\ budget \in [{"crashes", "snapshots", "upsets"} -> Nat]
  BY DEF RecoveryInductive, RecoveryTypeOK, InPlace
<1>3. ~Canceled(t) /\ t \in DOMAIN truth.tasks
  BY <1>1, <1>2 DEF InPlaceOf
<1>4. /\ result' \in [Task -> DOMAIN StatusBy \cup {None}] /\ result'[t] = event
      /\ \A u \in Task \ {t} : result'[u] = result[u]
      /\ at' \in [Task -> Place] /\ at'[t] = "end"
      /\ budget' \in [{"crashes", "snapshots", "upsets"} -> Nat]
  BY <1>1, <1>2, SpendTyped DEF Place
<1>5. \A m \in missing : m.kind # "reply" /\ ~Canceled(m.task) =>
        m.task # t /\ at'[m.task] = "store" /\ Awaited(m)
  <2> SUFFICES ASSUME NEW m \in missing, m.kind # "reply", ~Canceled(m.task)
               PROVE  m.task # t /\ at'[m.task] = "store" /\ Awaited(m)
    OBVIOUS
  <2>1. m.task # t
    BY <1>1, <1>3, NothingAwaited
  <2>2. m.task \in Task /\ at[m.task] = "store" /\ Awaited(m)
    BY <1>1, <1>2 DEF MissingIsAwaited, Awaited, Item
  <2> QED
    BY <1>1, <1>2, <2>1, <2>2
<1>6. CASE UNCHANGED logVars
  <2>1. truth' = truth /\ base' = base /\ write' = write
    BY <1>6 DEF logVars
  <2>2. MissingIsAwaited'
    BY <1>1, <1>2, <1>5, <2>1 DEF MissingIsAwaited, Awaited, Canceled
  <2>3. InPlaceOf(t)'
    BY <1>3, <1>4, <2>1 DEF InPlaceOf, Canceled
  <2>5. InPlace'
    <3>1. "end" \in Place /\ truth'.asks \subseteq truth.asks \cup {t} /\ Steady(truth, truth', {t})
      BY <2>1 DEF Place, Steady
    <3> QED
      BY <1>1, <1>2, <1>4, <2>3, <3>1, PlaceStep
  <2> QED
    BY <1>1, <1>4, <2>1, <2>2, <2>5 DEF RecoveryInductive, RecoveryTypeOK, SnapshotsAgree, AskedAreKnown,
       Canceled, DeclaredIsCanceled, ToldIsCanceled
<1>7. CASE Log(<<Ev("HitlOpened", t)>>)
  <2>1. "HitlOpened" \in Questions \ {"HitlResolved"}
    BY DEF Questions
  <2>2. \A m \in missing' : m.kind # "reply" /\ ~Canceled(m.task) =>
          /\ m.kind = "answer" /\ "HitlOpened" = "HitlClosed" => m.task # t
          /\ up' = "up" => at'[m.task] = "store"
          /\ up' = "loaded" => m.kind = "answer"
    BY <1>1, <1>5
  <2>3. /\ truth' \in View
        /\ base' \in Snapshot \cup {None} /\ write' \in Writing \cup {None}
        /\ shape' \in Shape /\ declared' \subseteq Item /\ missing' \subseteq Item
        /\ SnapshotsAgree' /\ DeclaredIsCanceled' /\ ToldIsCanceled'
        /\ AskedAreKnown' /\ MissingIsAwaited' /\ Steady(truth, truth', {})
        /\ truth'.asks = truth.asks \cup {t}
    BY <1>1, <1>3, <1>7, <2>1, <2>2, QuestionStep
  <2>4. InPlaceOf(t)'
    <3>1. ~Canceled(t)' /\ t \in DOMAIN truth'.tasks
      BY <1>3, <2>3 DEF Steady, Canceled
    <3> QED
      BY <1>4, <3>1 DEF InPlaceOf
  <2>5. InPlace'
    <3>1. "end" \in Place /\ truth'.asks \subseteq truth.asks \cup {t} /\ Steady(truth, truth', {t})
      BY <2>3 DEF Place, Steady
    <3> QED
      BY <1>1, <1>2, <1>4, <2>3, <2>4, <3>1, PlaceStep
  <2> QED
    BY <1>1, <1>4, <2>3, <2>5 DEF RecoveryInductive, RecoveryTypeOK
<1> QED
  BY <1>1, <1>6, <1>7

-------------------------------------------------------------------------------
\* A step of one task that stores nothing.
LEMMA SilentStep ==
  ASSUME RecoveryInductive, UNCHANGED <<shape, logVars, up, owed, declared, budget>>, up = "up",
         NEW t \in Task, NEW p \in Place, at' = [at EXCEPT ![t] = p],
         \A u \in Task \ {t} : result'[u] = result[u],
         missing' \subseteq missing,
         \A m \in missing' : m.task = t /\ ~Canceled(t) => m.kind = "reply",
         result' \in [Task -> DOMAIN StatusBy \cup {None}],
         current' \in [Agent -> Task \cup {None}],
         InPlaceOf(t)'
  PROVE  RecoveryInductive'
<1>1. /\ shape' = shape /\ truth' = truth /\ base' = base /\ write' = write /\ up' = up
      /\ declared' = declared /\ owed' = owed /\ budget' = budget
  BY DEF logVars
<1>2. /\ at \in [Task -> Place] /\ InPlace /\ MissingIsAwaited /\ missing \subseteq Item
  BY DEF RecoveryInductive, RecoveryTypeOK
<1>3. Steady(truth, truth', {t}) /\ truth'.asks \subseteq truth.asks \cup {t}
  BY <1>1 DEF Steady
<1>4. InPlace' /\ at' \in [Task -> Place]
  BY <1>1, <1>2, <1>3, PlaceStep
<1>5. MissingIsAwaited'
  <2> SUFFICES ASSUME NEW m \in missing'
               PROVE  /\ m.task \in DOMAIN truth'.tasks
                      /\ m.kind = "reply" \/ Canceled(m.task)' \/ Awaited(m)'
    BY DEF MissingIsAwaited
  <2>1. /\ m.task \in DOMAIN truth.tasks /\ m.task \in Task
        /\ m.kind = "reply" \/ Canceled(m.task) \/ Awaited(m)
    BY <1>2 DEF MissingIsAwaited, Item
  <2>2. Canceled(m.task)' = Canceled(m.task)
    BY <1>1 DEF Canceled
  <2>3. CASE m.task = t
    BY <1>1, <2>1, <2>2, <2>3
  <2>4. CASE m.task # t
    <3>1. at'[m.task] = at[m.task]
      BY <1>2, <2>1, <2>4
    <3>2. Awaited(m) => Awaited(m)'
      BY <1>1, <3>1 DEF Awaited
    <3> QED
      BY <1>1, <2>1, <2>2, <3>2
  <2> QED
    BY <2>3, <2>4
<1>6. /\ SnapshotsAgree' /\ AskedAreKnown' /\ DeclaredIsCanceled' /\ ToldIsCanceled'
  BY <1>1 DEF RecoveryInductive, SnapshotsAgree, AskedAreKnown, DeclaredIsCanceled, ToldIsCanceled, Canceled
<1> QED
  BY <1>1, <1>2, <1>4, <1>5, <1>6 DEF RecoveryInductive, RecoveryTypeOK

\* A task is on its own line.
LEMMA OnItsLine ==
  ASSUME NEW v, NEW t \in Task
  PROVE  t \in Line(v, t)
BY DEF Line

LEMMA OpenRoundKeeps ==
  ASSUME RecoveryInductive, NEW t \in Task, OpenRound(t)
  PROVE  RecoveryInductive'
<1>1. /\ UNCHANGED <<shape, logVars, up, owed, declared, budget>> /\ up = "up"
      /\ at[t] = "off" /\ at' = [at EXCEPT ![t] = "window"]
      /\ result' = result /\ missing' = missing
      /\ current' = [current EXCEPT ![shape.agent[t]] = t]
  BY DEF OpenRound, Goto
<1>2. /\ at \in [Task -> Place] /\ current \in [Agent -> Task \cup {None}] /\ AskedAreKnown
      /\ result \in [Task -> DOMAIN StatusBy \cup {None}]
  BY DEF RecoveryInductive, RecoveryTypeOK
<1>3. ~Canceled(t)
  <2>1. SUFFICES ASSUME Canceled(t) PROVE FALSE
    OBVIOUS
  <2>2. t \in DOMAIN truth.tasks /\ truth.tasks[t].status = "CANCELED"
    BY <2>1 DEF Canceled
  <2>3. CASE t \in truth.asks
    <3>1. Kind(t) = "answer" /\ ~Condemned(truth, t)
      BY <2>2, <2>3 DEF OpenRound, Kind
    <3>2. truth.tasks[t].canceled
      BY <1>2, <2>1, <2>3 DEF AskedAreKnown
    <3> QED
      BY <2>2, <3>1, <3>2, OnItsLine DEF Condemned
  <2>4. CASE t \notin truth.asks
    <3>1. Kind(t) = "message" /\ MayInject(t)
      BY <2>2, <2>4 DEF OpenRound, Kind
    <3> QED
      BY <2>2, <3>1 DEF MayInject
  <2> QED
    BY <2>3, <2>4
<1>4. \A m \in missing' : m.task = t /\ ~Canceled(t) => m.kind = "reply"
  BY <1>1, NothingAwaited
<1>5. InPlaceOf(t)'
  <2>1. at'[t] = "window" /\ truth' = truth
    BY <1>1, <1>2 DEF logVars
  <2> QED
    BY <1>3, <2>1 DEF InPlaceOf, Canceled
<1>6. current' \in [Agent -> Task \cup {None}]
  BY <1>1, <1>2
<1>7. "window" \in Place
  BY DEF Place
<1> QED
  BY <1>1, <1>2, <1>4, <1>5, <1>6, <1>7, SilentStep

LEMMA TakeTurnKeeps ==
  ASSUME RecoveryInductive, NEW t \in Task, TakeTurn(t)
  PROVE  RecoveryInductive'
<1>1. /\ UNCHANGED <<shape, logVars, up, owed, declared, budget>> /\ up = "up"
      /\ at[t] = "window" /\ at' = [at EXCEPT ![t] = "turn"]
      /\ result' = result /\ missing' = missing
      /\ current' = [current EXCEPT ![shape.agent[t]] = t]
  BY DEF TakeTurn, Goto
<1>2. /\ at \in [Task -> Place] /\ current \in [Agent -> Task \cup {None}] /\ InPlaceOf(t)
      /\ result \in [Task -> DOMAIN StatusBy \cup {None}]
  BY DEF RecoveryInductive, RecoveryTypeOK, InPlace
<1>3. ~Canceled(t)
  BY <1>1, <1>2 DEF InPlaceOf
<1>4. \A m \in missing' : m.task = t /\ ~Canceled(t) => m.kind = "reply"
  BY <1>1, NothingAwaited
<1>5. InPlaceOf(t)'
  <2>1. at'[t] = "turn" /\ truth' = truth
    BY <1>1, <1>2 DEF logVars
  <2> QED
    BY <1>3, <2>1 DEF InPlaceOf, Canceled
<1>6. current' \in [Agent -> Task \cup {None}]
  BY <1>1, <1>2
<1>7. "turn" \in Place
  BY DEF Place
<1> QED
  BY <1>1, <1>2, <1>4, <1>5, <1>6, <1>7, SilentStep

LEMMA StoreInputKeeps ==
  ASSUME RecoveryInductive, NEW t \in Task, StoreInput(t)
  PROVE  RecoveryInductive'
<1> DEFINE p == IF t \in truth.answered THEN "close" ELSE Onwards(t)
<1>1. /\ UNCHANGED <<shape, logVars, up, owed, declared, budget>> /\ up = "up"
      /\ at[t] = "store" /\ at' = [at EXCEPT ![t] = p]
      /\ result' = result /\ current' = current
      /\ missing' = missing \ Inputs(t)
  BY DEF StoreInput, Goto
<1>2. /\ at \in [Task -> Place] /\ current \in [Agent -> Task \cup {None}] /\ InPlaceOf(t)
      /\ result \in [Task -> DOMAIN StatusBy \cup {None}]
  BY DEF RecoveryInductive, RecoveryTypeOK, InPlace
<1>3. ~Canceled(t) /\ t \in DOMAIN truth.tasks
  BY <1>1, <1>2 DEF InPlaceOf
<1>4. \A m \in missing' : m.task = t /\ ~Canceled(t) => m.kind = "reply"
  BY <1>1 DEF Inputs
<1>5. p \in {"close", "run", "off"} /\ p \in Place
  BY DEF Onwards, Place
<1> HIDE DEF p
<1>6. InPlaceOf(t)'
  <2>1. at'[t] \in {"close", "run", "off"} /\ truth' = truth
    BY <1>1, <1>2, <1>5 DEF logVars
  <2> QED
    BY <1>3, <2>1 DEF InPlaceOf, Canceled
<1>7. missing' \subseteq missing
  BY <1>1
<1> QED
  BY <1>1, <1>2, <1>4, <1>5, <1>6, <1>7, SilentStep

LEMMA StoreReplyKeeps ==
  ASSUME RecoveryInductive, NEW t \in Task, StoreReply(t) \/ ReplyFails(t)
  PROVE  RecoveryInductive'
<1>1. /\ UNCHANGED <<shape, logVars, up, owed, declared, budget>> /\ up = "up" /\ at[t] = "said"
      /\ current' = current /\ missing' \subseteq missing
      /\ \/ at' = [at EXCEPT ![t] = "spoken"] /\ result' = result
         \/ at' = [at EXCEPT ![t] = "end"] /\ result' = [result EXCEPT ![t] = "TaskInterrupted"]
  BY DEF StoreReply, ReplyFails, Goto
<1>2. /\ at \in [Task -> Place] /\ current \in [Agent -> Task \cup {None}] /\ InPlaceOf(t)
      /\ result \in [Task -> DOMAIN StatusBy \cup {None}]
  BY DEF RecoveryInductive, RecoveryTypeOK, InPlace
<1>3. ~Canceled(t) /\ t \in DOMAIN truth.tasks
  BY <1>1, <1>2 DEF InPlaceOf
<1>4. \A m \in missing' : m.task = t /\ ~Canceled(t) => m.kind = "reply"
  BY <1>1, NothingAwaited
<1>5. "TaskInterrupted" \in DOMAIN StatusBy
  BY DEF StatusBy
<1>6. PICK p \in {"spoken", "end"} : /\ at' = [at EXCEPT ![t] = p]
                                     /\ p = "end" => result'[t] = "TaskInterrupted"
  BY <1>1, <1>2
<1>7. /\ result' \in [Task -> DOMAIN StatusBy \cup {None}]
      /\ \A u \in Task \ {t} : result'[u] = result[u]
  BY <1>1, <1>2, <1>5
<1>8. InPlaceOf(t)'
  <2>1. at'[t] = p /\ truth' = truth
    BY <1>1, <1>2, <1>6 DEF logVars
  <2> QED
    BY <1>3, <1>5, <1>6, <2>1 DEF InPlaceOf, Canceled
<1>9. p \in Place
  BY DEF Place
<1> QED
  BY <1>1, <1>2, <1>4, <1>6, <1>7, <1>8, <1>9, SilentStep

LEMMA CutTyped ==
  ASSUME write \in Writing \cup {None}, NEW items
  PROVE  /\ CutBefore(items) \in Writing \cup {None}
         /\ CutBefore(items) # None =>
              /\ write # None /\ CutBefore(items).step = write.step
              /\ CutBefore(items).view = write.view /\ CutBefore(items).startup = write.startup
              /\ CutBefore(items).told = write.told \ items
<1>1. CASE write = None
  BY <1>1 DEF CutBefore
<1>2. CASE write # None
  <2>1. write \in Writing
    BY <1>2
  <2>2. CutBefore(items) = [write EXCEPT !.told = write.told \ items]
    BY <1>2 DEF CutBefore
  <2>3. write.told \ items \in SUBSET Item
    BY <2>1 DEF Writing
  <2> QED
    BY <1>2, <2>1, <2>2, <2>3 DEF Writing
<1> QED
  BY <1>1, <1>2

LEMMA ReplyKeeps ==
  ASSUME RecoveryInductive, NEW t \in Task, Reply(t)
  PROVE  RecoveryInductive'
<1> DEFINE r == Said("reply", t)
<1>1. /\ shape' = shape /\ truth' = truth /\ base' = base /\ up = "up" /\ up' = up
      /\ result' = result /\ current' = current /\ owed' = owed /\ declared' = declared
      /\ budget' = budget /\ at[t] = "run" /\ at' = [at EXCEPT ![t] = "said"]
      /\ missing' = missing \cup {r} /\ write' = CutBefore({r})
  BY DEF Reply, Goto
<1>2. /\ at \in [Task -> Place] /\ InPlace /\ InPlaceOf(t) /\ MissingIsAwaited /\ missing \subseteq Item
      /\ write \in Writing \cup {None} /\ SnapshotsAgree /\ ToldIsCanceled
  BY DEF RecoveryInductive, RecoveryTypeOK, InPlace
<1>3. ~Canceled(t) /\ t \in DOMAIN truth.tasks
  BY <1>1, <1>2 DEF InPlaceOf
<1>4. r \in Item /\ r.kind = "reply" /\ r.task = t
  BY DEF Said, Item
<1> HIDE DEF r
<1>5. InPlace' /\ at' \in [Task -> Place]
  <2>1. InPlaceOf(t)'
    <3>1. at'[t] = "said"
      BY <1>1, <1>2
    <3> QED
      BY <1>1, <1>3, <3>1 DEF InPlaceOf, Canceled
  <2>2. Steady(truth, truth', {t}) /\ truth'.asks \subseteq truth.asks \cup {t} /\ "said" \in Place
        /\ \A u \in Task \ {t} : result'[u] = result[u]
    BY <1>1 DEF Steady, Place
  <2> QED
    BY <1>1, <1>2, <2>1, <2>2, PlaceStep
<1>6. MissingIsAwaited' /\ missing' \subseteq Item
  <2>1. ASSUME NEW m \in missing'
        PROVE  /\ m.task \in DOMAIN truth'.tasks
               /\ m.kind = "reply" \/ Canceled(m.task)' \/ Awaited(m)'
    <3>1. CASE m = r
      BY <1>1, <1>3, <1>4, <3>1
    <3>2. CASE m # r
      <4>1. /\ m \in missing /\ m.task \in DOMAIN truth.tasks /\ m.task \in Task
            /\ m.kind = "reply" \/ Canceled(m.task) \/ Awaited(m)
        BY <1>1, <1>2, <3>2 DEF MissingIsAwaited, Item
      <4>2. Canceled(m.task)' = Canceled(m.task)
        BY <1>1 DEF Canceled
      <4>3. CASE Awaited(m)
        <5>1. at[m.task] = "store" /\ m.task # t
          BY <1>1, <4>3 DEF Awaited
        <5>2. at'[m.task] = "store"
          BY <1>1, <1>2, <4>1, <5>1
        <5> QED
          BY <1>1, <4>1, <4>3, <5>2 DEF Awaited
      <4> QED
        BY <1>1, <4>1, <4>2, <4>3
    <3> QED
      BY <3>1, <3>2
  <2> QED
    BY <1>1, <1>2, <1>4, <2>1 DEF MissingIsAwaited
<1>7. /\ write' \in Writing \cup {None} /\ SnapshotsAgree' /\ ToldIsCanceled'
  <2>1. /\ write' \in Writing \cup {None}
        /\ write' # None => /\ write # None /\ write'.step = write.step /\ write'.view = write.view
                            /\ write'.startup = write.startup /\ write'.told = write.told \ {r}
    BY <1>1, <1>2, CutTyped
  <2>2. SnapshotsAgree'
    BY <1>1, <1>2, <2>1 DEF SnapshotsAgree, Faithful
  <2>3. ToldIsCanceled'
    BY <1>1, <1>2, <2>1 DEF ToldIsCanceled, Canceled
  <2> QED
    BY <2>1, <2>2, <2>3
<1>8. AskedAreKnown' /\ DeclaredIsCanceled'
  BY <1>1 DEF RecoveryInductive, AskedAreKnown, DeclaredIsCanceled, Canceled
<1> QED
  BY <1>1, <1>5, <1>6, <1>7, <1>8 DEF RecoveryInductive, RecoveryTypeOK

-------------------------------------------------------------------------------
\* What a snapshot keeps is what the log says of the tasks it keeps.
LEMMA SlimTyped ==
  ASSUME shape \in Shape, NEW t \in Task, NEW status \in Status
  PROVE  Slim(t, status) \in TaskState /\ Slim(t, status).status = status /\ ~Slim(t, status).full
BY CreatedTyped DEF Slim, TaskState

LEMMA PruneAgrees ==
  ASSUME shape \in Shape, NEW v \in View
  PROVE  Prune(v) \in View /\ Agrees(Prune(v), v)
<1> DEFINE whole == KeptWhole(v)
           deps == ((UNION {shape.deps[t] : t \in Live(v)}) \cap DOMAIN v.tasks) \ whole
           f == [t \in whole \cup deps |-> IF t \in whole THEN v.tasks[t] ELSE Slim(t, v.tasks[t].status)]
<1>1. Prune(v) = [v EXCEPT !.tasks = f]
  BY DEF Prune
<1>2. whole \subseteq DOMAIN v.tasks
  BY DEF KeptWhole
<1> HIDE DEF whole
<1>3. deps \subseteq DOMAIN v.tasks
  OBVIOUS
<1> HIDE DEF deps
<1>4. /\ DOMAIN f \subseteq DOMAIN v.tasks /\ f = [t \in DOMAIN f |-> f[t]]
      /\ \A t \in DOMAIN f : f[t] \in TaskState /\ Matches(f[t], v.tasks[t])
  <2>1. \A t \in DOMAIN v.tasks : t \in Task /\ v.tasks[t] \in TaskState /\ v.tasks[t].status \in Status
    BY ViewParts DEF TaskState
  <2>2. \A t \in DOMAIN v.tasks : /\ Slim(t, v.tasks[t].status) \in TaskState
                                  /\ Matches(Slim(t, v.tasks[t].status), v.tasks[t])
    BY <2>1, SlimTyped DEF Matches
  <2> QED
    BY <1>2, <1>3, <2>1, <2>2 DEF Matches
<1> HIDE DEF f
<1>5. DOMAIN v.tasks \subseteq Task
  BY ViewParts
<1>6. f \in TaskMap
  BY <1>4, <1>5, TaskMaps
<1>7. /\ Prune(v) \in View /\ Prune(v).tasks = f
      /\ Prune(v).asks = v.asks /\ Prune(v).answered = v.answered
      /\ Prune(v).runs = v.runs /\ Prune(v).observe = v.observe /\ Prune(v).agents = v.agents
  BY <1>1, <1>6 DEF View, TaskMap
<1> QED
  BY <1>4, <1>7 DEF Agrees

LEMMA StartupAgrees ==
  ASSUME shape \in Shape, NEW v \in View
  PROVE  ForStartup(v) \in View /\ Agrees(ForStartup(v), v)
<1> DEFINE slim == Prune(v).tasks
           currents == {v.agents[a].current : a \in Agent} \cap DOMAIN v.tasks
           f == [t \in DOMAIN slim \cup currents |->
                   IF t \in DOMAIN slim THEN slim[t] ELSE Slim(t, v.tasks[t].status)]
<1>1. ForStartup(v) = [Prune(v) EXCEPT !.tasks = f]
  BY DEF ForStartup
<1>2. /\ DOMAIN slim \subseteq DOMAIN v.tasks /\ Prune(v) \in View
      /\ Prune(v).asks = v.asks /\ Prune(v).answered = v.answered
      /\ Prune(v).runs = v.runs /\ Prune(v).observe = v.observe /\ Prune(v).agents = v.agents
      /\ \A t \in DOMAIN slim : slim[t] \in TaskState /\ Matches(slim[t], v.tasks[t])
  BY PruneAgrees, ViewParts DEF Agrees
<1>3. currents \subseteq DOMAIN v.tasks
  OBVIOUS
<1> HIDE DEF slim, currents
<1>4. /\ DOMAIN f \subseteq DOMAIN v.tasks /\ f = [t \in DOMAIN f |-> f[t]]
      /\ \A t \in DOMAIN f : f[t] \in TaskState /\ Matches(f[t], v.tasks[t])
  <2>1. \A t \in DOMAIN v.tasks : t \in Task /\ v.tasks[t].status \in Status
    BY ViewParts DEF TaskState
  <2>2. \A t \in DOMAIN v.tasks : /\ Slim(t, v.tasks[t].status) \in TaskState
                                  /\ Matches(Slim(t, v.tasks[t].status), v.tasks[t])
    BY <2>1, SlimTyped DEF Matches
  <2> QED
    BY <1>2, <1>3, <2>2
<1> HIDE DEF f
<1>5. DOMAIN v.tasks \subseteq Task
  BY ViewParts
<1>6. f \in TaskMap
  BY <1>4, <1>5, TaskMaps
<1>7. /\ ForStartup(v) \in View /\ ForStartup(v).tasks = f
      /\ ForStartup(v).asks = v.asks /\ ForStartup(v).answered = v.answered
      /\ ForStartup(v).runs = v.runs /\ ForStartup(v).observe = v.observe
      /\ ForStartup(v).agents = v.agents
  BY <1>1, <1>2, <1>6 DEF View, TaskMap
<1> QED
  BY <1>4, <1>7 DEF Agrees

\* A step that changes nothing but the snapshot on its way.
LEMMA SnapshotStep ==
  ASSUME RecoveryInductive,
         UNCHANGED <<shape, truth, base, up, at, result, current, owed, missing, declared>>,
         budget' \in [{"crashes", "snapshots", "upsets"} -> Nat],
         write' \in Writing \cup {None},
         write' # None /\ write'.step # "head" => Faithful(write', truth),
         ToldIsCanceled'
  PROVE  RecoveryInductive'
<1>1. SnapshotsAgree'
  BY DEF RecoveryInductive, SnapshotsAgree
<1>2. /\ InPlace' /\ AskedAreKnown' /\ MissingIsAwaited' /\ DeclaredIsCanceled'
  BY DEF RecoveryInductive, InPlace, InPlaceOf, AskedAreKnown, MissingIsAwaited, Awaited,
     DeclaredIsCanceled, Canceled
<1> QED
  BY <1>1, <1>2 DEF RecoveryInductive, RecoveryTypeOK

LEMMA SnapshotByObserverKeeps ==
  ASSUME RecoveryInductive, SnapshotByObserver
  PROVE  RecoveryInductive'
<1>1. /\ UNCHANGED <<shape, truth, base, up, at, result, current, owed, missing, declared>>
      /\ write' = BeginSnapshot(None) /\ Spend("snapshots")
  BY DEF SnapshotByObserver, MayBegin
<1>2. budget' \in [{"crashes", "snapshots", "upsets"} -> Nat]
  BY <1>1, SpendTyped DEF RecoveryInductive, RecoveryTypeOK
<1>3. write' \in Writing /\ write'.step = "head"
  BY <1>1, SnapshotBegins
<1>4. ToldIsCanceled'
  BY <1>3 DEF ToldIsCanceled
<1> QED
  BY <1>1, <1>2, <1>3, <1>4, SnapshotStep

LEMMA ReadHeadKeeps ==
  ASSUME RecoveryInductive, ReadHead
  PROVE  RecoveryInductive'
<1> DEFINE v == IF Usable THEN base.view ELSE truth
           depth == IF Usable THEN base.depth + 1 ELSE 0
<1>1. /\ UNCHANGED <<shape, truth, base, up, at, result, current, owed, missing, declared, budget>>
      /\ write # None
      /\ write' = [write EXCEPT !.step = "check", !.told = missing, !.depth = depth,
                                !.view = Prune(v), !.startup = ForStartup(v)]
  BY DEF ReadHead
<1>2. /\ shape \in Shape /\ truth \in View /\ base \in Snapshot \cup {None}
      /\ write \in Writing /\ missing \subseteq Item /\ SnapshotsAgree
      /\ budget \in [{"crashes", "snapshots", "upsets"} -> Nat]
  BY <1>1 DEF RecoveryInductive, RecoveryTypeOK
<1>3. v \in View /\ Agrees(v, truth) /\ depth \in Nat
  <2>1. CASE Usable
    <3>1. base \in Snapshot /\ Faithful(base, truth) /\ base # None
      BY <1>2, <2>1 DEF Usable, HasSnapshot, SnapshotsAgree
    <3> QED
      BY <2>1, <3>1 DEF Snapshot, Faithful
  <2>2. CASE ~Usable
    BY <1>2, <2>2 DEF Agrees, Matches
  <2> QED
    BY <2>1, <2>2
<1> HIDE DEF v, depth
<1>4. /\ Prune(v) \in View /\ ForStartup(v) \in View
      /\ Agrees(Prune(v), v) /\ Agrees(ForStartup(v), v)
  BY <1>2, <1>3, PruneAgrees, StartupAgrees
<1>5. Agrees(Prune(v), truth) /\ Agrees(ForStartup(v), truth)
  BY <1>3, <1>4 DEF Agrees, Matches
<1>6. /\ write' \in Writing /\ write'.step = "check"
      /\ write'.view = Prune(v) /\ write'.startup = ForStartup(v)
  BY <1>1, <1>2, <1>3, <1>4 DEF Writing
<1>7. Faithful(write', truth)
  BY <1>5, <1>6 DEF Faithful
<1>8. ToldIsCanceled'
  BY <1>6 DEF ToldIsCanceled
<1> QED
  BY <1>1, <1>2, <1>6, <1>7, <1>8, SnapshotStep

\* What is declared: when memory is settled, all that is missing besides the inputs of
\* canceled tasks are replies, and of these nothing is declared.
LEMMA RecheckKeeps ==
  ASSUME RecoveryInductive, Recheck
  PROVE  RecoveryInductive'
<1>1. /\ UNCHANGED <<shape, truth, base, up, at, result, current, owed, missing, declared, budget>>
      /\ write # None /\ write.step = "check"
      /\ write' = IF ~Settled THEN None ELSE [write EXCEPT !.step = "append", !.told = Verified(write.told)]
  BY DEF Recheck
<1>2. /\ write \in Writing /\ missing \subseteq Item /\ SnapshotsAgree /\ MissingIsAwaited
      /\ budget \in [{"crashes", "snapshots", "upsets"} -> Nat]
  BY <1>1 DEF RecoveryInductive, RecoveryTypeOK
<1>3. CASE ~Settled
  <2>1. write' = None
    BY <1>1, <1>3
  <2>2. ToldIsCanceled'
    BY <2>1 DEF ToldIsCanceled
  <2> QED
    BY <1>1, <1>2, <2>1, <2>2, SnapshotStep
<1>4. CASE Settled
  <2>1. Verified(write.told) \subseteq write.told
    BY DEF Verified
  <2>2. write' = [write EXCEPT !.step = "append", !.told = Verified(write.told)]
    BY <1>1, <1>4
  <2>3. /\ write' \in Writing /\ write'.told = Verified(write.told)
        /\ write'.view = write.view /\ write'.startup = write.startup
    BY <1>2, <2>1, <2>2 DEF Writing
  <2>4. Faithful(write', truth)
    BY <1>1, <1>2, <2>3 DEF SnapshotsAgree, Faithful
  <2>5. \A m \in Verified(write.told) \cap missing : Canceled(m.task)
    <3> SUFFICES ASSUME NEW m \in missing, m \in Verified(write.told), ~Canceled(m.task)
                 PROVE  FALSE
      OBVIOUS
    <3>1. m.kind # "reply"
      BY DEF Verified
    <3>2. Awaited(m) /\ m.task \in Task
      BY <1>2, <3>1 DEF MissingIsAwaited, Item
    <3> QED
      BY <1>4, <3>2 DEF Awaited, Settled
  <2>6. ToldIsCanceled'
    BY <1>1, <2>3, <2>5 DEF ToldIsCanceled, Canceled
  <2> QED
    BY <1>1, <1>2, <2>3, <2>4, <2>6, SnapshotStep
<1> QED
  BY <1>3, <1>4

LEMMA AppendKeeps ==
  ASSUME RecoveryInductive, Append_
  PROVE  RecoveryInductive'
<1>1. /\ UNCHANGED <<shape, truth, up, at, result, current, owed, missing, budget>>
      /\ write # None /\ write.step = "append" /\ write' = None
      /\ base' = SnapshotFacts(write) /\ declared' = missing \cap (declared \cup write.told)
  BY DEF Append_
<1>2. /\ write \in Writing /\ missing \subseteq Item /\ SnapshotsAgree /\ ToldIsCanceled
      /\ DeclaredIsCanceled
  BY <1>1 DEF RecoveryInductive, RecoveryTypeOK
<1>3. base' \in Snapshot /\ base'.view = write.view /\ base'.startup = write.startup
  BY <1>1, <1>2 DEF SnapshotFacts, Snapshot, Writing
<1>4. SnapshotsAgree'
  BY <1>1, <1>2, <1>3 DEF SnapshotsAgree, Faithful
<1>5. DeclaredIsCanceled' /\ declared' \subseteq Item
  BY <1>1, <1>2 DEF DeclaredIsCanceled, ToldIsCanceled, Canceled
<1>6. ToldIsCanceled'
  BY <1>1 DEF ToldIsCanceled
<1>7. /\ InPlace' /\ AskedAreKnown' /\ MissingIsAwaited'
  BY <1>1 DEF RecoveryInductive, InPlace, InPlaceOf, AskedAreKnown, MissingIsAwaited, Awaited, Canceled
<1> QED
  BY <1>1, <1>3, <1>4, <1>5, <1>6, <1>7 DEF RecoveryInductive, RecoveryTypeOK

-------------------------------------------------------------------------------
LEMMA CrashKeeps ==
  ASSUME RecoveryInductive, Crash
  PROVE  RecoveryInductive'
<1>1. /\ UNCHANGED <<shape, truth, base, missing, declared>> /\ Spend("crashes")
      /\ up' = "down" /\ at' = Idle /\ owed' = {} /\ write' = None
      /\ result' = [t \in Task |-> None] /\ current' = [a \in Agent |-> None]
  BY DEF Crash
<1>2. budget' \in [{"crashes", "snapshots", "upsets"} -> Nat]
  BY <1>1, SpendTyped DEF RecoveryInductive, RecoveryTypeOK
<1>3. RecoveryTypeOK'
  BY <1>1, <1>2 DEF RecoveryInductive, RecoveryTypeOK, Idle, Place
<1>4. SnapshotsAgree' /\ ToldIsCanceled'
  BY <1>1 DEF RecoveryInductive, SnapshotsAgree, ToldIsCanceled
<1>5. InPlace'
  BY <1>1 DEF InPlace, InPlaceOf, Idle
<1>6. AskedAreKnown' /\ DeclaredIsCanceled'
  BY <1>1 DEF RecoveryInductive, AskedAreKnown, DeclaredIsCanceled, Canceled
<1>7. MissingIsAwaited'
  BY <1>1 DEF RecoveryInductive, MissingIsAwaited, Awaited, Canceled
<1> QED
  BY <1>3, <1>4, <1>5, <1>6, <1>7 DEF RecoveryInductive

LEMMA RebuildKeeps ==
  ASSUME RecoveryInductive, Rebuild
  PROVE  RecoveryInductive'
<1>1. /\ UNCHANGED <<shape, logVars, at, result, owed, declared, budget>>
      /\ up = "cold" /\ up' = "loaded"
      /\ missing' = missing \ Restored /\ current' = Loaded(Rebuilt)
  BY DEF Rebuild
<1>2. /\ truth' = truth /\ base' = base /\ write' = write
  BY <1>1 DEF logVars
<1>3. /\ MissingIsAwaited /\ DeclaredIsCanceled /\ missing \subseteq Item /\ InPlace
      /\ truth \in View /\ base \in Snapshot \cup {None}
  BY DEF RecoveryInductive, RecoveryTypeOK
<1>4. current' \in [Agent -> Task \cup {None}]
  <2>1. Rebuilt \in View
    BY <1>3 DEF Rebuilt, HasSnapshot, Snapshot
  <2>2. \A a \in Agent : Rebuilt.agents[a].current \in Task \cup {None}
    BY <2>1, ViewParts
  <2> QED
    BY <1>1, <2>2 DEF Loaded
<1>5. MissingIsAwaited'
  <2> SUFFICES ASSUME NEW m \in missing'
               PROVE  /\ m.task \in DOMAIN truth'.tasks
                      /\ m.kind = "reply" \/ Canceled(m.task)' \/ Awaited(m)'
    BY DEF MissingIsAwaited
  <2>1. /\ m \in missing /\ m.task \in DOMAIN truth.tasks
        /\ m.kind = "reply" \/ Canceled(m.task) \/ Awaited(m)
    BY <1>1, <1>3 DEF MissingIsAwaited
  <2>2. Canceled(m.task)' = Canceled(m.task)
    BY <1>2 DEF Canceled
  <2>3. CASE m.kind # "reply" /\ ~Canceled(m.task)
    <3>1. Awaited(m) /\ m \notin declared
      BY <1>3, <2>1, <2>3 DEF DeclaredIsCanceled
    <3>2. m \notin Appended
      BY <1>1 DEF Restored
    <3>3. m.kind # "message"
      BY <2>1, <3>1, <3>2 DEF Appended, AfterFloor
    <3>4. m.kind = "answer"
      BY <1>3, <2>1, <2>3, <3>3 DEF Item
    <3> QED
      BY <1>1, <1>2, <2>1, <3>1, <3>4 DEF Awaited
  <2> QED
    BY <1>2, <2>1, <2>2, <2>3
<1>6. InPlace' /\ AskedAreKnown' /\ DeclaredIsCanceled' /\ SnapshotsAgree'
  BY <1>1, <1>2 DEF RecoveryInductive, InPlace, InPlaceOf, AskedAreKnown, DeclaredIsCanceled,
     SnapshotsAgree, Canceled
<1>7. ToldIsCanceled'
  BY <1>1, <1>2 DEF RecoveryInductive, ToldIsCanceled, Canceled
<1> QED
  BY <1>1, <1>2, <1>4, <1>5, <1>6, <1>7 DEF RecoveryInductive, RecoveryTypeOK

\* Tasks are queued when every input is in memory, or stays where it is.
LEMMA RequeuedKeeps ==
  ASSUME RecoveryInductive, Requeued,
         up = "up" \/ \A m \in missing : m.kind = "reply" \/ Canceled(m.task)
  PROVE  RecoveryInductive'
<1>1. /\ UNCHANGED <<shape, logVars, result, current, owed, missing, declared, budget>>
      /\ up' = "up"
      /\ at' = [t \in Task |-> IF ~Resumable(truth, t) THEN at[t]
                               ELSE IF Released(truth, t) THEN "ready" ELSE "queued"]
  BY DEF Requeued
<1>2. /\ truth' = truth /\ base' = base /\ write' = write
  BY <1>1 DEF logVars
<1>3. /\ MissingIsAwaited /\ missing \subseteq Item /\ InPlace /\ at \in [Task -> Place]
  BY DEF RecoveryInductive, RecoveryTypeOK
<1>4. \A t \in Task : \/ ~Resumable(truth, t) /\ at'[t] = at[t]
                      \/ Resumable(truth, t) /\ at'[t] \in {"ready", "queued"}
  BY <1>1
<1>5. \A t \in Task : Resumable(truth, t) =>
        at[t] = "off" /\ ~Canceled(t) /\ t \in DOMAIN truth.tasks /\ t \notin truth.asks
  BY DEF Resumable, Live, Canceled, Terminal
<1>6. at' \in [Task -> Place]
  <2>1. \A t \in Task : at'[t] \in Place
    BY <1>3, <1>4 DEF Place
  <2>2. at' = [t \in Task |-> at'[t]]
    BY <1>1
  <2> QED
    BY <2>1, <2>2
<1>7. InPlace'
  <2>1. ASSUME NEW t \in Task
        PROVE  InPlaceOf(t)'
    <3>1. CASE at'[t] = at[t]
      BY <1>1, <1>2, <1>3, <3>1 DEF InPlace, InPlaceOf, Canceled
    <3>2. CASE Resumable(truth, t) /\ at'[t] \in {"ready", "queued"}
      BY <1>2, <1>5, <3>2 DEF InPlaceOf, Canceled
    <3> QED
      BY <1>4, <3>1, <3>2
  <2> QED
    BY <1>1, <2>1 DEF InPlace
<1>8. MissingIsAwaited'
  <2> SUFFICES ASSUME NEW m \in missing'
               PROVE  /\ m.task \in DOMAIN truth'.tasks
                      /\ m.kind = "reply" \/ Canceled(m.task)' \/ Awaited(m)'
    BY DEF MissingIsAwaited
  <2>1. /\ m \in missing /\ m.task \in DOMAIN truth.tasks /\ m.task \in Task
        /\ m.kind = "reply" \/ Canceled(m.task) \/ Awaited(m)
    BY <1>1, <1>3 DEF MissingIsAwaited, Item
  <2>2. Canceled(m.task)' = Canceled(m.task)
    BY <1>2 DEF Canceled
  <2>3. CASE m.kind # "reply" /\ ~Canceled(m.task)
    <3>1. up = "up" /\ Awaited(m)
      BY <2>1, <2>3
    <3>2. at[m.task] = "store"
      BY <3>1 DEF Awaited
    <3>3. at'[m.task] = "store"
      BY <1>4, <1>5, <2>1, <3>2
    <3> QED
      BY <1>1, <1>2, <2>1, <3>1, <3>3 DEF Awaited
  <2> QED
    BY <1>2, <2>1, <2>2, <2>3
<1>9. AskedAreKnown' /\ DeclaredIsCanceled' /\ SnapshotsAgree' /\ ToldIsCanceled'
  BY <1>1, <1>2 DEF RecoveryInductive, AskedAreKnown, DeclaredIsCanceled,
     SnapshotsAgree, ToldIsCanceled, Canceled
<1> QED
  BY <1>1, <1>2, <1>6, <1>7, <1>8, <1>9 DEF RecoveryInductive, RecoveryTypeOK

LEMMA ActivateKeeps ==
  ASSUME RecoveryInductive, Activate
  PROVE  RecoveryInductive'
<1>1. up = "loaded" /\ truth.answered \cap Live(truth) = {} /\ Requeued
  BY DEF Activate
<1>2. \A m \in missing : m.kind = "reply" \/ Canceled(m.task)
  <2> SUFFICES ASSUME NEW m \in missing, m.kind # "reply", ~Canceled(m.task)
               PROVE  FALSE
    OBVIOUS
  <2>1. Awaited(m) /\ m.task \in DOMAIN truth.tasks
    BY DEF RecoveryInductive, MissingIsAwaited
  <2>2. /\ m.task \in truth.answered
        /\ truth.tasks[m.task].status \notin {"FINISHED", "FAILED", "CANCELED"}
    BY <1>1, <2>1 DEF Awaited, Canceled
  <2>3. m.task \in Live(truth)
    BY <2>1, <2>2 DEF Live, Terminal
  <2> QED
    BY <1>1, <2>2, <2>3
<1> QED
  BY <1>1, <1>2, RequeuedKeeps

LEMMA RecoverAgentKeeps ==
  ASSUME RecoveryInductive, RecoverAgent
  PROVE  RecoveryInductive'
BY RequeuedKeeps DEF RecoverAgent

-------------------------------------------------------------------------------
LEMMA SetEvents ==
  ASSUME NEW S, IsFiniteSet(S), NEW X, S \subseteq X
  PROVE  SetToSeq(S) \in Seq(X)
<1>1. SetToSeq(S) \in Seq(S)
  BY SetAsSequence
<1> QED
  BY <1>1

\* What calibration writes from a view: the tasks it stops are those the view has running
\* or waiting to run.
Stopped(v) == {t \in DOMAIN v.tasks : v.tasks[t].status \in {"PENDING", "ACTIVE"}}

LEMMA CalibrationTyped ==
  ASSUME NEW v \in View
  PROVE  Calibration(v) \in Seq(Interruption(Stopped(v)))
<1> DEFINE stopped == {t \in DOMAIN v.tasks : v.tasks[t].status \in {"PENDING", "ACTIVE"}}
           over(a) == v.agents[a].current \in DOMAIN v.tasks
                        /\ v.tasks[v.agents[a].current].status \in Terminal
           settled(a) == over(a) /\ v.agents[a].status \in {"running", "interrupted"}
           parked(a) == /\ v.agents[a].current \in DOMAIN v.tasks \ v.asks
                        /\ v.tasks[v.agents[a].current].status \in
                             {"SUSPENDED", "AWAITING_HUMAN", "INTERRUPTED"}
           affected(a) == \/ v.agents[a].status = "running" \/ settled(a) \/ parked(a)
                          \/ \E t \in stopped : v.tasks[t].owner = a
           to(a) == IF settled(a) THEN "idle"
                    ELSE IF v.agents[a].current \in v.asks THEN "waiting_human" ELSE "interrupted"
           runs == {Ev("RunFinished", t) : t \in v.runs}
           tasks == {Ev(IF t \in v.asks THEN "TaskAwaitingHuman" ELSE "TaskInterrupted", t) : t \in stopped}
           chosen == {a \in Agent : affected(a)}
           agents == UNION {ToSet(Move(v, a, to(a), v.agents[a].current)) : a \in chosen}
           X == Interruption(Stopped(v))
<1>1. Calibration(v) = SetToSeq(runs) \o SetToSeq(tasks) \o SetToSeq(agents)
  BY DEF Calibration
<1> HIDE DEF affected
<1>2. v.runs \subseteq Task /\ DOMAIN v.tasks \subseteq Task /\ IsFiniteSet(Task) /\ IsFiniteSet(Agent)
  BY ViewParts, RecoveryAssumption
<1>3. SetToSeq(runs) \in Seq(X)
  <2> DEFINE f == [t \in v.runs |-> Ev("RunFinished", t)]
  <2>1. IsFiniteSet(v.runs)
    BY <1>2, FS_Subset
  <2>2. runs = {f[t] : t \in v.runs}
    OBVIOUS
  <2> HIDE DEF f
  <2>3. IsFiniteSet(runs)
    BY <2>1, <2>2, FiniteImage
  <2>4. ASSUME NEW t \in v.runs
        PROVE  Ev("RunFinished", t) \in X
    <3>1. Ev("RunFinished", t) \in LogEvent /\ Ev("RunFinished", t).type = "RunFinished"
      BY <1>2, EventsTyped DEF EventType
    <3> QED
      BY <3>1, StatusNames DEF Interruption, Questions
  <2>5. runs \subseteq X
    BY <2>4
  <2> HIDE DEF runs, X
  <2> QED
    BY <2>3, <2>5, SetEvents
<1>4. SetToSeq(tasks) \in Seq(X)
  <2> DEFINE f == [t \in stopped |-> Ev(IF t \in v.asks THEN "TaskAwaitingHuman" ELSE "TaskInterrupted", t)]
  <2>1. IsFiniteSet(stopped)
    BY <1>2, FS_Subset
  <2>2. tasks = {f[t] : t \in stopped}
    OBVIOUS
  <2>3. ASSUME NEW t \in stopped
        PROVE  f[t] \in X
    <3>1. PICK type \in {"TaskAwaitingHuman", "TaskInterrupted"} : f[t] = Ev(type, t)
      OBVIOUS
    <3>2. type \in EventType /\ t \in Task
      BY <1>2 DEF EventType, StatusBy
    <3>3. f[t] \in LogEvent /\ f[t].type = type /\ f[t].task = t
      BY <3>1, <3>2, EventsTyped
    <3>4. t \in Stopped(v)
      BY DEF Stopped
    <3> HIDE DEF f
    <3> QED
      BY <3>3, <3>4 DEF Interruption, Questions
  <2> HIDE DEF f, tasks, stopped
  <2>4. IsFiniteSet(tasks)
    BY <2>1, <2>2, FiniteImage
  <2>5. tasks \subseteq X
    BY <2>2, <2>3
  <2> HIDE DEF X
  <2> QED
    BY <2>4, <2>5, SetEvents
<1>5. SetToSeq(agents) \in Seq(X)
  <2> DEFINE f == [a \in Agent |-> By(a, TypeTo(to(a)), v.agents[a].current)]
             moved == {f[a] : a \in Agent}
  <2>1. ASSUME NEW a \in Agent
        PROVE  ToSet(Move(v, a, to(a), v.agents[a].current)) \subseteq {f[a]} /\ f[a] \in AgentEvent
    <3>1. to(a) \in {"running", "waiting_human", "interrupted", "idle"}
      OBVIOUS
    <3>2. v.agents[a].current \in Task \cup {None}
      BY ViewParts
    <3> HIDE DEF to
    <3>3. /\ TypeTo(to(a)) \in DOMAIN AgentStatusBy
          /\ Move(v, a, to(a), v.agents[a].current) \in Seq({By(a, TypeTo(to(a)), v.agents[a].current)})
      BY <3>1, MoveTyped
    <3>4. f[a] = By(a, TypeTo(to(a)), v.agents[a].current)
      OBVIOUS
    <3>5. f[a] \in AgentEvent
      BY <3>2, <3>3, <3>4, AgentMoves
    <3> DEFINE s == Move(v, a, to(a), v.agents[a].current)
    <3>6. s \in Seq({f[a]})
      BY <3>3, <3>4
    <3> HIDE DEF s, f
    <3>7. ToSet(s) \subseteq {f[a]}
      BY <3>6 DEF ToSet
    <3> QED
      BY <3>5, <3>7 DEF s
  <2> HIDE DEF f, to
  <2>2. agents \subseteq moved
    BY <2>1
  <2>3. IsFiniteSet(moved)
    BY <1>2, FiniteImage
  <2>4. moved \subseteq AgentEvent
    BY <2>1
  <2> HIDE DEF agents, moved
  <2>5. IsFiniteSet(agents)
    BY <2>2, <2>3, FS_Subset
  <2>6. AgentEvent \subseteq X
    <3>1. DOMAIN AgentStatusBy \cap (DOMAIN StatusBy \cup {"TaskCreated"} \cup Questions) = {}
      BY StatusNames DEF Questions
    <3> QED
      BY <3>1 DEF AgentEvent, Interruption
  <2> HIDE DEF X
  <2> QED
    BY <2>2, <2>4, <2>5, <2>6, SetEvents
<1> HIDE DEF runs, tasks, agents, X
<1>6. SetToSeq(runs) \o SetToSeq(tasks) \in Seq(X)
  BY <1>3, <1>4
<1> QED
  BY <1>1, <1>5, <1>6 DEF X

LEMMA CalibrateKeeps ==
  ASSUME RecoveryInductive, Calibrate
  PROVE  RecoveryInductive'
<1> DEFINE v == RebuiltForStartup
           events == Calibration(v)
           T == Stopped(v)
<1>1. /\ UNCHANGED <<shape, at, result, current, owed, missing, declared, budget>>
      /\ up = "down" /\ up' = "cold" /\ LogBeside(events, write)
  BY DEF Calibrate, Log
<1>2. /\ shape \in Shape /\ truth \in View /\ base \in Snapshot \cup {None} /\ write \in Writing \cup {None}
      /\ SnapshotsAgree /\ MissingIsAwaited /\ AskedAreKnown /\ InPlace
  BY DEF RecoveryInductive, RecoveryTypeOK
<1>3. v \in View /\ Agrees(v, truth)
  <2>1. CASE HasSnapshot
    BY <1>2, <2>1 DEF RebuiltForStartup, HasSnapshot, Snapshot, SnapshotsAgree, Faithful
  <2>2. CASE ~HasSnapshot
    BY <1>2, <2>2 DEF RebuiltForStartup, Agrees, Matches
  <2> QED
    BY <2>1, <2>2
<1> HIDE DEF v
<1>4. events \in Seq(Interruption(T))
  BY <1>3, CalibrationTyped
<1>5. \A u \in T : u \in DOMAIN truth.tasks /\ truth.tasks[u].status \in {"PENDING", "ACTIVE"} /\ ~Canceled(u)
  BY <1>3 DEF Stopped, Agrees, Matches, Canceled
<1> HIDE DEF T, events
<1>6. truth' = Fold(truth, events)
  BY <1>1 DEF LogBeside
<1>7. /\ events \in Seq(About(T) \cap Quiet)
      /\ \A u \in DOMAIN truth.tasks : \/ truth'.tasks[u].status = truth.tasks[u].status
                                       \/ truth'.tasks[u].status \in {"AWAITING_HUMAN", "INTERRUPTED"}
  BY <1>2, <1>4, <1>6, FoldInterrupts
<1>8. \A u \in T \cap truth.asks : Canceled(u)' => truth'.tasks[u].canceled
  BY <1>5, <1>7 DEF Canceled
<1>9. \A m \in missing' : m.kind # "reply" /\ ~Canceled(m.task) =>
        /\ m.task \in T => truth'.tasks[m.task].status \notin {"FINISHED", "FAILED"}
        /\ up' = "up" => at'[m.task] = "store"
        /\ up' = "loaded" => m.kind = "answer"
  BY <1>1, <1>5, <1>7
<1>10. /\ truth' \in View
       /\ base' \in Snapshot \cup {None} /\ write' \in Writing \cup {None}
       /\ shape' \in Shape /\ declared' \subseteq Item /\ missing' \subseteq Item
       /\ SnapshotsAgree' /\ DeclaredIsCanceled' /\ ToldIsCanceled'
       /\ AskedAreKnown' /\ MissingIsAwaited'
  BY <1>1, <1>2, <1>5, <1>7, <1>8, <1>9, QuietStep
<1>11. InPlace'
  <2>1. at' = Idle
    BY <1>1, <1>2 DEF InPlace
  <2>2. \A u \in Task : InPlaceOf(u)'
    BY <2>1 DEF Idle, InPlaceOf
  <2> QED
    BY <2>1, <2>2 DEF InPlace
<1> QED
  BY <1>1, <1>10, <1>11 DEF RecoveryInductive, RecoveryTypeOK

LEMMA CancelTasksKeeps ==
  ASSUME RecoveryInductive, CancelTasks
  PROVE  RecoveryInductive'
<1> DEFINE idle == {t \in Targets(truth) : at[t] \in {"off", "queued", "ready"}}
           f == [t \in idle |-> By(shape.agent[t], "TaskCanceled", t)]
           S == {By(shape.agent[t], "TaskCanceled", t) : t \in idle}
           events == SetToSeq(S)
<1>1. /\ UNCHANGED <<shape, up, result, current, missing, declared, budget>>
      /\ LogBeside(events, write)
      /\ owed' = owed \cup {Owed("TaskCanceled", t) : t \in idle}
      /\ at' = [t \in Task |-> IF t \in idle THEN "off" ELSE at[t]]
      /\ up \in {"loaded", "up"}
  BY DEF CancelTasks, Log, Ready
<1>2. /\ shape \in Shape /\ truth \in View /\ write \in Writing \cup {None} /\ owed \subseteq Owing
      /\ MissingIsAwaited /\ AskedAreKnown /\ InPlace /\ at \in [Task -> Place] /\ missing \subseteq Item
  BY DEF RecoveryInductive, RecoveryTypeOK
<1>3. \A t \in idle : /\ t \in DOMAIN truth.tasks /\ t \in Task /\ ~Canceled(t)
                      /\ at[t] \in {"off", "queued", "ready"} /\ shape.agent[t] \in Agent
  <2>1. \A t \in idle : t \in Live(truth)
    BY DEF Targets
  <2>2. DOMAIN truth.tasks \subseteq Task
    BY <1>2, ViewParts
  <2> QED
    BY <1>2, <2>1, <2>2, CreatedTyped DEF Live, Canceled, Terminal
<1> HIDE DEF idle
<1>4. events \in Seq(Cancellation(idle))
  <2>1. idle \subseteq Task /\ IsFiniteSet(Task)
    BY <1>3, RecoveryAssumption
  <2>2. IsFiniteSet(idle)
    BY <2>1, FS_Subset
  <2>3. S = {f[t] : t \in idle}
    OBVIOUS
  <2>4. ASSUME NEW t \in idle
        PROVE  f[t] \in Cancellation(idle)
    <3>1. f[t] = By(shape.agent[t], "TaskCanceled", t)
      OBVIOUS
    <3>2. "TaskCanceled" \in EventType /\ None \notin Agent
      BY RecoveryAssumption DEF EventType, StatusBy
    <3>3. f[t] \in LogEvent /\ f[t].type = "TaskCanceled" /\ f[t].task = t /\ f[t].who = shape.agent[t]
      BY <1>3, <3>1, <3>2, EventsTyped
    <3> HIDE DEF f
    <3> QED
      BY <1>3, <3>2, <3>3 DEF Cancellation
  <2> HIDE DEF f, S
  <2>5. IsFiniteSet(S)
    BY <2>2, <2>3, FiniteImage
  <2>6. S \subseteq Cancellation(idle)
    BY <2>3, <2>4
  <2> QED
    BY <2>5, <2>6, SetEvents
<1> HIDE DEF events, S, f
<1>5. truth' = Fold(truth, events)
  BY <1>1 DEF LogBeside
<1>6. events \in Seq(About(idle) \cap Quiet) /\ CanceledOnly(truth, truth', idle)
  BY <1>2, <1>4, <1>5, FoldCancels
<1>7. \A u \in idle \cap truth.asks : Canceled(u)' => truth'.tasks[u].canceled
  BY <1>3, <1>6 DEF CanceledOnly, Canceled
<1>8. \A m \in missing' : m.kind # "reply" /\ ~Canceled(m.task) =>
        /\ m.task \in idle => truth'.tasks[m.task].status \notin {"FINISHED", "FAILED"}
        /\ up' = "up" => at'[m.task] = "store"
        /\ up' = "loaded" => m.kind = "answer"
  <2> SUFFICES ASSUME NEW m \in missing, m.kind # "reply", ~Canceled(m.task)
               PROVE  /\ m.task \in idle => truth'.tasks[m.task].status \notin {"FINISHED", "FAILED"}
                      /\ up = "up" => at'[m.task] = "store"
                      /\ up = "loaded" => m.kind = "answer"
    BY <1>1
  <2>1. Awaited(m) /\ m.task \in DOMAIN truth.tasks /\ m.task \in Task
    BY <1>2 DEF MissingIsAwaited, Item
  <2>2. up = "up" => m.task \notin idle /\ at'[m.task] = "store"
    BY <1>1, <1>3, <2>1 DEF Awaited
  <2>3. up = "loaded" => /\ m.kind = "answer"
                         /\ truth.tasks[m.task].status \notin {"FINISHED", "FAILED"}
    BY <2>1 DEF Awaited
  <2>4. truth.tasks[m.task].status \notin {"FINISHED", "FAILED"} =>
          truth'.tasks[m.task].status \notin {"FINISHED", "FAILED"}
    BY <1>6, <2>1 DEF CanceledOnly
  <2> QED
    BY <1>1, <2>2, <2>3, <2>4
<1>9. /\ truth' \in View
      /\ base' \in Snapshot \cup {None} /\ write' \in Writing \cup {None}
      /\ shape' \in Shape /\ declared' \subseteq Item /\ missing' \subseteq Item
      /\ SnapshotsAgree' /\ DeclaredIsCanceled' /\ ToldIsCanceled'
      /\ AskedAreKnown' /\ MissingIsAwaited'
      /\ truth'.asks = truth.asks /\ Steady(truth, truth', idle)
  BY <1>1, <1>2, <1>3, <1>6, <1>7, <1>8, QuietStep
<1>10. at' \in [Task -> Place]
  BY <1>1, <1>2 DEF Place
<1>11. InPlace'
  <2>1. ASSUME NEW u \in Task
        PROVE  InPlaceOf(u)'
    <3>1. CASE u \in idle
      BY <1>1, <3>1 DEF InPlaceOf
    <3>2. CASE u \notin idle
      <4>1. InPlaceOf(u) /\ at'[u] = at[u] /\ result'[u] = result[u]
        BY <1>1, <1>2, <3>2 DEF InPlace
      <4>2. /\ Canceled(u)' => Canceled(u)
            /\ u \in DOMAIN truth.tasks => u \in DOMAIN truth'.tasks
        BY <1>9, <3>2 DEF Canceled, Steady
      <4> QED
        BY <1>9, <4>1, <4>2 DEF InPlaceOf
    <3> QED
      BY <3>1, <3>2
  <2>2. up' # "up" => at' = Idle
    <3>1. SUFFICES ASSUME up # "up" PROVE at' = Idle
      BY <1>1
    <3>2. at = Idle
      BY <1>2, <3>1 DEF InPlace
    <3>3. \A t \in Task : (IF t \in idle THEN "off" ELSE at[t]) = "off"
      BY <3>2 DEF Idle
    <3> QED
      BY <1>1, <3>3 DEF Idle
  <2> QED
    BY <2>1, <2>2 DEF InPlace
<1>12. owed' \subseteq Owing
  <2>1. "TaskCanceled" \in DOMAIN StatusBy
    BY DEF StatusBy
  <2>2. \A t \in idle : Owed("TaskCanceled", t) \in Owing
    BY <1>2, <1>3, <2>1, OwedTyped
  <2> QED
    BY <1>1, <1>2, <2>2
<1> QED
  BY <1>1, <1>9, <1>10, <1>11, <1>12 DEF RecoveryInductive, RecoveryTypeOK

-------------------------------------------------------------------------------
\* How a round is opened and closed.
LEMMA OpeningTyped ==
  ASSUME NEW t \in Task
  PROVE  /\ \E type \in OpeningTypes : /\ Opening(t) = <<Ev(type, t)>>
                                       /\ type = "TaskCreated" \/ t \in DOMAIN truth.tasks
         /\ Closing(t) = IF t \in truth.asks /\ t \in DOMAIN truth.tasks THEN <<Ev("HitlResolved", t)>>
                         ELSE <<>>
         /\ Staged(t) = IF t \notin DOMAIN truth.tasks THEN {}
                        ELSE IF t \in truth.asks THEN {Said("answer", t)} ELSE {Said("message", t)}
<1>1. CASE t \notin DOMAIN truth.tasks
  BY <1>1 DEF Opening, Closing, Staged, Kind, OpeningTypes
<1>2. CASE t \in DOMAIN truth.tasks /\ t \in truth.asks
  BY <1>2 DEF Opening, Closing, Staged, Kind, OpeningTypes
<1>3. CASE t \in DOMAIN truth.tasks /\ t \notin truth.asks
  BY <1>3 DEF Opening, Closing, Staged, Kind, OpeningTypes
<1> QED
  BY <1>1, <1>2, <1>3

LEMMA OpeningEvent ==
  ASSUME NEW t \in Task, NEW type \in OpeningTypes
  PROVE  Ev(type, t) \in Quiet /\ Ev(type, t).task = t /\ Ev(type, t).type = type
<1>1. type \in EventType
  BY DEF OpeningTypes, EventType, StatusBy
<1>2. Ev(type, t) \in LogEvent /\ Ev(type, t).type = type /\ Ev(type, t).task = t
  BY <1>1, EventsTyped
<1> QED
  BY <1>2 DEF Quiet, Questions, OpeningTypes

\* A round is committed: its task is known and goes on, and what it was told is staged.
LEMMA RoundCommitted ==
  ASSUME RecoveryInductive, UNCHANGED <<shape, up, result, current, owed, declared, budget>>,
         NEW t \in Task, up = "up", at[t] \in {"window", "turn"},
         NEW p \in {"run", "store"}, t \in DOMAIN truth.tasks => p = "store",
         at' = [at EXCEPT ![t] = p],
         NEW type \in OpeningTypes, type = "TaskCreated" \/ t \in DOMAIN truth.tasks,
         NEW pre \in Seq(Quiet), OpensWith(pre \o Closing(t), Ev(type, t), t),
         LogBeside(pre \o Closing(t), CutBefore(Staged(t))), missing' = missing \cup Staged(t)
  PROVE  RecoveryInductive'
<1> DEFINE events == pre \o Closing(t)
           w == CutBefore(Staged(t))
<1>1. /\ shape' = shape /\ up' = up /\ result' = result /\ current' = current /\ owed' = owed
      /\ declared' = declared /\ budget' = budget
  OBVIOUS
<1>2. /\ shape \in Shape /\ truth \in View /\ write \in Writing \cup {None} /\ at \in [Task -> Place]
      /\ SnapshotsAgree /\ MissingIsAwaited /\ AskedAreKnown /\ InPlace /\ InPlaceOf(t)
      /\ ToldIsCanceled /\ missing \subseteq Item
  BY DEF RecoveryInductive, RecoveryTypeOK, InPlace
<1>3. ~Canceled(t)
  BY <1>2 DEF InPlaceOf
<1>4. truth' = Fold(truth, events)
  BY DEF LogBeside
<1>5. /\ events \in Seq(About({t})) /\ t \in DOMAIN truth'.tasks
      /\ truth'.tasks[t].status \in {"PENDING", "ACTIVE"}
  <2>1. Ev(type, t) \in LogEvent /\ Ev(type, t).task = t /\ Ev(type, t).type = type
    BY OpeningEvent DEF Quiet
  <2>2. OpensWith(events, Ev(type, t), t)
    OBVIOUS
  <2> HIDE DEF events
  <2> QED
    BY <1>2, <1>4, <2>1, <2>2, FoldOpens
<1>6. /\ truth'.asks = truth.asks \ {t} /\ truth.answered \subseteq truth'.answered
      /\ t \in truth.asks => t \in truth'.answered
  <2>1. CASE t \in truth.asks
    <3>1. t \in DOMAIN truth.tasks
      BY <1>2, <2>1 DEF AskedAreKnown
    <3>2. Closing(t) = <<Ev("HitlResolved", t)>>
      BY <2>1, <3>1, OpeningTyped
    <3>3. /\ Fold(truth, pre \o <<Ev("HitlResolved", t)>>).asks = truth.asks \ {t}
          /\ Fold(truth, pre \o <<Ev("HitlResolved", t)>>).answered = truth.answered \cup {t}
      BY <1>2, FoldAnswers
    <3> QED
      BY <1>4, <3>2, <3>3
  <2>2. CASE t \notin truth.asks
    <3>1. Closing(t) = <<>>
      BY <2>2, OpeningTyped
    <3>2. events = pre
      BY <3>1
    <3>3. Fold(truth, pre).asks = truth.asks /\ Fold(truth, pre).answered = truth.answered
      BY <1>2, FoldQuiet
    <3> QED
      BY <1>4, <2>2, <3>2, <3>3
  <2> QED
    BY <2>1, <2>2
<1> HIDE DEF events
<1>7. /\ w \in Writing \cup {None}
      /\ w # None => /\ write # None /\ w.step = write.step
                     /\ w.view = write.view /\ w.startup = write.startup
                     /\ w.told = write.told \ Staged(t)
  BY <1>2, CutTyped
<1>8. /\ w # None /\ w.step # "head" => Faithful(w, truth)
      /\ w # None /\ w.step = "append" => \A m \in w.told \cap missing' : Canceled(m.task)
  <2> HIDE DEF w
  <2>1. w # None /\ w.step # "head" => Faithful(w, truth)
    BY <1>2, <1>7 DEF SnapshotsAgree, Faithful
  <2>2. w # None /\ w.step = "append" => \A m \in w.told \cap missing' : Canceled(m.task)
    BY <1>2, <1>7 DEF ToldIsCanceled
  <2> QED
    BY <2>1, <2>2
<1>9. LogBeside(events, w)
  BY DEF events
<1> HIDE DEF w
<1>10. /\ truth' \in View
       /\ base' \in Snapshot \cup {None} /\ write' \in Writing \cup {None}
       /\ shape' \in Shape /\ declared' \subseteq Item
       /\ SnapshotsAgree' /\ DeclaredIsCanceled' /\ ToldIsCanceled'
       /\ Steady(truth, truth', {t})
       /\ \A u : Canceled(u) => Canceled(u)'
  <2>1. \A u \in {t} : ~Canceled(u)
    BY <1>3
  <2> QED
    BY <1>1, <1>5, <1>7, <1>8, <1>9, <2>1, LogKeeps
<1>11. AskedAreKnown'
  BY <1>2, <1>6, <1>10 DEF AskedAreKnown, Steady, Canceled
<1>12. p \in Place /\ at' \in [Task -> Place] /\ at'[t] = p
       /\ \A u \in Task \ {t} : at'[u] = at[u]
  <2>1. p \in Place
    BY DEF Place
  <2> QED
    BY <1>2, <2>1
<1>13. Staged(t) \subseteq Item /\ \A m \in Staged(t) : /\ m.task = t /\ t \in DOMAIN truth.tasks
                                                        /\ m.kind = "answer" => t \in truth.asks
  <2>1. Said("answer", t) \in Item /\ Said("message", t) \in Item
    BY DEF Said, Item
  <2>2. /\ Said("answer", t).task = t /\ Said("message", t).task = t /\ Said("message", t).kind # "answer"
    BY DEF Said
  <2> QED
    BY <2>1, <2>2, OpeningTyped
<1>14. MissingIsAwaited' /\ missing' \subseteq Item
  <2>1. ASSUME NEW m \in missing'
        PROVE  /\ m.task \in DOMAIN truth'.tasks
               /\ m.kind = "reply" \/ Canceled(m.task)' \/ Awaited(m)'
    <3>1. CASE m \in Staged(t)
      <4>1. m.task = t /\ at'[t] = "store" /\ (m.kind = "answer" => t \in truth'.answered)
        BY <1>6, <1>12, <1>13, <3>1
      <4> QED
        BY <1>1, <1>5, <4>1 DEF Awaited
    <3>2. CASE m \notin Staged(t)
      <4>1. /\ m \in missing /\ m.task \in DOMAIN truth.tasks /\ m.task \in Task
            /\ m.kind = "reply" \/ Canceled(m.task) \/ Awaited(m)
        BY <1>2, <3>2 DEF MissingIsAwaited, Item
      <4>2. m.task \in DOMAIN truth'.tasks
        BY <1>10, <4>1 DEF Steady
      <4>3. CASE m.kind # "reply" /\ ~Canceled(m.task)
        <5>1. m.task # t /\ Awaited(m)
          BY <1>2, <4>1, <4>3, NothingAwaited
        <5>2. at'[m.task] = at[m.task] /\ truth'.tasks[m.task].status = truth.tasks[m.task].status
          BY <1>10, <1>12, <4>1, <5>1 DEF Steady
        <5> QED
          BY <1>1, <1>6, <4>2, <5>1, <5>2 DEF Awaited
      <4> QED
        BY <1>10, <4>1, <4>2, <4>3
    <3> QED
      BY <3>1, <3>2
  <2>2. missing' \subseteq Item
    BY <1>2, <1>13
  <2> QED
    BY <2>1, <2>2 DEF MissingIsAwaited
<1>15. InPlace'
  <2>1. InPlaceOf(t)'
    BY <1>5, <1>12 DEF InPlaceOf, Canceled
  <2>2. truth'.asks \subseteq truth.asks \cup {t} /\ \A u \in Task \ {t} : result'[u] = result[u]
    BY <1>1, <1>6
  <2> QED
    BY <1>1, <1>2, <1>10, <1>12, <2>1, <2>2, PlaceStep
<1> QED
  BY <1>1, <1>10, <1>11, <1>12, <1>14, <1>15 DEF RecoveryInductive, RecoveryTypeOK

\* What may follow the opening of a round: its start, what its agent does, its answer.
LEMMA FollowTyped ==
  ASSUME NEW t \in Task
  PROVE  /\ <<Ev("TaskStarted", t)>> \in Seq(AfterOpening(t)) \cap Seq(Quiet)
         /\ <<Ev("RunStarted", t)>> \in Seq(AfterOpening(t)) \cap Seq(Quiet)
         /\ Closing(t) \in Seq(AfterOpening(t))
         /\ <<>> \in Seq(AfterOpening(t)) \cap Seq(Quiet)
         /\ shape \in Shape => Move(truth, shape.agent[t], "running", t) \in Seq(AfterOpening(t)) \cap Seq(Quiet)
<1>1. /\ {"TaskStarted", "RunStarted", "HitlResolved"} \subseteq EventType
      /\ {"RunStarted", "HitlResolved"} \cap DOMAIN StatusBy = {}
  BY StatusNames DEF EventType, Questions
<1>2. /\ Ev("TaskStarted", t) \in AfterOpening(t) \cap Quiet /\ Ev("RunStarted", t) \in AfterOpening(t) \cap Quiet
      /\ Ev("HitlResolved", t) \in AfterOpening(t)
  BY <1>1, EventsTyped DEF AfterOpening, Quiet, Questions
<1> DEFINE a == Ev("TaskStarted", t)
           b == Ev("RunStarted", t)
           c == Ev("HitlResolved", t)
<1>3. a \in AfterOpening(t) \cap Quiet /\ b \in AfterOpening(t) \cap Quiet /\ c \in AfterOpening(t)
  BY <1>2
<1> HIDE DEF a, b, c
<1>4. /\ <<a>> \in Seq(AfterOpening(t)) /\ <<a>> \in Seq(Quiet) /\ <<b>> \in Seq(AfterOpening(t)) /\ <<b>> \in Seq(Quiet)
      /\ <<c>> \in Seq(AfterOpening(t)) /\ <<>> \in Seq(AfterOpening(t)) /\ <<>> \in Seq(Quiet)
  BY <1>3
<1>5. Closing(t) = <<c>> \/ Closing(t) = <<>>
  BY OpeningTyped DEF c
<1>6. ASSUME shape \in Shape
      PROVE  /\ Move(truth, shape.agent[t], "running", t) \in Seq(AfterOpening(t))
             /\ Move(truth, shape.agent[t], "running", t) \in Seq(Quiet)
  <2>1. shape.agent[t] \in Agent
    BY <1>6, CreatedTyped
  <2>2. Move(truth, shape.agent[t], "running", t) \in Seq(AgentEvent)
    BY <2>1, MoveIsAgents
  <2>3. AgentEvent \subseteq AfterOpening(t) /\ AgentEvent \subseteq Quiet
    BY AgentEventsQuiet, StatusNames DEF AgentEvent, AfterOpening
  <2> QED
    BY <2>2, <2>3
<1> QED
  BY <1>4, <1>5, <1>6 DEF a, b

LEMMA CommitRoundKeeps ==
  ASSUME RecoveryInductive, NEW t \in Task, CommitRound(t)
  PROVE  RecoveryInductive'
<1>1. /\ up = "up" /\ at[t] = "turn"
      /\ at' = [at EXCEPT ![t] = IF Kind(t) = "root" THEN "run" ELSE "store"]
      /\ LogBeside(Opening(t) \o <<Ev("TaskStarted", t)>> \o Move(truth, shape.agent[t], "running", t)
                      \o <<Ev("RunStarted", t)>> \o Closing(t), CutBefore(Staged(t)))
      /\ missing' = missing \cup Staged(t)
      /\ UNCHANGED <<shape, up, result, current, owed, declared, budget>>
  BY DEF CommitRound, Goto
<1>2. PICK type \in OpeningTypes : /\ Opening(t) = <<Ev(type, t)>>
                                   /\ type = "TaskCreated" \/ t \in DOMAIN truth.tasks
  BY OpeningTyped
<1> DEFINE e == Ev(type, t)
           start == <<Ev("TaskStarted", t)>>
           move == Move(truth, shape.agent[t], "running", t)
           run == <<Ev("RunStarted", t)>>
           close == Closing(t)
           p == IF Kind(t) = "root" THEN "run" ELSE "store"
<1>3. shape \in Shape
  BY DEF RecoveryInductive, RecoveryTypeOK
<1>4. /\ start \in Seq(AfterOpening(t)) /\ start \in Seq(Quiet) /\ move \in Seq(AfterOpening(t))
      /\ move \in Seq(Quiet) /\ run \in Seq(AfterOpening(t)) /\ run \in Seq(Quiet)
      /\ close \in Seq(AfterOpening(t))
  BY <1>3, FollowTyped
<1>5. e \in Quiet /\ e \in LogEvent
  BY OpeningEvent DEF Quiet
<1>6. p \in {"run", "store"} /\ (t \in DOMAIN truth.tasks => p = "store")
  BY DEF Kind
<1>7. at' = [at EXCEPT ![t] = p]
  BY <1>1
<1>8. /\ LogBeside(<<e>> \o start \o move \o run \o close, CutBefore(Staged(t)))
  BY <1>1, <1>2
<1> HIDE DEF e, start, move, run, p
<1>9. <<e>> \o start \o move \o run \in Seq(Quiet)
  <2>1. <<e>> \in Seq(Quiet)
    BY <1>5
  <2>2. <<e>> \o start \in Seq(Quiet)
    BY <1>4, <2>1
  <2>3. <<e>> \o start \o move \in Seq(Quiet)
    BY <1>4, <2>2
  <2> QED
    BY <1>4, <2>3
<1>10. OpensWith(<<e>> \o start \o move \o run \o close, e, t)
  <2>1. OpensWith(<<e>>, e, t)
    BY <1>5, OpensWithOne
  <2>2. OpensWith(<<e>> \o start, e, t)
    BY <1>4, <1>5, <2>1, OpensWithMore
  <2>3. OpensWith(<<e>> \o start \o move, e, t)
    BY <1>4, <1>5, <2>2, OpensWithMore
  <2>4. OpensWith(<<e>> \o start \o move \o run, e, t)
    BY <1>4, <1>5, <2>3, OpensWithMore
  <2> QED
    BY <1>4, <1>5, <2>4, OpensWithMore
<1> DEFINE pre == <<e>> \o start \o move \o run
<1>11. pre \in Seq(Quiet) /\ OpensWith(pre \o close, e, t) /\ LogBeside(pre \o close, CutBefore(Staged(t)))
  BY <1>8, <1>9, <1>10
<1> HIDE DEF pre
<1> QED
  BY <1>1, <1>2, <1>6, <1>7, <1>11, RoundCommitted DEF e

LEMMA CommitCanceledKeeps ==
  ASSUME RecoveryInductive, NEW t \in Task, CommitCanceled(t)
  PROVE  RecoveryInductive'
<1> DEFINE moved == Move(truth, shape.agent[t], "running", t)
           move == IF Kind(t) = "answer" THEN moved ELSE <<>>
           close == Closing(t)
<1>1. /\ up = "up" /\ at[t] = "window" /\ at' = [at EXCEPT ![t] = "store"]
      /\ LogBeside(Opening(t) \o move \o close, CutBefore(Staged(t)))
      /\ missing' = missing \cup Staged(t)
      /\ UNCHANGED <<shape, up, result, current, owed, declared, budget>>
  BY DEF CommitCanceled, Goto
<1>2. PICK type \in OpeningTypes : /\ Opening(t) = <<Ev(type, t)>>
                                   /\ type = "TaskCreated" \/ t \in DOMAIN truth.tasks
  BY OpeningTyped
<1> DEFINE e == Ev(type, t)
<1>3. shape \in Shape
  BY DEF RecoveryInductive, RecoveryTypeOK
<1>4. move \in Seq(AfterOpening(t)) /\ move \in Seq(Quiet) /\ close \in Seq(AfterOpening(t))
  <2>1. /\ moved \in Seq(AfterOpening(t)) /\ moved \in Seq(Quiet) /\ close \in Seq(AfterOpening(t))
        /\ <<>> \in Seq(AfterOpening(t)) /\ <<>> \in Seq(Quiet)
    BY <1>3, FollowTyped
  <2> HIDE DEF moved
  <2> QED
    BY <2>1
<1>5. e \in Quiet /\ e \in LogEvent
  BY OpeningEvent DEF Quiet
<1>6. LogBeside(<<e>> \o move \o close, CutBefore(Staged(t)))
  BY <1>1, <1>2
<1> HIDE DEF e, move
<1>7. <<e>> \o move \in Seq(Quiet)
  BY <1>4, <1>5
<1>8. OpensWith(<<e>> \o move \o close, e, t)
  <2>1. OpensWith(<<e>>, e, t)
    BY <1>5, OpensWithOne
  <2>2. OpensWith(<<e>> \o move, e, t)
    BY <1>4, <1>5, <2>1, OpensWithMore
  <2> QED
    BY <1>4, <1>5, <2>2, OpensWithMore
<1> DEFINE pre == <<e>> \o move
<1>9. pre \in Seq(Quiet) /\ OpensWith(pre \o close, e, t) /\ LogBeside(pre \o close, CutBefore(Staged(t)))
  BY <1>6, <1>7, <1>8
<1> HIDE DEF pre
<1> QED
  BY <1>1, <1>2, <1>9, RoundCommitted DEF e

-------------------------------------------------------------------------------
LEMMA RecoveryBegins == RecoveryInit => RecoveryInductive
<1> SUFFICES ASSUME RecoveryInit
             PROVE  RecoveryInductive
  OBVIOUS
<1>1. /\ shape \in Shape /\ truth = EmptyView /\ base = None /\ write = None
      /\ up = "up" /\ at = Idle /\ result = [t \in Task |-> None]
      /\ current = [a \in Agent |-> None] /\ owed = {} /\ missing = {} /\ declared = {}
      /\ budget = [crashes |-> MaxCrashes, snapshots |-> MaxSnapshots, upsets |-> MaxUpsets]
  BY DEF RecoveryInit
<1>2. EmptyView \in View /\ EmptyView.asks = {}
  BY EmptyViewTyped DEF EmptyView
<1>3. at \in [Task -> Place] /\ \A t \in Task : at[t] = "off"
  BY <1>1 DEF Idle, Place
<1>4. budget \in [{"crashes", "snapshots", "upsets"} -> Nat]
  BY <1>1, RecoveryAssumption
<1>5. RecoveryTypeOK
  BY <1>1, <1>2, <1>3, <1>4 DEF RecoveryTypeOK
<1>6. InPlace
  BY <1>1, <1>3 DEF InPlace, InPlaceOf
<1>7. SnapshotsAgree /\ AskedAreKnown /\ MissingIsAwaited /\ DeclaredIsCanceled /\ ToldIsCanceled
  BY <1>1, <1>2 DEF SnapshotsAgree, Faithful, AskedAreKnown, MissingIsAwaited, DeclaredIsCanceled,
     ToldIsCanceled
<1> QED
  BY <1>5, <1>6, <1>7 DEF RecoveryInductive

LEMMA RecoveryGoesOn == RecoveryInductive /\ [RecoveryNext]_recoveryVars => RecoveryInductive'
<1> SUFFICES ASSUME RecoveryInductive, [RecoveryNext]_recoveryVars
             PROVE  RecoveryInductive'
  OBVIOUS
<1>1. CASE UNCHANGED recoveryVars
  <2>1. UNCHANGED <<shape, truth, base, write, up, at, result, current, owed, missing, declared, budget>>
    BY <1>1 DEF recoveryVars, logVars
  <2> QED
    BY <2>1 DEF RecoveryInductive, RecoveryTypeOK, SnapshotsAgree, Faithful, InPlace, InPlaceOf,
       AskedAreKnown, MissingIsAwaited, Awaited, DeclaredIsCanceled, ToldIsCanceled, Canceled
<1>2. ASSUME NEW t \in Task, OpenRound(t) \/ TakeTurn(t) \/ CommitRound(t) \/ CommitCanceled(t)
                                \/ StoreInput(t) \/ CloseAnswer(t)
      PROVE  RecoveryInductive'
  BY <1>2, OpenRoundKeeps, TakeTurnKeeps, CommitRoundKeeps, CommitCanceledKeeps, StoreInputKeeps,
     CloseAnswerKeeps
<1>3. ASSUME NEW t \in Task, Dispatch(t) \/ StartRun(t) \/ Reply(t) \/ StoreReply(t) \/ ReplyFails(t)
                                \/ RunEnds(t) \/ Settle(t) \/ WakeParent(t) \/ Dispose(t)
      PROVE  RecoveryInductive'
  BY <1>3, DispatchKeeps, StartRunKeeps, ReplyKeeps, StoreReplyKeeps, RunEndsKeeps, SettleKeeps,
     WakeParentKeeps, DisposeKeeps
<1>4. ASSUME NEW t \in Task, \/ \E event \in DOMAIN StatusBy : Conclude(t, event)
                             \/ \E c \in Task : Spawn(t, c)
                             \/ FinalizeCanceled(t) \/ ObserveApplied(t) \/ InjectAnswer(t)
      PROVE  RecoveryInductive'
  BY <1>4, ConcludeKeeps, SpawnKeeps, FinalizeCanceledKeeps, ObserveAppliedKeeps, InjectAnswerKeeps
<1>5. CASE \/ \E m \in owed : Tell(m)
           \/ \E a \in Agent, t \in Task : CancelAgent(a, t)
           \/ CancelTasks
  BY <1>5, TellKeeps, CancelAgentKeeps, CancelTasksKeeps
<1>6. CASE SnapshotByObserver \/ ReadHead \/ Recheck \/ Append_
  BY <1>6, SnapshotByObserverKeeps, ReadHeadKeeps, RecheckKeeps, AppendKeeps
<1>7. CASE Crash \/ Calibrate \/ Rebuild \/ Activate \/ RecoverAgent
  BY <1>7, CrashKeeps, CalibrateKeeps, RebuildKeeps, ActivateKeeps, RecoverAgentKeeps
<1> QED
  BY <1>1, <1>2, <1>3, <1>4, <1>5, <1>6, <1>7 DEF RecoveryNext

(***************************************************************************)
(* Snapshots, tasks on their way, inputs that somebody still writes and    *)
(* what snapshots declare agree, through any number of crashes.            *)
(***************************************************************************)
THEOREM RecoveryInvariant == RecoverySpec => []RecoveryInductive
BY RecoveryBegins, RecoveryGoesOn, PTL DEF RecoverySpec

(***************************************************************************)
(* The log, every snapshot made of it and what recovery works on stay well *)
(* formed.                                                                 *)
(***************************************************************************)
THEOREM RecoveryTyped == RecoverySpec => []RecoveryTypeOK
<1>1. RecoveryInductive => RecoveryTypeOK
  BY DEF RecoveryInductive
<1> QED
  BY <1>1, RecoveryInvariant, PTL

(***************************************************************************)
(* However often snapshots are folded from snapshots, both views of one    *)
(* have the questions, answers, runs, observations and agents the log has, *)
(* and of every task they still know the whole, or where they keep only    *)
(* its status, the status it has in the log (reducers.py,                  *)
(* prune_view_for_snapshot, startup_snapshot_blob).                        *)
(***************************************************************************)
THEOREM SnapshotsStayFaithful == RecoverySpec => []SnapshotsAgree
<1>1. RecoveryInductive => SnapshotsAgree
  BY DEF RecoveryInductive
<1> QED
  BY <1>1, RecoveryInvariant, PTL

(***************************************************************************)
(* What was said is not lost to the model unless its task was canceled:    *)
(* whenever snapshots are taken and however often the process stops, no    *)
(* snapshot declares what is not in memory to be there, and an answer that *)
(* is not in memory is among those a recovery delivers.                    *)
(***************************************************************************)
THEOREM MemoryStaysKept == RecoverySpec => []MemoryIsKept
<1>1. RecoveryInductive => MemoryIsKept
  <2> SUFFICES ASSUME RecoveryInductive, NEW m \in missing, truth.tasks[m.task].status # "CANCELED"
               PROVE  m \notin declared /\ (m.kind = "answer" => m.task \in Rebuilt.answered)
    BY DEF MemoryIsKept
  <2>1. ~Canceled(m.task)
    BY DEF Canceled
  <2>2. m \notin declared
    BY <2>1 DEF RecoveryInductive, DeclaredIsCanceled
  <2>3. ASSUME m.kind = "answer"
        PROVE  m.task \in Rebuilt.answered
    <3>1. m.task \in truth.answered
      BY <2>1, <2>3 DEF RecoveryInductive, MissingIsAwaited, Awaited
    <3>2. Faithful(base, truth)
      BY DEF RecoveryInductive, SnapshotsAgree
    <3>3. base # None => base.view.answered = truth.answered
      BY <3>2 DEF Faithful, Agrees
    <3> QED
      BY <3>1, <3>3 DEF Rebuilt, HasSnapshot
  <2> QED
    BY <2>2, <2>3
<1> QED
  BY <1>1, RecoveryInvariant, PTL
=============================================================================
