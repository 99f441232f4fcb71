------------------------------- MODULE EventBus -------------------------------
(***************************************************************************)
(* InProcessEventBus (providers/events/bus/in_process/bus.py) behind the   *)
(* CommitGate (core/events/commit_gate.py): an event is stored first and   *)
(* notified afterwards, and the events of a task whose round is not        *)
(* decided yet are kept in a window that is committed in fixed batches or  *)
(* dropped.                                                                *)
(*                                                                         *)
(* A run emits its events 1..RunLength one after the other; the first is   *)
(* RUN_STARTED, the last RUN_FINISHED.  The in-process state machines      *)
(* (provisional subscribers) are told about every event at once and keep   *)
(* nothing here; `seen` is what an ordinary subscriber has been told.      *)
(* A batch id is a function of the first event of the batch, so the store  *)
(* is asked for a batch by its content.                                    *)
(***************************************************************************)
EXTENDS Naturals, Sequences, FiniteSets

CONSTANTS
  Tasks, Runs,
  TaskOf,           \* run -> its task
  Background,       \* the runs of a background observe
  RunLength,        \* the number of events of a run
  MaxWindows,       \* bound: windows opened
  MaxInterrupts     \* bound: commits cancelled while notifying

ASSUME EventBusAssumption ==
  /\ TaskOf \in [Runs -> Tasks]
  /\ Background \subseteq Runs
  /\ RunLength \in Nat /\ RunLength >= 2
  /\ MaxWindows \in Nat /\ MaxInterrupts \in Nat

Event == [run : Runs, n : 1..RunLength]

VARIABLES
  next,       \* run -> number of the event it emits next
  out,        \* run -> where the emit it awaits is
  tracked,    \* _actor_runs and _background_runs
  open,       \* the tasks with a window
  win,        \* task -> its window
  busy,       \* the tasks whose window a commit_provisional holds the lock of
  log,        \* the store: the events of the session by position
  ledger,     \* the store: the batches it has committed
  seen,       \* history: what an ordinary subscriber was given, in order
  dropped,    \* history: the events that went with a discarded window
  bound,      \* history: runs bound to a window after they had started
  windows, interrupts

runVars == <<next, out, tracked>>
winVars == <<open, win, busy>>
storeVars == <<log, ledger>>
histVars == <<dropped, bound, windows, interrupts>>
vars == <<runVars, winVars, storeVars, seen, histVars>>

Elems(s) == {s[i] : i \in DOMAIN s}

Window == [events : Seq(Event), frozen : Seq(Event), confirmed : BOOLEAN,
           notified : Nat, independent : SUBSET Runs]
FreshWindow(frozen, independent) ==
  [events |-> <<>>, frozen |-> frozen, confirmed |-> FALSE, notified |-> 0,
   independent |-> independent]

\* An emit is not running, waits for the gate, waits for the subscribers, or
\* has raised because the gate did not confirm.
Stages == {"idle", "commit", "notify", "failed"}

TypeOK ==
  /\ next \in [Runs -> 1..RunLength + 1]
  /\ out \in [Runs -> Stages]
  /\ tracked \subseteq Runs
  /\ open \subseteq Tasks
  /\ win \in [Tasks -> Window]
  /\ busy \subseteq Tasks
  /\ log \in Seq(Event)
  /\ ledger \subseteq Seq(Event)
  /\ seen \in Seq(Event)
  /\ dropped \subseteq Event
  /\ bound \subseteq Runs
  /\ windows \in 0..MaxWindows
  /\ interrupts \in 0..MaxInterrupts

Init ==
  /\ next = [r \in Runs |-> 1]
  /\ out = [r \in Runs |-> "idle"]
  /\ tracked = {}
  /\ open = {}
  /\ win = [t \in Tasks |-> FreshWindow(<<>>, {})]
  /\ busy = {}
  /\ log = <<>> /\ ledger = {}
  /\ seen = <<>>
  /\ dropped = {} /\ bound = {}
  /\ windows = 0 /\ interrupts = 0

\* The event of run r that is being emitted or is emitted next.
Current(r) == [run |-> r, n |-> next[r]]
Starts(r) == next[r] = 1
Finishes(r) == next[r] = RunLength
-------------------------------------------------------------------------------
(***************************************************************************)
(* The store behind the gate: a batch it knows is confirmed again, a new   *)
(* one is appended as a whole; one that shares an event with another batch *)
(* is refused (EventLog).                                                  *)
(***************************************************************************)
Fresh(batch) == Elems(batch) \cap Elems(log) = {}

Stored(batch) ==
  \/ batch \in ledger /\ UNCHANGED storeVars
  \/ /\ batch \notin ledger /\ Fresh(batch)
     /\ log' = log \o batch
     /\ ledger' = ledger \cup {batch}

\* The gate raises: the store refused, or the batch was stored and the answer
\* is lost.
NotConfirmed(batch) == UNCHANGED storeVars \/ Stored(batch)
-------------------------------------------------------------------------------
(***************************************************************************)
(* emit                                                                    *)
(***************************************************************************)
\* The events of r are held back: its task has a window, and r does not have a
\* life of its own beside it.
Provisional(r) == TaskOf[r] \in open /\ r \notin win[TaskOf[r]].independent

\* A background observe that starts is independent of an open window.
StartsBackground(r) == Starts(r) /\ r \in Background

EmitBuffered(r) ==
  /\ out[r] = "idle" /\ next[r] <= RunLength
  /\ Provisional(r) /\ ~StartsBackground(r)
  /\ win' = [win EXCEPT ![TaskOf[r]].events = Append(@, Current(r))]
  /\ next' = [next EXCEPT ![r] = @ + 1]
  /\ UNCHANGED <<out, tracked, open, busy, storeVars, seen, histVars>>

\* Mutated form: a background observe is not tracked when it starts.
EmitDirectUntracked(r) ==
  /\ out[r] = "idle" /\ next[r] <= RunLength
  /\ ~Provisional(r) \/ StartsBackground(r)
  /\ out' = [out EXCEPT ![r] = "commit"]
  /\ UNCHANGED <<next, tracked, winVars, storeVars, seen, histVars>>

EmitDirect(r) ==
  /\ out[r] = "idle" /\ next[r] <= RunLength
  /\ \/ /\ StartsBackground(r)
        /\ tracked' = tracked \cup {r}
        /\ win' = IF TaskOf[r] \in open
                  THEN [win EXCEPT ![TaskOf[r]].independent = @ \cup {r}]
                  ELSE win
     \/ /\ ~StartsBackground(r) /\ ~Provisional(r)
        /\ UNCHANGED <<tracked, win>>
  /\ out' = [out EXCEPT ![r] = "commit"]
  /\ UNCHANGED <<next, open, busy, storeVars, seen, histVars>>

\* _track_background_run for an event that was confirmed.
Tracking(r, n) ==
  CASE n = 1 -> tracked \cup {r}
    [] n = RunLength -> tracked \ {r}
    [] OTHER -> tracked

StoreDirect(r) ==
  /\ out[r] = "commit"
  /\ Stored(<<Current(r)>>)
  /\ out' = [out EXCEPT ![r] = "notify"]
  /\ tracked' = Tracking(r, next[r])
  /\ UNCHANGED <<next, winVars, seen, histVars>>

\* Mutated form: a failed write is logged and the subscribers are told anyway.
StoreDirectFailsUnnoticed(r) ==
  /\ out[r] = "commit"
  /\ NotConfirmed(<<Current(r)>>)
  /\ out' = [out EXCEPT ![r] = "notify"]
  /\ UNCHANGED <<next, tracked, winVars, seen, histVars>>

StoreDirectFails(r) ==
  /\ out[r] = "commit"
  /\ NotConfirmed(<<Current(r)>>)
  /\ out' = [out EXCEPT ![r] = "failed"]
  /\ UNCHANGED <<next, tracked, winVars, seen, histVars>>

\* Mutated form: the sequence number is advanced by the emit and the fanout.
NotifyDirectAdvancingTwice(r) ==
  /\ out[r] = "notify"
  /\ seen' = Append(seen, Current(r))
  /\ next' = [next EXCEPT ![r] = @ + 2]
  /\ out' = [out EXCEPT ![r] = "idle"]
  /\ UNCHANGED <<tracked, winVars, storeVars, histVars>>

NotifyDirect(r) ==
  /\ out[r] = "notify"
  /\ seen' = Append(seen, Current(r))
  /\ next' = [next EXCEPT ![r] = @ + 1]
  /\ out' = [out EXCEPT ![r] = "idle"]
  /\ UNCHANGED <<tracked, winVars, storeVars, histVars>>

\* The actor keeps the envelopes of its RUN_STARTED and RUN_FINISHED and emits
\* them again until they are confirmed; any other failed event ends the run.
RetryActor(r) ==
  /\ out[r] = "failed" /\ r \notin Background
  /\ out' = [out EXCEPT ![r] = "commit"]
  /\ next' = [next EXCEPT ![r] = IF Starts(r) THEN 1 ELSE RunLength]
  /\ UNCHANGED <<tracked, winVars, storeVars, seen, histVars>>

\* A background run does not try again: without its RUN_STARTED it does not
\* run at all, after any other failure its RUN_FINISHED is emitted once.
EndBackground(r) ==
  /\ out[r] = "failed" /\ r \in Background
  /\ out' = [out EXCEPT ![r] = "idle"]
  /\ next' = [next EXCEPT ![r] =
                IF Starts(r) \/ Finishes(r) THEN RunLength + 1 ELSE RunLength]
  /\ UNCHANGED <<tracked, winVars, storeVars, seen, histVars>>
-------------------------------------------------------------------------------
(***************************************************************************)
(* The window of a task                                                    *)
(***************************************************************************)
\* begin_provisional.  The runtime opens a round when the agent of t does not
\* run, or for an answer its run waits for: never while the RUN_STARTED of an
\* actor is being confirmed, nor while the session waits for a failed emit.
Begin(t) ==
  /\ t \notin open /\ windows < MaxWindows
  /\ \A r \in Runs : TaskOf[r] = t /\ r \notin Background =>
        out[r] # "failed" /\ ~(Starts(r) /\ out[r] = "commit")
  /\ open' = open \cup {t}
  /\ win' = [win EXCEPT ![t] = FreshWindow(<<>>, {r \in tracked : TaskOf[r] = t})]
  /\ windows' = windows + 1
  /\ UNCHANGED <<runVars, busy, storeVars, seen, dropped, bound, interrupts>>

\* bind_provisional_run for a hot answer: the run that goes on with it started
\* before the window, and its events are the round's from here on.
Bind(r) ==
  LET t == TaskOf[r] IN
  /\ t \in open /\ r \notin Background /\ r \in win[t].independent
  /\ out[r] = "idle" /\ next[r] <= RunLength
  /\ win' = [win EXCEPT ![t].independent = @ \ {r}]
  /\ bound' = bound \cup {r}
  /\ UNCHANGED <<runVars, open, busy, storeVars, seen, dropped, windows, interrupts>>

\* Mutated form: the window is closed while its batch is committed.
FreezeClosing(t) ==
  /\ open' = open \ {t}
  /\ win' = [win EXCEPT ![t] = FreshWindow(win[t].events, @.independent)]
  /\ busy' = IF win[t].events = <<>> THEN busy \ {t} ELSE busy \cup {t}

\* The next batch is fixed, or the window closes when nothing is left.
Freeze(t) ==
  \/ /\ win[t].events = <<>>
     /\ open' = open \ {t}
     /\ win' = [win EXCEPT ![t] = FreshWindow(<<>>, {})]
     /\ busy' = busy \ {t}
  \/ /\ win[t].events # <<>>
     /\ win' = [win EXCEPT ![t] = FreshWindow(win[t].events, @.independent)]
     /\ busy' = busy \cup {t}
     /\ UNCHANGED open

\* Mutated form: a retry takes what was emitted meanwhile into the old batch.
CommitStartRefreezing(t) ==
  /\ t \in open /\ t \notin busy
  /\ \/ win[t].frozen = <<>> /\ Freeze(t)
     \/ /\ win[t].frozen # <<>>
        /\ win' = [win EXCEPT ![t].frozen = @ \o win[t].events, ![t].events = <<>>]
        /\ busy' = busy \cup {t}
        /\ UNCHANGED open
  /\ UNCHANGED <<runVars, storeVars, seen, histVars>>

\* commit_provisional takes the window's lock; a batch that an earlier attempt
\* has fixed is taken up where that attempt ended.
CommitStart(t) ==
  /\ t \in open /\ t \notin busy
  /\ \/ win[t].frozen = <<>> /\ Freeze(t)
     \/ /\ win[t].frozen # <<>>
        /\ busy' = busy \cup {t}
        /\ UNCHANGED <<open, win>>
  /\ UNCHANGED <<runVars, storeVars, seen, histVars>>

Storing(t) == t \in busy /\ ~win[t].confirmed
Notifying(t) == t \in busy /\ win[t].confirmed

StoreBatch(t) ==
  /\ Storing(t)
  /\ Stored(win[t].frozen)
  /\ win' = [win EXCEPT ![t].confirmed = TRUE]
  /\ UNCHANGED <<runVars, open, busy, seen, histVars>>

\* The gate raises, or the committer is cancelled while it waits.
StoreBatchFails(t) ==
  /\ Storing(t)
  /\ NotConfirmed(win[t].frozen)
  /\ busy' = busy \ {t}
  /\ UNCHANGED <<runVars, open, win, seen, histVars>>

ToNotify(t) == win[t].frozen[win[t].notified + 1]

NotifyBatch(t) ==
  /\ Notifying(t) /\ win[t].notified < Len(win[t].frozen)
  /\ seen' = Append(seen, ToNotify(t))
  /\ tracked' = Tracking(ToNotify(t).run, ToNotify(t).n)
  /\ win' = [win EXCEPT ![t].notified = @ + 1]
  /\ UNCHANGED <<next, out, open, busy, storeVars, histVars>>

\* Mutated form: the event being notified is not notified again.
InterruptNotifySkipping(t) ==
  /\ Notifying(t) /\ win[t].notified < Len(win[t].frozen)
  /\ interrupts < MaxInterrupts
  /\ interrupts' = interrupts + 1
  /\ tracked' = Tracking(ToNotify(t).run, ToNotify(t).n)
  /\ win' = [win EXCEPT ![t].notified = @ + 1]
  /\ busy' = busy \ {t}
  /\ UNCHANGED <<next, out, open, storeVars, seen, dropped, bound, windows>>

\* The tool call that commits the round is cancelled while the subscribers are
\* told (act cancels a tool the user stops): they may have the event already.
InterruptNotify(t) ==
  /\ Notifying(t) /\ win[t].notified < Len(win[t].frozen)
  /\ interrupts < MaxInterrupts
  /\ interrupts' = interrupts + 1
  /\ tracked' = Tracking(ToNotify(t).run, ToNotify(t).n)
  /\ seen' \in {seen, Append(seen, ToNotify(t))}
  /\ busy' = busy \ {t}
  /\ UNCHANGED <<next, out, open, win, storeVars, dropped, bound, windows>>

\* What was emitted during the commit is the next batch.
FinishBatch(t) ==
  /\ Notifying(t) /\ win[t].notified = Len(win[t].frozen)
  /\ Freeze(t)
  /\ UNCHANGED <<runVars, storeVars, seen, histVars>>

\* A run that was born in the window has ended, and one that was not still has
\* its RUN_FINISHED to emit: the round is dropped after the first has unwound
\* (RoundDiscarded), and by the second before it parks (abandon_round).
Unwound(t) ==
  \A r \in Runs : TaskOf[r] = t /\ Provisional(r) =>
     IF [run |-> r, n |-> 1] \in Elems(win[t].events)
     THEN next[r] = RunLength + 1
     ELSE [run |-> r, n |-> RunLength] \notin Elems(win[t].events)

\* Mutated form: a batch that may be stored already is dropped.
DiscardUncertain(t) ==
  /\ t \in open /\ t \notin busy /\ Unwound(t)
  /\ dropped' = dropped \cup Elems(win[t].frozen) \cup Elems(win[t].events)
  /\ open' = open \ {t}
  /\ win' = [win EXCEPT ![t] = FreshWindow(<<>>, {})]
  /\ UNCHANGED <<runVars, busy, storeVars, seen, bound, windows, interrupts>>

\* discard_provisional; TaskManager commits instead when has_pending_commit.
Discard(t) ==
  /\ t \in open /\ win[t].frozen = <<>> /\ Unwound(t)
  /\ dropped' = dropped \cup Elems(win[t].events)
  /\ open' = open \ {t}
  /\ win' = [win EXCEPT ![t] = FreshWindow(<<>>, {})]
  /\ UNCHANGED <<runVars, busy, storeVars, seen, bound, windows, interrupts>>
-------------------------------------------------------------------------------
EmitStep(r) ==
  \/ EmitBuffered(r) \/ EmitDirect(r) \/ StoreDirect(r) \/ StoreDirectFails(r)
  \/ NotifyDirect(r) \/ RetryActor(r) \/ EndBackground(r) \/ Bind(r)

WindowStep(t) ==
  \/ Begin(t) \/ CommitStart(t) \/ StoreBatch(t) \/ StoreBatchFails(t)
  \/ NotifyBatch(t) \/ InterruptNotify(t) \/ FinishBatch(t) \/ Discard(t)

Next == (\E r \in Runs : EmitStep(r)) \/ (\E t \in Tasks : WindowStep(t))

Spec == Init /\ [][Next]_vars

\* Every round reaches one commit point after another until it is committed or
\* dropped (the end of the run is one), subscribers return, and the store does
\* not refuse for ever.
Fairness ==
  \A t \in Tasks :
    /\ WF_vars(CommitStart(t)) /\ SF_vars(StoreBatch(t))
    /\ WF_vars(NotifyBatch(t)) /\ WF_vars(FinishBatch(t))

FairSpec == Spec /\ Fairness
-------------------------------------------------------------------------------
(***************************************************************************)
(* Properties                                                              *)
(***************************************************************************)
\* "Notified" implies "stored": nothing reaches an ordinary subscriber that a
\* restart would not find in the log.
SeenIsDurable == Elems(seen) \subseteq Elems(log)

\* The log has the events of a run in the order it emitted them, each once:
\* nothing emitted while a batch is being committed gets ahead of it, and no
\* retry stores an event again.
LogKeepsRunOrder ==
  \A i, j \in DOMAIN log : i < j /\ log[i].run = log[j].run => log[i].n < log[j].n

\* A subscriber is told of a run's events in that order too; only the event
\* that an interrupted commit was notifying may come a second time.
SeenKeepsRunOrder ==
  /\ \A i, j \in DOMAIN seen :
       i < j /\ seen[i].run = seen[j].run => seen[i].n <= seen[j].n
  /\ Len(seen) <= Cardinality(Elems(seen)) + interrupts

\* Log and subscribers agree on the order of what a run did.
OrderIsKept == LogKeepsRunOrder /\ SeenKeepsRunOrder

\* What was dropped is in no batch of the log: a round is all there or not.
DiscardedNeverDurable == dropped \cap Elems(log) = {}

\* A run that started before the window, or beside it, loses no event when the
\* round is taken back, unless the round is the run's own (a hot answer).
IndependentRunsKeepTheirEvents ==
  \A e \in dropped : e.run \in bound \/ [run |-> e.run, n |-> 1] \in dropped

\* A batch is always one the store knows or one it can append, never a
\* conflict: a retry asks for the very batch of the first attempt.
RetriesAreReplays ==
  \A t \in open : win[t].frozen # <<>> =>
     win[t].frozen \in ledger \/ Fresh(win[t].frozen)

\* A round is in the log as a whole or not at all, whatever failed, was retried or
\* ran beside it.
RoundsAreAtomic ==
  DiscardedNeverDurable /\ IndependentRunsKeepTheirEvents /\ RetriesAreReplays

\* The events of t's window that nobody has been told of.
Pending(t) == (Elems(win[t].events) \cup Elems(win[t].frozen)) \ Elems(seen)

\* An event that was buffered is eventually told to the ordinary subscribers or
\* dropped with its round: it leaves the window in no other way, and the window
\* does not keep it for ever.
BufferedIsDecided ==
  /\ [][\A t \in Tasks :
           Pending(t) \subseteq (Pending(t) \cup Elems(seen) \cup dropped)']_vars
  /\ \A t \in Tasks : Pending(t) # {} ~> Pending(t) = {}
===============================================================================
