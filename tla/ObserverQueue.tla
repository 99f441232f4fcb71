----------------------------- MODULE ObserverQueue -----------------------------
(***************************************************************************)
(* The bounded queue of one stream() observer of InProcessEventBus, from   *)
(* the second phase of _fanout to the consumer's get().                    *)
(*                                                                         *)
(* Durable events are numbered by their commit position.  Two emitters may *)
(* fan out in another order than they committed, so delivery takes any     *)
(* committed event that was not delivered yet.  Transient events (LLM      *)
(* tokens) pass the gate without a position.                               *)
(***************************************************************************)
EXTENDS Naturals, Sequences, FiniteSets

CONSTANTS
  QueueSize,      \* maxsize of the subscriber's queue
  MaxPosition,    \* bound: durable events committed
  MaxTransient    \* bound: transient events emitted

ASSUME QueueAssumption ==
  QueueSize \in Nat \ {0} /\ MaxPosition \in Nat /\ MaxTransient \in Nat

Positions == 1..MaxPosition

VARIABLES
  committed,  \* events the store has confirmed: positions 1..committed
  inflight,   \* committed and not yet fanned out
  transients, \* transient events emitted
  queue,      \* what the observer has not taken yet
  lost,       \* history: durable events that left the queue unread
  silent,     \* history: those a transient event has displaced, or the notice of
  told        \* history: losses that a notice the observer took stands for

queueVars == <<committed, inflight, transients, queue, lost, silent, told>>

\* An entry: a durable event, a transient one, or an EventsDropped notice.  The
\* losses a notice stands for (covers) are history, not part of its payload.
Durable(p) == [kind |-> "event", position |-> p, covers |-> {}]
Transient == [kind |-> "transient", position |-> 0, covers |-> {}]
Notice(p, covers) == [kind |-> "notice", position |-> p, covers |-> covers]

Entry == [kind : {"event", "transient", "notice"},
          position : 0..MaxPosition, covers : SUBSET Positions]

QueueTypeOK ==
  /\ committed \in 0..MaxPosition
  /\ inflight \subseteq 1..committed
  /\ transients \in 0..MaxTransient
  /\ queue \in Seq(Entry) /\ Len(queue) <= QueueSize
  /\ lost \subseteq 1..committed /\ silent \subseteq lost
  /\ told \subseteq lost

QueueInit ==
  /\ committed = 0 /\ inflight = {} /\ transients = 0
  /\ queue = <<>>
  /\ lost = {} /\ silent = {} /\ told = {}

LostOf(entry) == IF entry.kind = "event" THEN {entry.position} ELSE {}
-------------------------------------------------------------------------------
\* The gate confirms an event.
CommitEvent ==
  /\ committed < MaxPosition
  /\ committed' = committed + 1
  /\ inflight' = inflight \cup {committed + 1}
  /\ UNCHANGED <<transients, queue, lost, silent, told>>

\* put_nowait on a queue with room.
PutWithRoom(entry) ==
  /\ Len(queue) < QueueSize
  /\ queue' = Append(queue, entry)
  /\ UNCHANGED <<lost, silent>>

\* QueueFull and no position: the oldest entry makes room, and only a counter
\* and the log tell.
PutDroppingOldest(entry) ==
  /\ Len(queue) = QueueSize
  /\ queue' = Append(Tail(queue), entry)
  /\ lost' = lost \cup LostOf(Head(queue))
  /\ silent' = silent \cup LostOf(Head(queue)) \cup Head(queue).covers

\* Mutated form: the notice is given up when the queue is full again.
PutAnnouncingIfRoom(entry) ==
  /\ Len(queue) = QueueSize
  /\ queue' = Append(Tail(queue), entry)
  /\ lost' = lost \cup LostOf(Head(queue))
  /\ UNCHANGED silent

\* Mutated form: the notice is put without taking an entry out for it.
PutOverfull(entry) ==
  /\ Len(queue) = QueueSize
  /\ queue' = Tail(queue) \o <<entry, Notice(entry.position, lost \cup LostOf(Head(queue)))>>
  /\ lost' = lost \cup LostOf(Head(queue))
  /\ UNCHANGED silent

\* QueueFull with a position: the oldest entry makes room for the event and the
\* next one, which is not counted, for an EventsDropped notice.
PutAnnouncingLoss(entry) ==
  /\ Len(queue) = QueueSize
  /\ LET full == Append(Tail(queue), entry)
         gone == LostOf(Head(queue)) \cup LostOf(Head(full))
     IN  /\ queue' = Append(Tail(full), Notice(entry.position, lost \cup gone))
         /\ lost' = lost \cup gone
  /\ UNCHANGED silent

\* _fanout of a durable event.
Deliver(p) ==
  /\ p \in inflight
  /\ inflight' = inflight \ {p}
  /\ PutWithRoom(Durable(p)) \/ PutAnnouncingLoss(Durable(p))
  /\ UNCHANGED <<committed, transients, told>>

\* _fanout of a transient event.
DeliverTransient ==
  /\ transients < MaxTransient
  /\ transients' = transients + 1
  /\ PutWithRoom(Transient) \/ PutDroppingOldest(Transient)
  /\ UNCHANGED <<committed, inflight, told>>

\* The observer of stream() takes the next entry.
Take ==
  /\ queue # <<>>
  /\ queue' = Tail(queue)
  /\ told' = told \cup Head(queue).covers
  /\ UNCHANGED <<committed, inflight, transients, lost, silent>>

QueueNext ==
  \/ CommitEvent
  \/ \E p \in Positions : Deliver(p)
  \/ DeliverTransient
  \/ Take

QueueSpec == QueueInit /\ [][QueueNext]_queueVars

\* The observer never stops reading for good.
FairQueueSpec == QueueSpec /\ WF_queueVars(Take)
-------------------------------------------------------------------------------
Covered(p) == p \in told \/ \E i \in DOMAIN queue : p \in queue[i].covers

\* A durable event that was lost to another one (or to a notice) is covered by a
\* notice the observer has taken or is going to take, however many notices
\* displace each other, unless a transient event takes the notice's place.
LossIsAnnounced == \A p \in lost \ silent : Covered(p)

\* An observer that keeps reading gets to know of every such loss.
LossReachesObserver == \A p \in Positions : p \in lost ~> p \in told \cup silent

===============================================================================
