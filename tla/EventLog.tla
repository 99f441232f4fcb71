------------------------------- MODULE EventLog -------------------------------
(***************************************************************************)
(* What an EventStore promises (protocols/events.py, class EventStore),    *)
(* and what InMemoryEventStore does in one step under its asyncio lock: a  *)
(* session owns an append-only sequence of events, a batch is appended to  *)
(* it as a whole or not at all, and neither a batch id nor an event id is  *)
(* ever committed twice.                                                   *)
(*                                                                         *)
(* An event is a record [id, session, body]; everything of the envelope    *)
(* that is neither the id nor the session is its body.                     *)
(***************************************************************************)
EXTENDS Naturals, Sequences

CONSTANTS
  Sessions,     \* the event partitions
  BatchIds,     \* the batch ids callers mint
  EventIds,     \* the event ids callers mint
  Bodies        \* what else an event holds

Event == [id : EventIds, session : Sessions, body : Bodies]

VARIABLES
  log,          \* session -> its events, the one at index p has position p
  committed     \* batch id -> the events it committed, <<>> if it did not

logVars == <<log, committed>>

LogTypeOK ==
  /\ log \in [Sessions -> Seq(Event)]
  /\ committed \in [BatchIds -> Seq(Event)]

Ids(events) == {events[i].id : i \in DOMAIN events}

\* The ids of every event in the store, in whatever session.
StoredIds == UNION {Ids(log[s]) : s \in Sessions}

DistinctIds(events) ==
  \A i, j \in DOMAIN events : events[i].id = events[j].id => i = j

\* The request is well formed: a non-empty batch of one session.
WellFormed(session, events) ==
  /\ events # <<>>
  /\ \A i \in DOMAIN events : events[i].session = session

\* The three outcomes of append_batch on a well-formed request: the original
\* receipt, a commit, an EventConflictError.
IsReplay(batch, events) == committed[batch] = events
IsFresh(batch, events) ==
  /\ committed[batch] = <<>>
  /\ DistinctIds(events)
  /\ Ids(events) \cap StoredIds = {}
IsConflict(batch, events) == ~IsReplay(batch, events) /\ ~IsFresh(batch, events)

LogInit ==
  /\ log = [s \in Sessions |-> <<>>]
  /\ committed = [b \in BatchIds |-> <<>>]

Commit(session, batch, events) ==
  /\ WellFormed(session, events)
  /\ IsFresh(batch, events)
  /\ log' = [log EXCEPT ![session] = @ \o events]
  /\ committed' = [committed EXCEPT ![batch] = events]

LogNext ==
  \E s \in Sessions, b \in BatchIds, events \in Seq(Event) : Commit(s, b, events)

LogSpec == LogInit /\ [][LogNext]_logVars
===============================================================================
