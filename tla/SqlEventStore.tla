----------------------------- MODULE SqlEventStore -----------------------------
(***************************************************************************)
(* SqlEventStore.append_batch (providers/events/store/sql/store.py) with   *)
(* several connections at once.  A call runs through                       *)
(*                                                                         *)
(*    lookup -> advance -> insert -> commit            a new batch         *)
(*    lookup -> compare                                a replay            *)
(*    lookup -> advance -> insert -> recheck [-> compare]  a lost race     *)
(*                                                                         *)
(* Tables are sets of rows.  A transaction takes the lock of its session's *)
(* head row with its first write, keeps what it writes to itself until it  *)
(* commits, and loses it when it fails; a primary key another transaction  *)
(* has written and not committed makes the insert wait.  (This is          *)
(* PostgreSQL.  SQLite has one lock for all the sessions, which only       *)
(* removes interleavings.)                                                 *)
(***************************************************************************)
EXTENDS Naturals, Sequences, FiniteSets

CONSTANTS
  Callers,      \* the concurrent connections
  Sessions, BatchIds, EventIds, Bodies,
  Requests,     \* the calls that may be made: [session, batch, events]
  NoCaller,     \* the value of a head row's lock when it is free
  MaxCalls      \* bound: how often one caller calls append_batch

Event == [id : EventIds, session : Sessions, body : Bodies]
Request == [session : Sessions, batch : BatchIds, events : Seq(Event)]

ASSUME SqlAssumption ==
  /\ Requests \subseteq Request
  /\ NoCaller \notin Callers
  /\ MaxCalls \in Nat

VARIABLES
  head,     \* event_session_head: session -> next_position, 0 without a row
  rows,     \* events: set of [event, position]
  batches,  \* event_batches: set of [batch, session, first, count]
  lock,     \* session -> the transaction that holds its head row
  pc,       \* caller -> the statement it runs next
  req,      \* caller -> its request
  start,    \* caller -> position before the interval it was allocated
  calls,    \* caller -> calls made so far
  answers   \* history: every answer given, [req, kind, positions]

db == <<head, rows, batches>>
vars == <<head, rows, batches, lock, pc, req, start, calls, answers>>

Row == [event : Event, position : Nat]
BatchRow == [batch : BatchIds, session : Sessions, first : Nat, count : Nat]
PC == {"idle", "lookup", "compare", "advance", "insert", "commit", "recheck"}
Kinds == {"receipt", "conflict", "invalid", "failed"}

TypeOK ==
  /\ head \in [Sessions -> Nat]
  /\ rows \subseteq Row
  /\ batches \subseteq BatchRow
  /\ lock \in [Sessions -> Callers \cup {NoCaller}]
  /\ pc \in [Callers -> PC]
  /\ req \in [Callers -> Requests]
  /\ start \in [Callers -> Nat]
  /\ calls \in [Callers -> 0..MaxCalls]
  /\ \A a \in answers : a.req \in Requests /\ a.kind \in Kinds

Init ==
  /\ head = [s \in Sessions |-> 0]
  /\ rows = {}
  /\ batches = {}
  /\ lock = [s \in Sessions |-> NoCaller]
  /\ pc = [c \in Callers |-> "idle"]
  /\ req \in [Callers -> Requests]
  /\ start = [c \in Callers |-> 0]
  /\ calls = [c \in Callers |-> 0]
  /\ answers = {}
-------------------------------------------------------------------------------
\* Vocabulary of one call.
Batch(c) == req[c].batch
Session(c) == req[c].session
Events(c) == req[c].events
IdsOf(events) == {events[i].id : i \in DOMAIN events}

HasBatchRow(b) == \E r \in batches : r.batch = b

\* Mutated forms: positions counted from 0; an interval one position early; a
\* table without the primary key on the event id.
NewRowsFromZero(c) ==
  {[event |-> Events(c)[i], position |-> start[c] + i - 1] : i \in DOMAIN Events(c)}

NewBatchRowEarly(c) ==
  [batch |-> Batch(c), session |-> Session(c),
   first |-> start[c], count |-> Len(Events(c))]

ViolatesLedgerOnly(c) == HasBatchRow(Batch(c))

\* The rows the transaction of c writes, positions ascending from start[c] + 1.
NewRows(c) ==
  {[event |-> Events(c)[i], position |-> start[c] + i] : i \in DOMAIN Events(c)}

NewBatchRow(c) ==
  [batch |-> Batch(c), session |-> Session(c),
   first |-> start[c] + 1, count |-> Len(Events(c))]

\* A primary key or unique index refuses the rows of c: events.id within the
\* batch or against the table, (session, position), event_batches.batch_id.
Violates(c) ==
  \/ \E i, j \in DOMAIN Events(c) : i # j /\ Events(c)[i].id = Events(c)[j].id
  \/ \E r \in rows, n \in NewRows(c) :
        \/ r.event.id = n.event.id
        \/ r.event.session = n.event.session /\ r.position = n.position
  \/ HasBatchRow(Batch(c))

\* Another open transaction has written one of c's keys.
Waits(c) ==
  \E d \in Callers \ {c} :
     /\ pc[d] = "commit"
     /\ \/ Batch(c) = Batch(d)
        \/ IdsOf(Events(c)) \cap IdsOf(Events(d)) # {}

\* The positions of a receipt: those of the rows that hold the request's events.
PositionsOf(events) ==
  [i \in DOMAIN events |->
     (CHOOSE r \in rows : r.event.id = events[i].id).position]

Goto(c, from, to) == pc[c] = from /\ pc' = [pc EXCEPT ![c] = to]

Answer(c, kind, positions) ==
  answers' = answers \cup {[req |-> req[c], kind |-> kind, positions |-> positions]}

Unlock(c) == lock' = [s \in Sessions |-> IF lock[s] = c THEN NoCaller ELSE lock[s]]
-------------------------------------------------------------------------------
\* A caller makes a call, for the first time or as a retry.  A batch that is
\* empty or spans sessions is refused before the database is touched.
WellFormed(r) ==
  r.events # <<>> /\ \A i \in DOMAIN r.events : r.events[i].session = r.session

Call(c) ==
  /\ pc[c] = "idle" /\ calls[c] < MaxCalls
  /\ calls' = [calls EXCEPT ![c] = @ + 1]
  /\ \E r \in Requests :
        /\ req' = [req EXCEPT ![c] = r]
        /\ \/ /\ WellFormed(r)
              /\ pc' = [pc EXCEPT ![c] = "lookup"]
              /\ UNCHANGED answers
           \/ /\ ~WellFormed(r)
              /\ answers' = answers \cup {[req |-> r, kind |-> "invalid", positions |-> <<>>]}
              /\ UNCHANGED pc
  /\ UNCHANGED <<head, rows, batches, lock, start>>

\* Fast path: is the batch already committed?
Lookup(c) ==
  /\ Goto(c, "lookup", IF HasBatchRow(Batch(c)) THEN "compare" ELSE "advance")
  /\ UNCHANGED <<head, rows, batches, lock, req, start, calls, answers>>

\* _receipt_for_committed: every event of the request is stored, field by field
\* equal.  What else the committed batch holds is not looked at.
AllStored(events) ==
  /\ \A i \in DOMAIN events : \E r \in rows : r.event = events[i]
  /\ \A i, j \in DOMAIN events : events[i].id = events[j].id => i = j

Compare(c) ==
  /\ Goto(c, "compare", "idle")
  /\ \/ /\ AllStored(Events(c))
        /\ Answer(c, "receipt", PositionsOf(Events(c)))
     \/ /\ ~AllStored(Events(c))
        /\ Answer(c, "conflict", <<>>)
  /\ UNCHANGED <<head, rows, batches, lock, req, start, calls>>

\* Mutated form: next_position is read back as it was before the UPDATE (the
\* stale identity map that the comment above the SELECT warns of).
AdvanceStaleRead(c) ==
  /\ Goto(c, "advance", "insert")
  /\ lock[Session(c)] = NoCaller
  /\ lock' = [lock EXCEPT ![Session(c)] = c]
  /\ start' = [start EXCEPT ![c] = head[Session(c)] - Len(Events(c))]
  /\ UNCHANGED <<head, rows, batches, req, calls, answers>>

\* First write of the transaction: the head row is locked, next_position is
\* advanced and read back in the same transaction.
Advance(c) ==
  /\ Goto(c, "advance", "insert")
  /\ lock[Session(c)] = NoCaller
  /\ lock' = [lock EXCEPT ![Session(c)] = c]
  /\ start' = [start EXCEPT ![c] = head[Session(c)]]
  /\ UNCHANGED <<head, rows, batches, req, calls, answers>>

\* Mutated form: the failed transaction is left open.
InsertLeavesTxOpen(c) ==
  /\ ~Waits(c)
  /\ Goto(c, "insert", IF Violates(c) THEN "recheck" ELSE "commit")
  /\ UNCHANGED <<head, rows, batches, lock, req, start, calls, answers>>

\* The flush of the event rows and the batch row.  An IntegrityError rolls the
\* transaction back.
Insert(c) ==
  /\ ~Waits(c)
  /\ \/ /\ ~Violates(c)
        /\ Goto(c, "insert", "commit")
        /\ UNCHANGED lock
     \/ /\ Violates(c)
        /\ Goto(c, "insert", "recheck")
        /\ Unlock(c)
  /\ UNCHANGED <<head, rows, batches, req, start, calls, answers>>

\* Mutated form: the ledger is not written in the transaction of the events.
ApplyWithoutLedger(c) ==
  /\ head' = [head EXCEPT ![Session(c)] = start[c] + Len(Events(c))]
  /\ rows' = rows \cup NewRows(c)
  /\ UNCHANGED batches
  /\ Unlock(c)

\* The commit makes the whole batch visible and frees the head row.
Apply(c) ==
  /\ head' = [head EXCEPT ![Session(c)] = start[c] + Len(Events(c))]
  /\ rows' = rows \cup NewRows(c)
  /\ batches' = batches \cup {NewBatchRow(c)}
  /\ Unlock(c)

\* Mutated form: the receipt is handed out although the commit failed.
CommitTxUnconfirmed(c) ==
  /\ Goto(c, "commit", "idle")
  /\ Unlock(c)
  /\ Answer(c, "receipt", [i \in DOMAIN Events(c) |-> start[c] + i])
  /\ UNCHANGED <<head, rows, batches, req, start, calls>>

CommitTx(c) ==
  /\ Goto(c, "commit", "idle")
  /\ Apply(c)
  /\ Answer(c, "receipt", [i \in DOMAIN Events(c) |-> start[c] + i])
  /\ UNCHANGED <<req, start, calls>>

\* The commit took effect and its confirmation is lost.
LoseReceipt(c) ==
  /\ Goto(c, "commit", "idle")
  /\ Apply(c)
  /\ Answer(c, "failed", <<>>)
  /\ UNCHANGED <<req, start, calls>>

\* Mutated form: a lost race is always taken for a conflict.
RecheckGivesUp(c) ==
  /\ Goto(c, "recheck", "idle")
  /\ Answer(c, "conflict", <<>>)
  /\ UNCHANGED <<head, rows, batches, lock, req, start, calls>>

\* After an IntegrityError: the batch was committed meanwhile, or one of its
\* events belongs to another batch.
Recheck(c) ==
  /\ \/ /\ HasBatchRow(Batch(c))
        /\ Goto(c, "recheck", "compare")
        /\ UNCHANGED answers
     \/ /\ ~HasBatchRow(Batch(c))
        /\ Goto(c, "recheck", "idle")
        /\ Answer(c, "conflict", <<>>)
  /\ UNCHANGED <<head, rows, batches, lock, req, start, calls>>

\* The connection breaks, the database refuses, the process dies: the open
\* transaction is rolled back and the caller gets an error or nothing at all.
Fail(c) ==
  /\ pc[c] # "idle"
  /\ pc' = [pc EXCEPT ![c] = "idle"]
  /\ Unlock(c)
  /\ Answer(c, "failed", <<>>)
  /\ UNCHANGED <<head, rows, batches, req, start, calls>>

Step(c) ==
  \/ Lookup(c) \/ Compare(c) \/ Advance(c) \/ Insert(c) \/ CommitTx(c) \/ Recheck(c)

Next == \E c \in Callers : Call(c) \/ Step(c) \/ LoseReceipt(c) \/ Fail(c)

Spec == Init /\ [][Next]_vars

\* A database answers every statement, and a lock or a key somebody waits for
\* goes to a waiter when it is released.
FairSpec == Spec /\ \A c \in Callers : WF_vars(Step(c))
-------------------------------------------------------------------------------
(***************************************************************************)
(* Safety                                                                  *)
(***************************************************************************)

\* The positions of a session's rows are exactly 1..next_position, each used
\* once, whatever transactions raced, failed or were retried.
PositionsDense ==
  \A s \in Sessions :
     /\ {r.position : r \in {x \in rows : x.event.session = s}} = 1..head[s]
     /\ \A r1, r2 \in rows :
          /\ r1.event.session = s /\ r2.event.session = s
          /\ r1.position = r2.position
          => r1 = r2

\* No event id is stored twice, in any session: a retry is not a second write.
StoredOnce == \A r1, r2 \in rows : r1.event.id = r2.event.id => r1 = r2

Holds(b, r) ==
  /\ b.session = r.event.session
  /\ r.position \in b.first..(b.first + b.count - 1)

\* Every row belongs to exactly one committed batch, and a committed batch has
\* all of its rows: a batch is stored whole or not at all.
BatchesPartition ==
  /\ \A r \in rows : \E b \in batches :
        Holds(b, r) /\ \A other \in batches : Holds(other, r) => other = b
  /\ \A b \in batches : \A p \in b.first..(b.first + b.count - 1) :
        \E r \in rows : r.event.session = b.session /\ r.position = p

\* The tables of a session read as one log: dense positions, no event twice, and
\* nothing but whole batches.
LogWellFormed == PositionsDense /\ StoredOnce /\ BatchesPartition

\* A receipt names the positions its events really have, for good; so two
\* receipts of one request are equal (the retry gets the original receipt).
ReceiptsTrue ==
  \A a \in answers : a.kind = "receipt" =>
     \A i \in DOMAIN a.req.events :
        [event |-> a.req.events[i], position |-> a.positions[i]] \in rows

\* What keeps two transactions out of each other's way.  From its first write on
\* a transaction has the head row of its session to itself and the interval it
\* read back stays the next free one; once its inserts are accepted no key of it
\* is taken, neither by a stored row nor by another accepted transaction.
Apart(c) ==
  /\ pc[c] # "idle" => WellFormed(req[c])
  /\ pc[c] \in {"insert", "commit"} =>
        lock[Session(c)] = c /\ start[c] = head[Session(c)]
  /\ pc[c] = "commit" => ~Violates(c) /\ ~Waits(c)

OpenTransactionsApart == \A c \in Callers : Apart(c)

\* The events a committed batch holds, in position order.
BatchContent(b) ==
  LET br == CHOOSE r \in batches : r.batch = b
  IN  [i \in 1..br.count |->
         (CHOOSE r \in rows : /\ r.event.session = br.session
                              /\ r.position = br.first + i - 1).event]
-------------------------------------------------------------------------------
(***************************************************************************)
(* Refinement: read by position, the tables are the log of EventLog.       *)
(***************************************************************************)
LogOf(s) ==
  [p \in 1..head[s] |->
     (CHOOSE r \in rows : r.event.session = s /\ r.position = p).event]

Log == INSTANCE EventLog
  WITH log <- [s \in Sessions |-> LogOf(s)],
       committed <- [b \in BatchIds |-> IF HasBatchRow(b) THEN BatchContent(b) ELSE <<>>]

\* The initial state is the empty log, and each step stutters or commits one
\* fresh, well-formed batch as a whole.
ImplementsEventLog ==
  /\ Log!LogInit
  /\ [][\E c \in Callers : Log!Commit(Session(c), Batch(c), Events(c))]_(Log!logVars)

\* A conflict is only reported when there is one: the batch id was committed
\* with other content, or an event of the request is stored in another batch,
\* or the request names an event twice.  A caller that merely lost the race
\* against its own retry gets the receipt.
ConflictsReal ==
  \A a \in answers : a.kind = "conflict" => Log!IsConflict(a.req.batch, a.req.events)

\* A receipt is for all that the store holds under the batch id.
ReceiptsWhole ==
  \A a \in answers : a.kind = "receipt" => Log!IsReplay(a.req.batch, a.req.events)

\* What a caller is told is so: a receipt for good and for the whole batch, a
\* conflict with its reason.
AnswersTrue == ReceiptsTrue /\ ReceiptsWhole /\ ConflictsReal

-------------------------------------------------------------------------------
(***************************************************************************)
(* Liveness                                                                *)
(***************************************************************************)
\* Every call is answered: no transaction keeps the head row's lock.
CallsReturn == \A c \in Callers : pc[c] # "idle" ~> pc[c] = "idle"

===============================================================================
