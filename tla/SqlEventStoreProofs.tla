------------------------- MODULE SqlEventStoreProofs -------------------------
(***************************************************************************)
(* For any number of connections, sessions, batches and events, whatever   *)
(* they race, lose or retry: the tables of SqlEventStore keep dense        *)
(* positions, no event is stored twice, every row belongs to one committed *)
(* batch, every receipt names the positions its events have, every answer  *)
(* has its reason, and the tables implement the log of EventLog.           *)
(*                                                                         *)
(* None of it is inductive alone.  A commit keeps the tables right because *)
(* its transaction was accepted (~Violates) and because nothing another    *)
(* transaction did since took one of its keys: OpenTransactionsApart.  The *)
(* log needs, besides, that each row of the ledger is filled by a request  *)
(* (LedgerOK), and the answers that whoever lost a race finds either its   *)
(* batch or the id that was in the way (LookedUp).                         *)
(*                                                                         *)
(* The last part is about those who read what is stored: the bounded queue *)
(* of an observer announces what it loses (ObserverQueue).                 *)
(***************************************************************************)
EXTENDS SqlEventStore, ObserverQueue, TLAPS

\* The tables agree with the head row and with each other.
BatchesBounded ==
  \A b \in batches : b.first >= 1 /\ b.first + b.count - 1 <= head[b.session]

TablesOK == PositionsDense /\ StoredOnce /\ BatchesPartition /\ BatchesBounded

Inductive == TypeOK /\ OpenTransactionsApart /\ TablesOK /\ ReceiptsTrue
-------------------------------------------------------------------------------
(***************************************************************************)
(* Types                                                                   *)
(***************************************************************************)

\* What a request is made of, and what a caller's rows are.
LEMMA RequestType ==
  ASSUME TypeOK, NEW c \in Callers
  PROVE  /\ Session(c) \in Sessions
         /\ Batch(c) \in BatchIds
         /\ Events(c) \in Seq(Event)
         /\ DOMAIN Events(c) = 1..Len(Events(c))
         /\ Len(Events(c)) \in Nat
         /\ \A i \in DOMAIN Events(c) : Events(c)[i] \in Event
<1>1. req[c] \in Request
  BY SqlAssumption DEF TypeOK
<1> QED
  BY <1>1 DEF Request, Session, Batch, Events

LEMMA NewRowsType ==
  ASSUME TypeOK, NEW c \in Callers
  PROVE  NewRows(c) \subseteq Row /\ NewBatchRow(c) \in BatchRow
<1>1. start[c] \in Nat
  BY DEF TypeOK
<1>2. \A i \in DOMAIN Events(c) :
        Events(c)[i] \in Event /\ start[c] + i \in Nat
  BY <1>1, RequestType
<1>3. NewRows(c) \subseteq Row
  BY <1>2 DEF NewRows, Row
<1>4. start[c] + 1 \in Nat
  BY <1>1
<1> QED
  BY <1>3, <1>4, RequestType DEF NewBatchRow, BatchRow

\* Freeing the lock keeps its type.
LEMMA UnlockType ==
  ASSUME TypeOK, NEW c \in Callers, Unlock(c)
  PROVE  lock' \in [Sessions -> Callers \cup {NoCaller}]
BY DEF TypeOK, Unlock

LEMMA ApplyType ==
  ASSUME TypeOK, NEW c \in Callers, Apply(c)
  PROVE  /\ head' \in [Sessions -> Nat]
         /\ rows' \subseteq Row
         /\ batches' \subseteq BatchRow
         /\ lock' \in [Sessions -> Callers \cup {NoCaller}]
<1>1. start[c] + Len(Events(c)) \in Nat
  BY RequestType DEF TypeOK
<1>2. head' \in [Sessions -> Nat]
  BY <1>1 DEF TypeOK, Apply
<1>3. rows' \subseteq Row /\ batches' \subseteq BatchRow
  BY NewRowsType DEF TypeOK, Apply
<1>4. lock' \in [Sessions -> Callers \cup {NoCaller}]
  BY UnlockType DEF Apply
<1> QED
  BY <1>2, <1>3, <1>4

\* One answer more keeps the answers' type.
LEMMA AnswerType ==
  ASSUME TypeOK, NEW c \in Callers, NEW kind \in Kinds, NEW positions,
         Answer(c, kind, positions)
  PROVE  \A a \in answers' : a.req \in Requests /\ a.kind \in Kinds
BY DEF TypeOK, Answer

LEMMA TypeStep ==
  ASSUME TypeOK, [Next]_vars
  PROVE  TypeOK'
<1>1. CASE UNCHANGED vars
  BY <1>1 DEF TypeOK, vars
<1>2. ASSUME NEW c \in Callers, Call(c) PROVE TypeOK'
  <2>1. PICK r \in Requests :
          /\ req' = [req EXCEPT ![c] = r]
          /\ \/ /\ pc' = [pc EXCEPT ![c] = "lookup"]
                /\ UNCHANGED answers
             \/ /\ answers' = answers \cup
                     {[req |-> r, kind |-> "invalid", positions |-> <<>>]}
                /\ UNCHANGED pc
    BY <1>2 DEF Call
  <2>2. calls' \in [Callers -> 0..MaxCalls]
    BY <1>2, SqlAssumption DEF Call, TypeOK
  <2>3. pc' \in [Callers -> PC] /\ req' \in [Callers -> Requests]
    BY <2>1 DEF TypeOK, PC
  <2>4. \A a \in answers' : a.req \in Requests /\ a.kind \in Kinds
    BY <2>1 DEF TypeOK, Kinds
  <2> QED
    BY <1>2, <2>2, <2>3, <2>4 DEF Call, TypeOK
<1>3. ASSUME NEW c \in Callers, Lookup(c) PROVE TypeOK'
  BY <1>3 DEF Lookup, Goto, TypeOK, PC
<1>4. ASSUME NEW c \in Callers, Compare(c) PROVE TypeOK'
  <2>1. \A a \in answers' : a.req \in Requests /\ a.kind \in Kinds
    BY <1>4, AnswerType DEF Compare, Kinds
  <2> QED
    BY <1>4, <2>1 DEF Compare, Goto, TypeOK, PC
<1>5. ASSUME NEW c \in Callers, Advance(c) PROVE TypeOK'
  <2>1. head[Session(c)] \in Nat
    BY RequestType DEF TypeOK
  <2> QED
    BY <1>5, <2>1 DEF Advance, Goto, TypeOK, PC
<1>6. ASSUME NEW c \in Callers, Insert(c) PROVE TypeOK'
  <2>1. lock' \in [Sessions -> Callers \cup {NoCaller}]
    BY <1>6, UnlockType DEF Insert, TypeOK
  <2> QED
    BY <1>6, <2>1 DEF Insert, Goto, TypeOK, PC
<1>7. ASSUME NEW c \in Callers, CommitTx(c) \/ LoseReceipt(c) PROVE TypeOK'
  <2>1. \A a \in answers' : a.req \in Requests /\ a.kind \in Kinds
    BY <1>7, AnswerType DEF CommitTx, LoseReceipt, Kinds
  <2>2. /\ Apply(c)
        /\ pc' = [pc EXCEPT ![c] = "idle"]
        /\ UNCHANGED <<req, start, calls>>
    BY <1>7 DEF CommitTx, LoseReceipt, Goto
  <2> QED
    BY <2>1, <2>2, ApplyType DEF TypeOK, PC
<1>8. ASSUME NEW c \in Callers, Recheck(c) PROVE TypeOK'
  <2>1. \A a \in answers' : a.req \in Requests /\ a.kind \in Kinds
    BY <1>8, AnswerType DEF Recheck, Kinds, TypeOK
  <2> QED
    BY <1>8, <2>1 DEF Recheck, Goto, TypeOK, PC
<1>9. ASSUME NEW c \in Callers, Fail(c) PROVE TypeOK'
  <2>1. \A a \in answers' : a.req \in Requests /\ a.kind \in Kinds
    BY <1>9, AnswerType DEF Fail, Kinds
  <2>2. lock' \in [Sessions -> Callers \cup {NoCaller}]
    BY <1>9, UnlockType DEF Fail
  <2> QED
    BY <1>9, <2>1, <2>2 DEF Fail, TypeOK, PC
<1> QED
  BY <1>1, <1>2, <1>3, <1>4, <1>5, <1>6, <1>7, <1>8, <1>9 DEF Next, Step

\* TypeOK holds of every instance.
THEOREM TypeCorrect == Spec => []TypeOK
<1>1. Init => TypeOK
  BY SqlAssumption DEF Init, TypeOK, PC
<1> QED
  BY <1>1, TypeStep, PTL DEF Spec
-------------------------------------------------------------------------------
(***************************************************************************)
(* Transactions stay apart                                                 *)
(***************************************************************************)

\* Whether the tables refuse a caller's rows depends on nothing but these.
LEMMA ViolatesFrame ==
  ASSUME NEW d \in Callers, req'[d] = req[d], start'[d] = start[d],
         UNCHANGED <<rows, batches>>
  PROVE  Violates(d)' <=> Violates(d)
BY DEF Violates, NewRows, HasBatchRow, Events, Batch

\* A step of c that touches no table, takes no lock of another open transaction
\* and does not leave c accepted disturbs no other caller.
LEMMA OthersApart ==
  ASSUME OpenTransactionsApart, NEW c \in Callers,
         UNCHANGED <<rows, batches, head>>,
         \A d \in Callers \ {c} :
            /\ pc'[d] = pc[d] /\ req'[d] = req[d] /\ start'[d] = start[d]
            /\ lock[Session(d)] = d => lock'[Session(d)] = d,
         pc'[c] # "commit",
         NEW d \in Callers \ {c}
  PROVE  Apart(d)'
<1>1. Apart(d)
  BY DEF OpenTransactionsApart
<1>2. Violates(d)' <=> Violates(d)
  BY ViolatesFrame
<1>3. ~Waits(d) => ~Waits(d)'
  BY DEF Waits, Batch, Events
<1> QED
  BY <1>1, <1>2, <1>3 DEF Apart, Session

\* Freeing the locks of c leaves the others theirs.
LEMMA UnlockOthers ==
  ASSUME TypeOK, NEW c \in Callers, Unlock(c), NEW d \in Callers \ {c},
         lock[Session(d)] = d
  PROVE  lock'[Session(d)] = d
<1>1. Session(d) \in Sessions
  BY RequestType
<1> QED
  BY <1>1 DEF Unlock

\* Accepted transactions are those of different sessions.
LEMMA OwnSession ==
  ASSUME OpenTransactionsApart, NEW c \in Callers, NEW d \in Callers \ {c},
         pc[c] \in {"insert", "commit"}, pc[d] \in {"insert", "commit"}
  PROVE  Session(c) # Session(d)
BY DEF OpenTransactionsApart, Apart

\* The commit of c takes no key and no position of an open transaction d.
LEMMA ApplyOthers ==
  ASSUME TypeOK, OpenTransactionsApart, NEW c \in Callers, pc[c] = "commit",
         Apply(c), pc' = [pc EXCEPT ![c] = "idle"], UNCHANGED <<req, start>>,
         NEW d \in Callers \ {c}
  PROVE  Apart(d)'
<1>1. Apart(c) /\ Apart(d)
  BY DEF OpenTransactionsApart
<1>2. pc'[d] = pc[d] /\ pc'[c] = "idle"
  BY DEF TypeOK
<1>3. ASSUME pc[d] \in {"insert", "commit"}
      PROVE  lock'[Session(d)] = d /\ start'[d] = head'[Session(d)]
  <2>1. Session(c) # Session(d)
    BY <1>3, OwnSession
  <2>2. lock'[Session(d)] = d
    BY <1>1, <1>3, UnlockOthers DEF Apart, Apply
  <2>3. head'[Session(d)] = head[Session(d)]
    BY <2>1, RequestType DEF Apply, TypeOK
  <2> QED
    BY <1>1, <1>3, <2>2, <2>3 DEF Apart
<1>4. ASSUME pc[d] = "commit" PROVE ~Violates(d)' /\ ~Waits(d)'
  <2>1. ~Violates(d) /\ ~Waits(d)
    BY <1>1, <1>4 DEF Apart
  <2>2. Batch(c) # Batch(d) /\ IdsOf(Events(c)) \cap IdsOf(Events(d)) = {}
    BY <2>1 DEF Waits
  <2>3. Session(c) # Session(d)
    BY <1>4, OwnSession
  <2>4. \A i \in DOMAIN Events(c) : Events(c)[i].session = Session(c)
    BY <1>1 DEF Apart, WellFormed, Session, Events
  <2>5. \A i \in DOMAIN Events(d) : Events(d)[i].session = Session(d)
    BY <1>1, <1>4 DEF Apart, WellFormed, Session, Events
  <2>6. NewRows(d)' = NewRows(d) /\ Events(d)' = Events(d) /\ Batch(d)' = Batch(d)
    BY DEF NewRows, Events, Batch
  <2>7. \A r \in NewRows(c), n \in NewRows(d) :
          r.event.id # n.event.id /\ r.event.session # n.event.session
    BY <2>2, <2>3, <2>4, <2>5 DEF NewRows, IdsOf
  <2>8. ~HasBatchRow(Batch(d))'
    BY <2>1, <2>2, <2>6 DEF Apply, Violates, HasBatchRow, NewBatchRow
  <2>9. ~Violates(d)'
    BY <2>1, <2>6, <2>7, <2>8 DEF Violates, Apply
  <2>10. ~Waits(d)'
    BY <2>1, <1>2 DEF Waits, Batch, Events, TypeOK
  <2> QED
    BY <2>9, <2>10
<1>5. WellFormed(req[d])' <=> WellFormed(req[d])
  BY DEF WellFormed
<1> QED
  BY <1>1, <1>2, <1>3, <1>4, <1>5 DEF Apart, Session

LEMMA ApartStep ==
  ASSUME TypeOK, OpenTransactionsApart, [Next]_vars
  PROVE  OpenTransactionsApart'
<1> USE DEF OpenTransactionsApart
<1>1. CASE UNCHANGED vars
  <2> SUFFICES ASSUME NEW d \in Callers PROVE Apart(d)'
    OBVIOUS
  <2>1. Violates(d)' <=> Violates(d)
    BY <1>1, ViolatesFrame DEF vars
  <2>2. Waits(d)' <=> Waits(d)
    BY <1>1 DEF vars, Waits, Batch, Events
  <2> QED
    BY <1>1, <2>1, <2>2 DEF vars, Apart, WellFormed, Session
<1>2. ASSUME NEW c \in Callers, Call(c) PROVE OpenTransactionsApart'
  <2>1. PICK r \in Requests :
          /\ req' = [req EXCEPT ![c] = r]
          /\ \/ WellFormed(r) /\ pc' = [pc EXCEPT ![c] = "lookup"]
             \/ UNCHANGED pc
    BY <1>2 DEF Call
  <2>2. pc[c] = "idle" /\ UNCHANGED <<head, rows, batches, lock, start>>
    BY <1>2 DEF Call
  <2>3. Apart(c)'
    BY <2>1, <2>2 DEF Apart, TypeOK, WellFormed
  <2>4. \A d \in Callers \ {c} : Apart(d)'
    BY <2>1, <2>2, OthersApart DEF TypeOK
  <2> QED
    BY <2>3, <2>4
<1>3. ASSUME NEW c \in Callers, Lookup(c) \/ Compare(c) \/ Recheck(c)
      PROVE  OpenTransactionsApart'
  <2>1. /\ pc[c] # "idle" /\ pc'[c] \in {"idle", "compare", "advance"}
        /\ \A d \in Callers \ {c} : pc'[d] = pc[d]
        /\ UNCHANGED <<head, rows, batches, lock, req, start>>
    BY <1>3 DEF Lookup, Compare, Recheck, Goto, TypeOK
  <2>2. Apart(c)'
    BY <2>1 DEF Apart, WellFormed
  <2>3. \A d \in Callers \ {c} : Apart(d)'
    BY <2>1, OthersApart
  <2> QED
    BY <2>2, <2>3
<1>4. ASSUME NEW c \in Callers, Advance(c) PROVE OpenTransactionsApart'
  <2>1. Session(c) \in Sessions /\ pc[c] = "advance" /\ pc'[c] = "insert"
    BY <1>4, RequestType DEF Advance, Goto, TypeOK
  <2>2. Apart(c)'
    BY <1>4, <2>1 DEF Advance, Apart, TypeOK, WellFormed, Session
  <2>3. ASSUME NEW d \in Callers \ {c}
        PROVE  /\ pc'[d] = pc[d] /\ req'[d] = req[d] /\ start'[d] = start[d]
               /\ lock[Session(d)] = d => lock'[Session(d)] = d
    <3>1. Session(d) \in Sessions
      BY RequestType
    <3> QED
      BY <1>4, <2>1, <3>1, SqlAssumption DEF Advance, Goto, TypeOK
  <2>4. \A d \in Callers \ {c} : Apart(d)'
    BY <1>4, <2>1, <2>3, OthersApart DEF Advance
  <2> QED
    BY <2>2, <2>4
<1>5. ASSUME NEW c \in Callers, Insert(c) PROVE OpenTransactionsApart'
  <2>1. /\ pc[c] = "insert" /\ ~Waits(c)
        /\ UNCHANGED <<head, rows, batches, req, start>>
    BY <1>5 DEF Insert, Goto
  <2>2. Apart(c)
    OBVIOUS
  <2>3. CASE Violates(c)
    <3>1. Unlock(c) /\ pc' = [pc EXCEPT ![c] = "recheck"]
      BY <1>5, <2>3 DEF Insert, Goto
    <3>2. Apart(c)'
      BY <2>1, <2>2, <3>1 DEF Apart, TypeOK, WellFormed
    <3>3. \A d \in Callers \ {c} : lock[Session(d)] = d => lock'[Session(d)] = d
      BY <3>1, UnlockOthers
    <3>4. \A d \in Callers \ {c} : Apart(d)'
      BY <2>1, <3>1, <3>3, OthersApart DEF TypeOK
    <3> QED
      BY <3>2, <3>4
  <2>4. CASE ~Violates(c)
    <3>1. UNCHANGED lock /\ pc' = [pc EXCEPT ![c] = "commit"]
      BY <1>5, <2>4 DEF Insert, Goto
    <3> SUFFICES ASSUME NEW d \in Callers PROVE Apart(d)'
      OBVIOUS
    <3>2. Violates(d)' <=> Violates(d)
      BY <2>1, ViolatesFrame
    <3>3. \A e \in Callers \ {c} : pc'[e] = pc[e]
      BY <3>1 DEF TypeOK
    <3>4. ~Waits(c)'
      BY <2>1, <3>3 DEF Waits, Batch, Events
    <3>5. ASSUME d # c, pc[d] = "commit" PROVE ~Waits(d)'
      <4>1. Batch(c) # Batch(d) /\ IdsOf(Events(c)) \cap IdsOf(Events(d)) = {}
        BY <2>1, <3>5 DEF Waits
      <4>2. ~Waits(d)
        BY <3>5 DEF Apart
      <4> QED
        BY <2>1, <3>3, <4>1, <4>2 DEF Waits, Batch, Events
    <3> QED
      BY <2>1, <2>2, <2>4, <3>1, <3>2, <3>3, <3>4, <3>5
      DEF Apart, WellFormed, Session, TypeOK
  <2> QED
    BY <2>3, <2>4
<1>6. ASSUME NEW c \in Callers, CommitTx(c) \/ LoseReceipt(c)
      PROVE  OpenTransactionsApart'
  <2>1. /\ pc[c] = "commit" /\ pc' = [pc EXCEPT ![c] = "idle"]
        /\ Apply(c) /\ UNCHANGED <<req, start>>
    BY <1>6 DEF CommitTx, LoseReceipt, Goto
  <2>2. Apart(c)'
    BY <2>1 DEF Apart, TypeOK
  <2>3. \A d \in Callers \ {c} : Apart(d)'
    BY <2>1, ApplyOthers
  <2> QED
    BY <2>2, <2>3
<1>7. ASSUME NEW c \in Callers, Fail(c) PROVE OpenTransactionsApart'
  <2>1. /\ pc' = [pc EXCEPT ![c] = "idle"] /\ Unlock(c)
        /\ UNCHANGED <<head, rows, batches, req, start>>
    BY <1>7 DEF Fail
  <2>2. Apart(c)'
    BY <2>1 DEF Apart, TypeOK
  <2>3. \A d \in Callers \ {c} : lock[Session(d)] = d => lock'[Session(d)] = d
    BY <2>1, UnlockOthers
  <2>4. \A d \in Callers \ {c} : Apart(d)'
    BY <2>1, <2>3, OthersApart DEF TypeOK
  <2> QED
    BY <2>2, <2>4
<1> QED
  BY <1>1, <1>2, <1>3, <1>4, <1>5, <1>6, <1>7 DEF Next, Step
-------------------------------------------------------------------------------
(***************************************************************************)
(* A commit keeps the tables right                                         *)
(***************************************************************************)

\* What the commit of an accepted transaction may rely on.
LEMMA Accepted ==
  ASSUME TypeOK, OpenTransactionsApart, NEW c \in Callers, pc[c] = "commit"
  PROVE  /\ start[c] = head[Session(c)]
         /\ \A i \in DOMAIN Events(c) : Events(c)[i].session = Session(c)
         /\ \A n \in NewRows(c) :
               /\ n.event.session = Session(c)
               /\ n.position \in (start[c] + 1)..(start[c] + Len(Events(c)))
               /\ \A r \in rows : r.event.id # n.event.id
         /\ \A n1, n2 \in NewRows(c) :
               n1.event.id = n2.event.id \/ n1.position = n2.position => n1 = n2
         /\ ~HasBatchRow(Batch(c))
<1>1. start[c] = head[Session(c)] /\ WellFormed(req[c]) /\ ~Violates(c)
  BY DEF OpenTransactionsApart, Apart
<1>2. \A i \in DOMAIN Events(c) : Events(c)[i].session = Session(c)
  BY <1>1 DEF WellFormed, Events, Session
<1>3. start[c] \in Nat
  BY DEF TypeOK
<1>4. ASSUME NEW n \in NewRows(c)
      PROVE  /\ n.event.session = Session(c)
             /\ n.position \in (start[c] + 1)..(start[c] + Len(Events(c)))
             /\ \A r \in rows : r.event.id # n.event.id
  <2>1. PICK i \in DOMAIN Events(c) :
          n = [event |-> Events(c)[i], position |-> start[c] + i]
    BY DEF NewRows
  <2>2. \A r \in rows : r.event.id # n.event.id
    BY <1>1 DEF Violates
  <2> QED
    BY <1>2, <1>3, <2>1, <2>2, RequestType
<1>5. ASSUME NEW n1 \in NewRows(c), NEW n2 \in NewRows(c),
             n1.event.id = n2.event.id \/ n1.position = n2.position
      PROVE  n1 = n2
  <2>1. PICK i \in DOMAIN Events(c) :
          n1 = [event |-> Events(c)[i], position |-> start[c] + i]
    BY DEF NewRows
  <2>2. PICK j \in DOMAIN Events(c) :
          n2 = [event |-> Events(c)[j], position |-> start[c] + j]
    BY DEF NewRows
  <2>3. i \in Nat /\ j \in Nat
    BY RequestType
  <2>4. i = j
    BY <1>1, <1>3, <1>5, <2>1, <2>2, <2>3 DEF Violates
  <2> QED
    BY <2>1, <2>2, <2>4
<1> QED
  BY <1>1, <1>2, <1>4, <1>5 DEF Violates

LEMMA CommitStoresOnce ==
  ASSUME TypeOK, OpenTransactionsApart, StoredOnce,
         NEW c \in Callers, pc[c] = "commit", Apply(c)
  PROVE  StoredOnce'
BY Accepted DEF StoredOnce, Apply

LEMMA CommitKeepsDense ==
  ASSUME TypeOK, OpenTransactionsApart, PositionsDense,
         NEW c \in Callers, pc[c] = "commit", Apply(c)
  PROVE  PositionsDense'
<1> DEFINE PositionsIn(rs, s) == {r.position : r \in {x \in rs : x.event.session = s}}
           OneEach(rs, s) == \A r1, r2 \in rs :
              /\ r1.event.session = s /\ r2.event.session = s
              /\ r1.position = r2.position
              => r1 = r2
           len == Len(Events(c))
<1>1. /\ Session(c) \in Sessions /\ len \in Nat /\ DOMAIN Events(c) = 1..len
      /\ head[Session(c)] \in Nat
  BY RequestType DEF TypeOK
<1>2. rows' = rows \cup NewRows(c)
  BY DEF Apply
<1> SUFFICES ASSUME NEW s \in Sessions
             PROVE  PositionsIn(rows', s) = 1..head'[s] /\ OneEach(rows', s)
  BY DEF PositionsDense
<1>3. PositionsIn(rows, s) = 1..head[s] /\ OneEach(rows, s)
  BY DEF PositionsDense
<1>4. CASE s # Session(c)
  <2>1. head'[s] = head[s]
    BY <1>4 DEF Apply, TypeOK
  <2>2. \A n \in NewRows(c) : n.event.session # s
    BY <1>4, Accepted
  <2>3. {x \in rows' : x.event.session = s} = {x \in rows : x.event.session = s}
    BY <1>2, <2>2
  <2> QED
    BY <1>3, <2>1, <2>3
<1>5. CASE s = Session(c)
  <2>1. head'[s] = head[s] + len /\ start[c] = head[s]
    BY <1>1, <1>5, Accepted DEF Apply, TypeOK
  <2>2. \A n \in NewRows(c) :
          n.event.session = s /\ n.position \in (head[s] + 1)..(head[s] + len)
    BY <1>5, <2>1, Accepted
  <2>3. \A r \in rows : r.event.session = s => r.position \in 1..head[s]
    BY <1>3
  <2>4. OneEach(rows', s)
    BY <1>1, <1>2, <1>3, <1>5, <2>2, <2>3, Accepted
  <2>5. PositionsIn(rows', s) \subseteq 1..(head[s] + len)
    BY <1>1, <1>2, <1>5, <2>2, <2>3
  <2>6. ASSUME NEW p \in 1..(head[s] + len) PROVE p \in PositionsIn(rows', s)
    <3>1. CASE p \in 1..head[s]
      BY <1>2, <1>3, <3>1
    <3>2. CASE p \notin 1..head[s]
      <4>1. p - head[s] \in DOMAIN Events(c) /\ head[s] + (p - head[s]) = p
        BY <1>1, <1>5, <3>2
      <4> DEFINE n == [event |-> Events(c)[p - head[s]], position |-> p]
      <4>2. n \in NewRows(c)
        BY <2>1, <4>1 DEF NewRows
      <4>3. n \in rows' /\ n.event.session = s /\ n.position = p
        BY <1>2, <2>2, <4>2
      <4> QED
        BY <4>3
    <3> QED
      BY <3>1, <3>2
  <2> QED
    BY <2>1, <2>4, <2>5, <2>6
<1> QED
  BY <1>4, <1>5

LEMMA CommitKeepsBatches ==
  ASSUME TypeOK, OpenTransactionsApart, TablesOK,
         NEW c \in Callers, pc[c] = "commit", Apply(c)
  PROVE  BatchesPartition' /\ BatchesBounded'
<1> DEFINE len == Len(Events(c))
           new == NewBatchRow(c)
<1>1. /\ Session(c) \in Sessions /\ len \in Nat /\ DOMAIN Events(c) = 1..len
      /\ start[c] \in Nat /\ start[c] = head[Session(c)]
      /\ new.first = start[c] + 1 /\ new.count = len /\ new.session = Session(c)
  BY RequestType, Accepted DEF TypeOK, NewBatchRow
<1>2. rows' = rows \cup NewRows(c) /\ batches' = batches \cup {new}
  BY DEF Apply
<1>3. head' = [head EXCEPT ![Session(c)] = start[c] + len]
  BY DEF Apply
<1>4. /\ \A b \in batches : /\ b.session \in Sessions
                            /\ b.first \in Nat /\ b.count \in Nat
                            /\ b.first >= 1 /\ b.first + b.count - 1 <= head[b.session]
      /\ \A r \in rows : r.event.session \in Sessions /\ r.position \in Nat
      /\ \A s \in Sessions : head[s] \in Nat
  BY DEF TypeOK, TablesOK, BatchesBounded, BatchRow, Row, Event
<1>5. \A r \in rows : r.position \in 1..head[r.event.session]
  BY <1>4 DEF TablesOK, PositionsDense
<1>6. BatchesBounded'
  <2>1. \A s \in Sessions : head[s] <= head'[s]
    BY <1>1, <1>3, <1>4 DEF TypeOK
  <2>2. \A b \in batches : b.first >= 1 /\ b.first + b.count - 1 <= head'[b.session]
    BY <1>1, <1>3, <1>4, <2>1 DEF TypeOK
  <2>3. new.first >= 1 /\ new.first + new.count - 1 <= head'[new.session]
    BY <1>1, <1>3 DEF TypeOK
  <2> QED
    BY <1>2, <2>2, <2>3 DEF BatchesBounded
<1>7. \A n \in NewRows(c) :
        /\ n.event.session = Session(c)
        /\ n.position \in (start[c] + 1)..(start[c] + len)
  BY Accepted
<1>8. \A r \in rows : ~Holds(new, r)
  BY <1>1, <1>4, <1>5 DEF Holds
<1>9. ASSUME NEW n \in NewRows(c)
      PROVE  Holds(new, n) /\ \A b \in batches : ~Holds(b, n)
  <2>1. Holds(new, n)
    BY <1>1, <1>7 DEF Holds
  <2>2. ASSUME NEW b \in batches, Holds(b, n) PROVE FALSE
    <3>1. b.session = Session(c) /\ n.position <= b.first + b.count - 1
      BY <1>4, <1>7, <2>2 DEF Holds
    <3>2. b.first \in Nat /\ b.count \in Nat /\ b.first + b.count - 1 <= start[c]
      BY <1>1, <1>4, <3>1
    <3>3. n.position \in Nat /\ start[c] + 1 <= n.position
      BY <1>1, <1>7
    <3> QED
      BY <1>1, <3>1, <3>2, <3>3
  <2> QED
    BY <2>1, <2>2
<1>10. ASSUME NEW r \in rows'
       PROVE  \E b \in batches' :
                Holds(b, r) /\ \A other \in batches' : Holds(other, r) => other = b
  <2>1. CASE r \in rows
    <3>1. PICK b \in batches :
            Holds(b, r) /\ \A other \in batches : Holds(other, r) => other = b
      BY <2>1 DEF TablesOK, BatchesPartition
    <3>2. ASSUME NEW other \in batches', Holds(other, r) PROVE other = b
      BY <1>2, <1>8, <2>1, <3>1, <3>2
    <3>3. b \in batches'
      BY <1>2
    <3> QED
      BY <3>1, <3>2, <3>3
  <2>2. CASE r \in NewRows(c)
    BY <1>2, <1>9, <2>2
  <2> QED
    BY <1>2, <2>1, <2>2
<1>11. ASSUME NEW b \in batches', NEW p \in b.first..(b.first + b.count - 1)
       PROVE  \E r \in rows' : r.event.session = b.session /\ r.position = p
  <2>1. CASE b \in batches
    BY <1>2, <2>1 DEF TablesOK, BatchesPartition
  <2>2. CASE b = new
    <3> DEFINE n == [event |-> Events(c)[p - start[c]], position |-> p]
    <3>1. p - start[c] \in DOMAIN Events(c) /\ start[c] + (p - start[c]) = p
      BY <1>1, <2>2
    <3>2. n \in NewRows(c)
      BY <3>1 DEF NewRows
    <3>3. n \in rows' /\ n.event.session = b.session /\ n.position = p
      BY <1>1, <1>2, <1>7, <2>2, <3>2
    <3> QED
      BY <3>3
  <2> QED
    BY <1>2, <2>1, <2>2
<1> QED
  BY <1>6, <1>10, <1>11 DEF BatchesPartition, Holds

LEMMA TablesStep ==
  ASSUME TypeOK, OpenTransactionsApart, TablesOK, [Next]_vars
  PROVE  TablesOK'
<1>1. CASE UNCHANGED <<head, rows, batches>>
  BY <1>1 DEF TablesOK, PositionsDense, StoredOnce, BatchesPartition,
              BatchesBounded, Holds
<1>2. ASSUME NEW c \in Callers, CommitTx(c) \/ LoseReceipt(c) PROVE TablesOK'
  <2>1. pc[c] = "commit" /\ Apply(c)
    BY <1>2 DEF CommitTx, LoseReceipt, Goto
  <2> QED
    BY <2>1, CommitKeepsDense, CommitStoresOnce, CommitKeepsBatches DEF TablesOK
<1> QED
  BY <1>1, <1>2 DEF Next, Step, Call, Lookup, Compare, Advance, Insert, Recheck,
                    Fail, vars
-------------------------------------------------------------------------------
(***************************************************************************)
(* Receipts                                                                *)
(***************************************************************************)

\* Where every event of a request is stored, the receipt names the rows.
LEMMA PositionsNamed ==
  ASSUME TypeOK, StoredOnce, NEW events, AllStored(events), NEW i \in DOMAIN events
  PROVE  [event |-> events[i], position |-> PositionsOf(events)[i]] \in rows
<1> DEFINE row == CHOOSE r \in rows : r.event.id = events[i].id
<1>1. PICK r \in rows : r.event = events[i]
  BY DEF AllStored
<1>2. row \in rows /\ row.event.id = events[i].id
  BY <1>1
<1>3. row = r
  BY <1>1, <1>2 DEF StoredOnce
<1>4. PositionsOf(events)[i] = r.position
  BY <1>3 DEF PositionsOf
<1>5. r = [event |-> r.event, position |-> r.position]
  BY DEF TypeOK, Row
<1> QED
  BY <1>1, <1>4, <1>5

LEMMA ReceiptsStep ==
  ASSUME TypeOK, OpenTransactionsApart, TablesOK, ReceiptsTrue, [Next]_vars
  PROVE  ReceiptsTrue'
<1> DEFINE True(a, rs) == \A i \in DOMAIN a.req.events :
              [event |-> a.req.events[i], position |-> a.positions[i]] \in rs
<1>1. ASSUME rows \subseteq rows',
             \A a \in answers' \ answers : a.kind = "receipt" => True(a, rows')
      PROVE  ReceiptsTrue'
  BY <1>1 DEF ReceiptsTrue
<1>2. CASE UNCHANGED rows /\ \A a \in answers' \ answers : a.kind # "receipt"
  BY <1>1, <1>2
<1>3. ASSUME NEW c \in Callers, Compare(c) PROVE ReceiptsTrue'
  <2>1. UNCHANGED rows
    BY <1>3 DEF Compare
  <2>2. ASSUME NEW a \in answers' \ answers, a.kind = "receipt" PROVE True(a, rows')
    <3>1. AllStored(Events(c)) /\ a.req = req[c] /\ a.positions = PositionsOf(Events(c))
      BY <1>3, <2>2 DEF Compare, Answer
    <3>2. StoredOnce
      BY DEF TablesOK
    <3> QED
      BY <2>1, <3>1, <3>2, PositionsNamed DEF Events
  <2> QED
    BY <1>1, <2>1, <2>2
<1>4. ASSUME NEW c \in Callers, CommitTx(c) \/ LoseReceipt(c) PROVE ReceiptsTrue'
  <2>1. rows' = rows \cup NewRows(c)
    BY <1>4 DEF CommitTx, LoseReceipt, Apply
  <2>2. ASSUME NEW a \in answers' \ answers, a.kind = "receipt" PROVE True(a, rows')
    <3>1. /\ a.req = req[c]
          /\ a.positions = [i \in DOMAIN Events(c) |-> start[c] + i]
      BY <1>4, <2>2 DEF CommitTx, LoseReceipt, Answer
    <3> QED
      BY <2>1, <3>1 DEF NewRows, Events
  <2> QED
    BY <1>1, <2>1, <2>2
<1>5. CASE UNCHANGED vars
  BY <1>2, <1>5 DEF vars
<1>6. ASSUME NEW c \in Callers,
             Call(c) \/ Lookup(c) \/ Advance(c) \/ Insert(c) \/ Recheck(c) \/ Fail(c)
      PROVE  UNCHANGED rows /\ \A a \in answers' \ answers : a.kind # "receipt"
  BY <1>6 DEF Call, Lookup, Advance, Insert, Recheck, Fail, Answer
<1> QED
  BY <1>2, <1>3, <1>4, <1>5, <1>6 DEF Next, Step
-------------------------------------------------------------------------------
(***************************************************************************)
(* What a committed batch holds                                            *)
(***************************************************************************)
\* The batch row br is that of the request r, and r's events have its interval.
Filled(br, r) ==
  /\ br.batch = r.batch /\ br.session = r.session /\ br.count = Len(r.events)
  /\ WellFormed(r)
  /\ \A i \in DOMAIN r.events :
        [event |-> r.events[i], position |-> br.first + i - 1] \in rows

\* The ledger: one row per batch id, each filled by a request.
LedgerOK ==
  /\ \A b1, b2 \in batches : b1.batch = b2.batch => b1 = b2
  /\ \A br \in batches : \E r \in Requests : Filled(br, r)

\* A request can never be stored as a new batch: it repeats an id, its own or a stored one.
Taken(events) ==
  \/ \E i, j \in DOMAIN events : i # j /\ events[i].id = events[j].id
  \/ \E i \in DOMAIN events, x \in rows : x.event.id = events[i].id

\* A batch that is compared is in the ledger; one that lost a race is there too, or cannot
\* be stored.
LookedUp ==
  \A c \in Callers :
    /\ pc[c] = "compare" => HasBatchRow(Batch(c))
    /\ pc[c] = "recheck" => HasBatchRow(Batch(c)) \/ Taken(Events(c))

\* What a request is made of.
LEMMA RequestFacts ==
  ASSUME NEW r \in Requests
  PROVE  /\ r.batch \in BatchIds /\ r.session \in Sessions /\ r.events \in Seq(Event)
         /\ DOMAIN r.events = 1..Len(r.events) /\ Len(r.events) \in Nat
         /\ \A i \in DOMAIN r.events : r.events[i] \in Event
         /\ WellFormed(r) => 1 \in DOMAIN r.events
<1>1. r \in Request
  BY SqlAssumption
<1>2. r.batch \in BatchIds /\ r.session \in Sessions /\ r.events \in Seq(Event)
  BY <1>1 DEF Request
<1> QED
  BY <1>2 DEF WellFormed

\* What a row is made of, and that it is alone at its place.
LEMMA RowFacts ==
  ASSUME TypeOK, TablesOK, NEW x \in rows
  PROVE  /\ x.event \in Event /\ x.event.session \in Sessions /\ x.position \in Nat
         /\ x.event.id \in EventIds
         /\ x.position \in 1..head[x.event.session]
         /\ x = [event |-> x.event, position |-> x.position]
         /\ \A y \in rows : y.event.session = x.event.session /\ y.position = x.position => y = x
<1>1. x \in Row
  BY DEF TypeOK
<1>2. x.event \in Event /\ x.event.session \in Sessions /\ x.position \in Nat
      /\ x.event.id \in EventIds /\ x = [event |-> x.event, position |-> x.position]
  BY <1>1 DEF Row, Event
<1>3. x.position \in 1..head[x.event.session]
  BY <1>2 DEF TablesOK, PositionsDense
<1> QED
  BY <1>2, <1>3 DEF TablesOK, PositionsDense

\* The ledger's row of a batch is read back as the request that filled it.
LEMMA ContentIs ==
  ASSUME TypeOK, TablesOK, LedgerOK, NEW br \in batches, NEW r \in Requests, Filled(br, r)
  PROVE  HasBatchRow(r.batch) /\ BatchContent(r.batch) = r.events
<1>1. HasBatchRow(r.batch)
  BY DEF HasBatchRow, Filled
<1> DEFINE c == CHOOSE x \in batches : x.batch = r.batch
<1>2. c = br
  BY DEF LedgerOK, Filled
<1>3. BatchContent(r.batch) =
        [i \in 1..c.count |-> (CHOOSE x \in rows : /\ x.event.session = c.session
                                                   /\ x.position = c.first + i - 1).event]
  BY DEF BatchContent
<1> HIDE DEF c
<1>4. ASSUME NEW i \in 1..c.count
      PROVE  (CHOOSE x \in rows : /\ x.event.session = c.session
                                  /\ x.position = c.first + i - 1).event = r.events[i]
  <2> DEFINE w == [event |-> r.events[i], position |-> c.first + i - 1]
  <2>1. i \in DOMAIN r.events
    BY <1>2, RequestFacts DEF Filled
  <2>2. w \in rows /\ w.event = r.events[i] /\ w.position = c.first + i - 1
        /\ w.event.session = c.session
    BY <1>2, <2>1 DEF Filled, WellFormed
  <2> HIDE DEF w
  <2>3. \A x \in rows : x.event.session = c.session /\ x.position = c.first + i - 1 => x = w
    BY <2>2, RowFacts
  <2> QED
    BY <2>2, <2>3
<1>5. r.events = [i \in 1..c.count |-> r.events[i]]
  BY <1>2, RequestFacts DEF Filled
<1>6. BatchContent(r.batch) = [i \in 1..c.count |-> r.events[i]]
  BY <1>3, <1>4
<1> QED
  BY <1>1, <1>5, <1>6

\* Every row belongs to the request of its batch.
LEMMA RowsCovered ==
  ASSUME TypeOK, TablesOK, LedgerOK, NEW x \in rows
  PROVE  \E br \in batches, r \in Requests :
           Filled(br, r) /\ \E i \in DOMAIN r.events : r.events[i] = x.event
<1>1. PICK br \in batches : Holds(br, x)
  BY DEF TablesOK, BatchesPartition
<1>2. PICK r \in Requests : Filled(br, r)
  BY DEF LedgerOK
<1>3. br.first \in Nat /\ br.count \in Nat
  BY DEF TypeOK, BatchRow
<1> DEFINE i == x.position - br.first + 1
<1>4. i \in DOMAIN r.events /\ br.first + i - 1 = x.position
  BY <1>1, <1>2, <1>3, RowFacts, RequestFacts DEF Holds, Filled
<1> HIDE DEF i
<1> DEFINE w == [event |-> r.events[i], position |-> br.first + i - 1]
<1>5. w \in rows /\ w.event = r.events[i] /\ w.position = x.position
      /\ w.event.session = x.event.session
  BY <1>1, <1>2, <1>4 DEF Filled, WellFormed, Holds
<1> HIDE DEF w
<1>6. w = x
  BY <1>5, RowFacts
<1> QED
  BY <1>2, <1>4, <1>5, <1>6

\* A committed batch is stored, event by event, and repeats no id.
LEMMA FilledIsStored ==
  ASSUME TypeOK, TablesOK, NEW br \in batches, NEW r \in Requests, Filled(br, r)
  PROVE  AllStored(r.events)
<1>1. br.first \in Nat
  BY DEF TypeOK, BatchRow
<1>2. \A i \in DOMAIN r.events :
        \E x \in rows : x.event = r.events[i] /\ x.position = br.first + i - 1
  <2> SUFFICES ASSUME NEW i \in DOMAIN r.events
               PROVE  \E x \in rows : x.event = r.events[i] /\ x.position = br.first + i - 1
    OBVIOUS
  <2> DEFINE w == [event |-> r.events[i], position |-> br.first + i - 1]
  <2>1. w \in rows /\ w.event = r.events[i] /\ w.position = br.first + i - 1
    BY DEF Filled
  <2> QED
    BY <2>1
<1>3. ASSUME NEW i \in DOMAIN r.events, NEW j \in DOMAIN r.events,
             r.events[i].id = r.events[j].id
      PROVE  i = j
  <2>1. br.first + i - 1 = br.first + j - 1
    BY <1>2, <1>3 DEF TablesOK, StoredOnce
  <2> QED
    BY <1>1, <2>1, RequestFacts
<1> QED
  BY <1>2, <1>3 DEF AllStored

\* What a commit adds to the ledger is filled by its request.
LEMMA CommitFills ==
  ASSUME TypeOK, OpenTransactionsApart, NEW c \in Callers, pc[c] = "commit", Apply(c)
  PROVE  /\ ~HasBatchRow(Batch(c))
         /\ \E br \in batches', r \in Requests :
              /\ r = req[c] /\ Filled(br, r)'
              /\ batches' = batches \cup {br} /\ rows \subseteq rows'
<1>1. PICK br \in batches' : br = NewBatchRow(c)
  BY DEF Apply
<1>2. PICK r \in Requests : r = req[c]
  BY DEF TypeOK
<1>3. /\ br.batch = r.batch /\ br.session = r.session /\ br.first = start[c] + 1
      /\ br.count = Len(r.events)
  BY <1>1, <1>2 DEF NewBatchRow, Batch, Session, Events
<1>4. /\ rows' = rows \cup NewRows(c) /\ batches' = batches \cup {br}
      /\ start[c] \in Nat
  BY <1>1 DEF Apply, TypeOK
<1>5. WellFormed(r) /\ ~HasBatchRow(Batch(c))
  BY <1>2, Accepted DEF OpenTransactionsApart, Apart
<1>6. \A i \in DOMAIN r.events : br.first + i - 1 = start[c] + i
  BY <1>3, <1>4, RequestFacts
<1>7. \A i \in DOMAIN r.events : [event |-> r.events[i], position |-> br.first + i - 1] \in rows'
  BY <1>2, <1>4, <1>6 DEF NewRows, Events
<1>8. Filled(br, r)'
  BY <1>3, <1>5, <1>7 DEF Filled
<1> QED
  BY <1>2, <1>4, <1>5, <1>8

\* The ledger of a state whose tables did not change, and of one that a commit changed.
LEMMA LedgerStep ==
  ASSUME TypeOK, OpenTransactionsApart, LedgerOK, [Next]_vars
  PROVE  LedgerOK'
<1>1. CASE UNCHANGED <<rows, batches>>
  BY <1>1 DEF LedgerOK, Filled
<1>2. ASSUME NEW c \in Callers, CommitTx(c) \/ LoseReceipt(c) PROVE LedgerOK'
  <2>1. pc[c] = "commit" /\ Apply(c)
    BY <1>2 DEF CommitTx, LoseReceipt, Goto
  <2>2. PICK new \in batches', r \in Requests :
          /\ r = req[c] /\ Filled(new, r)' /\ batches' = batches \cup {new} /\ rows \subseteq rows'
    BY <2>1, CommitFills
  <2>3. \A b \in batches : b.batch # new.batch
    BY <2>1, <2>2, CommitFills DEF HasBatchRow, Filled, Batch
  <2>4. \A b1, b2 \in batches' : b1.batch = b2.batch => b1 = b2
    BY <2>2, <2>3 DEF LedgerOK
  <2>5. \A b \in batches, q \in Requests : Filled(b, q) => Filled(b, q)'
    BY <2>2 DEF Filled
  <2> QED
    BY <2>2, <2>4, <2>5 DEF LedgerOK
<1> QED
  BY <1>1, <1>2 DEF Next, Step, Call, Lookup, Compare, Advance, Insert, Recheck, Fail, vars

\* The tables only grow, and so do what is looked up and what is taken.
LEMMA TablesGrow ==
  ASSUME [Next]_vars
  PROVE  /\ rows \subseteq rows' /\ batches \subseteq batches'
         /\ \A b : HasBatchRow(b) => HasBatchRow(b)'
         /\ \A events : Taken(events) => Taken(events)'
         /\ \A b \in batches, r \in Requests : Filled(b, r) => Filled(b, r)'
<1>1. rows \subseteq rows' /\ batches \subseteq batches'
  BY DEF Next, Step, Call, Lookup, Compare, Advance, Insert, CommitTx, LoseReceipt, Apply,
         Recheck, Fail, vars
<1> QED
  BY <1>1 DEF HasBatchRow, Taken, Filled

\* A transaction that the indexes refused has its batch stored, or repeats an id.
LEMMA LookedUpStep ==
  ASSUME TypeOK, OpenTransactionsApart, TablesOK, LookedUp, [Next]_vars
  PROVE  LookedUp'
<1>1. CASE UNCHANGED vars
  BY <1>1 DEF LookedUp, HasBatchRow, Taken, Batch, Events, vars
<1>2. ASSUME NEW c \in Callers, Call(c) \/ Step(c) \/ LoseReceipt(c) \/ Fail(c),
             NEW d \in Callers,
             pc'[d] = "compare" => HasBatchRow(Batch(d)) /\ req'[d] = req[d],
             pc'[d] = "recheck" => req'[d] = req[d] /\ (HasBatchRow(Batch(d)) \/ Taken(Events(d)))
      PROVE  /\ pc'[d] = "compare" => HasBatchRow(Batch(d))'
             /\ pc'[d] = "recheck" => HasBatchRow(Batch(d))' \/ Taken(Events(d))'
  <2>1. rows \subseteq rows' /\ batches \subseteq batches'
    BY TablesGrow
  <2> QED
    BY <1>2, <2>1 DEF HasBatchRow, Taken, Batch, Events
<1>3. ASSUME NEW c \in Callers, Call(c) \/ Step(c) \/ LoseReceipt(c) \/ Fail(c),
             NEW d \in Callers
      PROVE  /\ pc'[d] = "compare" => HasBatchRow(Batch(d)) /\ req'[d] = req[d]
             /\ pc'[d] = "recheck" =>
                  req'[d] = req[d] /\ (HasBatchRow(Batch(d)) \/ Taken(Events(d)))
  <2>1. CASE d # c
    <3>1. pc'[d] = pc[d] /\ req'[d] = req[d]
      BY <1>3, <2>1 DEF TypeOK, Call, Step, Lookup, Compare, Advance, Insert, CommitTx,
                        LoseReceipt, Recheck, Fail, Goto
    <3> QED
      BY <3>1 DEF LookedUp
  <2>2. CASE d = c /\ Insert(c)
    <3>1. pc'[c] = "recheck" => Violates(c)
      BY <2>2 DEF Insert, Goto, TypeOK
    <3>2. pc'[c] \in {"commit", "recheck"} /\ req' = req
      BY <2>2 DEF Insert, Goto, TypeOK
    \* The interval is free, so only a key of an event or of the batch is in the way.
    <3>3. Violates(c) => HasBatchRow(Batch(c)) \/ Taken(Events(c))
      <4>1. pc[c] = "insert" /\ start[c] = head[Session(c)] /\ WellFormed(req[c])
        BY <2>2 DEF Insert, Goto, OpenTransactionsApart, Apart
      <4>2. ASSUME NEW x \in rows, NEW n \in NewRows(c),
                   x.event.session = n.event.session, x.position = n.position
            PROVE  FALSE
        <5>1. PICK i \in DOMAIN Events(c) :
                n = [event |-> Events(c)[i], position |-> start[c] + i]
          BY DEF NewRows
        <5>2. /\ n.event.session = Session(c) /\ n.position = start[c] + i /\ i \in Nat /\ i >= 1
              /\ start[c] \in Nat
          BY <4>1, <5>1, RequestType DEF WellFormed, Session, Events, TypeOK
        <5>3. x.position \in 1..head[Session(c)]
          BY <4>2, <5>2, RowFacts
        <5> QED
          BY <4>1, <4>2, <5>2, <5>3
      <4>3. ASSUME NEW x \in rows, NEW n \in NewRows(c), x.event.id = n.event.id
            PROVE  Taken(Events(c))
        BY <4>3 DEF NewRows, Taken
      <4> QED
        BY <4>2, <4>3 DEF Violates, Taken
    <3> QED
      BY <2>2, <3>1, <3>2, <3>3
  <2>3. CASE d = c /\ (Lookup(c) \/ Recheck(c))
    BY <2>3 DEF Lookup, Recheck, Goto, TypeOK, LookedUp
  <2>4. CASE /\ d = c
             /\ \/ Call(c) \/ Compare(c) \/ Advance(c) \/ CommitTx(c) \/ LoseReceipt(c)
                \/ Fail(c)
    <3>1. pc'[c] \notin {"compare", "recheck"}
      BY <2>4 DEF Call, Compare, Advance, CommitTx, LoseReceipt, Fail, Goto, TypeOK
    <3> QED
      BY <2>4, <3>1
  <2> QED
    BY <1>3, <2>1, <2>2, <2>3, <2>4 DEF Step
<1> QED
  BY <1>1, <1>2, <1>3 DEF Next, LookedUp

-------------------------------------------------------------------------------
(***************************************************************************)
(* What a caller is told                                                   *)
(***************************************************************************)
\* Each of two different calls under one batch id has an event of its own, which is in no
\* other call: a shrunk batch, or one pieced together from the events of other batches, is
\* not asked for.  (The ids of the bus's batches are functions of their first event, so
\* there are no two such calls at all; append_batch itself does not require it.)
BatchesTellApart ==
  \A r1, r2 \in Requests :
    /\ WellFormed(r1) /\ WellFormed(r2) /\ r1.batch = r2.batch /\ r1.events # r2.events =>
         \E i \in DOMAIN r1.events : \A r3 \in Requests :
            (\E j \in DOMAIN r3.events : r3.events[j] = r1.events[i]) =>
               r3.batch = r1.batch /\ r3.events = r1.events

\* Why a request is in conflict: its batch has other events, or it can never be stored.
InConflict(r) ==
  /\ WellFormed(r)
  /\ \/ \E br \in batches, q \in Requests :
          br.batch = r.batch /\ Filled(br, q) /\ q.events # r.events
     \/ Taken(r.events) /\ ~HasBatchRow(r.batch)

AnswersFounded ==
  \A a \in answers :
    /\ a.kind = "receipt" => \E br \in batches : Filled(br, a.req)
    /\ a.kind = "conflict" => InConflict(a.req)

\* A transaction whose inserts were accepted repeats no id.
LEMMA AcceptedIsNew ==
  ASSUME OpenTransactionsApart, NEW c \in Callers, pc[c] = "commit"
  PROVE  ~Taken(Events(c))
<1>1. ~Violates(c)
  BY DEF OpenTransactionsApart, Apart
<1>2. \A i \in DOMAIN Events(c) :
        [event |-> Events(c)[i], position |-> start[c] + i] \in NewRows(c)
  BY DEF NewRows
<1>3. \A i \in DOMAIN Events(c), x \in rows : x.event.id # Events(c)[i].id
  BY <1>1, <1>2 DEF Violates
<1> QED
  BY <1>1, <1>3 DEF Violates, Taken

\* Once a request is in conflict, it stays so.
LEMMA ConflictStays ==
  ASSUME TypeOK, OpenTransactionsApart, TablesOK, LedgerOK, NEW r \in Requests, InConflict(r),
         [Next]_vars
  PROVE  InConflict(r)'
<1>1. ASSUME NEW br \in batches, NEW q \in Requests,
             br.batch = r.batch, Filled(br, q), q.events # r.events
      PROVE  InConflict(r)'
  <2>1. br \in batches' /\ Filled(br, q)'
    BY <1>1, TablesGrow
  <2> QED
    BY <1>1, <2>1 DEF InConflict, WellFormed
<1>2. CASE Taken(r.events) /\ ~HasBatchRow(r.batch)
  <2>1. CASE ~HasBatchRow(r.batch)'
    BY <1>2, <2>1, TablesGrow DEF InConflict, WellFormed
  <2>2. CASE HasBatchRow(r.batch)'
    <3>1. batches' # batches
      BY <1>2, <2>2 DEF HasBatchRow
    <3>2. PICK c \in Callers : CommitTx(c) \/ LoseReceipt(c)
      BY <3>1 DEF Next, Step, Call, Lookup, Compare, Advance, Insert, Recheck, Fail, vars
    <3>3. pc[c] = "commit" /\ Apply(c)
      BY <3>2 DEF CommitTx, LoseReceipt, Goto
    <3>4. PICK new \in batches', q \in Requests :
            q = req[c] /\ Filled(new, q)' /\ batches' = batches \cup {new}
      BY <3>3, CommitFills
    <3>5. new.batch = r.batch
      BY <1>2, <2>2, <3>4 DEF HasBatchRow
    <3>6. q.events # r.events
      <4>1. ~Taken(Events(c))
        BY <3>3, AcceptedIsNew
      <4> QED
        BY <1>2, <3>4, <4>1 DEF Events
    <3> QED
      BY <3>4, <3>5, <3>6 DEF InConflict, WellFormed
  <2> QED
    BY <2>1, <2>2
<1> QED
  BY <1>1, <1>2 DEF InConflict

\* A comparison that finds every event stored has found the batch itself.
LEMMA ComparedIsFilled ==
  ASSUME BatchesTellApart, TypeOK, TablesOK, LedgerOK, NEW r \in Requests, WellFormed(r),
         HasBatchRow(r.batch), AllStored(r.events)
  PROVE  \E br \in batches : Filled(br, r)
<1>1. PICK br \in batches : br.batch = r.batch
  BY DEF HasBatchRow
<1>2. PICK q \in Requests : Filled(br, q)
  BY DEF LedgerOK
<1>3. CASE q.events = r.events
  <2>1. q.session = r.session
    BY <1>2, <1>3, RequestFacts DEF WellFormed, Filled
  <2> QED
    BY <1>1, <1>2, <1>3, <2>1 DEF Filled, WellFormed
<1>4. CASE q.events # r.events
  <2>1. PICK i \in DOMAIN r.events : \A r3 \in Requests :
            (\E j \in DOMAIN r3.events : r3.events[j] = r.events[i]) =>
               r3.batch = r.batch /\ r3.events = r.events
    BY <1>1, <1>2, <1>4 DEF BatchesTellApart, Filled
  <2>2. PICK x \in rows : x.event = r.events[i]
    BY DEF AllStored
  <2>3. PICK b3 \in batches, r3 \in Requests :
          Filled(b3, r3) /\ \E j \in DOMAIN r3.events : r3.events[j] = x.event
    BY RowsCovered
  <2>4. r3.batch = r.batch /\ r3.events = r.events
    BY <2>1, <2>2, <2>3
  <2>5. b3 = br
    BY <1>1, <2>3, <2>4 DEF Filled, LedgerOK
  <2>6. q.events = r3.events
    BY <1>1, <1>2, <2>3, <2>4, <2>5, ContentIs DEF Filled
  <2> QED
    BY <1>4, <2>4, <2>6
<1> QED
  BY <1>3, <1>4

\* One that does not has found other events under the batch id.
LEMMA ComparedDiffers ==
  ASSUME TypeOK, TablesOK, LedgerOK, NEW r \in Requests, WellFormed(r),
         HasBatchRow(r.batch), ~AllStored(r.events)
  PROVE  InConflict(r)
<1>1. PICK br \in batches : br.batch = r.batch
  BY DEF HasBatchRow
<1>2. PICK q \in Requests : Filled(br, q)
  BY DEF LedgerOK
<1>3. q.events # r.events
  BY <1>2, FilledIsStored
<1> QED
  BY <1>1, <1>2, <1>3 DEF InConflict

\* Each answer given has its reason, and keeps it.
LEMMA AnswersStep ==
  ASSUME BatchesTellApart, TypeOK, OpenTransactionsApart, TablesOK, LedgerOK, LookedUp,
         AnswersFounded, [Next]_vars
  PROVE  AnswersFounded'
<1>1. ASSUME NEW a \in answers
      PROVE  /\ a.kind = "receipt" => (\E br \in batches : Filled(br, a.req))'
             /\ a.kind = "conflict" => InConflict(a.req)'
  <2>1. a.req \in Requests
    BY DEF TypeOK
  <2>2. a.kind = "receipt" => \E br \in batches' : Filled(br, a.req)'
    BY <2>1, TablesGrow DEF AnswersFounded
  <2>3. a.kind = "conflict" => InConflict(a.req)'
    BY <2>1, ConflictStays DEF AnswersFounded
  <2> QED
    BY <2>2, <2>3
<1>2. ASSUME NEW c \in Callers, NEW a \in answers' \ answers,
             Call(c) \/ Step(c) \/ LoseReceipt(c) \/ Fail(c)
      PROVE  /\ a.kind = "receipt" => (\E br \in batches : Filled(br, a.req))'
             /\ a.kind = "conflict" => InConflict(a.req)'
  <2>1. PICK r \in Requests : r = req[c]
    BY DEF TypeOK
  <2>2. pc[c] # "idle" => WellFormed(r)
    BY <2>1 DEF OpenTransactionsApart, Apart
  <2>3. CASE Compare(c)
    <3>1. HasBatchRow(r.batch) /\ WellFormed(r)
      BY <2>1, <2>2, <2>3 DEF Compare, Goto, LookedUp, Batch
    <3>2. a.req = r /\ UNCHANGED <<rows, batches>>
      BY <2>1, <2>3 DEF Compare, Answer
    <3>3. \/ AllStored(r.events) /\ a.kind = "receipt"
          \/ ~AllStored(r.events) /\ a.kind = "conflict"
      BY <2>1, <2>3 DEF Compare, Answer, Events
    <3>4. AllStored(r.events) => \E br \in batches : Filled(br, r)
      BY <3>1, ComparedIsFilled
    <3>5. AllStored(r.events) => \E br \in batches' : Filled(br, r)'
      BY <3>2, <3>4, TablesGrow
    <3>6. ~AllStored(r.events) => InConflict(r)'
      BY <3>1, ComparedDiffers, ConflictStays
    <3> QED
      BY <3>2, <3>3, <3>5, <3>6
  <2>4. CASE CommitTx(c)
    <3>1. pc[c] = "commit" /\ Apply(c) /\ a.req = r /\ a.kind = "receipt"
      BY <2>1, <2>4 DEF CommitTx, Goto, Answer
    <3> QED
      BY <2>1, <3>1, CommitFills
  <2>5. CASE Recheck(c)
    <3>1. pc[c] = "recheck" /\ ~HasBatchRow(r.batch) /\ a.req = r /\ a.kind = "conflict"
      BY <2>1, <2>5 DEF Recheck, Goto, Answer, Batch
    <3>2. InConflict(r)
      BY <2>1, <2>2, <3>1 DEF InConflict, LookedUp, Batch, Events
    <3> QED
      BY <3>1, <3>2, ConflictStays
  <2>6. CASE Call(c) \/ Lookup(c) \/ Advance(c) \/ Insert(c) \/ LoseReceipt(c) \/ Fail(c)
    BY <2>6 DEF Call, Lookup, Advance, Insert, LoseReceipt, Fail, Answer
  <2> QED
    BY <1>2, <2>3, <2>4, <2>5, <2>6 DEF Step
<1>3. ASSUME NEW a \in answers'
      PROVE  /\ a.kind = "receipt" => (\E br \in batches : Filled(br, a.req))'
             /\ a.kind = "conflict" => InConflict(a.req)'
  <2>1. CASE a \in answers
    BY <1>1, <2>1
  <2>2. CASE a \notin answers /\ Next
    BY <1>2, <2>2 DEF Next
  <2>3. UNCHANGED vars => a \in answers
    BY DEF vars
  <2> QED
    BY <2>1, <2>2, <2>3
<1> QED
  BY <1>3 DEF AnswersFounded

-------------------------------------------------------------------------------
(***************************************************************************)
(* The tables, read as the log                                             *)
(***************************************************************************)
\* The log of a session is the sequence of its rows' events.
LEMMA LogFacts ==
  ASSUME TypeOK, TablesOK, NEW s \in Sessions
  PROVE  /\ LogOf(s) \in Seq(Event) /\ Len(LogOf(s)) = head[s] /\ DOMAIN LogOf(s) = 1..head[s]
         /\ \A p \in 1..head[s] :
              \E x \in rows : x.event.session = s /\ x.position = p /\ LogOf(s)[p] = x.event
         /\ \A x \in rows : x.event.session = s => LogOf(s)[x.position] = x.event
<1>1. head[s] \in Nat
  BY DEF TypeOK
<1>2. ASSUME NEW p \in 1..head[s]
      PROVE  \E x \in rows : x.event.session = s /\ x.position = p
  BY DEF TablesOK, PositionsDense
<1>3. ASSUME NEW x \in rows, x.event.session = s
      PROVE  x.position \in 1..head[s] /\ LogOf(s)[x.position] = x.event
  <2> DEFINE y == CHOOSE r \in rows : r.event.session = s /\ r.position = x.position
  <2>1. y \in rows /\ y.event.session = s /\ y.position = x.position
    BY <1>3
  <2>2. x.position \in 1..head[s] /\ LogOf(s)[x.position] = y.event
    BY <1>3, RowFacts DEF LogOf
  <2> HIDE DEF y
  <2>3. y = x
    BY <1>3, <2>1, RowFacts
  <2> QED
    BY <2>2, <2>3
<1>4. ASSUME NEW p \in 1..head[s]
      PROVE  \E x \in rows : x.event.session = s /\ x.position = p /\ LogOf(s)[p] = x.event
  BY <1>2, <1>3
<1>5. \A p \in 1..head[s] : LogOf(s)[p] \in Event
  BY <1>4, RowFacts
<1>6. LogOf(s) = [p \in 1..head[s] |-> LogOf(s)[p]]
  BY DEF LogOf
<1>7. LogOf(s) \in Seq(Event)
  <2>1. \A p \in 1..head[s] :
          (CHOOSE r \in rows : r.event.session = s /\ r.position = p).event \in Event
    BY <1>5 DEF LogOf
  <2>2. LogOf(s) \in [1..head[s] -> Event]
    BY <2>1 DEF LogOf
  <2> QED
    BY <1>1, <2>2
<1>8. DOMAIN LogOf(s) = 1..head[s]
  BY <1>6
<1> QED
  BY <1>1, <1>3, <1>4, <1>7, <1>8

\* The ids of the log are those of the rows.
LEMMA StoredIdsAre ==
  ASSUME TypeOK, TablesOK
  PROVE  Log!StoredIds = {x.event.id : x \in rows}
<1>1. ASSUME NEW x \in rows PROVE x.event.id \in Log!StoredIds
  <2>1. PICK s \in Sessions : s = x.event.session
    BY RowFacts
  <2>2. x.position \in DOMAIN LogOf(s) /\ LogOf(s)[x.position] = x.event
    BY <2>1, LogFacts, RowFacts
  <2> QED
    BY <2>2 DEF Log!StoredIds, Log!Ids
<1>2. ASSUME NEW k \in Log!StoredIds PROVE \E x \in rows : x.event.id = k
  <2>1. PICK s \in Sessions : k \in {LogOf(s)[p].id : p \in DOMAIN LogOf(s)}
    BY DEF Log!StoredIds, Log!Ids
  <2>2. PICK p \in DOMAIN LogOf(s) : LogOf(s)[p].id = k
    BY <2>1
  <2> QED
    BY <2>2, LogFacts
<1> QED
  BY <1>1, <1>2

\* What the ledger of the log holds of a batch.
LEMMA ReplayIs ==
  ASSUME TypeOK, TablesOK, LedgerOK, NEW br \in batches, NEW q \in Requests, Filled(br, q),
         NEW b \in BatchIds, NEW events, br.batch = b
  PROVE  (Log!IsReplay(b, events) <=> q.events = events) /\ ~Log!IsFresh(b, events)
<1>1. HasBatchRow(b) /\ BatchContent(b) = q.events
  BY ContentIs DEF Filled
<1>2. q.events # <<>>
  BY DEF Filled, WellFormed
<1> QED
  BY <1>1, <1>2 DEF Log!IsReplay, Log!IsFresh

\* A request that is in conflict in the tables is in conflict with the log.
LEMMA ConflictIs ==
  ASSUME TypeOK, TablesOK, LedgerOK, NEW r \in Requests, InConflict(r)
  PROVE  Log!IsConflict(r.batch, r.events)
<1>1. r.batch \in BatchIds /\ r.events # <<>>
  BY RequestFacts DEF InConflict, WellFormed
<1>2. ASSUME NEW br \in batches, NEW q \in Requests, br.batch = r.batch, Filled(br, q),
             q.events # r.events
      PROVE  Log!IsConflict(r.batch, r.events)
  BY <1>1, <1>2, ReplayIs DEF Log!IsConflict
<1>3. CASE Taken(r.events) /\ ~HasBatchRow(r.batch)
  <2>1. ~Log!IsReplay(r.batch, r.events)
    BY <1>1, <1>3 DEF Log!IsReplay
  <2>2. ~Log!IsFresh(r.batch, r.events)
    <3>1. CASE \E i, j \in DOMAIN r.events : i # j /\ r.events[i].id = r.events[j].id
      BY <3>1 DEF Log!IsFresh, Log!DistinctIds
    <3>2. CASE \E i \in DOMAIN r.events, x \in rows : x.event.id = r.events[i].id
      BY <3>2, StoredIdsAre DEF Log!IsFresh, Log!Ids
    <3> QED
      BY <1>3, <3>1, <3>2 DEF Taken
  <2> QED
    BY <2>1, <2>2 DEF Log!IsConflict
<1> QED
  BY <1>2, <1>3 DEF InConflict
-------------------------------------------------------------------------------
(***************************************************************************)
(* A commit of the tables is a commit of the log                           *)
(***************************************************************************)
\* ContentIs and LogFacts as formulas, which hold of the next state as of this one.
ContentSound ==
  TypeOK /\ TablesOK /\ LedgerOK =>
    \A br \in batches, r \in Requests : Filled(br, r) =>
       HasBatchRow(r.batch) /\ BatchContent(r.batch) = r.events

LogSound ==
  TypeOK /\ TablesOK => \A s \in Sessions :
    /\ LogOf(s) \in Seq(Event) /\ Len(LogOf(s)) = head[s] /\ DOMAIN LogOf(s) = 1..head[s]
    /\ \A x \in rows : x.event.session = s => LogOf(s)[x.position] = x.event

\* Both hold in the next state.
LEMMA SoundNext == (ContentSound /\ LogSound)'
<1>1. ContentSound /\ LogSound
  BY ContentIs, LogFacts DEF ContentSound, LogSound
<1> QED
  BY <1>1, PTL

\* What the log had committed stays as it was.
LEMMA LedgerKept ==
  ASSUME TypeOK, TablesOK, LedgerOK, (TypeOK /\ TablesOK /\ LedgerOK)', [Next]_vars,
         NEW b \in BatchIds, HasBatchRow(b)
  PROVE  HasBatchRow(b)' /\ BatchContent(b)' = BatchContent(b)
<1>1. PICK br \in batches : br.batch = b
  BY DEF HasBatchRow
<1>2. PICK q \in Requests : Filled(br, q)
  BY DEF LedgerOK
<1>3. br \in batches' /\ Filled(br, q)'
  BY <1>2, TablesGrow
<1>4. q.batch = b
  BY <1>1, <1>2 DEF Filled
<1>5. BatchContent(b) = q.events
  BY <1>2, <1>4, ContentIs
<1>6. (HasBatchRow(q.batch) /\ BatchContent(q.batch) = q.events)'
  BY <1>3, SoundNext DEF ContentSound
<1> QED
  BY <1>4, <1>5, <1>6

\* A transaction that commits commits a fresh, well-formed batch.
LEMMA CommitIsFresh ==
  ASSUME TypeOK, TablesOK, NEW r \in Requests, WellFormed(r), ~HasBatchRow(r.batch),
         ~Taken(r.events)
  PROVE  Log!WellFormed(r.session, r.events) /\ Log!IsFresh(r.batch, r.events)
<1>1. r.batch \in BatchIds
  BY RequestFacts
<1>2. Log!DistinctIds(r.events)
  BY DEF Taken, Log!DistinctIds
<1>3. Log!Ids(r.events) \cap Log!StoredIds = {}
  BY StoredIdsAre DEF Taken, Log!Ids
<1> QED
  BY <1>1, <1>2, <1>3 DEF WellFormed, Log!WellFormed, Log!IsFresh

\* The transaction appends its events to the log of its session and to no other.
LEMMA CommitAppends ==
  ASSUME TypeOK, TablesOK, OpenTransactionsApart, (TypeOK /\ TablesOK)',
         NEW c \in Callers, pc[c] = "commit", Apply(c), NEW s \in Sessions
  PROVE  LogOf(s)' = IF s = Session(c) THEN LogOf(s) \o Events(c) ELSE LogOf(s)
<1>1. PICK r \in Requests : r = req[c]
  BY DEF TypeOK
<1>2. PICK old \in Seq(Event) : old = LogOf(s)
  BY LogFacts
<1>3. PICK new \in Seq(Event) : new = LogOf(s)'
  BY SoundNext DEF LogSound
<1>4. /\ start[c] = head[r.session] /\ WellFormed(r) /\ r.session \in Sessions
      /\ r.events \in Seq(Event) /\ DOMAIN r.events = 1..Len(r.events)
      /\ Len(r.events) \in Nat /\ head[s] \in Nat
  BY <1>1, RequestFacts DEF OpenTransactionsApart, Apart, Session, TypeOK
<1>5. head' = [head EXCEPT ![r.session] = head[r.session] + Len(r.events)]
  BY <1>1, <1>4 DEF Apply, Session, Events
<1>6. /\ Len(old) = head[s] /\ DOMAIN old = 1..head[s]
      /\ \A p \in 1..head[s] :
           \E x \in rows : x.event.session = s /\ x.position = p /\ old[p] = x.event
  BY <1>2, LogFacts
<1>7. /\ Len(new) = head'[s] /\ DOMAIN new = 1..head'[s]
      /\ \A x \in rows' : x.event.session = s => new[x.position] = x.event
  BY <1>3, SoundNext DEF LogSound
<1>8. rows \subseteq rows' /\ NewRows(c) \subseteq rows'
  BY DEF Apply
<1>9. \A p \in 1..head[s] : new[p] = old[p]
  BY <1>6, <1>7, <1>8
<1>10. CASE s # r.session
  <2>1. head'[s] = head[s]
    BY <1>4, <1>5, <1>10 DEF TypeOK
  <2>2. new = old
    BY <1>6, <1>7, <1>9, <2>1
  <2> QED
    BY <1>1, <1>2, <1>3, <1>10, <2>2 DEF Session
<1>11. CASE s = r.session
  <2>1. head'[s] = head[s] + Len(r.events)
    BY <1>4, <1>5, <1>11 DEF TypeOK
  <2>2. ASSUME NEW i \in 1..Len(r.events) PROVE new[head[s] + i] = r.events[i]
    <3>1. [event |-> r.events[i], position |-> head[s] + i] \in rows'
      BY <1>1, <1>4, <1>8, <1>11 DEF NewRows, Events
    <3>2. r.events[i].session = s
      BY <1>4, <1>11 DEF WellFormed
    <3> DEFINE w == [event |-> r.events[i], position |-> head[s] + i]
    <3>3. w \in rows' /\ w.event = r.events[i] /\ w.position = head[s] + i
      BY <3>1
    <3> HIDE DEF w
    <3> QED
      BY <1>7, <3>2, <3>3
  <2>3. Len(new) = Len(old) + Len(r.events)
    BY <1>6, <1>7, <2>1
  <2>4. \A i \in 1..Len(old) : new[i] = old[i]
    BY <1>6, <1>9
  <2>5. \A i \in 1..Len(r.events) : new[Len(old) + i] = r.events[i]
    BY <1>6, <2>2
  <2>6. new = old \o r.events
    BY <1>4, <2>3, <2>4, <2>5
  <2> QED
    BY <1>1, <1>2, <1>3, <1>11, <2>6 DEF Session, Events
<1> QED
  BY <1>10, <1>11

\* And it enters its batch in the ledger of the log, and no other.
LEMMA CommitEnters ==
  ASSUME TypeOK, TablesOK, LedgerOK, OpenTransactionsApart, (TypeOK /\ TablesOK /\ LedgerOK)',
         NEW c \in Callers, pc[c] = "commit", Apply(c), [Next]_vars, NEW b \in BatchIds
  PROVE  (IF HasBatchRow(b) THEN BatchContent(b) ELSE <<>>)' =
         IF b = Batch(c) THEN Events(c) ELSE IF HasBatchRow(b) THEN BatchContent(b) ELSE <<>>
<1>1. PICK new \in batches', r \in Requests :
        r = req[c] /\ Filled(new, r)' /\ batches' = batches \cup {new}
  BY CommitFills
<1>2. ~HasBatchRow(r.batch)
  BY <1>1, CommitFills DEF Batch
<1>3. CASE b = r.batch
  <2>1. (HasBatchRow(r.batch) /\ BatchContent(r.batch) = r.events)'
    BY <1>1, SoundNext DEF ContentSound
  <2> QED
    BY <1>1, <1>3, <2>1 DEF Batch, Events
<1>4. CASE b # r.batch /\ HasBatchRow(b)
  BY <1>1, <1>4, LedgerKept DEF Batch
<1>5. CASE b # r.batch /\ ~HasBatchRow(b)
  <2>1. ~HasBatchRow(b)'
    BY <1>1, <1>5 DEF HasBatchRow, Filled
  <2> QED
    BY <1>1, <1>5, <2>1 DEF Batch
<1> QED
  BY <1>3, <1>4, <1>5

\* A step of the store is a commit of its caller's batch to the log, or none at all.
LEMMA RefinementStep ==
  ASSUME TypeOK, TablesOK, LedgerOK, OpenTransactionsApart, (TypeOK /\ TablesOK /\ LedgerOK)',
         [Next]_vars
  PROVE  [\E c \in Callers : Log!Commit(Session(c), Batch(c), Events(c))]_(Log!logVars)
<1>1. CASE UNCHANGED <<head, rows, batches>>
  <2>1. \A s \in Sessions : LogOf(s)' = LogOf(s)
    BY <1>1 DEF LogOf
  <2>2. \A b \in BatchIds : HasBatchRow(b)' = HasBatchRow(b) /\ BatchContent(b)' = BatchContent(b)
    BY <1>1 DEF HasBatchRow, BatchContent
  <2> QED
    BY <2>1, <2>2 DEF Log!logVars
<1>2. ASSUME NEW c \in Callers, CommitTx(c) \/ LoseReceipt(c)
      PROVE  Log!Commit(Session(c), Batch(c), Events(c))
  <2>1. pc[c] = "commit" /\ Apply(c)
    BY <1>2 DEF CommitTx, LoseReceipt, Goto
  <2>2. PICK r \in Requests : r = req[c]
    BY DEF TypeOK
  <2>3. WellFormed(r) /\ ~HasBatchRow(r.batch)
    BY <2>1, <2>2, CommitFills DEF OpenTransactionsApart, Apart, Batch
  <2>4. ~Taken(r.events)
    BY <2>1, <2>2, AcceptedIsNew DEF Events
  <2>5. Log!WellFormed(Session(c), Events(c)) /\ Log!IsFresh(Batch(c), Events(c))
    BY <2>2, <2>3, <2>4, CommitIsFresh DEF Session, Events, Batch
  <2>6. [s \in Sessions |-> LogOf(s)]' =
          [[s \in Sessions |-> LogOf(s)] EXCEPT ![Session(c)] = @ \o Events(c)]
    BY <2>1, CommitAppends
  <2>7. [b \in BatchIds |-> IF HasBatchRow(b) THEN BatchContent(b) ELSE <<>>]' =
          [[b \in BatchIds |-> IF HasBatchRow(b) THEN BatchContent(b) ELSE <<>>]
             EXCEPT ![Batch(c)] = Events(c)]
    BY <2>1, CommitEnters
  <2> QED
    BY <2>5, <2>6, <2>7 DEF Log!Commit
<1> QED
  BY <1>1, <1>2 DEF Next, Step, Call, Lookup, Compare, Advance, Insert, Recheck, Fail, vars
-------------------------------------------------------------------------------
(***************************************************************************)
(* The theorems                                                            *)
(***************************************************************************)

\* The inductive invariant holds of every instance.
THEOREM InductiveInvariant == Spec => []Inductive
<1>1. Init => Inductive
  <2> SUFFICES ASSUME Init PROVE Inductive
    OBVIOUS
  <2>1. TypeOK
    BY SqlAssumption DEF Init, TypeOK, PC
  <2>2. OpenTransactionsApart
    BY DEF Init, OpenTransactionsApart, Apart
  <2>3. TablesOK
    BY DEF Init, TablesOK, PositionsDense, StoredOnce, BatchesPartition, BatchesBounded
  <2>4. ReceiptsTrue
    BY DEF Init, ReceiptsTrue
  <2> QED
    BY <2>1, <2>2, <2>3, <2>4 DEF Inductive
<1>2. Inductive /\ [Next]_vars => Inductive'
  BY TypeStep, ApartStep, TablesStep, ReceiptsStep DEF Inductive
<1> QED
  BY <1>1, <1>2, PTL DEF Spec

\* Two transactions never hold the same key or the same interval
\* (append_batch's row lock and its flush before the commit).
THEOREM TransactionsStayApart == Spec => []OpenTransactionsApart
BY InductiveInvariant, PTL DEF Inductive

\* A session's positions are 1..next_position without a gap or a duplicate.
THEOREM PositionsStayDense == Spec => []PositionsDense
BY InductiveInvariant, PTL DEF Inductive, TablesOK

\* No event id is stored twice, however often a call is retried.
THEOREM EventsAreStoredOnce == Spec => []StoredOnce
BY InductiveInvariant, PTL DEF Inductive, TablesOK

\* A batch is stored whole or not at all.
THEOREM BatchesStayWhole == Spec => []BatchesPartition
BY InductiveInvariant, PTL DEF Inductive, TablesOK

\* The tables read as one log per session: dense, without a duplicate, made of
\* whole batches (append_batch).
THEOREM LogStaysWellFormed == Spec => []LogWellFormed
BY InductiveInvariant, PTL DEF Inductive, TablesOK, LogWellFormed

\* A receipt, of a commit or of a replay, names the positions of its events.
THEOREM ReceiptsStayTrue == Spec => []ReceiptsTrue
BY InductiveInvariant, PTL DEF Inductive
-------------------------------------------------------------------------------
(***************************************************************************)
(* The log and the answers                                                 *)
(***************************************************************************)
\* The ledger's rows are those of requests, in every instance.
THEOREM LedgerStaysFilled == Spec => [](Inductive /\ LedgerOK)
<1>1. Init => LedgerOK
  BY DEF Init, LedgerOK
<1>2. Inductive /\ LedgerOK /\ [Next]_vars => LedgerOK'
  BY LedgerStep DEF Inductive
<1> QED
  BY <1>1, <1>2, InductiveInvariant, PTL DEF Spec

\* Read by position, the tables implement the log that EventStore promises: every step of
\* the transactions, their races, failures and retries is the commit of one fresh,
\* well-formed batch to the log of one session, or changes nothing (append_batch).
THEOREM RefinesEventLog == Spec => ImplementsEventLog
<1>1. Init => Log!LogInit
  BY DEF Init, Log!LogInit, LogOf, HasBatchRow
<1>2. /\ Inductive /\ LedgerOK /\ (Inductive /\ LedgerOK)' /\ [Next]_vars
      => [\E c \in Callers : Log!Commit(Session(c), Batch(c), Events(c))]_(Log!logVars)
  BY RefinementStep DEF Inductive
<1> QED
  BY <1>1, <1>2, LedgerStaysFilled, PTL DEF Spec, ImplementsEventLog

\* What the answers are founded on is inductive.
THEOREM AnswersInvariant ==
  ASSUME BatchesTellApart
  PROVE  Spec => [](Inductive /\ LedgerOK /\ LookedUp /\ AnswersFounded)
<1>1. Init => LookedUp /\ AnswersFounded
  BY DEF Init, LookedUp, AnswersFounded
<1>2. /\ Inductive /\ LedgerOK /\ LookedUp /\ AnswersFounded /\ [Next]_vars
      => LookedUp' /\ AnswersFounded'
  BY BatchesTellApart, LookedUpStep, AnswersStep DEF Inductive
<1> QED
  BY <1>1, <1>2, LedgerStaysFilled, PTL DEF Spec

\* What a caller is told is so: a receipt is for good and for the whole batch, and a conflict
\* has its reason, also for the caller that lost a race against its own retry
\* (append_batch, _receipt_for_committed).
THEOREM AnswersStayTrue ==
  ASSUME BatchesTellApart
  PROVE  Spec => []AnswersTrue
<1>1. ASSUME TypeOK, TablesOK, LedgerOK, ReceiptsTrue, AnswersFounded
      PROVE  AnswersTrue
  <2>1. ASSUME NEW a \in answers, a.kind = "receipt"
        PROVE  Log!IsReplay(a.req.batch, a.req.events)
    <3>1. PICK r \in Requests : r = a.req
      BY <1>1 DEF TypeOK
    <3>2. PICK br \in batches : Filled(br, r)
      BY <1>1, <2>1, <3>1 DEF AnswersFounded
    <3>3. r.batch \in BatchIds /\ br.batch = r.batch
      BY <3>2, RequestFacts DEF Filled
    <3> QED
      BY <1>1, <3>1, <3>2, <3>3, ReplayIs
  <2>2. ASSUME NEW a \in answers, a.kind = "conflict"
        PROVE  Log!IsConflict(a.req.batch, a.req.events)
    BY <1>1, <2>2, ConflictIs DEF AnswersFounded, TypeOK
  <2> QED
    BY <1>1, <2>1, <2>2 DEF AnswersTrue, ReceiptsWhole, ConflictsReal
<1>2. Inductive /\ LedgerOK /\ AnswersFounded => AnswersTrue
  BY <1>1 DEF Inductive
<1> QED
  BY <1>2, AnswersInvariant, BatchesTellApart, PTL

-------------------------------------------------------------------------------
(***************************************************************************)
(* The bounded queue of one stream() observer (ObserverQueue), for every   *)
(* size of the queue and any number of events.  A notice stands for losses *)
(* only, and for all there are when it is put, so the last one in the      *)
(* queue covers what its predecessors covered.                             *)
(***************************************************************************)

\* What the queue may hold: events that are committed, notices of losses.
Sound(e, n, losses) ==
  /\ e.kind = "event" => e.position \in 1..n
  /\ e.covers \subseteq losses

QueueSound == \A i \in DOMAIN queue : Sound(queue[i], committed, lost)

QueueInductive == QueueTypeOK /\ QueueSound /\ LossIsAnnounced

\* The two sequence operations of a queue, index by index.
LEMMA AppendEntry ==
  ASSUME NEW s \in Seq(Entry), NEW e \in Entry
  PROVE  /\ Append(s, e) \in Seq(Entry)
         /\ Len(Append(s, e)) = Len(s) + 1
         /\ DOMAIN s = 1..Len(s) /\ DOMAIN Append(s, e) = 1..Len(s) + 1
         /\ \A i \in 1..Len(s) : Append(s, e)[i] = s[i]
         /\ Append(s, e)[Len(s) + 1] = e
  OBVIOUS

LEMMA TailEntry ==
  ASSUME NEW s \in Seq(Entry), s # <<>>
  PROVE  /\ Tail(s) \in Seq(Entry)
         /\ Len(s) \in Nat /\ Len(s) >= 1
         /\ Len(Tail(s)) = Len(s) - 1
         /\ DOMAIN s = 1..Len(s) /\ DOMAIN Tail(s) = 1..Len(s) - 1
         /\ \A i \in 1..Len(s) - 1 : Tail(s)[i] = s[i + 1]
         /\ Head(s) \in Entry /\ Head(s) = s[1]
  OBVIOUS

LEMMA QueueInitInductive == QueueInit => QueueInductive
  BY QueueAssumption DEF QueueInit, QueueInductive, QueueTypeOK, QueueSound, LossIsAnnounced

\* What put_nowait on a full queue loses is committed.
LEMMA LostIsCommitted ==
  ASSUME NEW e \in Entry, NEW n \in Nat, NEW losses, Sound(e, n, losses)
  PROVE  LostOf(e) \subseteq 1..n
  BY DEF LostOf, Sound

\* A queue with room takes an entry that stands for no loss.
LEMMA PutWithRoomKeeps ==
  ASSUME QueueInductive, NEW e \in Entry, e.covers = {},
         e.kind = "event" => e.position \in 1..committed,
         PutWithRoom(e), committed' = committed, told' = told
  PROVE  /\ queue' \in Seq(Entry) /\ Len(queue') <= QueueSize
         /\ lost' \subseteq 1..committed' /\ silent' \subseteq lost' /\ told' \subseteq lost'
         /\ QueueSound' /\ LossIsAnnounced'
<1> USE QueueAssumption DEF QueueInductive, QueueTypeOK, PutWithRoom
<1>1. queue' \in Seq(Entry) /\ Len(queue') <= QueueSize
  BY AppendEntry
<1>2. lost' \subseteq 1..committed' /\ silent' \subseteq lost' /\ told' \subseteq lost'
  OBVIOUS
<1>3. QueueSound'
  BY AppendEntry DEF QueueSound, Sound
<1>4. LossIsAnnounced'
  <2>1. queue' = Append(queue, e) /\ lost' = lost /\ silent' = silent /\ LossIsAnnounced
    OBVIOUS
  <2>2. \A i \in DOMAIN queue : i \in DOMAIN queue' /\ queue'[i] = queue[i]
    BY <2>1, AppendEntry
  <2>3. \A p : Covered(p) => Covered(p)'
    BY <2>2 DEF Covered
  <2> QED BY <2>1, <2>3 DEF LossIsAnnounced
<1> QED BY <1>1, <1>2, <1>3, <1>4

LEMMA PutDroppingOldestKeeps ==
  ASSUME QueueInductive, NEW e \in Entry, e.covers = {},
         e.kind = "event" => e.position \in 1..committed,
         PutDroppingOldest(e), committed' = committed, told' = told
  PROVE  /\ queue' \in Seq(Entry) /\ Len(queue') <= QueueSize
         /\ lost' \subseteq 1..committed' /\ silent' \subseteq lost' /\ told' \subseteq lost'
         /\ QueueSound' /\ LossIsAnnounced'
<1> USE QueueAssumption DEF QueueInductive, QueueTypeOK, PutDroppingOldest
<1>1. queue # <<>> /\ Head(queue) = queue[1] /\ 1 \in DOMAIN queue
  OBVIOUS
<1>2. /\ Head(queue) \in Entry /\ Sound(Head(queue), committed, lost)
      /\ LostOf(Head(queue)) \subseteq 1..committed
  BY <1>1, TailEntry, LostIsCommitted DEF QueueSound
<1>3. /\ queue' \in Seq(Entry) /\ Len(queue') = Len(queue)
      /\ DOMAIN queue = 1..Len(queue) /\ DOMAIN queue' = 1..Len(queue)
      /\ Len(queue) \in Nat
      /\ \A i \in 1..Len(queue) - 1 : queue'[i] = queue[i + 1]
      /\ queue'[Len(queue)] = e
  BY <1>1, TailEntry, AppendEntry
<1>4. lost' \subseteq 1..committed' /\ silent' \subseteq lost' /\ told' \subseteq lost'
  BY <1>2 DEF Sound
<1>5. QueueSound'
  <2> SUFFICES ASSUME NEW i \in 1..Len(queue) PROVE Sound(queue'[i], committed, lost')
    BY <1>3 DEF QueueSound
  <2>1. CASE i = Len(queue)
    BY <2>1, <1>3 DEF Sound
  <2>2. CASE i # Len(queue)
    <3>1. i \in 1..Len(queue) - 1 /\ i + 1 \in DOMAIN queue /\ queue'[i] = queue[i + 1]
      BY <2>2, <1>3
    <3> QED BY <3>1 DEF QueueSound, Sound
  <2> QED BY <2>1, <2>2
<1>6. LossIsAnnounced'
  <2> SUFFICES ASSUME NEW p \in lost' \ silent', p \notin told
               PROVE  \E i \in DOMAIN queue' : p \in queue'[i].covers
    BY DEF LossIsAnnounced, Covered
  <2>1. p \in lost \ silent /\ p \notin Head(queue).covers
    OBVIOUS
  <2>2. PICK i \in DOMAIN queue : p \in queue[i].covers
    BY <2>1 DEF LossIsAnnounced, Covered
  <2>3. i # 1 /\ i - 1 \in 1..Len(queue) - 1 /\ queue'[i - 1] = queue[i]
    BY <1>1, <1>3, <2>1, <2>2
  <2> QED BY <1>3, <2>2, <2>3
<1> QED BY <1>3, <1>4, <1>5, <1>6

\* Whatever it displaces, the new notice covers all the losses there are.
LEMMA PutAnnouncingLossKeeps ==
  ASSUME QueueInductive, NEW e \in Entry, e.covers = {},
         e.kind = "event" => e.position \in 1..committed,
         e.position \in 0..MaxPosition,
         PutAnnouncingLoss(e), committed' = committed, told' = told
  PROVE  /\ queue' \in Seq(Entry) /\ Len(queue') <= QueueSize
         /\ lost' \subseteq 1..committed' /\ silent' \subseteq lost' /\ told' \subseteq lost'
         /\ QueueSound' /\ LossIsAnnounced'
<1> USE QueueAssumption DEF QueueInductive, QueueTypeOK
<1> DEFINE full == Append(Tail(queue), e)
           gone == LostOf(Head(queue)) \cup LostOf(Head(full))
           notice == Notice(e.position, lost \cup gone)
<1>0. /\ Len(queue) = QueueSize /\ queue' = Append(Tail(full), notice)
      /\ lost' = lost \cup gone /\ silent' = silent
  BY DEF PutAnnouncingLoss
<1>1. queue # <<>> /\ 1 \in DOMAIN queue
  BY <1>0
<1>2. /\ full \in Seq(Entry) /\ Len(full) = Len(queue) /\ full # <<>>
      /\ DOMAIN queue = 1..Len(queue) /\ DOMAIN full = 1..Len(queue)
      /\ \A i \in 1..Len(queue) - 1 : full[i] = queue[i + 1]
      /\ full[Len(queue)] = e
      /\ Len(queue) \in Nat /\ Len(queue) >= 1
  <2>1. /\ Tail(queue) \in Seq(Entry) /\ Len(Tail(queue)) = Len(queue) - 1
        /\ DOMAIN queue = 1..Len(queue)
        /\ \A i \in 1..Len(queue) - 1 : Tail(queue)[i] = queue[i + 1]
        /\ Len(queue) \in Nat /\ Len(queue) >= 1
    BY <1>1, TailEntry
  <2>2. /\ full \in Seq(Entry) /\ Len(full) = Len(Tail(queue)) + 1
        /\ DOMAIN full = 1..Len(Tail(queue)) + 1
        /\ \A i \in 1..Len(Tail(queue)) : full[i] = Tail(queue)[i]
        /\ full[Len(Tail(queue)) + 1] = e
    BY <2>1, AppendEntry
  <2> QED BY <2>1, <2>2
<1>3. \A i \in DOMAIN full : Sound(full[i], committed, lost)
  <2> SUFFICES ASSUME NEW i \in 1..Len(queue) PROVE Sound(full[i], committed, lost)
    BY <1>2
  <2>1. CASE i = Len(queue)
    BY <2>1, <1>2 DEF Sound
  <2>2. CASE i # Len(queue)
    <3> HIDE DEF full
    <3>1. i \in 1..Len(queue) - 1 /\ i + 1 \in DOMAIN queue
      <4> DEFINE n == Len(queue)
      <4>1. n \in Nat /\ i \in 1..n /\ i # n /\ DOMAIN queue = 1..n
        BY <2>2, <1>2
      <4> HIDE DEF n
      <4>2. i \in 1..n - 1 /\ i + 1 \in 1..n
        BY <4>1
      <4> QED BY <4>1, <4>2 DEF n
    <3>2. full[i] = queue[i + 1]
      <4>1. \A k \in 1..Len(queue) - 1 : full[k] = queue[k + 1]
        BY <1>2
      <4> QED BY <3>1, <4>1, Zenon
    <3> QED BY <3>1, <3>2 DEF QueueSound
  <2> QED BY <2>1, <2>2
<1>4. /\ Head(queue) \in Entry /\ Sound(Head(queue), committed, lost)
      /\ Head(full) \in Entry /\ Sound(Head(full), committed, lost)
  <2> HIDE DEF full
  <2>1. Head(queue) \in Entry /\ Head(queue) = queue[1] /\ Sound(queue[1], committed, lost)
    BY <1>1, TailEntry DEF QueueSound
  <2>2. Head(full) \in Entry /\ Head(full) = full[1]
    BY <1>2, TailEntry
  <2>3. 1 \in DOMAIN full
    BY <1>2
  <2> QED BY <2>1, <2>2, <2>3, <1>3
<1>5. gone \subseteq 1..committed
  <2>1. committed \in Nat
    OBVIOUS
  <2>2. LostOf(Head(queue)) \subseteq 1..committed /\ LostOf(Head(full)) \subseteq 1..committed
    BY <2>1, <1>4, LostIsCommitted
  <2> QED BY <2>2
<1> HIDE DEF full, gone
<1>6. lost \cup gone \subseteq Positions
  <2>1. 1..committed \subseteq 1..MaxPosition
    OBVIOUS
  <2> QED BY <2>1, <1>5 DEF Positions
<1>7. notice \in Entry /\ notice.covers = lost \cup gone /\ notice.kind = "notice"
  BY <1>6 DEF Notice, Entry
<1> HIDE DEF notice
<1>8. /\ queue' \in Seq(Entry) /\ Len(queue') = Len(queue)
      /\ DOMAIN queue' = 1..Len(queue)
      /\ \A i \in 1..Len(queue) - 1 : queue'[i] = full[i + 1]
      /\ queue'[Len(queue)] = notice
  <2>1. /\ Tail(full) \in Seq(Entry) /\ Len(Tail(full)) = Len(queue) - 1
        /\ \A i \in 1..Len(queue) - 1 : Tail(full)[i] = full[i + 1]
    BY <1>2, TailEntry
  <2>2. /\ queue' \in Seq(Entry) /\ Len(queue') = Len(Tail(full)) + 1
        /\ DOMAIN queue' = 1..Len(Tail(full)) + 1
        /\ \A i \in 1..Len(Tail(full)) : queue'[i] = Tail(full)[i]
        /\ queue'[Len(Tail(full)) + 1] = notice
    BY <2>1, <1>0, <1>7, AppendEntry
  <2>3. Len(queue) \in Nat
    BY <1>2
  <2> QED BY <2>1, <2>2, <2>3
<1>9. lost' \subseteq 1..committed' /\ silent' \subseteq lost' /\ told' \subseteq lost'
  BY <1>0, <1>5
<1>10. QueueSound'
  <2> SUFFICES ASSUME NEW i \in 1..Len(queue) PROVE Sound(queue'[i], committed, lost')
    BY <1>8 DEF QueueSound
  <2>1. CASE i = Len(queue)
    BY <2>1, <1>0, <1>7, <1>8 DEF Sound
  <2>2. CASE i # Len(queue)
    <3>0. Len(queue) \in Nat
      BY <1>2
    <3>1. i \in 1..Len(queue) - 1
      BY <2>2, <3>0
    <3>2. i + 1 \in DOMAIN full /\ queue'[i] = full[i + 1]
      BY <3>1, <1>2, <1>8
    <3> QED BY <3>2, <1>0, <1>3 DEF Sound
  <2> QED BY <2>1, <2>2
<1>11. LossIsAnnounced'
  <2>1. Len(queue) \in DOMAIN queue' /\ queue'[Len(queue)].covers = lost'
    BY <1>0, <1>2, <1>7, <1>8
  <2> QED BY <2>1 DEF LossIsAnnounced, Covered
<1> QED BY <1>0, <1>8, <1>9, <1>10, <1>11
-------------------------------------------------------------------------------
LEMMA QueueStepInductive == QueueInductive /\ [QueueNext]_queueVars => QueueInductive'
<1> SUFFICES ASSUME QueueInductive, [QueueNext]_queueVars PROVE QueueInductive'
  OBVIOUS
<1>0. MaxPosition \in Nat /\ QueueSize \in Nat \ {0} /\ MaxTransient \in Nat /\ committed \in Nat
  BY QueueAssumption DEF QueueInductive, QueueTypeOK
<1>1. CASE CommitEvent
  <2> USE DEF CommitEvent
  <2>1. QueueTypeOK'
    BY <1>0, <1>1 DEF QueueInductive, QueueTypeOK
  <2>2. QueueSound'
    BY <1>0, <1>1 DEF QueueInductive, QueueSound, Sound
  <2>3. LossIsAnnounced'
    BY <1>1 DEF QueueInductive, LossIsAnnounced, Covered
  <2> QED BY <2>1, <2>2, <2>3 DEF QueueInductive
<1>2. ASSUME NEW p \in Positions, Deliver(p) PROVE QueueInductive'
  <2> DEFINE e == Durable(p)
  <2>1. e \in Entry /\ e.covers = {} /\ e.position \in 1..committed /\ e.position \in 0..MaxPosition
    BY <1>0, <1>2 DEF Durable, Entry, Positions, Deliver, QueueInductive, QueueTypeOK
  <2>2. /\ PutWithRoom(e) \/ PutAnnouncingLoss(e)
        /\ committed' = committed /\ told' = told
    BY <1>2 DEF Deliver
  <2> HIDE DEF e
  <2>3. /\ queue' \in Seq(Entry) /\ Len(queue') <= QueueSize
        /\ lost' \subseteq 1..committed' /\ silent' \subseteq lost' /\ told' \subseteq lost'
        /\ QueueSound' /\ LossIsAnnounced'
    BY <2>1, <2>2, PutWithRoomKeeps, PutAnnouncingLossKeeps
  <2>4. QueueTypeOK'
    BY <1>0, <1>2, <2>3 DEF QueueInductive, QueueTypeOK, Deliver
  <2> QED BY <2>3, <2>4 DEF QueueInductive
<1>3. CASE DeliverTransient
  <2> DEFINE e == Transient
  <2>1. e \in Entry /\ e.covers = {} /\ (e.kind = "event" => e.position \in 1..committed)
    BY <1>0 DEF Transient, Entry
  <2>2. /\ PutWithRoom(e) \/ PutDroppingOldest(e)
        /\ committed' = committed /\ told' = told
    BY <1>3 DEF DeliverTransient
  <2> HIDE DEF e
  <2>3. /\ queue' \in Seq(Entry) /\ Len(queue') <= QueueSize
        /\ lost' \subseteq 1..committed' /\ silent' \subseteq lost' /\ told' \subseteq lost'
        /\ QueueSound' /\ LossIsAnnounced'
    BY <2>1, <2>2, PutWithRoomKeeps, PutDroppingOldestKeeps
  <2>4. QueueTypeOK'
    BY <1>0, <1>3, <2>3 DEF QueueInductive, QueueTypeOK, DeliverTransient
  <2> QED BY <2>3, <2>4 DEF QueueInductive
<1>4. CASE Take
  <2> USE DEF Take
  <2>1. /\ queue' \in Seq(Entry) /\ Len(queue') = Len(queue) - 1
        /\ DOMAIN queue = 1..Len(queue) /\ DOMAIN queue' = 1..Len(queue) - 1
        /\ \A i \in 1..Len(queue) - 1 : queue'[i] = queue[i + 1]
        /\ Len(queue) \in Nat /\ Len(queue) >= 1
        /\ Head(queue) = queue[1] /\ Head(queue) \in Entry
    BY <1>4, TailEntry DEF QueueInductive, QueueTypeOK
  <2>2. 1 \in DOMAIN queue /\ Head(queue).covers \subseteq lost
    BY <2>1 DEF QueueInductive, QueueSound, Sound
  <2>3. QueueTypeOK'
    <3>1. Len(queue') <= QueueSize
      BY <1>0, <2>1 DEF QueueInductive, QueueTypeOK
    <3>2. told' \subseteq lost'
      BY <1>4, <2>2 DEF QueueInductive, QueueTypeOK
    <3> QED BY <1>4, <2>1, <3>1, <3>2 DEF QueueInductive, QueueTypeOK
  <2>4. QueueSound'
    BY <1>4, <2>1 DEF QueueInductive, QueueSound, Sound
  <2>5. LossIsAnnounced'
    <3> SUFFICES ASSUME NEW p \in lost \ silent, p \notin told'
                 PROVE  \E i \in DOMAIN queue' : p \in queue'[i].covers
      BY <1>4 DEF LossIsAnnounced, Covered
    <3>1. p \notin told /\ p \notin Head(queue).covers
      BY <1>4
    <3>2. PICK i \in DOMAIN queue : p \in queue[i].covers
      BY <3>1 DEF QueueInductive, LossIsAnnounced, Covered
    <3>3. i # 1 /\ i - 1 \in DOMAIN queue' /\ queue'[i - 1] = queue[i]
      BY <2>1, <3>1, <3>2
    <3> QED BY <3>2, <3>3
  <2> QED BY <2>3, <2>4, <2>5 DEF QueueInductive
<1>5. CASE UNCHANGED queueVars
  BY <1>5 DEF queueVars, QueueInductive, QueueTypeOK, QueueSound, LossIsAnnounced, Covered
<1> QED BY <1>1, <1>2, <1>3, <1>4, <1>5 DEF QueueNext

\* The strengthening the theorems follow from.
THEOREM QueueInvariant == QueueSpec => []QueueInductive
  BY QueueInitInductive, QueueStepInductive, PTL DEF QueueSpec

\* The queue keeps its type and its bound, whatever is put and taken.
THEOREM QueueTypeCorrect == QueueSpec => []QueueTypeOK
<1>1. QueueInductive => QueueTypeOK
  BY DEF QueueInductive
<1> QED BY <1>1, QueueInvariant, PTL

\* A durable event that is lost to another is announced: a notice that stands
\* for it was taken or is in the queue, unless a transient event displaced it.
THEOREM LossesAreAnnounced == QueueSpec => []LossIsAnnounced
<1>1. QueueInductive => LossIsAnnounced
  BY DEF QueueInductive
<1> QED BY <1>1, QueueInvariant, PTL
===============================================================================
