---------------------------- MODULE StepLoopProofs ----------------------------
(***************************************************************************)
(* One run of a task, for any number of turns, attempts, chunks and        *)
(* recoveries, whatever is folded and whenever it is stopped: the model is *)
(* asked what memory has, only what was shown and not withdrawn is kept,   *)
(* and a call runs once and has its result beside its turn.  Delegations   *)
(* are apart: the live conversation has their results and memory has not,  *)
(* so that the two are compared by what they share.                        *)
(*                                                                         *)
(* The invariant says for each place of the driver what round, stream and  *)
(* turn in hand are (Shape, StreamShape, RanShape), and for the records of *)
(* the conversation which turns may have one: none of the turn that is     *)
(* being spoken, so that what a failed attempt said is nowhere; and of a   *)
(* turn with calls in hand exactly one set of calls, so that a compaction  *)
(* between the turn and its calls does not lose what is to be run.  The    *)
(* results the loop keeps until all calls have theirs are part of what     *)
(* live conversation and memory are compared by (Prompted), and say which  *)
(* calls ran (RanShape) and which have a record (HandShape).  That results *)
(* come after their turns makes a fold, which takes a prefix and leaves no *)
(* result behind whose turn it takes, keep both or neither.                *)
(***************************************************************************)
EXTENDS StepLoop, SequenceTheorems, FiniteSetTheorems, TLAPS

Kind == {"user", "digest", "turn", "partial", "result"}
Message == [kind : Kind, turn : 0 .. MaxTurns, text : Seq(Chunk), calls : SUBSET Chunk]
Response == [text : Seq(Chunk), calls : Seq(Chunk)]
Counts == [turns : 0 .. MaxTurns, recoveries : 0 .. MaxRecoveries]
Launched == [began : 0 .. 1, ended : 0 .. 1]
Intent == [due : BOOLEAN, started : BOOLEAN, titled : BOOLEAN]

TypeOK ==
  /\ conf \in Tasks
  /\ step \in {"prepare", "compact", "act", "observe", "suspend", "ended"}
  /\ pc \in {"none", "enter", "top", "stream", "backoff", "tools"}
  /\ count \in Counts
  /\ {noop, after, committed, pending} \subseteq BOOLEAN
  /\ turn \in [no : 0 .. MaxTurns, calls : Seq(Chunk)] /\ flag \subseteq Kinds
  /\ {base, tail, results, memory, staged} \subseteq Seq(Message)
  /\ attempt \in 0 .. MaxAttempts /\ withdrawn \subseteq 1 .. MaxAttempts
  /\ response \in Response /\ {shown, ran} \subseteq Seq(Chunk)
  /\ intent \in Intent /\ launched \in Launched
  /\ outcome \in {"none", "discarded", "parked", "broken", "switched", "observed", "suspended"}

\* Where the run is, and what that says of its round and of the turn in hand.
Shape ==
  /\ pc # "none" <=> step = "act"
  /\ step = "ended" <=> outcome # "none"
  /\ step \in {"compact", "observe", "suspend"} \/ pending => committed
  /\ step \in {"observe", "suspend"} \/ pc \in {"stream", "backoff"} => ~pending
  /\ outcome \in {"observed", "suspended", "switched"} => ~pending
  /\ committed => staged = <<>>
  /\ ~committed => memory = <<>>
  /\ outcome = "discarded" => ~committed /\ staged = <<>>
  /\ pc # "tools" /\ outcome = "none" => results = <<>>

\* The metadata step was begun once if at all, and for a round that counts.
Launches ==
  /\ launched.began = (IF intent.started THEN 1 ELSE 0)
  /\ intent.started => committed

\* What the stream has delivered is of this attempt, and on the reader's screen;
\* no call comes twice.
Said(r) == ToSet(r.text) \cup ToSet(r.calls)
StreamShape ==
  /\ turn.no <= count.turns
  /\ pc \in {"stream", "backoff"} => turn.no > 0
  /\ pc = "stream" =>
       /\ attempt > 0 /\ shown = response.text
       /\ \A c \in Said(response) : c.attempt = attempt
       /\ IsInjective(response.calls)
       /\ \A c \in ToSet(response.calls) : c.at <= Received
       /\ \A a \in withdrawn : a < attempt
  /\ pc = "backoff" =>
       /\ attempt < MaxAttempts /\ response = Silence /\ shown = <<>>
       /\ \A a \in withdrawn : a <= attempt

\* In act the live conversation, with the results that are still to be appended,
\* is what memory has, delegations apart.
Listed(s) == Place(s, Len(s))
Alike(s, t) == Dialogue(s) = Dialogue(t) /\ Listed(s) = Listed(t)
Prompted == step = "act" => Alike(Request \o results, Conversation)

\* The calls in hand run once, in order.
RanShape ==
  /\ IsInjective(turn.calls) /\ IsInjective(ran)
  /\ pc \in {"stream", "backoff"} \/ (pending /\ pc # "tools" /\ step # "ended") => ran = <<>>
  /\ pc = "tools" =>
       /\ Len(results) <= Len(turn.calls)
       /\ ~Misused => ran = SubSeq(turn.calls, 1, Len(results))

IsReply(r) == r.kind \in {"turn", "partial", "result"}
InHand == pc = "tools" \/ pending

\* No reply of a later turn, and none of this one while the model speaks.
TurnsShape ==
  \A r \in Records :
    /\ r.turn <= turn.no
    /\ IsReply(r) /\ pc \in {"stream", "backoff"} => r.turn # turn.no

SaidIsShown ==
  \A r \in Records : r.turn = turn.no /\ r.kind \in {"turn", "partial"} =>
    /\ \A c \in ToSet(r.text) \cup r.calls : c.attempt \notin withdrawn
    /\ IF r.kind = "turn" THEN r.text = shown ELSE IsPrefix(r.text, shown)

\* A result is of one call, has its turn unless it is of a delegation, and comes
\* after it.
Makes(t, r) == t.kind = "turn" /\ r.kind = "result" /\ t.turn = r.turn
Paired ==
  /\ \A r \in Records : r.kind = "result" /\ Told(r) => Called(r, Conversation)
  /\ \A i, j \in DOMAIN Conversation : Makes(Conversation[i], Conversation[j]) => i < j

\* The turn whose calls are in hand is recorded, and what was done has its result.
Recorded(s) == {c \in ToSet(s) : ~IsDelegated(c)}
HandShape ==
  /\ InHand =>
       /\ turn.calls # <<>>
       /\ \E t \in Records : t.kind = "turn" /\ t.turn = turn.no
       /\ \A t \in Records : t.kind = "turn" /\ t.turn = turn.no => t.calls = Recorded(turn.calls)
  /\ pc = "tools" =>
       \A i \in 1 .. Len(results) :
         ~IsDelegated(turn.calls[i]) => Result(turn.calls[i]) \in Records

\* Every other turn has the results of its calls.
Answered(t) == \A c \in t.calls : Record("result", t.turn, <<>>, {c}) \in Records
Settled ==
  outcome \in {"none", "observed", "suspended", "switched"} =>
    \A t \in Records : t.kind = "turn" => (InHand /\ t.turn = turn.no) \/ Answered(t)

RecordShape == TurnsShape /\ SaidIsShown /\ Paired /\ HandShape /\ Settled

Inductive ==
  /\ Shape /\ Launches /\ StreamShape /\ Prompted /\ RanShape /\ RecordShape

-------------------------------------------------------------------------------
(***************************************************************************)
(* Sequences                                                               *)
(***************************************************************************)
\* What is in a sequence that another is appended to.
LEMMA Grow ==
  ASSUME NEW S, NEW s \in Seq(S), NEW new \in Seq(S)
  PROVE  /\ s \o new \in Seq(S)
         /\ ToSet(s \o new) = ToSet(s) \cup ToSet(new)
<1>1. s \o new \in Seq(S) /\ Len(s \o new) = Len(s) + Len(new)
      /\ \A i \in 1 .. Len(s) + Len(new) :
           (s \o new)[i] = IF i <= Len(s) THEN s[i] ELSE new[i - Len(s)]
  BY ConcatProperties
<1>2. ASSUME NEW i \in DOMAIN (s \o new)
      PROVE  (s \o new)[i] \in ToSet(s) \cup ToSet(new)
  <2>1. CASE i <= Len(s)
    BY <1>1, <2>1 DEF ToSet
  <2>2. CASE i > Len(s)
    <3>1. i - Len(s) \in DOMAIN new /\ (s \o new)[i] = new[i - Len(s)]
      BY <1>1, <2>2
    <3> QED
      BY <3>1 DEF ToSet
  <2> QED
    BY <1>1, <2>1, <2>2
<1>3. ASSUME NEW i \in DOMAIN s PROVE s[i] \in ToSet(s \o new)
  <2>1. i \in DOMAIN (s \o new) /\ (s \o new)[i] = s[i]
    BY <1>1
  <2> QED
    BY <2>1 DEF ToSet
<1>4. ASSUME NEW i \in DOMAIN new PROVE new[i] \in ToSet(s \o new)
  <2>1. Len(s) + i \in DOMAIN (s \o new) /\ (s \o new)[Len(s) + i] = new[i]
    BY <1>1
  <2> QED
    BY <2>1 DEF ToSet
<1> QED
  BY <1>1, <1>2, <1>3, <1>4 DEF ToSet

\* What is in the shortest sequences.
LEMMA Short ==
  /\ \A x : ToSet(<<x>>) = {x}
  /\ ToSet(<<>>) = {}
BY DEF ToSet

\* One element more.
LEMMA GrowByOne ==
  ASSUME NEW S, NEW s \in Seq(S), NEW c \in S
  PROVE  /\ Append(s, c) \in Seq(S) /\ s \o <<c>> = Append(s, c)
         /\ Len(Append(s, c)) = Len(s) + 1 /\ Append(s, c)[Len(s) + 1] = c
         /\ \A i \in 1 .. Len(s) : Append(s, c)[i] = s[i]
         /\ ToSet(Append(s, c)) = ToSet(s) \cup {c}
<1>1. /\ Append(s, c) \in Seq(S) /\ Len(Append(s, c)) = Len(s) + 1
      /\ Append(s, c)[Len(s) + 1] = c
      /\ \A i \in 1 .. Len(s) : Append(s, c)[i] = s[i]
  OBVIOUS
<1>2. s \o <<c>> = Append(s, c)
  BY AppendIsConcat
<1>3. /\ DOMAIN s = 1 .. Len(s) /\ Len(s) \in Nat
      /\ DOMAIN Append(s, c) = 1 .. Len(s) + 1
  BY <1>1
<1>4. ToSet(Append(s, c)) = {Append(s, c)[i] : i \in 1 .. Len(s) + 1}
      /\ ToSet(s) = {s[i] : i \in 1 .. Len(s)}
  BY <1>3 DEF ToSet
<1>5. 1 .. Len(s) + 1 = (1 .. Len(s)) \cup {Len(s) + 1}
  BY <1>3
<1>6. ToSet(Append(s, c)) = ToSet(s) \cup {c}
  BY <1>1, <1>4, <1>5
<1> QED
  BY <1>1, <1>2, <1>6

\* A chunk more.
LEMMA OneMore ==
  ASSUME NEW s \in Seq(Chunk), NEW c \in Chunk
  PROVE  /\ Append(s, c) \in Seq(Chunk) /\ ToSet(Append(s, c)) = ToSet(s) \cup {c}
         /\ Len(Append(s, c)) = Len(s) + 1 /\ Append(s, c)[Len(s) + 1] = c
BY GrowByOne

\* An element more in a sequence that has each once.
LEMMA OnceMore ==
  ASSUME NEW S, NEW s \in Seq(S), NEW c \in S, IsInjective(s), c \notin ToSet(s)
  PROVE  IsInjective(Append(s, c))
<1>1. /\ DOMAIN s = 1 .. Len(s) /\ DOMAIN Append(s, c) = 1 .. Len(s) + 1 /\ Len(s) \in Nat
      /\ Append(s, c)[Len(s) + 1] = c
      /\ \A i \in 1 .. Len(s) : Append(s, c)[i] = s[i] /\ s[i] \in ToSet(s)
  BY GrowByOne DEF ToSet
<1>2. ASSUME NEW i \in 1 .. Len(s) + 1, NEW j \in 1 .. Len(s) + 1,
             Append(s, c)[i] = Append(s, c)[j]
      PROVE  i = j
  <2>1. CASE i \in 1 .. Len(s) /\ j \in 1 .. Len(s)
    BY <1>1, <1>2, <2>1 DEF IsInjective
  <2>2. CASE i = Len(s) + 1 \/ j = Len(s) + 1
    BY <1>1, <1>2, <2>2
  <2> QED
    BY <1>1, <2>1, <2>2
<1> QED
  BY <1>1, <1>2 DEF IsInjective

\* The first n + 1 elements of a sequence that has each once.
LEMMA FirstOnes ==
  ASSUME NEW S, NEW s \in Seq(S), NEW n \in Nat, n < Len(s), IsInjective(s)
  PROVE  /\ SubSeq(s, 1, n) \in Seq(S) /\ s[n + 1] \in S /\ s[n + 1] \in ToSet(s)
         /\ SubSeq(s, 1, n + 1) = Append(SubSeq(s, 1, n), s[n + 1])
         /\ IsInjective(SubSeq(s, 1, n)) /\ IsInjective(SubSeq(s, 1, n + 1))
<1> DEFINE p == SubSeq(s, 1, n)
<1>0. Len(s) \in Nat /\ DOMAIN s = 1 .. Len(s) /\ n \in 0 .. Len(s) /\ n + 1 \in 1 .. Len(s)
  OBVIOUS
<1>1. /\ p \in Seq(S) /\ Len(p) = n /\ \A i \in 1 .. n : p[i] = s[i]
  <2>1. 1 \in 1 .. Len(s) + 1 /\ n \in 1 - 1 .. Len(s)
    BY <1>0
  <2> QED
    BY <1>0, <2>1, SubSeqProperties
<1>2. SubSeq(s, 1, n + 1) = Append(p, s[n + 1])
  BY <1>0
<1>3. s[n + 1] \in S /\ s[n + 1] \in ToSet(s)
  BY <1>0 DEF ToSet
<1>4. DOMAIN p = 1 .. n /\ \A i \in 1 .. n : i \in DOMAIN s /\ p[i] = s[i]
  BY <1>0, <1>1
<1> HIDE DEF p
<1>5. IsInjective(p)
  BY <1>4 DEF IsInjective
<1>6. s[n + 1] \notin ToSet(p)
  <2>1. SUFFICES ASSUME NEW i \in 1 .. n, p[i] = s[n + 1] PROVE FALSE
    BY <1>4 DEF ToSet
  <2>2. i = n + 1
    BY <1>0, <1>4, <2>1 DEF IsInjective
  <2> QED
    BY <2>2
<1>7. IsInjective(Append(p, s[n + 1]))
  BY <1>1, <1>3, <1>5, <1>6, OnceMore
<1> QED
  BY <1>1, <1>2, <1>3, <1>5, <1>7 DEF p

\* The beginning of what is shown.
LEMMA Shows ==
  ASSUME NEW s \in Seq(Chunk), NEW c \in Chunk
  PROVE  IsPrefix(s, Append(s, c))
BY DEF IsPrefix
-------------------------------------------------------------------------------
(***************************************************************************)
(* What memory and the live conversation share                             *)
(***************************************************************************)
\* What memory keeps of a message.
LEMMA StoredFacts ==
  ASSUME NEW m \in Message
  PROVE  /\ Stored(m) \in Message /\ Stored(Stored(m)) = Stored(m)
         /\ Stored(m).kind = m.kind /\ Stored(m).turn = m.turn /\ Stored(m).text = m.text
         /\ Stored(m).calls = {c \in m.calls : ~IsDelegated(c)}
         /\ m.kind # "result" => Told(m) /\ Told(Stored(m))
<1>1. Stored(m) = [m EXCEPT !.calls = {c \in m.calls : ~IsDelegated(c)}]
  BY DEF Stored
<1>2. /\ Stored(m) \in Message
      /\ Stored(m).kind = m.kind /\ Stored(m).turn = m.turn /\ Stored(m).text = m.text
      /\ Stored(m).calls = {c \in m.calls : ~IsDelegated(c)}
  BY <1>1 DEF Message
<1>3. Stored(Stored(m)) = Stored(m)
  <2>1. Stored(Stored(m)) =
          [Stored(m) EXCEPT !.calls = {c \in Stored(m).calls : ~IsDelegated(c)}]
    BY DEF Stored
  <2>2. {c \in Stored(m).calls : ~IsDelegated(c)} = Stored(m).calls
    BY <1>2
  <2>3. [Stored(m) EXCEPT !.calls = Stored(m).calls] = Stored(m)
    BY <1>2 DEF Message
  <2> QED
    BY <2>1, <2>2, <2>3
<1> QED
  BY <1>2, <1>3 DEF Told

\* The dialogue of one message more.
LEMMA DialogueGrows ==
  ASSUME NEW s \in Seq(Message), NEW x \in Message
  PROVE  /\ Listed(Append(s, x)) = (IF Told(x) THEN Listed(s) + 1 ELSE Listed(s))
         /\ Dialogue(Append(s, x)) =
              (IF Told(x) THEN Dialogue(s) \cup {<<Listed(s) + 1, Stored(x)>>} ELSE Dialogue(s))
<1> DEFINE n == Len(s)
           more == Append(s, x)
           Seen(q, i) == {j \in 1 .. i : Told(q[j])}
           Entry(q, i) == <<Place(q, i), Stored(q[i])>>
<1>1. /\ more \in Seq(Message) /\ Len(more) = n + 1 /\ n \in Nat
      /\ more[n + 1] = x /\ \A i \in 1 .. n : more[i] = s[i]
      /\ DOMAIN s = 1 .. n /\ DOMAIN more = 1 .. n + 1
  BY GrowByOne
<1> HIDE DEF more
<1>2. \A q, i : Place(q, i) = Cardinality(Seen(q, i))
  BY DEF Place
<1>3. \A i \in 0 .. n : Seen(more, i) = Seen(s, i)
  BY <1>1
<1>4. Seen(more, n + 1) = (IF Told(x) THEN Seen(s, n) \cup {n + 1} ELSE Seen(s, n))
  <2>1. 1 .. n + 1 = (1 .. n) \cup {n + 1}
    BY <1>1
  <2>2. Seen(more, n + 1) = Seen(more, n) \cup {j \in {n + 1} : Told(more[j])}
    BY <2>1
  <2>3. Seen(more, n) = Seen(s, n)
    BY <1>1, <1>3
  <2> QED
    BY <1>1, <2>2, <2>3
<1>5. IsFiniteSet(Seen(s, n)) /\ n + 1 \notin Seen(s, n)
  <2>1. IsFiniteSet(1 .. n) /\ Seen(s, n) \in SUBSET (1 .. n)
    BY <1>1, FS_Interval
  <2> QED
    BY <1>1, <2>1, FS_Subset
<1>6. Place(more, n + 1) = (IF Told(x) THEN Place(s, n) + 1 ELSE Place(s, n))
  <2>1. CASE Told(x)
    <3>1. Cardinality(Seen(s, n) \cup {n + 1}) = Cardinality(Seen(s, n)) + 1
      BY <1>5, FS_AddElement
    <3> QED
      BY <1>2, <1>4, <2>1, <3>1
  <2>2. CASE ~Told(x)
    BY <1>2, <1>4, <2>2
  <2> QED
    BY <2>1, <2>2
<1>7. ASSUME NEW i \in 1 .. n PROVE Entry(more, i) = Entry(s, i)
  <2>1. i \in 0 .. n /\ more[i] = s[i]
    BY <1>1
  <2>2. Seen(more, i) = Seen(s, i)
    BY <1>3, <2>1
  <2>3. Place(more, i) = Place(s, i)
    BY <1>2, <2>2
  <2> QED
    BY <2>1, <2>3
<1>8. /\ Dialogue(more) = {Entry(more, i) : i \in Seen(more, n + 1)}
      /\ Dialogue(s) = {Entry(s, i) : i \in Seen(s, n)}
  BY <1>1 DEF Dialogue
<1>9. Listed(more) = Place(more, n + 1) /\ Listed(s) = Place(s, n)
  BY <1>1 DEF Listed
<1>10. \A i \in Seen(s, n) : i \in 1 .. n
  OBVIOUS
<1>11. Entry(more, n + 1) = <<Place(more, n + 1), Stored(x)>>
  BY <1>1
<1> HIDE DEF Seen, Entry
<1>12. CASE Told(x)
  <2>1. Dialogue(more) = {Entry(more, i) : i \in Seen(s, n)} \cup {Entry(more, n + 1)}
    BY <1>4, <1>8, <1>12
  <2>2. {Entry(more, i) : i \in Seen(s, n)} = Dialogue(s)
    BY <1>7, <1>8, <1>10
  <2> QED
    BY <1>6, <1>9, <1>11, <1>12, <2>1, <2>2 DEF more
<1>13. CASE ~Told(x)
  <2>1. Dialogue(more) = Dialogue(s)
    BY <1>4, <1>7, <1>8, <1>10, <1>13
  <2> QED
    BY <1>6, <1>9, <1>13, <2>1 DEF more
<1> QED
  BY <1>12, <1>13

\* Two conversations stay alike when each has the same message more, as memory keeps it.
LEMMA AlikeGrows ==
  ASSUME NEW s \in Seq(Message), NEW t \in Seq(Message), NEW x \in Message, NEW y \in Message,
         Told(x) <=> Told(y), Stored(x) = Stored(y), Alike(s, t)
  PROVE  Alike(Append(s, x), Append(t, y))
<1>1. Dialogue(s) = Dialogue(t) /\ Listed(s) = Listed(t)
  BY DEF Alike
<1>2. CASE Told(x)
  BY <1>1, <1>2, DialogueGrows DEF Alike
<1>3. CASE ~Told(x)
  BY <1>1, <1>3, DialogueGrows DEF Alike
<1> QED
  BY <1>2, <1>3

\* The result of a delegation is the live conversation's own matter.
LEMMA AlikeApart ==
  ASSUME NEW s \in Seq(Message), NEW t \in Seq(Message), NEW x \in Message,
         ~Told(x), Alike(s, t)
  PROVE  Alike(Append(s, x), t)
BY DialogueGrows DEF Alike
-------------------------------------------------------------------------------
(***************************************************************************)
(* Writing                                                                 *)
(***************************************************************************)
\* The types of what a run keeps of the conversation.
LEMMA StoreTypes ==
  ASSUME TypeOK
  PROVE  /\ memory \in Seq(Message) /\ staged \in Seq(Message)
         /\ base \in Seq(Message) /\ tail \in Seq(Message) /\ results \in Seq(Message)
         /\ Conversation \in Seq(Message) /\ Request \in Seq(Message)
BY DEF TypeOK, Conversation, Request

\* The metadata step is begun once, for a round that counts.
LEMMA RecognizeFacts ==
  ASSUME TypeOK, Launches, NEW due \in BOOLEAN, NEW counts \in BOOLEAN,
         Recognize(due, counts), counts => committed', committed => committed'
  PROVE  /\ Launches'
         /\ intent' \in Intent
         /\ launched' \in Launched
<1>1. CASE due /\ ~intent.started
  <2>1. /\ intent' = [intent EXCEPT !.due = ~counts, !.started = counts]
        /\ launched' = [launched EXCEPT !.began = IF counts THEN @ + 1 ELSE @]
        /\ launched.began = 0
    BY <1>1 DEF Recognize, Launches
  <2>t. /\ intent \in Intent
        /\ launched \in Launched
    BY DEF TypeOK
  <2>2. /\ intent'.started = counts
        /\ intent' \in Intent
    BY <2>1, <2>t DEF Intent, Launched
  <2>3. launched'.began = (IF counts THEN 1 ELSE 0) /\ launched' \in Launched
    BY <2>1, <2>t DEF Intent, Launched
  <2> QED
    BY <2>2, <2>3 DEF Launches
<1>2. CASE ~(due /\ ~intent.started)
  BY <1>2 DEF Recognize, Launches, meta, TypeOK
<1> QED
  BY <1>1, <1>2

\* A commit adds what was staged and what is new to memory, in this order.
LEMMA CommitFacts ==
  ASSUME TypeOK, Launches, NEW new \in Seq(Message), CommitWith(new)
  PROVE  /\ memory' \in Seq(Message) /\ staged' = <<>> /\ staged' \in Seq(Message)
         /\ committed' = TRUE /\ Conversation' = Conversation \o new /\ Launches'
         /\ intent' \in Intent
         /\ launched' \in Launched
<1>1. /\ memory' = Conversation \o new /\ staged' = <<>> /\ committed' = TRUE
      /\ Recognize(intent.due, TRUE)
  BY DEF CommitWith, Conversation
<1>2. Conversation \o new \in Seq(Message)
  BY StoreTypes
<1>3. Conversation' = memory'
  BY <1>1, <1>2, ConcatEmptySeq DEF Conversation
<1>4. intent.due \in BOOLEAN
  BY DEF TypeOK, Intent
<1>5. Launches' /\ intent' \in Intent
      /\ launched' \in Launched
  BY <1>1, <1>4, RecognizeFacts
<1> QED
  BY <1>1, <1>2, <1>3, <1>5

\* A commit that adds nothing leaves the conversation as it is.
LEMMA CommitOnly ==
  ASSUME TypeOK, Launches, Commit
  PROVE  /\ memory' \in Seq(Message) /\ staged' = <<>> /\ staged' \in Seq(Message)
         /\ committed' = TRUE /\ Conversation' = Conversation /\ Launches'
         /\ intent' \in Intent
         /\ launched' \in Launched
<1>1. <<>> \in Seq(Message) /\ Conversation \o <<>> = Conversation
  BY StoreTypes, ConcatEmptySeq
<1> QED
  BY <1>1, CommitFacts DEF Commit

\* Whether the round counts already or not, new records come last.
LEMMA IngestFacts ==
  ASSUME TypeOK, Shape, Launches, NEW new \in Seq(Message), Ingest(new)
  PROVE  /\ memory' \in Seq(Message) /\ staged' \in Seq(Message)
         /\ committed' = committed /\ Conversation' = Conversation \o new /\ Launches'
         /\ intent' = intent /\ launched' = launched
         /\ committed => staged' = <<>>
         /\ ~committed => memory' = <<>>
<1>0. committed' = committed /\ intent' = intent /\ launched' = launched
  BY DEF Ingest, meta
<1>1. CASE committed
  <2>1. staged = <<>> /\ staged' = <<>> /\ memory' = memory \o new
    BY <1>1 DEF Ingest, Shape
  <2>2. memory' \in Seq(Message) /\ memory' \o <<>> = memory' /\ memory \o <<>> = memory
    BY <2>1, StoreTypes, ConcatEmptySeq
  <2> QED
    BY <1>0, <1>1, <2>1, <2>2 DEF Conversation, Launches
<1>2. CASE ~committed
  <2>1. memory' = memory /\ memory = <<>> /\ staged' = staged \o new
    BY <1>2 DEF Ingest, Shape
  <2>2. staged' \in Seq(Message) /\ (memory \o staged) \o new = memory \o (staged \o new)
    BY <2>1, StoreTypes, ConcatAssociative
  <2> QED
    BY <1>0, <1>2, <2>1, <2>2, StoreTypes DEF Conversation, Launches
<1> QED
  BY <1>1, <1>2
-------------------------------------------------------------------------------
(***************************************************************************)
(* The records of the conversation                                         *)
(***************************************************************************)
\* The outcomes of a run whose calls all have their results.
Good == {"none", "observed", "suspended", "switched"}

\* The records are those of a sequence.
LEMMA RecordsAre ==
  ASSUME TypeOK
  PROVE  Conversation \in Seq(Message) /\ Records \subseteq Message
<1>1. Conversation \in Seq(Message)
  BY StoreTypes
<1> QED
  BY <1>1 DEF Records, ToSet

\* A step that writes nothing, and does not change what is in hand.
LEMMA RecordsKept ==
  ASSUME RecordShape, Conversation' = Conversation, turn' = turn,
         pc' \in {"stream", "backoff"} => pc \in {"stream", "backoff"},
         pc \in {"stream", "backoff"} \/ (shown' = shown /\ withdrawn' = withdrawn),
         InHand' => InHand, InHand => InHand' \/ outcome' \notin Good,
         outcome' \in Good => outcome \in Good,
         pc' = "tools" => results' = <<>> \/ (pc = "tools" /\ results' = results)
  PROVE  RecordShape'
<1>1. Records' = Records
  BY DEF Records
<1>2. TurnsShape'
  BY <1>1 DEF RecordShape, TurnsShape
<1>3. SaidIsShown'
  BY <1>1 DEF RecordShape, TurnsShape, SaidIsShown, IsReply
<1>4. Paired'
  BY <1>1 DEF RecordShape, Paired
<1>5. HandShape'
  <2>1. ASSUME pc' = "tools", NEW i \in 1 .. Len(results'), ~IsDelegated(turn.calls[i])
        PROVE  Result(turn.calls[i]) \in Records
    <3>1. results' # <<>>
      BY <2>1
    <3> QED
      BY <2>1, <3>1 DEF RecordShape, HandShape
  <2>2. \A c : Result(c)' = Result(c)
    BY DEF Result
  <2>3. InHand' =>
          /\ turn.calls # <<>>
          /\ \E t \in Records : t.kind = "turn" /\ t.turn = turn.no
          /\ \A t \in Records : t.kind = "turn" /\ t.turn = turn.no => t.calls = Recorded(turn.calls)
    BY DEF RecordShape, HandShape
  <2> QED
    BY <1>1, <2>1, <2>2, <2>3 DEF HandShape
<1>6. Settled'
  <2>1. \A t : Answered(t)' <=> Answered(t)
    BY <1>1 DEF Answered
  <2> QED
    BY <1>1, <2>1 DEF RecordShape, Settled, Good
<1> QED
  BY <1>2, <1>3, <1>4, <1>5, <1>6 DEF RecordShape

\* A step that leaves no record.
LEMMA RecordsGone ==
  ASSUME Conversation' = <<>>, ~InHand'
  PROVE  RecordShape'
<1>1. Records' = {} /\ DOMAIN Conversation' = {}
  BY Short DEF Records
<1> QED
  BY <1>1 DEF RecordShape, TurnsShape, SaidIsShown, Paired, HandShape, Settled, InHand

\* What the new records say of the others.
LEMMA RecordsGrow ==
  ASSUME TypeOK, NEW new \in Seq(Message), Conversation' = Conversation \o new
  PROVE  /\ Records' = Records \cup ToSet(new)
         /\ Len(Conversation) \in Nat /\ Len(new) \in Nat
         /\ Len(Conversation') = Len(Conversation) + Len(new)
         /\ Conversation' \in Seq(Message)
         /\ \A i \in 1 .. Len(Conversation) : Conversation'[i] = Conversation[i]
         /\ \A i \in Len(Conversation) + 1 .. Len(Conversation') : Conversation'[i] \in ToSet(new)
<1>1. Conversation \in Seq(Message)
  BY RecordsAre
<1> DEFINE c == Conversation
           s == c \o new
<1>2. /\ s \in Seq(Message) /\ Len(s) = Len(c) + Len(new) /\ Len(c) \in Nat /\ Len(new) \in Nat
      /\ \A i \in 1 .. Len(c) + Len(new) : s[i] = IF i <= Len(c) THEN c[i] ELSE new[i - Len(c)]
  BY <1>1, ConcatProperties
<1>3. ToSet(s) = ToSet(c) \cup ToSet(new)
  BY <1>1, Grow
<1> HIDE DEF s, c
<1>4. \A i \in 1 .. Len(c) : s[i] = c[i]
  BY <1>2
<1>5. ASSUME NEW i \in Len(c) + 1 .. Len(s) PROVE s[i] \in ToSet(new)
  <2>1. i - Len(c) \in 1 .. Len(new) /\ i \in 1 .. Len(c) + Len(new) /\ ~(i <= Len(c))
    BY <1>2
  <2>2. s[i] = new[i - Len(c)] /\ i - Len(c) \in DOMAIN new
    BY <1>2, <2>1
  <2> QED
    BY <2>2 DEF ToSet
<1> QED
  BY <1>2, <1>3, <1>4, <1>5 DEF Records, s, c

\* One record more.
LEMMA RecordsGrowByOne ==
  ASSUME TypeOK, NEW r \in Message, Conversation' = Conversation \o <<r>>
  PROVE  Records' = Records \cup {r} /\ <<r>> \in Seq(Message)
<1>1. <<r>> \in Seq(Message) /\ ToSet(<<r>>) = {r}
  BY Short
<1> QED
  BY <1>1, RecordsGrow

\* The order of turns and results, when records are added.
LEMMA OrderGrows ==
  ASSUME TypeOK, NEW new \in Seq(Message), Conversation' = Conversation \o new,
         \A i, j \in DOMAIN Conversation : Makes(Conversation[i], Conversation[j]) => i < j,
         \A r \in ToSet(new) : \A x \in Records \cup ToSet(new) : ~Makes(r, x)
  PROVE  (\A i, j \in DOMAIN Conversation : Makes(Conversation[i], Conversation[j]) => i < j)'
<1> DEFINE n == Len(Conversation)
           m == Len(Conversation')
<1>1. /\ Conversation \in Seq(Message) /\ n \in Nat /\ m \in Nat /\ n <= m
      /\ \A i \in n + 1 .. m : Conversation'[i] \in ToSet(new)
      /\ \A i \in 1 .. n : Conversation'[i] = Conversation[i]
      /\ Conversation' \in Seq(Message)
  BY RecordsAre, RecordsGrow
<1>2. DOMAIN Conversation = 1 .. n /\ DOMAIN Conversation' = 1 .. m
  BY <1>1
<1>3. \A i \in 1 .. n : Conversation[i] \in Records
  BY <1>2 DEF Records, ToSet
<1>4. ASSUME NEW i \in 1 .. m, NEW j \in 1 .. m, Makes(Conversation'[i], Conversation'[j])
      PROVE  i < j
  <2>1. \A k \in 1 .. m : k \in 1 .. n \/ k \in n + 1 .. m
    BY <1>1
  <2>2. CASE i \in n + 1 .. m
    <3>1. Conversation'[i] \in ToSet(new) /\ Conversation'[j] \in Records \cup ToSet(new)
      BY <1>1, <1>3, <2>1, <2>2
    <3> QED
      BY <1>4, <3>1
  <2>3. CASE i \in 1 .. n /\ j \in 1 .. n
    BY <1>1, <1>2, <1>4, <2>3
  <2>4. CASE i \in 1 .. n /\ j \in n + 1 .. m
    BY <1>1, <2>4
  <2> QED
    BY <2>1, <2>2, <2>3, <2>4
<1> QED
  BY <1>2, <1>4
-------------------------------------------------------------------------------
(***************************************************************************)
(* Ends of the run                                                         *)
(***************************************************************************)
\* What an ending step may still change.
Stopping ==
  /\ UNCHANGED <<conf, noop, after, act, attempt>> /\ response' \in Response
  /\ count' \in Counts /\ turn.no <= count'.turns
  /\ shown' \in Seq(Chunk) /\ withdrawn' \in SUBSET (1 .. MaxAttempts)
  /\ pc \in {"stream", "backoff"} \/ (shown' = shown /\ withdrawn' = withdrawn)
  /\ ran' \in Seq(Chunk) /\ IsInjective(ran')

\* An ending keeps the shape of everything but the conversation.
LEMMA StoppingKeeps ==
  ASSUME TypeOK, Inductive, Stopping, NEW how, End(how),
         how \in {"discarded", "parked", "broken", "switched", "observed", "suspended"},
         memory' \in Seq(Message), staged' \in Seq(Message),
         committed' \in BOOLEAN, intent' \in Intent, launched' \in Launched
  PROVE  /\ TypeOK'
         /\ StreamShape' /\ Prompted' /\ RanShape'
         /\ InHand' = pending /\ turn' = turn /\ pending' = pending
         /\ pc' = "none" /\ step' = "ended" /\ outcome' = how
<1>1. /\ conf' = conf /\ noop' = noop /\ after' = after /\ turn' = turn /\ pending' = pending
      /\ flag' = flag /\ base' = base /\ tail' = tail /\ results' = results
      /\ attempt' = attempt
      /\ pc' = "none" /\ step' = "ended" /\ outcome' = how
  BY DEF Stopping, act, End
<1>2. TypeOK'
  BY <1>1 DEF TypeOK, Stopping
<1>3. StreamShape'
  BY <1>1 DEF StreamShape, Stopping
<1>4. Prompted'
  BY <1>1 DEF Prompted
<1>5. RanShape'
  BY <1>1 DEF Inductive, RanShape, Stopping
<1>6. InHand' = pending
  BY <1>1 DEF InHand, TypeOK
<1> QED
  BY <1>1, <1>2, <1>3, <1>4, <1>5, <1>6

\* An end that writes nothing: cancelled, failed, parked at a question, or done.
LEMMA EndKeeps ==
  ASSUME TypeOK, Inductive, Stopping, NEW how, End(how), UNCHANGED <<store, meta>>,
         \/ how \in {"parked", "broken"}
         \/ how \in {"observed", "suspended"} /\ step \in {"observe", "suspend"}
  PROVE  TypeOK' /\ Inductive'
<1>1. /\ memory' = memory /\ staged' = staged /\ committed' = committed
      /\ intent' = intent /\ launched' = launched /\ Conversation' = Conversation
  BY DEF store, meta, Conversation
<1>2. /\ TypeOK' /\ StreamShape' /\ Prompted' /\ RanShape'
      /\ InHand' = pending /\ turn' = turn /\ pending' = pending
      /\ pc' = "none" /\ step' = "ended" /\ outcome' = how
  BY <1>1, StoppingKeeps DEF TypeOK
<1>3. Shape' /\ Launches'
  BY <1>1, <1>2 DEF Inductive, Shape, Launches
<1>4. RecordShape'
  <2>1. /\ InHand' => InHand
        /\ how \in Good => outcome \in Good /\ (InHand => InHand')
    BY <1>2 DEF InHand, Good, Inductive, Shape
  <2>2. pc \in {"stream", "backoff"} \/ (shown' = shown /\ withdrawn' = withdrawn)
    BY DEF Stopping
  <2> QED
    BY <1>1, <1>2, <2>1, <2>2, RecordsKept DEF Inductive
<1> QED
  BY <1>2, <1>3, <1>4 DEF Inductive

\* Nothing was said: the round is taken back.
LEMMA DiscardKeeps ==
  ASSUME TypeOK, Inductive, Stopping, Discard
  PROVE  TypeOK' /\ Inductive'
<1>1. /\ ~committed /\ staged' = <<>> /\ End("discarded") /\ memory' = memory
      /\ committed' = committed /\ intent' = intent /\ launched' = launched
  BY DEF Discard, meta
<1>2. memory = <<>> /\ ~pending
  BY <1>1 DEF Inductive, Shape
<1>3. Conversation' = <<>> /\ staged' \in Seq(Message)
  BY <1>1, <1>2 DEF Conversation
<1>4. /\ TypeOK' /\ StreamShape' /\ Prompted' /\ RanShape'
      /\ InHand' = pending /\ turn' = turn /\ pending' = pending
      /\ pc' = "none" /\ step' = "ended" /\ outcome' = "discarded"
  BY <1>1, <1>3, StoppingKeeps DEF TypeOK
<1>5. Shape' /\ Launches'
  BY <1>1, <1>2, <1>4 DEF Inductive, Shape, Launches
<1>6. RecordShape'
  BY <1>2, <1>3, <1>4, RecordsGone
<1> QED
  BY <1>4, <1>5, <1>6 DEF Inductive

\* Parked with nothing to add.
LEMMA ParkKeeps ==
  ASSUME TypeOK, Inductive, Stopping, Park(<<>>)
  PROVE  TypeOK' /\ Inductive'
<1>1. End("parked") /\ Commit
  BY DEF Park, Commit
<1>2. /\ memory' \in Seq(Message) /\ staged' = <<>> /\ staged' \in Seq(Message)
      /\ committed' = TRUE /\ Conversation' = Conversation /\ Launches'
      /\ intent' \in Intent /\ launched' \in Launched
  BY <1>1, CommitOnly DEF Inductive
<1>3. /\ TypeOK' /\ StreamShape' /\ Prompted' /\ RanShape'
      /\ InHand' = pending /\ turn' = turn /\ pending' = pending
      /\ pc' = "none" /\ step' = "ended" /\ outcome' = "parked"
  BY <1>1, <1>2, StoppingKeeps
<1>4. Shape'
  BY <1>2, <1>3 DEF Inductive, Shape
<1>5. RecordShape'
  <2>1. InHand' => InHand
    BY <1>3 DEF InHand
  <2>2. pc \in {"stream", "backoff"} \/ (shown' = shown /\ withdrawn' = withdrawn)
    BY DEF Stopping
  <2> QED
    BY <1>2, <1>3, <2>1, <2>2, RecordsKept DEF Inductive, Good
<1> QED
  BY <1>2, <1>3, <1>4, <1>5 DEF Inductive

\* A cooperative stop, wherever it is looked at.
LEMMA StopKeeps ==
  ASSUME TypeOK, Inductive, Stopping, StopsHere
  PROVE  TypeOK' /\ Inductive'
<1>1. CASE Discard
  BY <1>1, DiscardKeeps
<1>2. CASE Park(<<>>)
  BY <1>2, ParkKeeps
<1>3. CASE Cancelled
  BY <1>3, EndKeeps DEF Cancelled
<1> QED
  BY <1>1, <1>2, <1>3 DEF StopsHere, Interrupt
-------------------------------------------------------------------------------
(***************************************************************************)
(* The steps around act                                                    *)
(***************************************************************************)
\* Cancelled between two steps.
LEMMA BoundaryKeeps ==
  ASSUME TypeOK, Inductive, Boundary
  PROVE  TypeOK' /\ Inductive'
<1>1. Cancelled /\ Stopping
  BY DEF Boundary, Stopping, stream, TypeOK, Inductive, StreamShape, RanShape
<1> QED
  BY <1>1, EndKeeps DEF Cancelled

\* The observer's step, and the checkpoint before it.
LEMMA ObserveKeeps ==
  ASSUME TypeOK, Inductive, Observe
  PROVE  TypeOK' /\ Inductive'
<1>1. Stopping
  BY DEF Observe, Stopping, stream, TypeOK, Inductive, StreamShape, RanShape
<1>2. CASE StopsHere
  BY <1>1, <1>2, StopKeeps
<1>3. CASE End("observed") /\ UNCHANGED <<store, meta>> /\ step = "observe"
  BY <1>1, <1>3, EndKeeps
<1> QED
  BY <1>2, <1>3 DEF Observe

\* The suspension.
LEMMA SuspendKeeps ==
  ASSUME TypeOK, Inductive, Suspend
  PROVE  TypeOK' /\ Inductive'
<1>1. Stopping /\ End("suspended") /\ UNCHANGED <<store, meta>> /\ step = "suspend"
  BY DEF Suspend, Stopping, stream, TypeOK, Inductive, StreamShape, RanShape
<1> QED
  BY <1>1, EndKeeps

\* A call that asks first.
LEMMA CallParksKeeps ==
  ASSUME TypeOK, Inductive, CallParks
  PROVE  TypeOK' /\ Inductive'
<1>1. Stopping /\ End("parked") /\ UNCHANGED <<store, meta>>
  BY DEF CallParks, Stopping, stream, TypeOK, Inductive, StreamShape, RanShape
<1> QED
  BY <1>1, EndKeeps

\* The model's service fails for good.
LEMMA AskFailsKeeps ==
  ASSUME TypeOK, Inductive, AskFails
  PROVE  TypeOK' /\ Inductive'
<1>1. Stopping /\ End("broken") /\ UNCHANGED <<store, meta>>
  BY DEF AskFails, Stopping, stream, TypeOK, Inductive, StreamShape, RanShape
<1> QED
  BY <1>1, EndKeeps

\* Stopped at the top of the loop.
LEMMA CheckpointKeeps ==
  ASSUME TypeOK, Inductive, Checkpoint
  PROVE  TypeOK' /\ Inductive'
<1>1. count' \in Counts /\ turn.no <= count'.turns
  <2>1. CASE pending
    BY <2>1 DEF Checkpoint, TypeOK, Inductive, StreamShape
  <2>2. CASE ~pending
    <3>1. count.turns < MaxTurns /\ count' = [count EXCEPT !.turns = @ + 1]
      BY <2>2 DEF Checkpoint, CountsTurn
    <3>2. count \in Counts /\ turn.no <= count.turns /\ turn.no \in Nat /\ MaxTurns \in Nat
      BY RunAssumption DEF TypeOK, Inductive, StreamShape
    <3> QED
      BY <3>1, <3>2 DEF Counts
  <2> QED
    BY <2>1, <2>2
<1>2. Stopping /\ StopsHere
  BY <1>1 DEF Checkpoint, Stopping, stream, TypeOK, Inductive, RanShape
<1> QED
  BY <1>2, StopKeeps

\* Prepare leaves for a compaction first.
LEMMA PrepareCompactsKeeps ==
  ASSUME TypeOK, Inductive, PrepareCompacts
  PROVE  TypeOK' /\ Inductive'
<1>1. /\ step = "prepare" /\ step' = "compact" /\ base' = <<>> /\ tail' = <<>>
      /\ UNCHANGED <<conf, pc, count, noop, after, turn, pending, flag, results, stream, ran,
                     outcome>>
      /\ UNCHANGED <<attempt, response, shown, withdrawn>>
  BY DEF PrepareCompacts, stream
<1>2. /\ memory' \in Seq(Message) /\ staged' = <<>> /\ staged' \in Seq(Message)
      /\ committed' = TRUE /\ Conversation' = Conversation /\ Launches'
      /\ intent' \in Intent /\ launched' \in Launched
  BY CommitOnly DEF PrepareCompacts, Inductive
<1>3. pc = "none" /\ outcome = "none"
  BY <1>1 DEF Inductive, Shape
<1>4. TypeOK'
  BY <1>1, <1>2 DEF TypeOK
<1>5. Shape'
  BY <1>1, <1>2, <1>3 DEF Inductive, Shape
<1>6. StreamShape' /\ Prompted'
  BY <1>1, <1>3 DEF Inductive, StreamShape, Prompted
<1>7. RanShape'
  BY <1>1, <1>3 DEF Inductive, RanShape
<1>8. RecordShape'
  BY <1>1, <1>2, <1>3, RecordsKept DEF Inductive, InHand, Good
<1> QED
  BY <1>2, <1>4, <1>5, <1>6, <1>7, <1>8 DEF Inductive

\* Prepare assembles the prompt from memory, and from what is staged.
LEMMA PrepareAssemblesKeeps ==
  ASSUME TypeOK, Inductive, PrepareAssembles
  PROVE  TypeOK' /\ Inductive'
<1>1. /\ step = "prepare" /\ step' = "act" /\ pc' = "enter" /\ after' = FALSE
      /\ base' = Conversation /\ tail' = <<>>
      /\ UNCHANGED <<conf, count, noop, turn, pending, flag, results, store, stream, ran,
                     outcome>>
      /\ UNCHANGED <<memory, staged, committed, attempt, response, shown, withdrawn>>
  BY DEF PrepareAssembles, Assembled, Conversation, store, stream
<1>2. Launches' /\ intent' \in Intent /\ launched' \in Launched
  <2>1. committed \in BOOLEAN /\ committed' = committed /\ (~intent.titled) \in BOOLEAN
    BY <1>1 DEF TypeOK
  <2> QED
    BY <2>1, RecognizeFacts DEF PrepareAssembles, Inductive
<1>3. pc = "none" /\ outcome = "none" /\ Conversation' = Conversation
  BY <1>1 DEF Inductive, Shape, Conversation
<1>t. base' \in Seq(Message) /\ tail' \in Seq(Message)
  BY <1>1, RecordsAre
<1>4. TypeOK'
  BY <1>1, <1>2, <1>t DEF TypeOK
<1>5. Shape'
  BY <1>1, <1>3 DEF Inductive, Shape
<1>6. StreamShape'
  BY <1>1 DEF Inductive, StreamShape
<1>7. Prompted'
  <2>1. results' = <<>> /\ Conversation \in Seq(Message)
    BY <1>1, <1>3, RecordsAre DEF Inductive, Shape
  <2>2. (Request \o results)' = Conversation
    BY <1>1, <2>1, ConcatEmptySeq DEF Request
  <2> QED
    BY <1>3, <2>2 DEF Prompted, Alike
<1>8. RanShape'
  BY <1>1, <1>3 DEF Inductive, RanShape
<1>9. RecordShape'
  BY <1>1, <1>3, RecordsKept DEF Inductive, InHand, Good
<1> QED
  BY <1>2, <1>4, <1>5, <1>6, <1>7, <1>8, <1>9 DEF Inductive

\* The driver enters act.
LEMMA EnterKeeps ==
  ASSUME TypeOK, Inductive, Enter
  PROVE  TypeOK' /\ Inductive'
<1>1. /\ step = "act" /\ pc = "enter" /\ pc' = "top"
      /\ UNCHANGED <<conf, step, count, noop, after, turn, pending, flag, base, tail, results,
                     memory, staged, committed, attempt, response, shown, withdrawn, ran, intent,
                     launched, outcome>>
  BY DEF Enter, store, act, stream, meta
<1>2. Conversation' = Conversation /\ Request' = Request
  BY <1>1 DEF Conversation, Request
<1>4. TypeOK'
  BY <1>1 DEF TypeOK
<1>5. Shape' /\ Launches'
  BY <1>1 DEF Inductive, Shape, Launches
<1>6. StreamShape' /\ Prompted'
  BY <1>1, <1>2 DEF Inductive, StreamShape, Prompted
<1>7. RanShape'
  BY <1>1 DEF Inductive, RanShape
<1>8. RecordShape'
  BY <1>1, <1>2, RecordsKept DEF Inductive, InHand
<1> QED
  BY <1>4, <1>5, <1>6, <1>7, <1>8 DEF Inductive

\* A turn that waited for a compaction goes on with its calls.
LEMMA ResumeTurnKeeps ==
  ASSUME TypeOK, Inductive, ResumeTurn
  PROVE  TypeOK' /\ Inductive'
<1>1. /\ pc = "top" /\ pending /\ pc' = "tools"
      /\ UNCHANGED <<conf, step, count, noop, after, turn, pending, flag, base, tail, results,
                     memory, staged, committed, attempt, response, shown, withdrawn, ran, intent,
                     launched, outcome>>
  BY DEF ResumeTurn, store, act, stream, meta
<1>2. Conversation' = Conversation /\ Request' = Request
  BY <1>1 DEF Conversation, Request
<1>4. TypeOK'
  BY <1>1 DEF TypeOK
<1>5. Shape' /\ Launches'
  BY <1>1 DEF Inductive, Shape, Launches
<1>6. StreamShape' /\ Prompted'
  BY <1>1, <1>2 DEF Inductive, StreamShape, Prompted
<1>3. results = <<>>
  BY <1>1 DEF Inductive, Shape
<1>7. RanShape'
  <2>1. turn.calls \in Seq(Chunk) /\ SubSeq(turn.calls, 1, 0) = <<>> /\ 0 <= Len(turn.calls)
    BY DEF TypeOK
  <2> QED
    BY <1>1, <1>3, <2>1 DEF Inductive, RanShape, Shape
<1>8. RecordShape'
  BY <1>1, <1>2, <1>3, RecordsKept DEF Inductive, InHand
<1> QED
  BY <1>4, <1>5, <1>6, <1>7, <1>8 DEF Inductive

\* The last turn is used up.
LEMMA MaxTurnsReachedKeeps ==
  ASSUME TypeOK, Inductive, MaxTurnsReached
  PROVE  TypeOK' /\ Inductive'
<1>1. /\ pc = "top" /\ ~pending /\ step' = "observe" /\ pc' = "none"
      /\ UNCHANGED <<conf, count, noop, after, turn, pending, flag, base, tail, results,
                     attempt, response, shown, withdrawn, ran, outcome>>
  BY DEF MaxTurnsReached, LeaveFor, act, stream
<1>2. /\ memory' \in Seq(Message) /\ staged' = <<>> /\ staged' \in Seq(Message)
      /\ committed' = TRUE /\ Conversation' = Conversation /\ Launches'
      /\ intent' \in Intent /\ launched' \in Launched
  BY CommitOnly DEF MaxTurnsReached, Inductive
<1>4. TypeOK'
  BY <1>1, <1>2 DEF TypeOK
<1>5. Shape'
  BY <1>1, <1>2 DEF Inductive, Shape
<1>6. StreamShape' /\ Prompted'
  BY <1>1 DEF Inductive, StreamShape, Prompted
<1>7. RanShape'
  BY <1>1 DEF Inductive, RanShape
<1>8. RecordShape'
  BY <1>1, <1>2, RecordsKept DEF Inductive, InHand
<1> QED
  BY <1>2, <1>4, <1>5, <1>6, <1>7, <1>8 DEF Inductive

\* The metadata step ends.
LEMMA RecognizeEndsKeeps ==
  ASSUME TypeOK, Inductive, RecognizeEnds
  PROVE  TypeOK' /\ Inductive'
<1>1. /\ launched.ended < launched.began /\ launched' = [launched EXCEPT !.ended = @ + 1]
      /\ \E titled \in {intent.titled, TRUE} : intent' = [intent EXCEPT !.titled = titled]
      /\ UNCHANGED <<conf, step, pc, count, noop, after, turn, pending, flag, base, tail, results,
                     memory, staged, committed, attempt, response, shown, withdrawn, ran, outcome>>
  BY DEF RecognizeEnds, store, act, stream
<1>2. Conversation' = Conversation /\ Request' = Request
  BY <1>1 DEF Conversation, Request
<1>t. launched \in Launched
  BY DEF TypeOK
<1>3. launched' \in Launched /\ launched'.began = launched.began
  BY <1>1, <1>t DEF Launched
<1>4. intent' \in Intent /\ intent'.started = intent.started
  BY <1>1 DEF TypeOK, Intent
<1>5. TypeOK'
  BY <1>1, <1>3, <1>4 DEF TypeOK
<1>6. Shape' /\ Launches'
  BY <1>1, <1>3, <1>4 DEF Inductive, Shape, Launches
<1>7. StreamShape' /\ Prompted'
  BY <1>1, <1>2 DEF Inductive, StreamShape, Prompted, Received
<1>8. RanShape'
  BY <1>1, <1>2 DEF Inductive, RanShape, Misused
<1>9. RecordShape'
  BY <1>1, <1>2, RecordsKept DEF Inductive, InHand
<1> QED
  BY <1>5, <1>6, <1>7, <1>8, <1>9 DEF Inductive
-------------------------------------------------------------------------------
(***************************************************************************)
(* The stream                                                              *)
(***************************************************************************)
\* The next turn is asked for.
LEMMA AskKeeps ==
  ASSUME TypeOK, Inductive, Ask
  PROVE  TypeOK' /\ Inductive'
<1>1. /\ pc = "top" /\ ~pending /\ count.turns < MaxTurns /\ pc' = "stream" /\ attempt' = 1
      /\ count' = [count EXCEPT !.turns = @ + 1]
      /\ turn' = [NoTurn EXCEPT !.no = count.turns + 1]
      /\ response' = Silence /\ shown' = <<>> /\ withdrawn' = {} /\ ran' = <<>>
      /\ UNCHANGED <<conf, step, noop, after, pending, flag, base, tail, results,
                     memory, staged, committed, intent, launched, outcome>>
  BY DEF Ask, CountsTurn, Begin, NoResult, store, meta
<1>2. Conversation' = Conversation /\ Request' = Request /\ Records' = Records
  BY <1>1 DEF Conversation, Request, Records
<1>3. count \in Counts /\ MaxTurns \in Nat /\ 1 \in 1 .. MaxAttempts /\ turn.no <= count.turns
      /\ turn.no \in Nat
  BY RunAssumption DEF TypeOK, Inductive, StreamShape
<1>4. /\ turn'.no = count.turns + 1 /\ turn'.calls = <<>> /\ count'.turns = count.turns + 1
      /\ turn' \in [no : 0 .. MaxTurns, calls : Seq(Chunk)] /\ count' \in Counts
  <2>1. turn' = [no |-> count.turns + 1, calls |-> <<>>] /\ <<>> \in Seq(Chunk)
    BY <1>1 DEF NoTurn
  <2>2. count.turns \in 0 .. MaxTurns /\ count.turns + 1 \in 0 .. MaxTurns
    BY <1>1, <1>3 DEF Counts
  <2>3. count'.turns = count.turns + 1 /\ count' \in Counts
    BY <1>1, <1>3, <2>2 DEF Counts
  <2> QED
    BY <2>1, <2>2, <2>3
<1>5. TypeOK'
  <2>1. Silence \in Response
    BY DEF Silence, Response
  <2> QED
    BY <1>1, <1>3, <1>4, <2>1 DEF TypeOK
<1>6. Shape' /\ Launches'
  BY <1>1 DEF Inductive, Shape, Launches
<1>7. Silence \in Response /\ Silence.text = <<>> /\ Silence.calls = <<>> /\ Said(Silence) = {}
      /\ ToSet(<<>>) = {} /\ IsInjective(<<>>)
  BY Short DEF Silence, Response, Said, IsInjective
<1>8. StreamShape'
  <2>1. turn'.no <= count'.turns /\ turn'.no > 0
    BY <1>3, <1>4 DEF Counts
  <2> QED
    BY <1>1, <1>7, <2>1 DEF StreamShape
<1>9. Prompted'
  BY <1>1, <1>2 DEF Inductive, Prompted
<1>10. RanShape'
  BY <1>1, <1>4, <1>7 DEF RanShape
<1>11. \A r \in Records : r.turn < turn'.no
  <2>1. \A r \in Records : r.turn \in Nat /\ r.turn <= turn.no
    BY RecordsAre DEF Inductive, RecordShape, TurnsShape, Message
  <2>2. count.turns \in Nat
    BY <1>3 DEF Counts
  <2> QED
    BY <1>3, <1>4, <2>1, <2>2
<1>12. RecordShape'
  <2>1. \A r \in Records : r.turn \in Nat
    BY RecordsAre DEF Message
  <2>2. turn'.no \in Nat /\ ~InHand /\ ~InHand'
    BY <1>1, <1>3, <1>4 DEF InHand, Counts
  <2>3. TurnsShape' /\ SaidIsShown'
    BY <1>2, <1>11, <2>1, <2>2 DEF TurnsShape, SaidIsShown
  <2>4. Paired' /\ HandShape'
    BY <1>1, <1>2, <2>2 DEF Inductive, RecordShape, Paired, HandShape
  <2>5. Settled'
    <3>1. \A t : Answered(t)' <=> Answered(t)
      BY <1>2 DEF Answered
    <3> QED
      BY <1>1, <1>2, <2>2, <3>1 DEF Inductive, RecordShape, Settled
  <2> QED
    BY <2>3, <2>4, <2>5 DEF RecordShape
<1> QED
  BY <1>5, <1>6, <1>8, <1>9, <1>10, <1>12 DEF Inductive

\* What comes next from the model, while it speaks.
LEMMA Delivered ==
  ASSUME TypeOK, Inductive, pc = "stream", Received < MaxChunks, NEW kind \in Kinds
  PROVE  /\ Deliver(kind) \in Chunk /\ Deliver(kind).attempt = attempt
         /\ Deliver(kind).at = Received + 1
         /\ IsText(Deliver(kind)) <=> kind = "text"
<1>1. /\ turn.no \in 1 .. MaxTurns /\ attempt \in 1 .. MaxAttempts
      /\ response = [text |-> response.text, calls |-> response.calls]
      /\ response.text \in Seq(Chunk) /\ response.calls \in Seq(Chunk)
  <2>1. turn.no \in 0 .. MaxTurns /\ attempt \in 0 .. MaxAttempts /\ response \in Response
    BY DEF TypeOK
  <2>2. turn.no > 0 /\ attempt > 0
    BY DEF Inductive, StreamShape
  <2> QED
    BY <2>1, <2>2, RunAssumption DEF Response
<1>2. Received \in Nat
  BY <1>1 DEF Received
<1>3. Received + 1 \in 1 .. MaxChunks
  BY <1>2, RunAssumption
<1> QED
  BY <1>1, <1>3 DEF Deliver, Chunk, Turns, IsText

\* What was accepted of the stream, with a chunk more, is still of this attempt, on the
\* screen, and without a call twice.
LEMMA Accepted ==
  ASSUME TypeOK, Inductive, pc = "stream", Received < MaxChunks, NEW kind \in Kinds,
         Accept(Deliver(kind)), UNCHANGED attempt
  PROVE  /\ response' \in Response /\ shown' \in Seq(Chunk) /\ shown' = response'.text
         /\ \A c \in Said(response') : c.attempt = attempt
         /\ IsInjective(response'.calls)
         /\ \A c \in ToSet(response'.calls) : c.at <= Received'
<1> DEFINE c == Deliver(kind)
<1>1. /\ c \in Chunk /\ c.attempt = attempt /\ c.at = Received + 1
  BY Delivered
<1>2. /\ shown' = (IF IsText(c) THEN Append(shown, c) ELSE shown)
      /\ response' = IF IsText(c) THEN [response EXCEPT !.text = Append(@, c)]
                                  ELSE [response EXCEPT !.calls = Append(@, c)]
  BY DEF Accept, Show
<1> HIDE DEF c
<1>3. /\ response = [text |-> response.text, calls |-> response.calls]
      /\ response.text \in Seq(Chunk) /\ response.calls \in Seq(Chunk)
      /\ shown = response.text /\ IsInjective(response.calls)
      /\ \A x \in ToSet(response.text) \cup ToSet(response.calls) : x.attempt = attempt
      /\ \A x \in ToSet(response.calls) : x \in Chunk /\ x.at <= Received
  <2>1. /\ response = [text |-> response.text, calls |-> response.calls]
        /\ response.text \in Seq(Chunk) /\ response.calls \in Seq(Chunk)
    BY DEF TypeOK, Response
  <2>2. ToSet(response.calls) \subseteq Chunk
    BY <2>1 DEF ToSet
  <2> QED
    BY <2>1, <2>2 DEF Inductive, StreamShape, Said
<1>4. Received \in Nat /\ Received = Len(response.text) + Len(response.calls)
      /\ Received' = Len(response'.text) + Len(response'.calls)
  BY <1>3 DEF Received
<1>5. \A x \in Chunk : x.at \in Nat
  BY RunAssumption DEF Chunk
<1>6. CASE IsText(c)
  <2>1. /\ response' = [text |-> Append(response.text, c), calls |-> response.calls]
        /\ shown' = Append(shown, c)
    BY <1>2, <1>3, <1>6
  <2>2. /\ Append(response.text, c) \in Seq(Chunk)
        /\ ToSet(Append(response.text, c)) = ToSet(response.text) \cup {c}
        /\ Len(Append(response.text, c)) = Len(response.text) + 1
    BY <1>1, <1>3, OneMore
  <2>3. Received' = Received + 1
    BY <1>3, <1>4, <2>1, <2>2
  <2>4. \A x \in ToSet(response'.calls) : x.at <= Received'
    BY <1>3, <1>4, <1>5, <2>1, <2>3
  <2> QED
    BY <1>1, <1>3, <2>1, <2>2, <2>4 DEF Said, Response
<1>7. CASE ~IsText(c)
  <2>1. /\ response' = [text |-> response.text, calls |-> Append(response.calls, c)]
        /\ shown' = shown
    BY <1>2, <1>3, <1>7
  <2>2. /\ Append(response.calls, c) \in Seq(Chunk)
        /\ ToSet(Append(response.calls, c)) = ToSet(response.calls) \cup {c}
        /\ Len(Append(response.calls, c)) = Len(response.calls) + 1
    BY <1>1, <1>3, OneMore
  <2>3. Received' = Received + 1
    BY <1>3, <1>4, <2>1, <2>2
  <2>4. \A x \in ToSet(response'.calls) : x.at <= Received'
    BY <1>1, <1>3, <1>4, <1>5, <2>1, <2>2, <2>3
  <2>5. c \notin ToSet(response.calls)
    BY <1>1, <1>3, <1>4, <1>5
  <2>6. IsInjective(Append(response.calls, c))
    BY <1>1, <1>3, <2>5, OnceMore
  <2> QED
    BY <1>1, <1>3, <2>1, <2>2, <2>4, <2>6 DEF Said, Response
<1> QED
  BY <1>6, <1>7

\* A chunk comes.
LEMMA ReceiveChunkKeeps ==
  ASSUME TypeOK, Inductive, ReceiveChunk
  PROVE  TypeOK' /\ Inductive'
<1>1. PICK kind \in Kinds : Accept(Deliver(kind))
  BY DEF ReceiveChunk
<1>2. /\ pc = "stream" /\ Received < MaxChunks
      /\ UNCHANGED <<conf, step, pc, count, noop, after, turn, pending, flag, base, tail, results,
                     attempt, withdrawn, ran, outcome>>
  BY DEF ReceiveChunk, act
<1>3. /\ memory' \in Seq(Message) /\ staged' \in Seq(Message) /\ committed' = TRUE
      /\ staged' = <<>> /\ Conversation' = Conversation /\ Launches'
      /\ intent' \in Intent /\ launched' \in Launched
  <2>1. CASE committed
    <3>1. /\ memory' = memory /\ staged' = staged /\ committed' = committed
          /\ intent' = intent /\ launched' = launched
      BY <2>1 DEF ReceiveChunk, store, meta
    <3> QED
      BY <2>1, <3>1 DEF TypeOK, Inductive, Shape, Conversation, Launches
  <2>2. CASE ~committed
    BY <2>2, CommitOnly DEF ReceiveChunk, Inductive
  <2> QED
    BY <2>1, <2>2
<1>4. /\ response' \in Response /\ shown' \in Seq(Chunk) /\ shown' = response'.text
      /\ \A c \in Said(response') : c.attempt = attempt
      /\ IsInjective(response'.calls)
      /\ \A c \in ToSet(response'.calls) : c.at <= Received'
  BY <1>1, <1>2, Accepted
<1>5. TypeOK'
  BY <1>2, <1>3, <1>4 DEF TypeOK
<1>6. Shape'
  BY <1>2, <1>3 DEF Inductive, Shape
<1>7. StreamShape'
  BY <1>2, <1>4 DEF Inductive, StreamShape
<1>8. Prompted'
  BY <1>2, <1>3 DEF Inductive, Prompted, Request
<1>9. RanShape'
  BY <1>2 DEF Inductive, RanShape
<1>10. RecordShape'
  BY <1>2, <1>3, RecordsKept DEF Inductive, InHand
<1> QED
  BY <1>3, <1>5, <1>6, <1>7, <1>8, <1>9, <1>10 DEF Inductive

\* The stream breaks off: what it said is withdrawn.
LEMMA OutageKeeps ==
  ASSUME TypeOK, Inductive, Outage
  PROVE  TypeOK' /\ Inductive'
<1>1. /\ pc = "stream" /\ response' = Silence /\ shown' = <<>>
      /\ withdrawn' = IF response = Silence THEN withdrawn ELSE withdrawn \cup {attempt}
      /\ UNCHANGED <<conf, count, noop, after, act, turn, pending, flag, base, tail, results,
                     attempt, ran, store, memory, staged, committed, meta, intent, launched>>
  BY DEF Outage, Withdraw, NoResult, act, store, meta
<1>t. Silence \in Response
  BY DEF Silence, Response
<1>2. attempt \in 1 .. MaxAttempts /\ \A a \in withdrawn : a < attempt
  BY <1>1, RunAssumption DEF TypeOK, Inductive, StreamShape
<1>3. withdrawn' \in SUBSET (1 .. MaxAttempts) /\ \A a \in withdrawn' : a <= attempt
  BY <1>1, <1>2 DEF TypeOK
<1>4. CASE End("broken")
  <2>1. Stopping
    BY <1>1, <1>t, <1>3 DEF Stopping, TypeOK, Inductive, StreamShape, RanShape
  <2> QED
    BY <1>1, <1>4, <2>1, EndKeeps
<1>5. CASE MayRetry /\ pc' = "backoff" /\ UNCHANGED <<step, outcome>>
  <2>1. attempt < MaxAttempts /\ pc' = "backoff" /\ step' = step /\ outcome' = outcome
    BY <1>5 DEF MayRetry
  <2>2. Conversation' = Conversation /\ Request' = Request
    BY <1>1 DEF Conversation, Request
  <2>3. TypeOK'
    BY <1>1, <1>t, <1>3, <2>1 DEF TypeOK
  <2>4. Shape' /\ Launches'
    BY <1>1, <2>1 DEF Inductive, Shape, Launches
  <2>5. StreamShape'
    BY <1>1, <1>3, <2>1 DEF Inductive, StreamShape
  <2>6. Prompted' /\ RanShape'
    BY <1>1, <2>1, <2>2 DEF Inductive, Prompted, RanShape
  <2>7. RecordShape'
    BY <1>1, <2>1, <2>2, RecordsKept DEF Inductive, InHand
  <2> QED
    BY <2>3, <2>4, <2>5, <2>6, <2>7 DEF Inductive
<1> QED
  BY <1>4, <1>5 DEF Outage

\* The request is attempted again.
LEMMA RetryKeeps ==
  ASSUME TypeOK, Inductive, Retry
  PROVE  TypeOK' /\ Inductive'
<1>1. /\ pc = "backoff" /\ pc' = "stream" /\ attempt' = attempt + 1
      /\ UNCHANGED <<conf, step, count, noop, after, turn, pending, flag, base, tail, results,
                     memory, staged, committed, response, shown, withdrawn, ran, intent,
                     launched, outcome>>
  BY DEF Retry, Begin, store, act, meta
<1>2. Conversation' = Conversation /\ Request' = Request
  BY <1>1 DEF Conversation, Request
<1>3. /\ attempt \in Nat /\ attempt < MaxAttempts /\ MaxAttempts \in Nat
      /\ withdrawn \subseteq Nat /\ \A a \in withdrawn : a <= attempt
      /\ response = Silence /\ shown = <<>>
  BY <1>1, RunAssumption DEF TypeOK, Inductive, StreamShape
<1>4. attempt' \in 1 .. MaxAttempts /\ \A a \in withdrawn : a < attempt'
  BY <1>1, <1>3
<1>5. TypeOK'
  BY <1>1, <1>4 DEF TypeOK
<1>6. Shape' /\ Launches'
  BY <1>1 DEF Inductive, Shape, Launches
<1>7. StreamShape'
  <2>1. Silence.text = <<>> /\ Silence.calls = <<>> /\ Said(Silence) = {}
        /\ ToSet(<<>>) = {} /\ IsInjective(<<>>)
    BY Short DEF Silence, Said, IsInjective
  <2>2. response' = Silence /\ shown' = <<>>
    BY <1>1, <1>3
  <2> QED
    BY <1>1, <1>3, <1>4, <2>1, <2>2 DEF Inductive, StreamShape
<1>8. Prompted' /\ RanShape'
  BY <1>1, <1>2 DEF Inductive, Prompted, RanShape
<1>9. RecordShape'
  BY <1>1, <1>2, RecordsKept DEF Inductive, InHand
<1> QED
  BY <1>5, <1>6, <1>7, <1>8, <1>9 DEF Inductive
-------------------------------------------------------------------------------
(***************************************************************************)
(* What the model said                                                     *)
(***************************************************************************)
\* A reply is recorded while the model speaks: it is the first of its turn.
LEMMA ReplyAdded ==
  ASSUME TypeOK, Inductive, pc \in {"stream", "backoff"}, NEW r \in Message,
         r.kind \in {"turn", "partial"}, r.turn = turn.no, Conversation' = Conversation \o <<r>>
  PROVE  /\ Records' = Records \cup {r} /\ Paired' /\ Records \subseteq Message
         /\ \A x \in Records : x.turn <= turn.no
         /\ \A x \in Records : x.turn = turn.no => ~IsReply(x)
         /\ \A x \in Records : x.kind = "turn" /\ outcome \in Good => Answered(x)'
<1>1. /\ Records' = Records \cup {r} /\ Records \subseteq Message
      /\ <<r>> \in Seq(Message) /\ ToSet(<<r>>) = {r}
  BY RecordsGrowByOne, RecordsAre, Short
<1>2. \A x \in Records : x.turn <= turn.no /\ (x.turn = turn.no => ~IsReply(x))
  BY DEF Inductive, RecordShape, TurnsShape
<1>3. \A x : ~Makes(x, r) /\ (x \in Records => ~Makes(r, x))
  BY <1>2 DEF Makes, IsReply
<1>4. (\A i, j \in DOMAIN Conversation : Makes(Conversation[i], Conversation[j]) => i < j)'
  BY <1>1, <1>3, OrderGrows DEF Inductive, RecordShape, Paired
<1>5. Paired'
  <2>1. \A x \in Records : x.kind = "result" /\ Told(x) => Called(x, Conversation)
    BY DEF Inductive, RecordShape, Paired
  <2>2. \A x : Called(x, Conversation) => Called(x, Conversation')
    BY <1>1 DEF Called, Records
  <2>3. \A x \in Records' : x.kind = "result" /\ Told(x) => Called(x, Conversation')
    BY <1>1, <2>1, <2>2
  <2> QED
    BY <1>4, <2>3 DEF Paired
<1>6. ~InHand
  BY DEF InHand, Inductive, Shape
<1>7. \A x \in Records : x.kind = "turn" /\ outcome \in Good => Answered(x)'
  BY <1>1, <1>6 DEF Inductive, RecordShape, Settled, Answered, Good
<1> QED
  BY <1>1, <1>2, <1>5, <1>7

\* What was said of an interrupted turn is kept.
LEMMA PartialKeeps ==
  ASSUME TypeOK, Inductive, Stopping, pc \in {"stream", "backoff"}, PartialResult # <<>>,
         UNCHANGED shown \/ ClosedEarly, UNCHANGED withdrawn,
         Park(<<Record("partial", turn.no, PartialResult, {})>>)
  PROVE  TypeOK' /\ Inductive'
<1> DEFINE r == Record("partial", turn.no, PartialResult, {})
<1>1. /\ response.text \in Seq(Chunk) /\ PartialResult = response.text
      /\ shown \in Seq(Chunk) /\ turn.no \in 0 .. MaxTurns
  BY DEF TypeOK, Response, PartialResult
<1>2. /\ pc = "stream" /\ shown = response.text
      /\ \A c \in ToSet(response.text) : c.attempt \notin withdrawn
  <2>1. pc = "stream"
    BY <1>1 DEF Inductive, StreamShape, Silence
  <2>2. withdrawn \subseteq Nat /\ attempt \in Nat
    BY DEF TypeOK
  <2>3. \A c \in ToSet(response.text) : c.attempt = attempt
    BY <2>1 DEF Inductive, StreamShape, Said
  <2>4. shown = response.text /\ \A a \in withdrawn : a < attempt
    BY <2>1 DEF Inductive, StreamShape
  <2> QED
    BY <2>1, <2>2, <2>3, <2>4
<1>3. r \in Message /\ <<r>> \in Seq(Message) /\ r.calls = {}
      /\ r.kind = "partial" /\ r.turn = turn.no /\ r.text = response.text
  BY <1>1 DEF Record, Message, Kind
<1>4. End("parked") /\ CommitWith(<<r>>)
  BY DEF Park
<1> HIDE DEF r
<1>5. /\ memory' \in Seq(Message) /\ staged' = <<>> /\ staged' \in Seq(Message)
      /\ committed' = TRUE /\ Conversation' = Conversation \o <<r>> /\ Launches'
      /\ intent' \in Intent /\ launched' \in Launched
  BY <1>3, <1>4, CommitFacts DEF Inductive
<1>6. /\ TypeOK' /\ StreamShape' /\ Prompted' /\ RanShape'
      /\ InHand' = pending /\ turn' = turn /\ pending' = pending
      /\ pc' = "none" /\ step' = "ended" /\ outcome' = "parked"
  BY <1>4, <1>5, StoppingKeeps
<1>7. Shape'
  BY <1>5, <1>6 DEF Inductive, Shape
<1>8. IsPrefix(response.text, shown')
  <2>1. CASE shown' = shown
    BY <1>2, <2>1 DEF IsPrefix
  <2>2. CASE ClosedEarly
    <3>1. /\ Deliver("text") \in Chunk /\ IsText(Deliver("text"))
          /\ shown' = Show(Deliver("text"))
      BY <2>2, Delivered DEF ClosedEarly
    <3>2. shown' = Append(shown, Deliver("text"))
      BY <3>1 DEF Show
    <3> QED
      BY <1>1, <1>2, <3>1, <3>2, Shows
  <2> QED
    BY <2>1, <2>2
<1>9. /\ Records' = Records \cup {r} /\ Paired' /\ Records \subseteq Message
      /\ \A x \in Records : x.turn <= turn.no
      /\ \A x \in Records : x.turn = turn.no => ~IsReply(x)
  BY <1>3, <1>5, ReplyAdded
<1>10. TurnsShape'
  BY <1>1, <1>3, <1>6, <1>9 DEF TurnsShape
<1>11. SaidIsShown'
  <2>1. \A x \in Records : ~(x.turn = turn.no /\ x.kind \in {"turn", "partial"})
    BY <1>9 DEF IsReply
  <2>2. \A c \in ToSet(r.text) \cup r.calls : c.attempt \notin withdrawn
    BY <1>1, <1>2, <1>3
  <2> QED
    BY <1>3, <1>6, <1>8, <1>9, <2>1, <2>2 DEF SaidIsShown
<1>12. HandShape' /\ Settled'
  BY <1>2, <1>6 DEF HandShape, Settled, Inductive, Shape
<1> QED
  BY <1>5, <1>6, <1>7, <1>9, <1>10, <1>11, <1>12 DEF Inductive, RecordShape

\* Stopped while the model is asked.
LEMMA StopStreamKeeps ==
  ASSUME TypeOK, Inductive, StopStream
  PROVE  TypeOK' /\ Inductive'
<1>1. /\ pc \in {"stream", "backoff"} /\ UNCHANGED withdrawn
      /\ UNCHANGED shown \/ ClosedEarly
  BY DEF StopStream
<1>2. shown' \in Seq(Chunk)
  <2>1. CASE UNCHANGED shown
    BY <2>1 DEF TypeOK
  <2>2. CASE ClosedEarly
    <3>1. Deliver("text") \in Chunk /\ shown' = Show(Deliver("text"))
      BY <2>2, Delivered DEF ClosedEarly
    <3>2. shown \in Seq(Chunk)
      BY DEF TypeOK
    <3> QED
      BY <3>1, <3>2 DEF Show
  <2> QED
    BY <1>1, <2>1, <2>2
<1>3. Stopping
  BY <1>1, <1>2 DEF StopStream, Stopping, TypeOK, Inductive, StreamShape, RanShape
<1>4. CASE Discard
  BY <1>3, <1>4, DiscardKeeps
<1>5. CASE Cancelled
  BY <1>3, <1>5, EndKeeps DEF Cancelled
<1>6. CASE Park(Kept)
  <2>1. CASE PartialResult = <<>>
    BY <1>3, <1>6, <2>1, ParkKeeps DEF Kept
  <2>2. CASE PartialResult # <<>>
    BY <1>1, <1>3, <1>6, <2>2, PartialKeeps DEF Kept
  <2> QED
    BY <2>1, <2>2
<1> QED
  BY <1>4, <1>5, <1>6 DEF StopStream, Interrupt

\* The turn the model has spoken is a record like any other, and what was shown; memory has
\* it without its delegations.
LEMMA WholeFacts ==
  ASSUME TypeOK, Inductive, pc = "stream"
  PROVE  /\ Whole \in Message /\ Stored(Whole) \in Message /\ Stored(Stored(Whole)) = Stored(Whole)
         /\ <<Whole>> \in Seq(Message) /\ <<Stored(Whole)>> \in Seq(Message)
         /\ Told(Whole) /\ Told(Stored(Whole))
         /\ Stored(Whole).kind = "turn" /\ Stored(Whole).turn = turn.no
         /\ Stored(Whole).text = shown /\ Stored(Whole).calls = Recorded(response.calls)
         /\ \A c \in ToSet(Stored(Whole).text) \cup Stored(Whole).calls : c.attempt \notin withdrawn
         /\ ~pending /\ turn.no \in 0 .. MaxTurns /\ results = <<>>
         /\ response.calls \in Seq(Chunk) /\ IsInjective(response.calls)
<1>1. /\ response.text \in Seq(Chunk) /\ response.calls \in Seq(Chunk) /\ turn.no \in 0 .. MaxTurns
      /\ withdrawn \subseteq Nat /\ attempt \in Nat
  BY DEF TypeOK, Response
<1>2. /\ ~pending /\ shown = response.text /\ results = <<>> /\ IsInjective(response.calls)
      /\ attempt \notin withdrawn
      /\ \A c \in ToSet(response.text) \cup ToSet(response.calls) : c.attempt = attempt
  BY <1>1 DEF Inductive, StreamShape, Shape, Said
<1>3. ToSet(response.calls) \subseteq Chunk
  BY <1>1 DEF ToSet
<1>4. /\ Whole \in Message /\ Whole.kind = "turn" /\ Whole.turn = turn.no
      /\ Whole.text = response.text /\ Whole.calls = ToSet(response.calls)
  BY <1>1, <1>3 DEF Whole, Record, Message, Kind
<1>5. /\ Stored(Whole) \in Message /\ Stored(Stored(Whole)) = Stored(Whole)
      /\ Stored(Whole).kind = "turn" /\ Stored(Whole).turn = turn.no
      /\ Stored(Whole).text = response.text /\ Stored(Whole).calls = Recorded(response.calls)
      /\ Told(Whole) /\ Told(Stored(Whole))
  BY <1>4, StoredFacts DEF Recorded
<1>6. <<Whole>> \in Seq(Message) /\ <<Stored(Whole)>> \in Seq(Message)
  BY <1>4, <1>5
<1> QED
  BY <1>1, <1>2, <1>4, <1>5, <1>6 DEF Recorded

\* With the turn's record, the records of its kind are what was shown.
LEMMA WholeAdded ==
  ASSUME TypeOK, Inductive, pc = "stream", Conversation' = Conversation \o <<Stored(Whole)>>,
         turn'.no = turn.no, UNCHANGED <<shown, withdrawn>>, pc' \notin {"stream", "backoff"}
  PROVE  TurnsShape' /\ SaidIsShown' /\ Paired'
<1> DEFINE r == Stored(Whole)
<1>1. /\ r \in Message /\ r.kind = "turn" /\ r.turn = turn.no /\ r.text = shown
      /\ \A c \in ToSet(r.text) \cup r.calls : c.attempt \notin withdrawn
      /\ turn.no \in 0 .. MaxTurns
  BY WholeFacts
<1> HIDE DEF r
<1>2. /\ Records' = Records \cup {r} /\ Paired'
      /\ \A x \in Records : x.turn <= turn.no
      /\ \A x \in Records : x.turn = turn.no => ~IsReply(x)
  BY <1>1, ReplyAdded DEF r
<1>3. TurnsShape'
  BY <1>1, <1>2 DEF TurnsShape
<1>4. SaidIsShown'
  BY <1>1, <1>2 DEF SaidIsShown, IsReply
<1> QED
  BY <1>2, <1>3, <1>4

\* Prose alone ends the work of the run.
LEMMA AnswerInProseKeeps ==
  ASSUME TypeOK, Inductive, AnswerInProse
  PROVE  TypeOK' /\ Inductive'
<1> DEFINE r == Stored(Whole)
<1>1. /\ pc = "stream" /\ response.calls = <<>> /\ CommitWith(<<r>>)
      /\ \/ End("parked")
         \/ step' = "observe" /\ pc' = "none" /\ UNCHANGED outcome
      /\ tail' = tail \o <<Whole>>
      /\ UNCHANGED <<conf, count, noop, after, turn, pending, flag, base, results, attempt, response,
                     shown, withdrawn, ran>>
  BY DEF AnswerInProse, StreamEnds, FinishInProse, Appended, LeaveFor, stream
<1>w. /\ r \in Message /\ <<r>> \in Seq(Message) /\ <<Whole>> \in Seq(Message) /\ ~pending
      /\ r.kind = "turn" /\ r.turn = turn.no /\ r.calls = {} /\ results = <<>>
  BY <1>1, WholeFacts, Short DEF Recorded
<1> HIDE DEF r
<1>2. /\ memory' \in Seq(Message) /\ staged' = <<>> /\ staged' \in Seq(Message)
      /\ committed' = TRUE /\ Conversation' = Conversation \o <<r>> /\ Launches'
      /\ intent' \in Intent /\ launched' \in Launched
  BY <1>1, <1>w, CommitFacts DEF Inductive
<1>3. tail' \in Seq(Message)
  BY <1>1, <1>w, StoreTypes
<1>4. TypeOK'
  BY <1>1, <1>2, <1>3 DEF TypeOK, End
<1>5. /\ pc' = "none" /\ ~pending /\ pending' = pending /\ step' # "act"
      /\ step' = "ended" <=> outcome' # "none"
      /\ outcome = "none" /\ outcome' \in {"none", "parked"} /\ step' \in {"observe", "ended"}
  BY <1>1, <1>w DEF End, Inductive, Shape
<1>6. Shape'
  BY <1>1, <1>w, <1>2, <1>5 DEF Shape
<1>7. StreamShape' /\ Prompted'
  BY <1>1, <1>5 DEF Inductive, StreamShape, Prompted
<1>8. RanShape'
  BY <1>1, <1>5 DEF Inductive, RanShape
<1>9. TurnsShape' /\ SaidIsShown' /\ Paired'
  BY <1>1, <1>2, <1>5, WholeAdded DEF r
<1>10. HandShape'
  BY <1>5 DEF HandShape, InHand
<1>11. Settled'
  <2>1. /\ Records' = Records \cup {r}
        /\ \A x \in Records : x.kind = "turn" => Answered(x)'
    BY <1>1, <1>w, <1>2, <1>5, ReplyAdded DEF Good
  <2>2. \A x : x.calls = {} => Answered(x)'
    BY DEF Answered
  <2>3. \A x \in Records' : x.kind = "turn" => Answered(x)'
    BY <1>w, <2>1, <2>2
  <2> QED
    BY <2>3 DEF Settled
<1> QED
  BY <1>2, <1>4, <1>6, <1>7, <1>8, <1>9, <1>10, <1>11 DEF Inductive, RecordShape

\* The turn has calls: it is recorded before they run, and now in hand.
LEMMA AnswerWithCallsKeeps ==
  ASSUME TypeOK, Inductive, AnswerWithCalls
  PROVE  TypeOK' /\ Inductive'
<1> DEFINE r == Stored(Whole)
<1>1. /\ pc = "stream" /\ response.calls # <<>>
      /\ turn' = [turn EXCEPT !.calls = response.calls]
      /\ tail' = tail \o <<Whole>>
      /\ UNCHANGED <<conf, count, noop, after, flag, results, attempt, response, shown, withdrawn,
                     ran>>
  BY DEF AnswerWithCalls, StreamEnds, Appended, stream
<1>w. /\ r \in Message /\ <<r>> \in Seq(Message) /\ Whole \in Message /\ <<Whole>> \in Seq(Message)
      /\ r.kind = "turn" /\ r.turn = turn.no /\ r.calls = Recorded(response.calls)
      /\ results = <<>> /\ response.calls \in Seq(Chunk) /\ IsInjective(response.calls)
      /\ Told(Whole) /\ Told(r) /\ Stored(r) = Stored(Whole)
  BY <1>1, WholeFacts
<1>2. /\ ran = <<>> /\ ~pending /\ step = "act" /\ outcome = "none" /\ IsInjective(ran)
  BY <1>1, WholeFacts DEF Inductive, RanShape, Shape
<1>3. turn'.no = turn.no /\ turn'.calls = response.calls
      /\ turn' \in [no : 0 .. MaxTurns, calls : Seq(Chunk)]
  <2>1. turn \in [no : 0 .. MaxTurns, calls : Seq(Chunk)]
    BY DEF TypeOK
  <2> QED
    BY <1>1, <1>w, <2>1
<1>4. tail' \in Seq(Message) /\ Conversation \in Seq(Message)
      /\ base \in Seq(Message) /\ tail \in Seq(Message)
  BY <1>1, <1>w, StoreTypes
<1>5. \/ /\ Ingest(<<r>>) /\ pc' = "tools" /\ UNCHANGED <<step, pending, base, outcome>>
      \/ /\ CommitWith(<<r>>) /\ pending' = TRUE /\ base' = <<>>
         /\ step' = "compact" /\ pc' = "none" /\ UNCHANGED outcome
  BY DEF AnswerWithCalls, KeepTurn, LeaveFor
<1> HIDE DEF r
<1>6. /\ memory' \in Seq(Message) /\ staged' \in Seq(Message)
      /\ Conversation' = Conversation \o <<r>> /\ Launches' /\ committed' \in BOOLEAN
      /\ intent' \in Intent /\ launched' \in Launched
      /\ committed' => staged' = <<>>
      /\ ~committed' => memory' = <<>>
      /\ pc' = "none" => committed'
  <2>1. CASE Ingest(<<r>>) /\ pc' = "tools"
    <3>1. Shape /\ Launches /\ committed \in BOOLEAN /\ intent \in Intent /\ launched \in Launched
      BY DEF Inductive, TypeOK
    <3> QED
      BY <1>4, <1>w, <2>1, <3>1, IngestFacts
  <2>2. CASE CommitWith(<<r>>)
    BY <1>4, <1>w, <2>2, CommitFacts DEF Inductive
  <2> QED
    BY <1>5, <2>1, <2>2
<1>7. TypeOK'
  <2>1. base' = base \/ base' = <<>>
    BY <1>5
  <2>2. step' \in {"act", "compact"} /\ outcome' = outcome
        /\ pc' \in {"tools", "none"} /\ pending' \in BOOLEAN
    BY <1>2, <1>5 DEF TypeOK
  <2>3. <<>> \in Seq(Message)
    OBVIOUS
  <2>4. base' \in Seq(Message)
    BY <1>4, <2>1, <2>3
  <2> QED
    BY <1>1, <1>3, <1>4, <1>6, <2>2, <2>4 DEF TypeOK
<1>8. Shape'
  BY <1>1, <1>w, <1>2, <1>5, <1>6 DEF Shape
<1>9. StreamShape'
  BY <1>1, <1>3, <1>5 DEF Inductive, StreamShape
<1>10. Prompted'
  <2>1. CASE step' = "act"
    <3>1. base' = base /\ results' = <<>> /\ Alike(base \o tail, Conversation)
      <4>1. Alike((base \o tail) \o <<>>, Conversation)
        BY <1>w, <1>2 DEF Inductive, Prompted, Request
      <4> QED
        BY <1>1, <1>w, <1>4, <1>5, <2>1, <4>1, ConcatEmptySeq
    <3>2. (Request \o results)' = Append(base \o tail, Whole)
      <4>1. base \o tail \in Seq(Message) /\ base \o tail' \in Seq(Message)
        BY <1>4
      <4>2. base \o tail' = (base \o tail) \o <<Whole>>
        BY <1>1, <1>w, <1>4, ConcatAssociative
      <4>3. (base \o tail) \o <<Whole>> = Append(base \o tail, Whole)
        BY <1>w, <4>1, GrowByOne
      <4> QED
        BY <3>1, <4>1, <4>2, <4>3, ConcatEmptySeq DEF Request
    <3>3. Conversation' = Append(Conversation, r)
      BY <1>4, <1>6, <1>w, GrowByOne
    <3>4. Alike(Append(base \o tail, Whole), Append(Conversation, r))
      <4>1. base \o tail \in Seq(Message)
        BY <1>4
      <4> QED
        BY <1>4, <1>w, <3>1, <4>1, AlikeGrows
    <3> QED
      BY <3>2, <3>3, <3>4 DEF Prompted
  <2> QED
    BY <2>1 DEF Prompted
<1>11. RanShape'
  <2>1. SubSeq(response.calls, 1, 0) = <<>> /\ 0 <= Len(response.calls)
    BY <1>w
  <2> QED
    BY <1>1, <1>w, <1>2, <1>3, <2>1 DEF RanShape
<1>12. TurnsShape' /\ SaidIsShown' /\ Paired'
  BY <1>1, <1>3, <1>5, <1>6, WholeAdded DEF r
<1>13. /\ Records' = Records \cup {r}
       /\ \A x \in Records : x.turn = turn.no => ~IsReply(x)
       /\ \A x \in Records : x.kind = "turn" => Answered(x)'
  BY <1>1, <1>w, <1>2, <1>6, ReplyAdded DEF Good
<1>14. InHand'
  BY <1>5 DEF InHand
<1>15. HandShape'
  <2>1. results' = <<>>
    BY <1>1, <1>w
  <2> QED
    BY <1>1, <1>w, <1>3, <1>13, <2>1 DEF HandShape, IsReply
<1>16. Settled'
  <2>1. SUFFICES ASSUME NEW t \in Records', t.kind = "turn"
                 PROVE  (InHand' /\ t.turn = turn'.no) \/ Answered(t)'
    BY DEF Settled
  <2>2. CASE t = r
    BY <1>w, <1>3, <1>14, <2>2
  <2>3. CASE t \in Records
    BY <1>13, <2>1, <2>3
  <2> QED
    BY <1>13, <2>2, <2>3
<1> QED
  BY <1>6, <1>7, <1>8, <1>9, <1>10, <1>11, <1>12, <1>15, <1>16 DEF Inductive, RecordShape
-------------------------------------------------------------------------------
(***************************************************************************)
(* The calls                                                               *)
(***************************************************************************)
\* The call that is next.
Due == turn.calls[Len(results) + 1]

\* What is left of the calls in hand.
LEMMA LeftIs ==
  ASSUME TypeOK, Inductive, pc = "tools"
  PROVE  /\ turn.calls \in Seq(Chunk) /\ Len(results) \in Nat /\ Len(turn.calls) \in Nat
         /\ Left = <<>> => Len(results) = Len(turn.calls)
         /\ Left # <<>> => Len(results) < Len(turn.calls) /\ Head(Left) = Due
         /\ Left \in Seq(Chunk) /\ \A c \in ToSet(Left) : c \in ToSet(turn.calls)
<1> DEFINE n == Len(results)
           m == Len(turn.calls)
           s == turn.calls
<1>1. s \in Seq(Chunk) /\ n \in Nat /\ m \in Nat /\ n <= m /\ DOMAIN s = 1 .. m
  BY DEF TypeOK, Inductive, RanShape
<1>2. Left = SubSeq(s, n + 1, m)
  BY DEF Left
<1> HIDE DEF n, m, s
<1>3. Left \in Seq(Chunk) /\ Len(Left) = m - n /\ \A i \in 1 .. m - n : Left[i] = s[n + i]
  <2>1. \A i \in n + 1 .. m : s[i] \in Chunk
    BY <1>1
  <2>2. n + 1 \in Int /\ m \in Int
    BY <1>1
  <2>3. /\ Left \in Seq(Chunk)
        /\ Len(Left) = (IF n + 1 <= m THEN m - (n + 1) + 1 ELSE 0)
        /\ \A i \in 1 .. m - (n + 1) + 1 : Left[i] = s[(n + 1) + i - 1]
    BY <1>2, <2>1, <2>2, SubSeqProperties
  <2>4. /\ m - (n + 1) + 1 = m - n
        /\ (IF n + 1 <= m THEN m - (n + 1) + 1 ELSE 0) = m - n
        /\ \A i \in 1 .. m - n : (n + 1) + i - 1 = n + i
    BY <1>1
  <2> QED
    BY <2>3, <2>4
<1>4. ASSUME Left = <<>> PROVE n = m
  <2>1. Len(Left) = 0
    BY <1>4
  <2>2. m - n = 0
    BY <1>3, <2>1
  <2> QED
    BY <1>1, <2>2
<1>5. ASSUME Left # <<>> PROVE n < m /\ Head(Left) = s[n + 1]
  <2>1. m - n # 0
    BY <1>3, <1>5, EmptySeq
  <2>2. n < m /\ 1 \in 1 .. m - n
    BY <1>1, <2>1
  <2>3. Head(Left) = Left[1]
    BY <1>3, <1>5
  <2> QED
    BY <1>3, <2>2, <2>3
<1>6. ASSUME NEW c \in ToSet(Left) PROVE c \in ToSet(s)
  <2>1. PICK i \in DOMAIN Left : c = Left[i]
    BY DEF ToSet
  <2>2. i \in 1 .. m - n
    BY <1>3
  <2>3. n + i \in DOMAIN s /\ c = s[n + i]
    BY <1>1, <1>3, <2>1, <2>2
  <2> QED
    BY <2>3 DEF ToSet
<1> QED
  BY <1>1, <1>3, <1>4, <1>5, <1>6 DEF n, m, s, Due

\* The next call is one of the turn, and has not run.
LEMMA DueIs ==
  ASSUME TypeOK, Inductive, pc = "tools", Left # <<>>
  PROVE  /\ Due \in Chunk /\ Due \in ToSet(turn.calls) /\ Head(Left) = Due
         /\ Result(Due) \in Message /\ <<Result(Due)>> \in Seq(Message)
         /\ Append(results, Result(Due)) \in Seq(Message)
         /\ Len(Append(results, Result(Due))) = Len(results) + 1
         /\ ~Misused => /\ Append(ran, Due) = SubSeq(turn.calls, 1, Len(results) + 1)
                        /\ Append(ran, Due) \in Seq(Chunk) /\ IsInjective(Append(ran, Due))
<1>1. /\ turn.calls \in Seq(Chunk) /\ Len(results) \in Nat
      /\ Len(results) < Len(turn.calls) /\ Head(Left) = Due
  BY LeftIs
<1>2. IsInjective(turn.calls) /\ ran \in Seq(Chunk)
      /\ (~Misused => ran = SubSeq(turn.calls, 1, Len(results)))
  BY DEF TypeOK, Inductive, RanShape
<1>3. /\ Due \in Chunk /\ Due \in ToSet(turn.calls)
      /\ SubSeq(turn.calls, 1, Len(results) + 1) = Append(SubSeq(turn.calls, 1, Len(results)), Due)
      /\ IsInjective(SubSeq(turn.calls, 1, Len(results) + 1))
  BY <1>1, <1>2, FirstOnes DEF Due
<1>4. Result(Due) \in Message
  <2>1. turn.no \in 0 .. MaxTurns
    BY DEF TypeOK
  <2> QED
    BY <1>3, <2>1 DEF Result, Record, Message, Kind
<1>5. results \in Seq(Message)
  BY StoreTypes
<1>6. /\ Append(results, Result(Due)) \in Seq(Message) /\ <<Result(Due)>> \in Seq(Message)
      /\ Len(Append(results, Result(Due))) = Len(results) + 1
  BY <1>4, <1>5, GrowByOne
<1>7. Append(ran, Due) \in Seq(Chunk)
  BY <1>2, <1>3
<1> QED
  BY <1>1, <1>2, <1>3, <1>4, <1>6, <1>7

\* The results of what is left.
LEMMA ResultsOfLeft ==
  ASSUME TypeOK, Inductive, pc = "tools"
  PROVE  /\ ResultsOf(Left) \in Seq(Message)
         /\ \A r \in ToSet(ResultsOf(Left)) : \E c \in ToSet(turn.calls) : r = Result(c)
<1>1. Left \in Seq(Chunk) /\ \A c \in ToSet(Left) : c \in ToSet(turn.calls)
  BY LeftIs
<1>2. turn.no \in 0 .. MaxTurns
  BY DEF TypeOK
<1> DEFINE s == Left
<1>3. \A i \in DOMAIN s : s[i] \in Chunk /\ s[i] \in ToSet(s)
  BY <1>1 DEF ToSet
<1> HIDE DEF s
<1>4. \A i \in DOMAIN s : Result(s[i]) \in Message
  BY <1>2, <1>3 DEF Result, Record, Message, Kind
<1>5. s \in Seq(Chunk) /\ DOMAIN s = 1 .. Len(s) /\ Len(s) \in Nat
  BY <1>1 DEF s
<1>6. ResultsOf(s) \in Seq(Message) /\ DOMAIN ResultsOf(s) = DOMAIN s
      /\ \A i \in DOMAIN s : ResultsOf(s)[i] = Result(s[i])
  BY <1>4, <1>5 DEF ResultsOf
<1>7. \A r \in ToSet(ResultsOf(s)) : \E c \in ToSet(s) : r = Result(c)
  BY <1>3, <1>6 DEF ToSet
<1> QED
  BY <1>1, <1>6, <1>7 DEF s

\* With results of the calls in hand, what was to be said of the records still is.
LEMMA ResultAdded ==
  ASSUME TypeOK, Inductive, pc = "tools", NEW new \in Seq(Message),
         \A r \in ToSet(new) : \E c \in ToSet(turn.calls) : r = Result(c),
         Conversation' = Conversation \o new, turn' = turn,
         UNCHANGED <<shown, withdrawn>>, pc' \notin {"stream", "backoff"},
         InHand' \/ outcome' \notin Good,
         pc' = "tools" => \A i \in 1 .. Len(results') :
                            ~IsDelegated(turn.calls[i]) => Result(turn.calls[i]) \in Records'
  PROVE  RecordShape'
<1>1. /\ Records' = Records \cup ToSet(new) /\ Records \subseteq Message
      /\ turn.no \in 0 .. MaxTurns
  BY RecordsGrow, RecordsAre DEF TypeOK
<1>2. \A r \in ToSet(new) : r.kind = "result" /\ r.turn = turn.no
  BY DEF Result, Record
<1>3. /\ turn.calls # <<>> /\ \E t \in Records : t.kind = "turn" /\ t.turn = turn.no
      /\ \A t \in Records : t.kind = "turn" /\ t.turn = turn.no => t.calls = Recorded(turn.calls)
  BY DEF Inductive, RecordShape, HandShape, InHand
<1>4. TurnsShape'
  <2>1. turn.no \in Nat
    BY <1>1
  <2> QED
    BY <1>1, <1>2, <2>1 DEF Inductive, RecordShape, TurnsShape
<1>5. SaidIsShown'
  BY <1>1, <1>2 DEF Inductive, RecordShape, SaidIsShown
<1>6. Paired'
  <2>1. \A x \in ToSet(new) : \A y : ~Makes(x, y)
    BY <1>2 DEF Makes
  <2>2. (\A i, j \in DOMAIN Conversation : Makes(Conversation[i], Conversation[j]) => i < j)'
    BY <2>1, OrderGrows DEF Inductive, RecordShape, Paired
  <2>3. ASSUME NEW r \in ToSet(new), Told(r) PROVE Called(r, Conversation)
    <3>1. PICK c \in ToSet(turn.calls) : r = Result(c)
      OBVIOUS
    <3>2. r.calls = {c} /\ r.kind = "result" /\ r.turn = turn.no
      BY <3>1 DEF Result, Record
    <3>3. r.calls \subseteq Recorded(turn.calls)
      BY <2>3, <3>2 DEF Told, Recorded
    <3> QED
      BY <1>3, <3>2, <3>3 DEF Called, Records
  <2>4. \A x \in Records : x.kind = "result" /\ Told(x) => Called(x, Conversation)
    BY DEF Inductive, RecordShape, Paired
  <2>5. \A x : Called(x, Conversation) => Called(x, Conversation')
    BY <1>1 DEF Called, Records
  <2>6. \A x \in Records' : x.kind = "result" /\ Told(x) => Called(x, Conversation')
    BY <1>1, <2>3, <2>4, <2>5
  <2> QED
    BY <2>2, <2>6 DEF Paired
<1>7. HandShape'
  <2>1. \A c : Result(c)' = Result(c)
    BY DEF Result
  <2> QED
    BY <1>1, <1>2, <1>3, <2>1 DEF HandShape
<1>8. Settled'
  <2>1. SUFFICES ASSUME outcome' \in Good, NEW t \in Records, t.kind = "turn"
                 PROVE  (InHand' /\ t.turn = turn.no) \/ Answered(t)'
    BY <1>1, <1>2 DEF Settled, Good
  <2>2. CASE t.turn # turn.no
    <3>1. outcome = "none"
      BY DEF Inductive, Shape
    <3>2. Answered(t)
      BY <2>1, <2>2, <3>1 DEF Inductive, RecordShape, Settled
    <3> QED
      BY <1>1, <3>2 DEF Answered
  <2>3. CASE t.turn = turn.no
    BY <2>1, <2>3
  <2> QED
    BY <2>2, <2>3
<1> QED
  BY <1>4, <1>5, <1>6, <1>7, <1>8 DEF RecordShape

\* The next call has its answer: the result goes where the turn went, unless it is one that
\* memory does not have.
LEMMA AnswerGoesOn ==
  ASSUME TypeOK, Inductive, pc = "tools", Left # <<>>, Answers(Due),
         \/ Ingest(<<Result(Due)>>)
         \/ IsDelegated(Due) /\ UNCHANGED <<store, meta>>,
         UNCHANGED <<conf, step, pc, count, noop, after, turn, pending, base, tail, attempt, response,
                     shown, withdrawn, outcome>>,
         flag' \subseteq Kinds,
         \/ Misused /\ ran' = ran
         \/ ~Misused /\ ran' = Append(ran, Due)
  PROVE  TypeOK' /\ Inductive'
<1> DEFINE r == Result(Due)
           n == Len(results)
<1>1. /\ Due \in Chunk /\ Due \in ToSet(turn.calls) /\ r \in Message /\ <<r>> \in Seq(Message)
      /\ results' = Append(results, r) /\ results' \in Seq(Message) /\ Len(results') = n + 1
      /\ results \in Seq(Message) /\ Conversation \in Seq(Message) /\ Request \in Seq(Message)
  BY DueIs, StoreTypes DEF Answers
<1>2. /\ turn.calls \in Seq(Chunk) /\ n \in Nat /\ n < Len(turn.calls) /\ Len(turn.calls) \in Nat
  BY LeftIs
<1>d. Due = turn.calls[n + 1]
  BY DEF Due
<1>r. r.kind = "result" /\ r.calls = {Due} /\ (Told(r) <=> ~IsDelegated(Due))
  BY DEF Result, Record, Told
<1> HIDE DEF r, n
<1>3. PICK new \in {<<>>, <<r>>} :
        /\ Conversation' = Conversation \o new /\ (new = <<>> => IsDelegated(Due))
        /\ memory' \in Seq(Message) /\ staged' \in Seq(Message) /\ committed' = committed
        /\ Launches' /\ intent' = intent /\ launched' = launched
        /\ committed => staged' = <<>>
        /\ ~committed => memory' = <<>>
  <2>1. CASE Ingest(<<Result(Due)>>)
    <3>1. Ingest(<<r>>) /\ Shape /\ Launches
      BY <2>1 DEF r, Inductive
    <3>2. /\ memory' \in Seq(Message) /\ staged' \in Seq(Message) /\ committed' = committed
          /\ Conversation' = Conversation \o <<r>> /\ Launches'
          /\ intent' = intent /\ launched' = launched
          /\ committed => staged' = <<>>
          /\ ~committed => memory' = <<>>
      BY <1>1, <3>1, IngestFacts
    <3> QED
      BY <3>2
  <2>2. CASE IsDelegated(Due) /\ UNCHANGED <<store, meta>>
    <3>1. /\ memory' = memory /\ staged' = staged /\ committed' = committed
          /\ intent' = intent /\ launched' = launched
      BY <2>2 DEF store, meta
    <3>2. Conversation' = Conversation \o <<>>
      BY <1>1, <3>1, ConcatEmptySeq DEF Conversation
    <3> QED
      BY <2>2, <3>1, <3>2, StoreTypes DEF Inductive, Shape, Launches
  <2> QED
    BY <2>1, <2>2
<1>4. new \in Seq(Message) /\ ToSet(new) \subseteq {r}
  <2>1. CASE new = <<>>
    BY <2>1, Short
  <2>2. CASE new = <<r>>
    BY <1>1, <2>2, Short
  <2> QED
    BY <1>3, <2>1, <2>2
<1>5. TypeOK'
  <2>1. ran' \in Seq(Chunk)
    BY DueIs DEF TypeOK
  <2> QED
    BY <1>1, <1>3, <2>1 DEF TypeOK
<1>6. Shape'
  BY <1>3 DEF Inductive, Shape
<1>7. StreamShape'
  BY DEF Inductive, StreamShape
<1>8. Prompted'
  <2>1. (Request \o results)' = Append(Request \o results, r)
    <3>1. Request' = Request
      BY DEF Request
    <3>2. Request \o Append(results, r) = Append(Request \o results, r)
      BY <1>1
    <3> QED
      BY <1>1, <3>1, <3>2
  <2>2. Alike(Request \o results, Conversation) /\ Request \o results \in Seq(Message)
    BY <1>1 DEF Inductive, Prompted, Shape
  <2>3. CASE new = <<r>>
    <3>1. Conversation' = Append(Conversation, r)
      BY <1>1, <1>3, <2>3, GrowByOne
    <3>2. Alike(Append(Request \o results, r), Append(Conversation, r))
      BY <1>1, <2>2, AlikeGrows
    <3> QED
      BY <2>1, <3>1, <3>2 DEF Prompted
  <2>4. CASE new = <<>>
    <3>1. Conversation' = Conversation
      BY <1>1, <1>3, <2>4, ConcatEmptySeq
    <3>2. Alike(Append(Request \o results, r), Conversation)
      BY <1>1, <1>3, <1>r, <2>2, <2>4, AlikeApart
    <3> QED
      BY <2>1, <3>1, <3>2 DEF Prompted
  <2> QED
    BY <1>3, <2>3, <2>4
<1>9. RanShape'
  <2>1. Misused' = Misused
    BY DEF Misused
  <2>2. Len(results') = n + 1 /\ n + 1 <= Len(turn.calls)
    BY <1>1, <1>2
  <2>3. ~Misused => ran' = SubSeq(turn.calls, 1, n + 1) /\ IsInjective(ran')
    BY DueIs DEF n
  <2> QED
    BY <2>1, <2>2, <2>3 DEF Inductive, RanShape
<1>10. RecordShape'
  <2>1. \A x \in ToSet(new) : \E c \in ToSet(turn.calls) : x = Result(c)
    BY <1>1, <1>4 DEF r
  <2>2. Records' = Records \cup ToSet(new)
    BY <1>3, <1>4, RecordsGrow
  <2>3. ASSUME NEW i \in 1 .. Len(results'), ~IsDelegated(turn.calls[i])
        PROVE  Result(turn.calls[i]) \in Records'
    <3>1. CASE i = n + 1
      <4>1. new = <<r>> /\ Result(turn.calls[i]) = r
        BY <1>3, <1>d, <2>3, <3>1 DEF r
      <4> QED
        BY <2>2, <4>1, Short
    <3>2. CASE i # n + 1
      <4>1. i \in 1 .. Len(results)
        BY <1>1, <1>2, <3>2 DEF n
      <4> QED
        BY <2>2, <2>3, <4>1 DEF Inductive, RecordShape, HandShape
    <3> QED
      BY <3>1, <3>2
  <2>4. InHand' /\ pc' \notin {"stream", "backoff"}
    BY DEF InHand
  <2> QED
    BY <1>3, <1>4, <2>1, <2>3, <2>4, ResultAdded
<1> QED
  BY <1>3, <1>5, <1>6, <1>7, <1>8, <1>9, <1>10 DEF Inductive

\* A switch among other calls is refused.
LEMMA RefuseSwitchKeeps ==
  ASSUME TypeOK, Inductive, RefuseSwitch
  PROVE  TypeOK' /\ Inductive'
<1>1. pc = "tools" /\ Left # <<>> /\ Misused /\ flag' \subseteq Kinds
  BY DEF RefuseSwitch, InTools, TypeOK
<1>2. Head(Left) = Due
  BY <1>1, DueIs
<1> QED
  BY <1>1, <1>2, AnswerGoesOn DEF RefuseSwitch, stream

\* A call runs and has its result.
LEMMA RunCallKeeps ==
  ASSUME TypeOK, Inductive, RunCall
  PROVE  TypeOK' /\ Inductive'
<1>1. /\ pc = "tools" /\ Left # <<>> /\ ~Misused
      /\ UNCHANGED <<conf, step, pc, count, noop, after, turn, pending, base, tail, attempt, response,
                     shown, withdrawn, outcome>>
  BY DEF RunCall, InTools, stream
<1>2. Head(Left) = Due /\ Due \in Chunk
  BY <1>1, DueIs
<1>3. /\ \/ Ingest(<<Result(Due)>>)
         \/ IsDelegated(Due) /\ UNCHANGED <<store, meta>>
      /\ Answers(Due) /\ ran' = Append(ran, Due)
      /\ flag' \in {flag, flag \cup {Due.kind}}
  BY <1>2 DEF RunCall
<1>4. flag' \subseteq Kinds
  BY <1>2, <1>3 DEF TypeOK, Chunk
<1> QED
  BY <1>1, <1>3, <1>4, AnswerGoesOn
\* Stopped at the calls.
LEMMA StopToolsKeeps ==
  ASSUME TypeOK, Inductive, StopTools
  PROVE  TypeOK' /\ Inductive'
<1>1. /\ pc = "tools" /\ Left # <<>> /\ ~Misused /\ ran' \in {ran, Append(ran, Head(Left))}
      /\ UNCHANGED <<conf, count, noop, after, act, attempt, response, shown, withdrawn, turn>>
  BY DEF StopTools, InTools, stream, act
<1>2. ran' \in Seq(Chunk) /\ IsInjective(ran')
  BY <1>1, DueIs DEF TypeOK, Inductive, RanShape
<1>3. Stopping
  BY <1>1, <1>2 DEF Stopping, TypeOK, Inductive, StreamShape
<1>4. CASE Discard
  BY <1>3, <1>4, DiscardKeeps
<1>5. CASE Cancelled
  BY <1>3, <1>5, EndKeeps DEF Cancelled
<1>6. CASE Park(ResultsOf(Left))
  <2>1. CommitWith(ResultsOf(Left)) /\ End("parked")
    BY <1>6 DEF Park
  <2>2. /\ memory' \in Seq(Message) /\ staged' = <<>> /\ staged' \in Seq(Message)
        /\ committed' = TRUE /\ Conversation' = Conversation \o ResultsOf(Left) /\ Launches'
        /\ intent' \in Intent /\ launched' \in Launched
    BY <1>1, <2>1, ResultsOfLeft, CommitFacts DEF Inductive
  <2>3. /\ TypeOK' /\ StreamShape' /\ Prompted' /\ RanShape'
        /\ InHand' = pending /\ turn' = turn /\ pending' = pending
        /\ pc' = "none" /\ step' = "ended" /\ outcome' = "parked"
    BY <1>3, <2>1, <2>2, StoppingKeeps
  <2>4. Shape'
    BY <2>2, <2>3 DEF Inductive, Shape
  <2>5. RecordShape'
    BY <1>1, <2>2, <2>3, ResultsOfLeft, ResultAdded DEF Good
  <2> QED
    BY <2>2, <2>3, <2>4, <2>5 DEF Inductive
<1> QED
  BY <1>4, <1>5, <1>6 DEF StopTools, Interrupt

\* After the last call: the turn has its results, and the run goes on or leaves act.
LEMMA ToolsDoneKeeps ==
  ASSUME TypeOK, Inductive, ToolsDone
  PROVE  TypeOK' /\ Inductive'
<1>1. /\ pc = "tools" /\ Left = <<>> /\ pending' = FALSE
      /\ tail' = tail \o results /\ results' = <<>>
      /\ UNCHANGED <<conf, noop, after, turn, flag, base, attempt, response, shown,
                     withdrawn, ran>>
  BY DEF ToolsDone, InTools, Appended, TurnIsDone, stream
<1>2. step = "act" /\ outcome = "none" /\ Alike(Request \o results, Conversation)
  BY <1>1 DEF Inductive, Shape, Prompted
<1>3. tail' \in Seq(Message) /\ base \in Seq(Message) /\ tail \in Seq(Message)
      /\ results \in Seq(Message) /\ results' \in Seq(Message)
  BY <1>1, StoreTypes
<1>4. \/ /\ pc' = "top"
         /\ UNCHANGED <<step, count, outcome, memory, staged, committed, intent, launched>>
      \/ /\ pc' = "none" /\ Commit /\ count' \in Counts /\ turn.no <= count'.turns
         /\ \/ step' = "ended" /\ outcome' = "switched"
            \/ step' \in {"suspend", "prepare", "observe"} /\ outcome' = outcome
  <2>1. CASE flag = {} /\ pc' = "top" /\ UNCHANGED <<step, count, store, meta, outcome>>
    BY <2>1 DEF store, meta
  <2>2. CASE Exit /\ Commit
    <3>1. /\ pc' = "none"
          /\ count' = count \/ (CanRecover /\ count' = [count EXCEPT !.recoveries = @ + 1])
          /\ \/ step' = "ended" /\ outcome' = "switched"
             \/ step' \in {"suspend", "prepare", "observe"} /\ outcome' = outcome
      BY <2>2 DEF Exit, End, LeaveFor
    <3>2. count \in Counts /\ turn.no <= count.turns /\ MaxRecoveries \in Nat
      BY RunAssumption DEF TypeOK, Inductive, StreamShape
    <3>3. count' \in Counts /\ count'.turns = count.turns
      BY <3>1, <3>2 DEF Counts, CanRecover
    <3> QED
      BY <2>2, <3>1, <3>2, <3>3
  <2> QED
    BY <2>1, <2>2 DEF ToolsDone
<1>5. /\ memory' \in Seq(Message) /\ staged' \in Seq(Message) /\ committed' \in BOOLEAN
      /\ Conversation' = Conversation /\ Launches'
      /\ intent' \in Intent /\ launched' \in Launched
      /\ committed' => staged' = <<>>
      /\ ~committed' => memory' = <<>>
      /\ pc' = "none" => committed'
  <2>1. CASE Commit
    BY <2>1, CommitOnly DEF Inductive
  <2>2. CASE pc' = "top" /\ UNCHANGED <<memory, staged, committed, intent, launched>>
    BY <2>2 DEF TypeOK, Inductive, Shape, Launches, Conversation
  <2> QED
    BY <1>4, <2>1, <2>2
<1>6. /\ count' \in Counts /\ turn.no <= count'.turns
      /\ step' \in {"act", "suspend", "prepare", "observe", "ended"}
      /\ outcome' \in {"none", "switched"} /\ pc' \in {"top", "none"}
      /\ pc' = "top" <=> step' = "act"
      /\ step' = "ended" <=> outcome' # "none"
  BY <1>2, <1>4 DEF TypeOK, Inductive, StreamShape
<1>7. TypeOK'
  BY <1>1, <1>3, <1>5, <1>6 DEF TypeOK
<1>8. Shape'
  BY <1>1, <1>5, <1>6 DEF Shape
<1>9. StreamShape'
  BY <1>1, <1>6 DEF StreamShape
<1>10. Prompted'
  <2>1. base \o (tail \o results) = (base \o tail) \o results
    BY <1>3, ConcatAssociative
  <2>2. base \o (tail \o results) \in Seq(Message)
    BY <1>3
  <2>3. (Request \o results)' = Request \o results
    BY <1>1, <1>3, <2>1, <2>2, ConcatEmptySeq DEF Request
  <2> QED
    BY <1>2, <1>5, <2>3 DEF Prompted
<1>11. RanShape'
  BY <1>1, <1>6 DEF Inductive, RanShape
<1>12. Records' = Records /\ ~InHand' /\ InHand
  BY <1>1, <1>5, <1>6 DEF Records, InHand
<1>13. Settled'
  <2>1. SUFFICES ASSUME NEW t \in Records, t.kind = "turn" PROVE Answered(t)
    BY <1>12 DEF Settled, Answered
  <2>2. CASE t.turn # turn.no
    BY <1>2, <2>1, <2>2 DEF Inductive, RecordShape, Settled
  <2>3. CASE t.turn = turn.no
    <3>1. SUFFICES ASSUME NEW c \in t.calls PROVE Record("result", t.turn, <<>>, {c}) \in Records
      BY DEF Answered
    <3>2. c \in Recorded(turn.calls)
      BY <1>12, <2>1, <2>3 DEF Inductive, RecordShape, HandShape
    <3>3. PICK i \in DOMAIN turn.calls : c = turn.calls[i]
      BY <3>2 DEF Recorded, ToSet
    <3>4. i \in 1 .. Len(results)
      BY <1>1, LeftIs
    <3>5. Result(turn.calls[i]) \in Records
      BY <1>1, <3>2, <3>3, <3>4 DEF Inductive, RecordShape, HandShape, Recorded
    <3> QED
      BY <2>3, <3>3, <3>5 DEF Result
  <2> QED
    BY <2>2, <2>3
<1>14. TurnsShape' /\ SaidIsShown'
  BY <1>1, <1>6, <1>12 DEF Inductive, RecordShape, TurnsShape, SaidIsShown
<1>15. Paired' /\ HandShape'
  BY <1>5, <1>6, <1>12 DEF Inductive, RecordShape, Paired, HandShape
<1> QED
  BY <1>5, <1>7, <1>8, <1>9, <1>10, <1>11, <1>13, <1>14, <1>15 DEF Inductive, RecordShape
-------------------------------------------------------------------------------
(***************************************************************************)
(* Compaction                                                              *)
(***************************************************************************)
\* What a fold of k records leaves, and what came to stand where.
LEMMA FoldFacts ==
  ASSUME TypeOK, NEW k \in {0} \cup 2 .. Len(memory), k # 0, memory' = Folded(k)
  PROVE  /\ Len(memory) \in Nat /\ memory \in Seq(Message) /\ memory' \in Seq(Message)
         /\ Digest \in Message /\ k \in Nat /\ Len(memory') = Len(memory) - k + 1
         /\ memory'[1] = Digest
         /\ \A i \in 2 .. Len(memory') :
              i + k - 1 \in k + 1 .. Len(memory) /\ memory'[i] = memory[i + k - 1]
         /\ \A i \in k + 1 .. Len(memory) :
              i - k + 1 \in 2 .. Len(memory') /\ memory'[i - k + 1] = memory[i]
<1> DEFINE s == SubSeq(memory, k + 1, Len(memory))
<1>1. memory \in Seq(Message) /\ Len(memory) \in Nat /\ k \in 2 .. Len(memory)
  BY StoreTypes
<1>2. memory' = <<Digest>> \o s
  BY DEF Folded
<1>3. Digest \in Message
  <2>1. 0 \in 0 .. MaxTurns /\ <<>> \in Seq(Chunk)
    BY RunAssumption
  <2> QED
    BY <2>1 DEF Digest, Record, Message, Kind
<1>4. s \in Seq(Message) /\ Len(s) = Len(memory) - k
      /\ \A i \in 1 .. Len(s) : s[i] = memory[k + i]
  <2>1. k + 1 \in 1 .. Len(memory) + 1 /\ Len(memory) \in k .. Len(memory)
    BY <1>1
  <2> QED
    BY <1>1, <2>1, SubSeqProperties
<1>5. /\ <<Digest>> \in Seq(Message) /\ Len(<<Digest>>) = 1 /\ <<Digest>>[1] = Digest
  BY <1>3
<1> HIDE DEF s
<1>6. /\ memory' \in Seq(Message) /\ Len(memory') = 1 + Len(s)
      /\ \A i \in 1 .. 1 + Len(s) :
           memory'[i] = IF i <= 1 THEN <<Digest>>[i] ELSE s[i - 1]
  <2>1. /\ <<Digest>> \o s \in Seq(Message)
        /\ Len(<<Digest>> \o s) = Len(<<Digest>>) + Len(s)
        /\ \A i \in 1 .. Len(<<Digest>>) + Len(s) :
             (<<Digest>> \o s)[i] = IF i <= Len(<<Digest>>) THEN <<Digest>>[i]
                                                            ELSE s[i - Len(<<Digest>>)]
    BY <1>4, <1>5, ConcatProperties
  <2> QED
    BY <1>2, <1>5, <2>1
<1>7. Len(memory') = Len(memory) - k + 1 /\ memory'[1] = Digest
  BY <1>1, <1>4, <1>5, <1>6
<1>8. ASSUME NEW i \in 2 .. Len(memory')
      PROVE  i + k - 1 \in k + 1 .. Len(memory) /\ memory'[i] = memory[i + k - 1]
  <2>1. i \in 1 .. 1 + Len(s) /\ ~(i <= 1) /\ i - 1 \in 1 .. Len(s) /\ k + (i - 1) = i + k - 1
        /\ i + k - 1 \in k + 1 .. Len(memory)
    BY <1>1, <1>4, <1>7, <1>8
  <2> QED
    BY <1>4, <1>6, <2>1
<1>9. ASSUME NEW i \in k + 1 .. Len(memory)
      PROVE  i - k + 1 \in 2 .. Len(memory') /\ memory'[i - k + 1] = memory[i]
  <2>1. i - k + 1 \in 2 .. Len(memory') /\ (i - k + 1) + k - 1 = i
    BY <1>1, <1>7, <1>9
  <2> QED
    BY <1>8, <2>1
<1> QED
  BY <1>1, <1>3, <1>6, <1>7, <1>8, <1>9

\* A fold drops no turn whose result stays, nor the turn in hand.
LEMMA FoldKeeps ==
  ASSUME TypeOK, Inductive, step = "compact", NEW k \in {0} \cup 2 .. Len(memory), k # 0,
         MayFold(k), memory' = Folded(k), staged' = staged, turn' = turn, pending' = pending,
         pc' = pc, UNCHANGED <<shown, withdrawn, outcome>>
  PROVE  RecordShape'
<1>1. /\ Len(memory) \in Nat /\ memory \in Seq(Message) /\ memory' \in Seq(Message)
      /\ Digest \in Message /\ k \in Nat /\ Len(memory') = Len(memory) - k + 1
      /\ memory'[1] = Digest
      /\ \A i \in 2 .. Len(memory') :
           i + k - 1 \in k + 1 .. Len(memory) /\ memory'[i] = memory[i + k - 1]
      /\ \A i \in k + 1 .. Len(memory) :
           i - k + 1 \in 2 .. Len(memory') /\ memory'[i - k + 1] = memory[i]
  BY FoldFacts
<1>2. pc = "none" /\ staged = <<>> /\ outcome = "none"
  BY DEF Inductive, Shape
<1>3. Conversation = memory /\ Conversation' = memory'
  BY <1>1, <1>2, ConcatEmptySeq DEF Conversation
<1>4. DOMAIN memory = 1 .. Len(memory) /\ DOMAIN memory' = 1 .. Len(memory')
  BY <1>1
<1>5. Records = {memory[i] : i \in 1 .. Len(memory)}
      /\ Records' = {memory'[i] : i \in 1 .. Len(memory')}
  BY <1>3, <1>4 DEF Records, ToSet
<1>6. Digest.kind = "digest" /\ Digest.turn = 0
  BY DEF Digest, Record
<1>7. \A r \in Records' : r = Digest \/ \E i \in k + 1 .. Len(memory) : r = memory[i]
  <2>1. ASSUME NEW i \in 1 .. Len(memory'), i # 1
        PROVE  \E j \in k + 1 .. Len(memory) : memory'[i] = memory[j]
    <3>1. i \in 2 .. Len(memory') /\ memory'[i] = memory[i + k - 1]
          /\ i + k - 1 \in k + 1 .. Len(memory)
      <4>1. Len(memory') \in Nat
        BY <1>1
      <4>2. i \in 2 .. Len(memory')
        BY <2>1, <4>1
      <4> QED
        BY <1>1, <4>2
    <3> QED
      BY <3>1
  <2>2. \A r \in Records' : \E i \in 1 .. Len(memory') : r = memory'[i]
    BY <1>5
  <2>3. ASSUME NEW i \in 1 .. Len(memory')
        PROVE  memory'[i] = Digest \/ \E j \in k + 1 .. Len(memory) : memory'[i] = memory[j]
    BY <1>1, <2>1
  <2> QED
    BY <2>2, <2>3
<1>8. \A i \in k + 1 .. Len(memory) : memory[i] \in Records' /\ memory[i] \in Records
  <2>1. ASSUME NEW i \in k + 1 .. Len(memory) PROVE memory[i] \in Records' /\ memory[i] \in Records
    <3>1. i \in 1 .. Len(memory)
      BY <1>1, <2>1
    <3>2. i - k + 1 \in 2 .. Len(memory') /\ memory'[i - k + 1] = memory[i]
      BY <1>1, <2>1
    <3>3. Len(memory') \in Nat
      BY <1>1
    <3>4. i - k + 1 \in 1 .. Len(memory')
      BY <3>2, <3>3
    <3> QED
      BY <1>5, <3>1, <3>2, <3>4
  <2> QED
    BY <2>1
<1>9. \A r \in Records' : r = Digest \/ r \in Records
  BY <1>7, <1>8
<1>10. \A i \in 1 .. Len(memory) : i <= k \/ i \in k + 1 .. Len(memory)
  BY <1>1
<1>11. TurnsShape' /\ SaidIsShown'
  <2>1. turn.no \in Nat
    BY DEF TypeOK
  <2> QED
    BY <1>2, <1>6, <1>9, <2>1 DEF Inductive, RecordShape, TurnsShape, SaidIsShown
<1>12. ASSUME NEW r \in Records', r.kind = "result", Told(r) PROVE Called(r, Conversation')
  <2>1. PICK i \in k + 1 .. Len(memory) : r = memory[i]
    BY <1>6, <1>7, <1>12
  <2>2. Called(r, Conversation)
    BY <1>8, <1>12, <2>1 DEF Inductive, RecordShape, Paired
  <2>3. PICK t \in Records : t.kind = "turn" /\ t.turn = r.turn /\ r.calls \subseteq t.calls
    BY <2>2 DEF Called, Records
  <2>4. PICK j \in 1 .. Len(memory) : t = memory[j]
    BY <1>5
  <2>5. ~(j \in 1 .. k)
    BY <1>12, <2>1, <2>3, <2>4 DEF MayFold, HalfFolded
  <2>6. t \in Records'
    BY <1>8, <1>10, <1>1, <2>4, <2>5
  <2> QED
    BY <2>3, <2>6 DEF Called, Records
<1>13. Paired'
  <2>2. (\A i, j \in DOMAIN Conversation : Makes(Conversation[i], Conversation[j]) => i < j)'
    <3>1. SUFFICES ASSUME NEW i \in 1 .. Len(memory'), NEW j \in 1 .. Len(memory'),
                          Makes(memory'[i], memory'[j])
                   PROVE  i < j
      BY <1>3, <1>4 DEF Makes
    <3>2. i # 1 /\ j # 1
      BY <1>1, <1>6, <3>1 DEF Makes
    <3>3. i \in 2 .. Len(memory') /\ j \in 2 .. Len(memory')
      BY <1>1, <3>2
    <3>4. /\ i + k - 1 \in 1 .. Len(memory) /\ j + k - 1 \in 1 .. Len(memory)
          /\ Makes(memory[i + k - 1], memory[j + k - 1])
      BY <1>1, <3>1, <3>3
    <3>5. i + k - 1 < j + k - 1
      BY <1>3, <1>4, <3>4 DEF Inductive, RecordShape, Paired
    <3> QED
      BY <1>1, <3>5
  <2> QED
    BY <1>12, <2>2 DEF Paired
<1>14. InHand' = InHand
  BY DEF InHand
<1>15. HandShape'
  <2>1. ASSUME InHand PROVE \E t \in Records' : t.kind = "turn" /\ t.turn = turn.no
    <3>1. PICK t \in Records : t.kind = "turn" /\ t.turn = turn.no
      BY <2>1 DEF Inductive, RecordShape, HandShape
    <3>2. PICK j \in 1 .. Len(memory) : t = memory[j]
      BY <1>5
    <3>3. pending
      BY <1>2, <2>1 DEF InHand
    <3>4. ~(j \in 1 .. k)
      BY <3>1, <3>2, <3>3 DEF MayFold
    <3>5. j \in k + 1 .. Len(memory)
      BY <1>1, <3>4
    <3> QED
      BY <1>8, <3>1, <3>2, <3>5
  <2> QED
    BY <1>2, <1>6, <1>9, <1>14, <2>1 DEF Inductive, RecordShape, HandShape
<1>16. Settled'
  <2>1. SUFFICES ASSUME NEW t \in Records', t.kind = "turn", ~(InHand /\ t.turn = turn.no)
                 PROVE  Answered(t)'
    BY <1>2, <1>14 DEF Settled
  <2>2. PICK i \in k + 1 .. Len(memory) : t = memory[i]
    BY <1>6, <1>7, <2>1
  <2>3. Answered(t)
    BY <1>2, <1>8, <2>1, <2>2 DEF Inductive, RecordShape, Settled
  <2>4. ASSUME NEW c \in t.calls PROVE Record("result", t.turn, <<>>, {c}) \in Records'
    <3>1. PICK j \in 1 .. Len(memory) : memory[j] = Record("result", t.turn, <<>>, {c})
      BY <1>5, <2>3, <2>4 DEF Answered
    <3>2. Makes(memory[i], memory[j])
      BY <2>1, <2>2, <3>1 DEF Makes, Record
    <3>3. i \in 1 .. Len(memory)
      BY <1>1
    <3>4. i < j
      BY <1>3, <1>4, <3>2, <3>3 DEF Inductive, RecordShape, Paired
    <3>5. j \in k + 1 .. Len(memory)
      BY <1>1, <3>4
    <3> QED
      BY <1>8, <3>1, <3>5
  <2> QED
    BY <2>4 DEF Answered
<1> QED
  BY <1>11, <1>13, <1>15, <1>16 DEF RecordShape

\* A compaction that folds something, or nothing.
LEMMA CompactKeeps ==
  ASSUME TypeOK, Inductive, Compact
  PROVE  TypeOK' /\ Inductive'
<1>1. PICK k \in {0} \cup 2 .. Len(memory) :
        MayFold(k) /\ memory' = Folded(k) /\ noop' = (k = 0)
  BY DEF Compact
<1>2. /\ step = "compact" /\ step' = "prepare" /\ after' = TRUE
      /\ UNCHANGED <<conf, pc, count, committed, staged, turn, pending, flag, base, tail, results,
                     attempt, response, shown, withdrawn, ran, intent, launched, outcome>>
  BY DEF Compact, Follows, meta, act, stream
<1>3. pc = "none" /\ outcome = "none" /\ committed /\ committed'
  BY <1>2 DEF Inductive, Shape
<1>4. memory' \in Seq(Message)
  <2>1. CASE k = 0
    BY <1>1, <2>1, StoreTypes DEF Folded
  <2>2. CASE k # 0
    BY <1>1, <2>2, FoldFacts
  <2> QED
    BY <2>1, <2>2
<1>5. TypeOK'
  BY <1>1, <1>2, <1>4 DEF TypeOK
<1>6. Shape' /\ Launches'
  BY <1>2, <1>3 DEF Inductive, Shape, Launches
<1>7. StreamShape' /\ Prompted'
  BY <1>2, <1>3 DEF Inductive, StreamShape, Prompted
<1>8. RanShape'
  BY <1>2, <1>3 DEF Inductive, RanShape
<1>9. RecordShape'
  <2>1. CASE k = 0
    <3>1. Conversation' = Conversation
      BY <1>1, <1>2, <2>1 DEF Folded, Conversation
    <3> QED
      BY <1>2, <1>3, <3>1, RecordsKept DEF Inductive, InHand
  <2>2. CASE k # 0
    BY <1>1, <1>2, <2>2, FoldKeeps
  <2> QED
    BY <2>1, <2>2
<1> QED
  BY <1>5, <1>6, <1>7, <1>8, <1>9 DEF Inductive
-------------------------------------------------------------------------------
(***************************************************************************)
(* The theorems                                                            *)
(***************************************************************************)
\* A run begins with its question, in memory or in its open round.
LEMMA InitHolds == Init => TypeOK /\ Inductive
<1> SUFFICES ASSUME Init PROVE TypeOK /\ Inductive
  OBVIOUS
<1>1. Prompt \in Message /\ Prompt.kind = "user" /\ Prompt.turn = 0
  <2>1. 0 \in 0 .. MaxTurns /\ <<>> \in Seq(Chunk)
    BY RunAssumption
  <2> QED
    BY <2>1 DEF Prompt, Record, Message, Kind
<1>2. /\ <<Prompt>> \in Seq(Message) /\ <<>> \in Seq(Message) /\ <<>> \in Seq(Chunk)
      /\ <<>> \o <<Prompt>> = <<Prompt>> /\ <<Prompt>> \o <<>> = <<Prompt>>
  BY <1>1
<1>3. conf \in Tasks /\ conf.open \in BOOLEAN /\ conf.untitled \in BOOLEAN
  BY RunAssumption DEF Init
<1>4. Conversation = <<Prompt>>
  BY <1>2, <1>3 DEF Init, Conversation
<1>5. Records = {Prompt}
  BY <1>4, Short DEF Records
<1>6. TypeOK
  <2>1. /\ count \in Counts /\ turn \in [no : 0 .. MaxTurns, calls : Seq(Chunk)]
        /\ 0 \in 0 .. MaxAttempts
    BY <1>2, RunAssumption DEF Init, Counts, NoTurn
  <2>2. memory \in Seq(Message) /\ staged \in Seq(Message)
    BY <1>2 DEF Init
  <2>3. intent \in Intent /\ launched \in Launched
    BY <1>3 DEF Init, Intent, Launched
  <2>4. response \in Response
    BY <1>2 DEF Init, Silence, Response
  <2> QED
    BY <1>2, <1>3, <2>1, <2>2, <2>3, <2>4 DEF Init, TypeOK
<1>7. Shape /\ Launches
  BY DEF Init, Shape, Launches
<1>8. StreamShape /\ Prompted
  BY DEF Init, StreamShape, Prompted, NoTurn
<1>9. RanShape
  BY DEF Init, RanShape, NoTurn, IsInjective
<1>10. TurnsShape /\ SaidIsShown
  BY <1>1, <1>5 DEF Init, TurnsShape, SaidIsShown, NoTurn
<1>11. Paired
  <2>1. \A i \in DOMAIN Conversation : Conversation[i] = Prompt
    BY <1>4
  <2> QED
    BY <1>1, <1>5, <2>1 DEF Paired, Makes
<1>12. HandShape /\ Settled
  BY <1>1, <1>5 DEF Init, HandShape, Settled, InHand
<1> QED
  BY <1>6, <1>7, <1>8, <1>9, <1>10, <1>11, <1>12 DEF Inductive, RecordShape

\* A step in which the run does nothing.
LEMMA StutterKeeps ==
  ASSUME TypeOK, Inductive, UNCHANGED vars
  PROVE  TypeOK' /\ Inductive'
<1>1. Conversation' = Conversation /\ Request' = Request /\ Misused' = Misused /\ InHand' = InHand
      /\ Records' = Records /\ Received' = Received
  BY DEF vars, Conversation, Request, Misused, InHand, Records, Received
<1>2. TypeOK'
  BY DEF vars, TypeOK
<1>3. Shape' /\ Launches' /\ StreamShape' /\ Prompted'
  BY <1>1 DEF vars, Inductive, Shape, Launches, StreamShape, Prompted
<1>4. RanShape'
  BY <1>1 DEF vars, Inductive, RanShape
<1>5. RecordShape'
  BY <1>1, RecordsKept DEF vars, Inductive
<1> QED
  BY <1>2, <1>3, <1>4, <1>5 DEF Inductive

\* Types, and how place, round, stream, records and the turn in hand agree, hold in every
\* run: for any number of turns, attempts, chunks and recoveries.
THEOREM InductiveInvariant == Spec => [](TypeOK /\ Inductive)
<1>1. TypeOK /\ Inductive /\ [Next]_vars => TypeOK' /\ Inductive'
  <2> SUFFICES ASSUME TypeOK, Inductive, [Next]_vars PROVE TypeOK' /\ Inductive'
    OBVIOUS
  <2>1. CASE Boundary \/ PrepareCompacts \/ PrepareAssembles \/ Compact
    BY <2>1, BoundaryKeeps, PrepareCompactsKeeps, PrepareAssemblesKeeps, CompactKeeps
  <2>2. CASE Enter \/ Checkpoint \/ ResumeTurn \/ Ask \/ MaxTurnsReached
    BY <2>2, EnterKeeps, CheckpointKeeps, ResumeTurnKeeps, AskKeeps, MaxTurnsReachedKeeps
  <2>3. CASE ReceiveChunk \/ StopStream \/ Outage \/ Retry \/ AskFails
    BY <2>3, ReceiveChunkKeeps, StopStreamKeeps, OutageKeeps, RetryKeeps, AskFailsKeeps
  <2>4. CASE AnswerInProse \/ AnswerWithCalls
    BY <2>4, AnswerInProseKeeps, AnswerWithCallsKeeps
  <2>5. CASE RefuseSwitch \/ RunCall \/ CallParks \/ StopTools \/ ToolsDone
    BY <2>5, RefuseSwitchKeeps, RunCallKeeps, CallParksKeeps, StopToolsKeeps, ToolsDoneKeeps
  <2>6. CASE Observe \/ Suspend \/ RecognizeEnds
    BY <2>6, ObserveKeeps, SuspendKeeps, RecognizeEndsKeeps
  <2>7. CASE UNCHANGED vars
    BY <2>7, StutterKeeps
  <2> QED
    BY <2>1, <2>2, <2>3, <2>4, <2>5, <2>6, <2>7 DEF Next, Run
<1> QED
  BY <1>1, InitHolds, PTL DEF Spec

\* The variables keep their types (StepDriver.run).
THEOREM TypeCorrect == Spec => []TypeOK
BY InductiveInvariant, PTL

\* What the model is asked next is the conversation as memory has it, delegations apart, also
\* after a compaction in the middle of a turn (ActStep.execute, PrepareStep.execute).
THEOREM PromptStaysMemory == Spec => []PromptIsMemory
<1>1. TypeOK /\ Inductive => PromptIsMemory
  <2> SUFFICES ASSUME TypeOK, Inductive, pc \in {"top", "stream", "backoff"}
               PROVE  Dialogue(Request) = Dialogue(Conversation)
    BY DEF PromptIsMemory
  <2>1. results = <<>> /\ Alike(Request \o results, Conversation)
    BY DEF Inductive, Shape, Prompted
  <2>2. Request \o <<>> = Request
    BY StoreTypes, ConcatEmptySeq
  <2> QED
    BY <2>1, <2>2 DEF Alike
<1> QED
  BY <1>1, InductiveInvariant, PTL

\* Nothing withdrawn is kept, what is kept was shown, a discarded round leaves nothing, and
\* the metadata step runs once, for a round that counts (commit_round, StreamState).
THEOREM OnlyWhatCountsStays == Spec => []OnlyWhatCounts
<1>1. TypeOK /\ Inductive => OnlyWhatCounts
  <2> SUFFICES ASSUME TypeOK, Inductive PROVE OnlyWhatCounts
    OBVIOUS
  <2>1. launched.began <= (IF committed THEN 1 ELSE 0)
    BY DEF Inductive, Launches
  <2>2. ASSUME outcome = "discarded" PROVE Conversation = <<>> /\ launched.began = 0
    <3>1. memory = <<>> /\ staged = <<>> /\ ~intent.started
      BY <2>2 DEF Inductive, Shape, Launches
    <3> QED
      BY <3>1 DEF Conversation, Inductive, Launches
  <2> QED
    BY <2>1, <2>2 DEF OnlyWhatCounts, Inductive, RecordShape, SaidIsShown
<1> QED
  BY <1>1, InductiveInvariant, PTL

\* A call runs at most once, the result of a call that is no delegation never stands without
\* its turn, and a run that was not cut short leaves no call in memory without a result
\* (_execute_tool_calls, collapse_task_layer).
THEOREM CallsStayOnce == Spec => []CallsRunOnce
<1>1. TypeOK /\ Inductive => CallsRunOnce
  <2> SUFFICES ASSUME TypeOK, Inductive PROVE CallsRunOnce
    OBVIOUS
  <2>1. IsInjective(ran)
    BY DEF Inductive, RanShape
  <2>2. \A r \in Records : r.kind = "result" /\ Told(r) => Called(r, Conversation)
    BY DEF Inductive, RecordShape, Paired
  <2>3. ASSUME outcome \in {"observed", "suspended", "switched"},
               NEW t \in Records, t.kind = "turn", NEW c \in t.calls
        PROVE  Record("result", t.turn, <<>>, {c}) \in Records
    <3>1. ~InHand
      BY <2>3 DEF InHand, Inductive, Shape
    <3> QED
      BY <2>3, <3>1 DEF Inductive, RecordShape, Settled, Answered
  <2> QED
    BY <2>1, <2>2, <2>3 DEF CallsRunOnce
<1> QED
  BY <1>1, InductiveInvariant, PTL
=============================================================================
