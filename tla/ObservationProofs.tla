--------------------------- MODULE ObservationProofs ---------------------------
(***************************************************************************)
(* Every turn of a task is told once, for any number of turns, crashes and *)
(* cancellations, whoever answers when: raw, or by the summary of exactly  *)
(* one observation, or by the report the task ended with.                  *)
(*                                                                         *)
(* A summary takes its turns only while all of them are raw, so two        *)
(* observations of overlapping segments, or one that a restart repeats,    *)
(* cannot tell a turn twice.  What makes this inductive is when an         *)
(* observation is new: a turn that acts has none yet (TurnOfStage), so     *)
(* that its segment is written once; an execution is never ahead of what   *)
(* the log says of its observation (PlaceOfStage), so that a decision is   *)
(* not taken again when it has had an effect; and what a background        *)
(* observation may speak of does not change once it is requested (Told).   *)
(*                                                                         *)
(* And a task comes to an end that is whole, and is never left alone, as   *)
(* long as commands wait for the decisions a restart has found, a turn for *)
(* the review before it, and an answer for a verdict that lands (~Early,   *)
(* ~Late, ~Between).  That takes a second invariant, Ordered, over the     *)
(* first: what the status, its record, the open question, the run, the     *)
(* queue and each observation may be together.                             *)
(***************************************************************************)
EXTENDS Observation, FiniteSetTheorems, WellFoundedInduction, TLAPS

Stage == {"none", "requested", "completed", "applied"}
Action == {"none", "keep_raw", "recap", "close", "foreground"}
Observed == [stage : Stage, judging : BOOLEAN, seen : SUBSET Turn, action : Action,
             verdict : {"none", "done", "continue"}, reported : BOOLEAN, short : BOOLEAN,
             settled : BOOLEAN, finalized : BOOLEAN]
Status == {"PENDING", "ACTIVE", "AWAITING_HUMAN", "FINISHED", "CANCELED"}
Place == {"none", "ready", "judge", "fold", "land", "finalize", "close", "settle", "apply"}
Budget == [crashes : 0 .. MaxCrashes, cancels : 0 .. MaxCancels]

TypeOK ==
  /\ obs \in [Obs -> Observed] /\ {logged, status} \subseteq Status
  /\ bubble \in [Turn -> {"none", "open", "answered", "closed"}]
  /\ body \in [Turn -> {"none", "raw", "told", "archived"}]
  /\ summary \in [Obs -> SUBSET Turn] /\ endings \subseteq Obs \cup {Closing}
  /\ {gone, condemned, signal, queued, prepared} \subseteq BOOLEAN
  /\ turn \in 0 .. MaxTurns /\ pc \in {"off", "act", "park", "settle", "observe"}
  /\ work \in [Obs -> Place] /\ guard \subseteq Obs /\ revived \subseteq Obs
  /\ stopping \in {"none", "commit", "closure"}
  /\ budget \in Budget

New(o) == obs[o].stage = "none"
Undone(o) == obs[o].stage \in {"none", "requested"}
Untouched(k) == New(<<k, "fg">>) /\ New(<<k, "bg">>)

\* An execution does what the log says of its observation, which decides nothing unasked.
PlaceOfStage ==
  \A o \in Obs :
    /\ work[o] = "ready" => obs[o].stage \in {"requested", "completed"}
    /\ work[o] = "judge" => obs[o].stage = "requested"
    /\ work[o] \in {"fold", "land", "finalize", "close", "settle", "apply"} => obs[o].stage = "completed"
    /\ obs[o].stage = "requested" => obs[o].action = "none"

\* Which turns have been written, and which have been observed.
TurnOfStage ==
  /\ \A k \in Turn : Untouched(k) => body[k] = "none"
  /\ \A k \in Turn : k > turn => Untouched(k)
  /\ pc \in {"act", "observe"} => turn > 0
  /\ pc = "act" => Untouched(turn)
  /\ \A k \in Turn : obs[<<k, "fg">>].stage = "requested" => New(<<k, "bg">>)

\* A turn is told by the summary of one observation, of the turns it was given.
Told ==
  /\ \A o \in Obs : \A k \in summary[o] : body[k] = "told"
  /\ \A k \in Turn : body[k] = "told" => \E o \in Obs : k \in summary[o]
  /\ \A k \in Turn : \A o, p \in Obs : k \in summary[o] /\ k \in summary[p] => o = p
  /\ \A o \in Obs : Undone(o) => summary[o] = {}
  /\ \A o \in Obs : o[2] = "bg" /\ summary[o] # {} => summary[o] = obs[o].seen

\* A turn is archived for the sake of a report.
Archived ==
  /\ \A o \in endings \ {Closing} : ~Undone(o)
  /\ \A k \in Turn : body[k] = "archived" => \E o \in endings \ {Closing} : obs[o].reported

\* No observation is requested, and what is recorded of one stays, but for a report that
\* comes with its decision.
Onward ==
  /\ obs' \in [Obs -> Observed]
  /\ \A o \in Obs :
       /\ obs'[o].stage = "none" <=> obs[o].stage = "none"
       /\ obs'[o].stage = "requested" => obs[o].stage = "requested"
       /\ obs'[o].seen = obs[o].seen
       /\ ~Undone(o) => obs'[o].reported = obs[o].reported

\* A step that tells nothing and writes no turn.
Quiet ==
  /\ Onward /\ UNCHANGED <<body, summary, turn>>
  /\ pc' = "act" => pc = "act"
  /\ pc' = "observe" => turn > 0
  /\ endings \subseteq endings'
  /\ \A o \in endings' \ {Closing} : o \in endings \/ ~Undone(o)'

Inductive == PlaceOfStage /\ TurnOfStage /\ Told /\ Archived
-------------------------------------------------------------------------------
(***************************************************************************)
(* Observations and segments                                               *)
(***************************************************************************)
\* The observations, by turn and kind.
LEMMA ObsFacts ==
  /\ \A o \in Obs : o[1] \in Turn /\ o = <<o[1], o[2]>> /\ (o[2] = "fg" \/ o[2] = "bg")
  /\ \A k \in Turn : <<k, "fg">> \in Obs /\ <<k, "bg">> \in Obs
  /\ \A j, k : <<j, "fg">> # <<k, "bg">>
  /\ Closing \notin Obs
BY DEF Obs, Turn, Closing

\* A set of natural numbers has a least element.
LEMMA Least ==
  ASSUME NEW S, S \subseteq Nat, S # {}
  PROVE  \E n \in S : \A m \in S : n <= m
<1> DEFINE R == OpToRel(<, Nat)
<1>1. IsWellFoundedOn(R, Nat)
  BY NatLessThanWellFounded
<1>2. \A x, y \in Nat : x < y => <<x, y>> \in R
  BY DEF OpToRel
<1> HIDE DEF R
<1>3. \E x \in S : \A y \in S : ~ (<<y, x>> \in R)
  BY <1>1, WFMin
<1>4. PICK n \in S : \A m \in S : ~ (<<m, n>> \in R)
  BY <1>3
<1>5. \A m \in S : m \in Nat /\ n \in Nat /\ ~(m < n)
  BY <1>2, <1>4
<1>6. \A m \in S : n <= m
  BY <1>5
<1> QED
  BY <1>6

\* The segment of a turn begins at a turn.
LEMMA SegmentStarts ==
  ASSUME NEW k \in Turn
  PROVE  SegmentStart(k) \in 1 .. k
<1> DEFINE S == {i \in 1 .. k : \A j \in i .. (k - 1) : bubble[j] # "answered"}
<1>1. k \in Nat /\ k > 0
  BY ObservationAssumption DEF Turn
<1>2. k \in S /\ S \subseteq Nat
  BY <1>1
<1>3. PICK n \in S : \A m \in S : n <= m
  BY <1>2, Least
<1>4. n = 1 \/ bubble[n - 1] = "answered"
  <2> SUFFICES ASSUME n # 1 PROVE bubble[n - 1] = "answered"
    OBVIOUS
  <2>1. n - 1 \in 1 .. k /\ ~(n <= n - 1) /\ n \in 1 .. k
    BY <1>1
  <2>2. n - 1 \notin S
    BY <1>3, <2>1
  <2>3. PICK j \in (n - 1) .. (k - 1) : bubble[j] = "answered"
    BY <2>1, <2>2
  <2>4. j \notin n .. (k - 1)
    BY <2>3
  <2>5. j = n - 1
    BY <1>1, <2>1, <2>3, <2>4
  <2> QED
    BY <2>3, <2>5
<1>5. n \in 1 .. k /\ \A j \in n .. (k - 1) : bubble[j] # "answered"
  OBVIOUS
<1> HIDE DEF S
<1> QED
  BY <1>4, <1>5 DEF SegmentStart

\* A segment is of raw turns.
LEMMA SegmentFacts ==
  ASSUME NEW k \in Turn
  PROVE  Segment(k) \subseteq Turn /\ \A j \in Segment(k) : body[j] = "raw"
<1>1. SegmentStart(k) .. k \subseteq Turn
  BY SegmentStarts, ObservationAssumption DEF Turn
<1> QED
  BY <1>1 DEF Segment, Raw

\* What is recorded of an observation that is requested.
LEMMA RequestedIs ==
  ASSUME NEW judging \in BOOLEAN, NEW seen \in SUBSET Turn
  PROVE  /\ Requested(judging, seen) \in Observed
         /\ Requested(judging, seen).stage = "requested"
         /\ Requested(judging, seen).seen = seen
         /\ Requested(judging, seen).action = "none"
         /\ ~Requested(judging, seen).settled /\ ~Requested(judging, seen).finalized
<1>1. Blank \in Observed /\ Blank.action = "none" /\ ~Blank.settled /\ ~Blank.finalized
  BY DEF Blank, Observed, Stage, Action
<1> QED
  BY <1>1 DEF Requested, Observed, Stage

\* What is recorded of one that has decided.
LEMMA CompletedIs ==
  ASSUME NEW o \in Obs, obs[o] \in Observed, NEW action \in Action,
         NEW verdict \in {"none", "done", "continue"}, NEW reported \in BOOLEAN
  PROVE  /\ Completed(o, action, verdict, reported) \in Observed
         /\ Completed(o, action, verdict, reported).stage = "completed"
         /\ Completed(o, action, verdict, reported).seen = obs[o].seen
         /\ Completed(o, action, verdict, reported).reported = reported
<1> DEFINE s == (verdict = "done" /\ ShortLeaf)
<1>1. s \in BOOLEAN
  OBVIOUS
<1> HIDE DEF s
<1> QED
  BY <1>1 DEF Completed, Observed, Stage, s

\* What is recorded of one that has decided nothing, and is not waited for.
LEMMA AbandonedIs ==
  ASSUME NEW o \in Obs, obs[o] \in Observed, NEW r,
         r = [Completed(o, "keep_raw", "none", FALSE) EXCEPT !.stage = "applied"]
  PROVE  r \in Observed /\ r.stage = "applied" /\ r.seen = obs[o].seen /\ r.action = "keep_raw"
<1>1. /\ Completed(o, "keep_raw", "none", FALSE) \in Observed
      /\ Completed(o, "keep_raw", "none", FALSE).seen = obs[o].seen
  BY CompletedIs DEF Action
<1>2. Completed(o, "keep_raw", "none", FALSE).action = "keep_raw"
  BY DEF Completed, Observed
<1> QED
  BY <1>1, <1>2 DEF Observed, Stage
-------------------------------------------------------------------------------
(***************************************************************************)
(* Steps                                                                   *)
(***************************************************************************)
\* One observation goes on.
LEMMA OneGoesOn ==
  ASSUME TypeOK, NEW o \in Obs, NEW r \in Observed, obs' = [obs EXCEPT ![o] = r],
         ~New(o), r.stage \in {"completed", "applied"}, r.seen = obs[o].seen,
         obs[o].stage = "requested" \/ r.reported = obs[o].reported
  PROVE  Onward
<1>1. obs \in [Obs -> Observed] /\ obs'[o] = r
  BY DEF TypeOK
<1>2. \A p \in Obs : p # o => obs'[p] = obs[p]
  BY <1>1
<1>3. obs' \in [Obs -> Observed]
  BY <1>1
<1>4. ASSUME NEW p \in Obs
      PROVE  /\ obs'[p].stage = "none" <=> obs[p].stage = "none"
             /\ obs'[p].stage = "requested" => obs[p].stage = "requested"
             /\ obs'[p].seen = obs[p].seen
             /\ ~Undone(p) => obs'[p].reported = obs[p].reported
  <2>1. CASE p = o
    BY <1>1, <2>1 DEF New, Undone
  <2>2. CASE p # o
    BY <1>2, <2>2
  <2> QED
    BY <2>1, <2>2
<1> QED
  BY <1>3, <1>4 DEF Onward

\* No observation goes on.
LEMMA NoneGoesOn ==
  ASSUME TypeOK, obs' = obs
  PROVE  Onward
BY DEF TypeOK, Onward

\* A step that tells nothing and writes no turn.
LEMMA QuietKeeps ==
  ASSUME TypeOK, Inductive, Quiet
  PROVE  TurnOfStage' /\ Told' /\ Archived'
<1>1. \A o \in Obs : (New(o)' <=> New(o)) /\ (Undone(o)' => Undone(o))
  BY DEF Quiet, Onward, New, Undone
<1>2. \A k \in Turn : Untouched(k)' <=> Untouched(k)
  BY <1>1, ObsFacts DEF Untouched
<1>3. TurnOfStage'
  <2>1. pc' = "act" => Untouched(turn)'
    <3> SUFFICES ASSUME pc' = "act" PROVE Untouched(turn)'
      OBVIOUS
    <3>1. turn \in Turn /\ Untouched(turn) /\ turn' = turn
      BY ObservationAssumption DEF Inductive, TurnOfStage, Quiet, TypeOK, Turn
    <3> QED
      BY <1>2, <3>1 DEF Untouched, New
  <2>2. pc' \in {"act", "observe"} => turn' > 0
    BY DEF Inductive, TurnOfStage, Quiet
  <2>3. \A k \in Turn : obs'[<<k, "fg">>].stage = "requested" => New(<<k, "bg">>)'
    BY <1>1, ObsFacts DEF Inductive, TurnOfStage, Quiet, Onward
  <2> QED
    BY <1>2, <2>1, <2>2, <2>3 DEF Inductive, TurnOfStage, Quiet
<1>4. Told'
  BY <1>1 DEF Inductive, Told, Quiet, Onward
<1>5. Archived'
  <2>1. \A o \in endings \ {Closing} : o \in Obs /\ ~Undone(o)
    BY DEF Inductive, Archived, TypeOK
  <2>2. \A o \in endings' \ {Closing} : ~Undone(o)'
    BY <1>1, <2>1 DEF Quiet
  <2>3. \A o \in endings \ {Closing} : o \in endings' /\ obs'[o].reported = obs[o].reported
    BY <2>1 DEF Quiet, Onward
  <2> QED
    BY <2>2, <2>3 DEF Inductive, Archived, Quiet
<1> QED
  BY <1>3, <1>4, <1>5

\* The execution of one observation goes on with it.
LEMMA PlaceKeeps ==
  ASSUME TypeOK, PlaceOfStage, NEW o \in Obs,
         \A p \in Obs \ {o} : obs'[p] = obs[p] /\ work'[p] = work[p],
         work'[o] = "ready" => obs'[o].stage \in {"requested", "completed"},
         work'[o] = "judge" => obs'[o].stage = "requested",
         work'[o] \in {"fold", "land", "finalize", "close", "settle", "apply"}
           => obs'[o].stage = "completed",
         obs'[o].stage = "requested" => obs'[o].action = "none"
  PROVE  PlaceOfStage'
BY DEF PlaceOfStage

\* What an execution that is under way says of its observation.
LEMMA UnderWay ==
  ASSUME TypeOK, PlaceOfStage, NEW o \in Obs, work[o] # "none"
  PROVE  /\ ~New(o) /\ obs[o].stage # "applied"
         /\ work[o] = "judge" => obs[o].stage = "requested"
         /\ work[o] \in {"fold", "land", "finalize", "close", "settle", "apply"}
              => obs[o].stage = "completed"
         /\ obs[o].stage \in {"requested", "completed"}
<1>1. work[o] \in Place
  BY DEF TypeOK
<1> QED
  BY <1>1 DEF PlaceOfStage, New, Place

\* A run is of a turn.
LEMMA OfTurn ==
  ASSUME TypeOK, TurnOfStage, pc \in {"act", "observe"}
  PROVE  /\ turn \in Turn /\ <<turn, "fg">> \in Obs /\ <<turn, "bg">> \in Obs
         /\ pc = "act" => Untouched(turn)
<1>1. turn \in 0 .. MaxTurns /\ turn > 0
  BY DEF TypeOK, TurnOfStage
<1>2. turn \in Turn
  BY <1>1, ObservationAssumption DEF Turn
<1> QED
  BY <1>2, ObsFacts DEF TurnOfStage
-------------------------------------------------------------------------------
(***************************************************************************)
(* The run                                                                 *)
(***************************************************************************)
\* A step that leaves log, memory and executions of the observations alone.
LEMMA AsideKeeps ==
  ASSUME TypeOK, Inductive, UNCHANGED <<obs, body, summary, turn, work>>,
         pc' \in {"act", "observe"} => pc' = pc,
         endings \subseteq endings', endings' \subseteq endings \cup {Closing}
  PROVE  Inductive'
<1>1. Onward
  BY NoneGoesOn
<1>2. Quiet
  BY <1>1 DEF Quiet, Inductive, TurnOfStage
<1>3. PlaceOfStage'
  BY DEF Inductive, PlaceOfStage
<1> QED
  BY <1>2, <1>3, QuietKeeps DEF Inductive

\* A turn begins, or is taken again where a crash cut it short.
LEMMA DispatchKeeps ==
  ASSUME TypeOK, Inductive, Dispatch
  PROVE  TypeOK' /\ Inductive'
<1>1. /\ turn' \in {turn, turn + 1} /\ turn' <= MaxTurns /\ pc' = "act"
      /\ turn' = turn => turn # 0 /\ \A k \in {"fg", "bg"} : obs[<<turn, k>>].stage = "none"
      /\ UNCHANGED <<obs, body, summary, endings, work>>
  <2>1. turn \in Nat
    BY DEF TypeOK
  <2> QED
    BY <2>1 DEF Dispatch, observers
<1>2. turn \in Nat /\ turn' \in Turn
  BY <1>1, ObservationAssumption DEF TypeOK, Turn
<1>3. TypeOK'
  <2>1. turn' \in 0 .. MaxTurns
    BY <1>2, ObservationAssumption DEF Turn
  <2> QED
    BY <1>1, <2>1 DEF Dispatch, TypeOK, NewToken, Status, observers
<1>4. Untouched(turn')
  <2>1. CASE turn' = turn
    BY <1>1, <2>1 DEF Untouched, New
  <2>2. CASE turn' = turn + 1
    BY <1>2, <2>2 DEF Inductive, TurnOfStage
  <2> QED
    BY <1>1, <2>1, <2>2
<1>5. TurnOfStage'
  <2>1. \A k \in Turn : Untouched(k)' <=> Untouched(k)
    BY <1>1 DEF Untouched, New
  <2>2. \A k \in Turn : k > turn' => k > turn
    BY <1>1, <1>2, ObservationAssumption DEF Turn
  <2>3. turn' > 0 /\ Untouched(turn)'
    BY <1>1, <1>2, <1>4 DEF Turn, Untouched, New
  <2> QED
    BY <1>1, <2>1, <2>2, <2>3 DEF Inductive, TurnOfStage, New
<1>6. PlaceOfStage' /\ Told' /\ Archived'
  BY <1>1 DEF Inductive, PlaceOfStage, Told, Archived, Undone
<1> QED
  BY <1>3, <1>5, <1>6 DEF Inductive

\* A turn is written and its observation is requested.
LEMMA WritesTurn ==
  ASSUME TypeOK, Inductive, pc = "act", pc' # "act",
         NEW kind \in {"fg", "bg"}, NEW r \in Observed, NEW w \in {"ready", "judge"},
         r.stage = "requested", r.action = "none",
         body' = [body EXCEPT ![turn] = "raw"],
         obs' = [obs EXCEPT ![<<turn, kind>>] = r],
         work' = [work EXCEPT ![<<turn, kind>>] = w],
         UNCHANGED <<turn, summary, endings>>
  PROVE  Inductive'
<1> DEFINE o == <<turn, kind>>
<1>1. turn \in Turn /\ turn > 0 /\ Untouched(turn) /\ o \in Obs /\ New(o)
  <2>1. turn \in Turn /\ turn > 0 /\ Untouched(turn)
    BY OfTurn DEF Inductive, TurnOfStage
  <2> QED
    BY <2>1, ObsFacts DEF Untouched
<1>2. /\ \A p \in Obs \ {o} : obs'[p] = obs[p] /\ work'[p] = work[p]
      /\ obs'[o] = r /\ work'[o] = w
  BY <1>1 DEF TypeOK
<1>3. /\ \A k \in Turn \ {turn} : body'[k] = body[k]
      /\ body'[turn] = "raw" /\ body[turn] = "none"
  BY <1>1 DEF TypeOK, Inductive, TurnOfStage
<1>4. PlaceOfStage'
  BY <1>1, <1>2, PlaceKeeps DEF Inductive
<1>5. TurnOfStage'
  <2>1. \A k \in Turn \ {turn} : Untouched(k)' <=> Untouched(k)
    BY <1>2, ObsFacts DEF Untouched, New
  <2>2. ~Untouched(turn)'
    BY <1>1, <1>2 DEF Untouched, New
  <2>3. \A k \in Turn \ {turn} : obs'[<<k, "fg">>].stage = "requested" => New(<<k, "bg">>)'
    BY <1>2, ObsFacts DEF Inductive, TurnOfStage, New
  <2>4. obs'[<<turn, "fg">>].stage = "requested" => New(<<turn, "bg">>)'
    BY <1>1, <1>2, ObsFacts DEF Untouched, New
  <2> QED
    BY <1>1, <1>3, <2>1, <2>2, <2>3, <2>4 DEF Inductive, TurnOfStage, Turn
<1>6. Told'
  <2>1. summary[o] = {}
    BY <1>1 DEF Inductive, Told, New, Undone
  <2>2. \A p \in Obs : turn \notin summary[p]
    BY <1>1, <1>3 DEF Inductive, Told
  <2>3. \A p \in Obs : summary[p] \subseteq Turn
    BY DEF TypeOK
  <2>4. \A p \in Obs : \A k \in summary'[p] : body'[k] = "told"
    BY <1>3, <2>2, <2>3 DEF Inductive, Told
  <2>5. \A k \in Turn : body'[k] = "told" => \E p \in Obs : k \in summary'[p]
    BY <1>3 DEF Inductive, Told
  <2>6. \A p \in Obs : Undone(p)' => summary'[p] = {}
    BY <1>2, <2>1 DEF Inductive, Told, Undone
  <2>7. \A p \in Obs : p[2] = "bg" /\ summary'[p] # {} => summary'[p] = obs'[p].seen
    BY <1>2, <2>1 DEF Inductive, Told
  <2> QED
    BY <2>4, <2>5, <2>6, <2>7 DEF Inductive, Told
<1>7. Archived'
  <2>1. o \notin endings
    <3>1. Undone(o) /\ o # Closing
      BY <1>1, ObsFacts DEF New, Undone
    <3> QED
      BY <3>1 DEF Inductive, Archived
  <2>2. \A p \in endings \ {Closing} : obs'[p] = obs[p] /\ (Undone(p)' <=> Undone(p))
    <3>1. endings \ {Closing} \subseteq Obs
      BY DEF TypeOK
    <3> QED
      BY <1>2, <2>1, <3>1 DEF Undone
  <2>3. \A k \in Turn : body'[k] = "archived" => body[k] = "archived"
    BY <1>3
  <2> QED
    BY <2>2, <2>3 DEF Inductive, Archived
<1> QED
  BY <1>4, <1>5, <1>6, <1>7 DEF Inductive

\* A turn yields to the user.
LEMMA ParkKeeps ==
  ASSUME TypeOK, Inductive, NEW judging \in BOOLEAN, Park(judging)
  PROVE  TypeOK' /\ Inductive'
<1> DEFINE r == Requested(judging, Segment(turn) \cup {turn})
<1>1. turn \in Turn /\ <<turn, "bg">> \in Obs
  BY OfTurn DEF Inductive, Park
<1>2. Segment(turn) \cup {turn} \in SUBSET Turn
  BY <1>1, SegmentFacts
<1>3. r \in Observed /\ r.stage = "requested" /\ r.action = "none"
  BY <1>2, RequestedIs
<1> HIDE DEF r
<1>4. /\ obs' = [obs EXCEPT ![<<turn, "bg">>] = r]
      /\ work' = [work EXCEPT ![<<turn, "bg">>] = "ready"]
      /\ body' = [body EXCEPT ![turn] = "raw"]
      /\ pc = "act" /\ pc' = "park" /\ UNCHANGED <<turn, summary, endings>>
  BY DEF Park, r
<1>5. TypeOK'
  <2>1. /\ obs' \in [Obs -> Observed] /\ work' \in [Obs -> Place]
        /\ body' \in [Turn -> {"none", "raw", "told", "archived"}]
    BY <1>1, <1>3, <1>4 DEF TypeOK, Place
  <2>2. bubble' \in [Turn -> {"none", "open", "answered", "closed"}]
    BY <1>1 DEF TypeOK, Park
  <2> QED
    BY <2>1, <2>2 DEF Park, TypeOK, task, owner
<1> QED
  BY <1>3, <1>4, <1>5, WritesTurn

\* The actor stops by itself.
LEMMA RequestForegroundKeeps ==
  ASSUME TypeOK, Inductive, RequestForeground
  PROVE  TypeOK' /\ Inductive'
<1> DEFINE r == Requested(TRUE, Segment(turn) \cup {turn})
<1>1. turn \in Turn /\ <<turn, "fg">> \in Obs
  BY OfTurn DEF Inductive, RequestForeground
<1>2. Segment(turn) \cup {turn} \in SUBSET Turn
  BY <1>1, SegmentFacts
<1>3. r \in Observed /\ r.stage = "requested" /\ r.action = "none"
  BY <1>2, RequestedIs
<1> HIDE DEF r
<1>4. /\ obs' = [obs EXCEPT ![<<turn, "fg">>] = r]
      /\ work' = [work EXCEPT ![<<turn, "fg">>] = "judge"]
      /\ body' = [body EXCEPT ![turn] = "raw"]
      /\ pc = "act" /\ pc' = "observe" /\ UNCHANGED <<turn, summary, endings>>
  BY DEF RequestForeground, r
<1>5. TypeOK'
  <2>1. /\ obs' \in [Obs -> Observed] /\ work' \in [Obs -> Place]
        /\ body' \in [Turn -> {"none", "raw", "told", "archived"}]
    BY <1>1, <1>3, <1>4 DEF TypeOK, Place
  <2> QED
    BY <2>1 DEF RequestForeground, TypeOK, task, owner
<1> QED
  BY <1>3, <1>4, <1>5, WritesTurn

\* The settlement of a parked run.
LEMMA SettlesPark ==
  ASSUME TypeOK, Inductive, AwaitHuman \/ SettlePark
  PROVE  TypeOK' /\ Inductive'
<1>1. CASE AwaitHuman
  <2>1. TypeOK'
    BY <1>1 DEF AwaitHuman, TypeOK, Status, observers, owner
  <2>2. Inductive'
    BY <1>1, AsideKeeps DEF AwaitHuman, observers
  <2> QED
    BY <2>1, <2>2
<1>2. CASE SettlePark
  <2>1. TypeOK'
    BY <1>2 DEF SettlePark, Wake, TypeOK, Status, observers
  <2>2. Inductive'
    BY <1>2, AsideKeeps DEF SettlePark, observers
  <2> QED
    BY <2>1, <2>2
<1> QED
  BY <1>1, <1>2

\* A run stops, and abandons the review it was in.
LEMMA CancelRunKeeps ==
  ASSUME TypeOK, Inductive, CancelRun
  PROVE  TypeOK' /\ Inductive'
<1> DEFINE o == <<turn, "fg">>
           r == [Completed(o, "keep_raw", "none", FALSE) EXCEPT !.stage = "applied"]
<1>1. pc \in {"act", "observe"} /\ pc' = "off" /\ UNCHANGED <<turn, body, summary, endings>>
  BY DEF CancelRun
<1>2. turn \in Turn /\ o \in Obs /\ obs[o] \in Observed
  BY <1>1, OfTurn DEF Inductive, TypeOK
<1>3. CASE pc = "act" /\ UNCHANGED <<obs, work, guard>>
  <2>1. TypeOK'
    BY <1>3 DEF CancelRun, TypeOK, Status
  <2>2. Inductive'
    BY <1>1, <1>3, AsideKeeps
  <2> QED
    BY <2>1, <2>2
<1>4. CASE work[o] = "judge" /\ obs' = [obs EXCEPT ![o] = r]
           /\ work' = [work EXCEPT ![o] = "none"] /\ guard' = guard \ {o}
  <2>1. r \in Observed /\ r.stage = "applied" /\ r.seen = obs[o].seen
    BY <1>2, AbandonedIs
  <2> HIDE DEF r
  <2>2. ~New(o) /\ obs[o].stage = "requested"
    BY <1>2, <1>4, UnderWay DEF Inductive
  <2>3. Onward
    BY <1>2, <1>4, <2>1, <2>2, OneGoesOn
  <2>4. Quiet
    BY <1>1, <2>3 DEF Quiet
  <2>5. PlaceOfStage'
    <3>1. /\ work'[o] = "none" /\ obs'[o] = r
          /\ \A p \in Obs \ {o} : obs'[p] = obs[p] /\ work'[p] = work[p]
      BY <1>2, <1>4 DEF TypeOK
    <3> QED
      BY <1>2, <2>1, <3>1, PlaceKeeps DEF Inductive
  <2>6. TypeOK'
    <3>1. obs' \in [Obs -> Observed] /\ work' \in [Obs -> Place]
      BY <1>2, <1>4, <2>1 DEF TypeOK, Place
    <3> QED
      BY <1>4, <3>1 DEF CancelRun, TypeOK, Status
  <2> QED
    BY <2>4, <2>5, <2>6, QuietKeeps DEF Inductive
<1> QED
  BY <1>3, <1>4 DEF CancelRun
-------------------------------------------------------------------------------
(***************************************************************************)
(* What observations do to memory                                          *)
(***************************************************************************)
\* An observation that has told nothing tells raw turns.
LEMMA Tells ==
  ASSUME TypeOK, Inductive, NEW o \in Obs, NEW pool \in SUBSET Turn,
         \A k \in pool : body[k] = "raw", summary[o] = {}, obs[o].stage = "completed",
         o[2] = "bg" => pool = obs[o].seen,
         summary' = [summary EXCEPT ![o] = pool],
         body' = [k \in Turn |-> IF k \in pool THEN "told" ELSE body[k]],
         UNCHANGED <<obs, turn, pc, endings>>
  PROVE  /\ body' \in [Turn -> {"none", "raw", "told", "archived"}]
         /\ summary' \in [Obs -> SUBSET Turn]
         /\ TurnOfStage' /\ Told' /\ Archived'
<1>1. /\ \A k \in Turn : body'[k] = (IF k \in pool THEN "told" ELSE body[k])
      /\ summary'[o] = pool /\ \A p \in Obs \ {o} : summary'[p] = summary[p]
      /\ body' \in [Turn -> {"none", "raw", "told", "archived"}]
      /\ summary' \in [Obs -> SUBSET Turn]
  BY DEF TypeOK
<1>2. \A p \in Obs : \A k \in summary[p] : k \in Turn /\ k \notin pool
  BY DEF TypeOK, Inductive, Told
<1>3. TurnOfStage'
  <2>1. \A k \in Turn : Untouched(k) => body'[k] = "none"
    BY <1>1 DEF Inductive, TurnOfStage
  <2> QED
    BY <2>1 DEF Inductive, TurnOfStage, Untouched, New
<1>4. Told'
  <2>1. \A p \in Obs : \A k \in summary'[p] : body'[k] = "told"
    BY <1>1, <1>2 DEF Inductive, Told
  <2>2. \A k \in Turn : body'[k] = "told" => \E p \in Obs : k \in summary'[p]
    <3> SUFFICES ASSUME NEW k \in Turn, body'[k] = "told"
                 PROVE  \E p \in Obs : k \in summary'[p]
      OBVIOUS
    <3>1. CASE k \in pool
      BY <1>1, <3>1
    <3>2. CASE k \notin pool
      <4>1. PICK p \in Obs : k \in summary[p]
        BY <1>1, <3>2 DEF Inductive, Told
      <4>2. k \in summary'[p]
        BY <1>1, <4>1
      <4> QED
        BY <4>2
    <3> QED
      BY <3>1, <3>2
  <2>3. ASSUME NEW k \in Turn, NEW p \in Obs, NEW q \in Obs, k \in summary'[p], k \in summary'[q]
        PROVE  p = q
    <3>1. CASE k \in pool
      BY <1>1, <1>2, <2>3, <3>1
    <3>2. CASE k \notin pool
      <4>1. k \in summary[p] /\ k \in summary[q]
        BY <1>1, <2>3, <3>2
      <4> QED
        BY <4>1 DEF Inductive, Told
    <3> QED
      BY <3>1, <3>2
  <2>4. \A p \in Obs : Undone(p) => summary'[p] = {}
    BY <1>1 DEF Inductive, Told, Undone
  <2>5. \A p \in Obs : p[2] = "bg" /\ summary'[p] # {} => summary'[p] = obs[p].seen
    BY <1>1 DEF Inductive, Told
  <2> QED
    BY <2>1, <2>2, <2>3, <2>4, <2>5 DEF Told, Undone
<1>5. Archived'
  <2>1. \A k \in Turn : body'[k] = "archived" => body[k] = "archived"
    BY <1>1
  <2> QED
    BY <2>1 DEF Inductive, Archived, Undone
<1> QED
  BY <1>1, <1>3, <1>4, <1>5

\* An observation writes its finish pair, and archives the last segment if it has a report.
LEMMA Finalizes ==
  ASSUME TypeOK, Inductive, NEW o \in Obs, obs[o].stage = "completed", Finalize(o),
         UNCHANGED <<summary, turn, pc>>
  PROVE  /\ obs' \in [Obs -> Observed] /\ obs'[o].stage = "completed"
         /\ \A p \in Obs \ {o} : obs'[p] = obs[p]
         /\ body' \in [Turn -> {"none", "raw", "told", "archived"}]
         /\ endings' \subseteq Obs \cup {Closing}
         /\ TurnOfStage' /\ Told' /\ Archived'
<1> DEFINE r == [obs[o] EXCEPT !.finalized = TRUE]
<1>1. obs' = [obs EXCEPT ![o] = r]
  BY DEF Finalize
<1>2. r \in Observed /\ r.stage = "completed" /\ r.seen = obs[o].seen
      /\ r.reported = obs[o].reported
  <2>1. obs[o] \in Observed
    BY DEF TypeOK
  <2> QED
    BY <2>1 DEF Observed
<1> HIDE DEF r
<1>3. obs' \in [Obs -> Observed] /\ obs'[o] = r /\ \A p \in Obs \ {o} : obs'[p] = obs[p]
  BY <1>1, <1>2 DEF TypeOK
<1>4. endings' \in {endings, endings \cup {o}}
  BY DEF Finalize
<1>5. Onward
  BY <1>1, <1>2, OneGoesOn DEF New
<1>6. CASE body' = body
  <2>1. Quiet
    <3>1. ~Undone(o)'
      BY <1>2, <1>3 DEF Undone
    <3> QED
      BY <1>4, <1>5, <1>6, <3>1 DEF Quiet, Inductive, TurnOfStage
  <2> QED
    BY <1>2, <1>3, <1>4, <1>6, <2>1, QuietKeeps DEF TypeOK
<1>7. CASE ~KeepRaw(o) /\ endings' = endings \cup {o} /\ ArchiveLast
  <2>1. /\ body' \in [Turn -> {"none", "raw", "told", "archived"}]
        /\ \A k \in Turn : body'[k] = body[k] \/ (body[k] = "raw" /\ body'[k] = "archived")
    BY <1>7 DEF ArchiveLast, TypeOK
  <2>2. r.reported = TRUE /\ o \in endings' \ {Closing}
    <3>1. obs[o].reported \in BOOLEAN
      BY DEF TypeOK, Observed
    <3> QED
      BY <1>2, <1>7, <3>1, ObsFacts DEF KeepRaw
  <2>3. \A p \in Obs : (New(p)' <=> New(p)) /\ (Undone(p)' <=> Undone(p))
                       /\ obs'[p].seen = obs[p].seen /\ obs'[p].reported = obs[p].reported
                       /\ obs'[p].stage = obs[p].stage
    BY <1>2, <1>3 DEF New, Undone
  <2>4. TurnOfStage'
    <3>1. \A k \in Turn : Untouched(k)' <=> Untouched(k)
      BY <2>3, ObsFacts DEF Untouched
    <3>2. pc = "act" => Untouched(turn)'
      BY <2>3, OfTurn DEF Inductive, TurnOfStage, Untouched
    <3>3. \A k \in Turn : obs'[<<k, "fg">>].stage = "requested" => New(<<k, "bg">>)'
      BY <2>3, ObsFacts DEF Inductive, TurnOfStage
    <3>4. \A k \in Turn : Untouched(k) => body'[k] = "none"
      BY <2>1 DEF Inductive, TurnOfStage
    <3> QED
      BY <3>1, <3>2, <3>3, <3>4 DEF Inductive, TurnOfStage
  <2>5. Told'
    <3>1. \A p \in Obs : \A k \in summary[p] : k \in Turn /\ body'[k] = "told"
      BY <2>1 DEF Inductive, Told, TypeOK
    <3>2. \A k \in Turn : body'[k] = "told" => body[k] = "told"
      BY <2>1
    <3> QED
      BY <2>3, <3>1, <3>2 DEF Inductive, Told
  <2>6. Archived'
    <3>1. \A p \in endings' \ {Closing} : ~Undone(p)'
      <4>1. ~Undone(o)'
        BY <1>2, <1>3 DEF Undone
      <4>2. \A p \in endings \ {Closing} : p \in Obs /\ ~Undone(p)
        BY DEF Inductive, Archived, TypeOK
      <4> QED
        BY <1>7, <2>3, <4>1, <4>2
    <3> QED
      BY <1>3, <2>2, <3>1 DEF Archived
  <2> QED
    BY <1>2, <1>3, <1>4, <2>1, <2>4, <2>5, <2>6 DEF TypeOK
<1> QED
  BY <1>6, <1>7 DEF Finalize
-------------------------------------------------------------------------------
(***************************************************************************)
(* The observation in the foreground                                       *)
(***************************************************************************)
\* The user interrupts a review.
LEMMA InterruptReviewKeeps ==
  ASSUME TypeOK, Inductive, InterruptReview
  PROVE  TypeOK' /\ Inductive'
<1> DEFINE fg == <<turn, "fg">>
           bg == <<turn, "bg">>
           old == [Completed(fg, "keep_raw", "none", FALSE) EXCEPT !.stage = "applied"]
           new == Requested(FALSE, Segment(turn))
<1>1. /\ pc = "observe" /\ pc' = "park" /\ work[fg] = "judge"
      /\ obs' = [obs EXCEPT ![fg] = old, ![bg] = new]
      /\ work' = [work EXCEPT ![fg] = "none", ![bg] = "ready"]
      /\ UNCHANGED <<turn, body, summary, endings>>
  BY DEF InterruptReview
<1>2. turn \in Turn /\ fg \in Obs /\ bg \in Obs /\ fg # bg /\ obs[fg] \in Observed
  BY <1>1, OfTurn, ObsFacts DEF Inductive, TypeOK
<1>3. old \in Observed /\ old.stage = "applied" /\ old.seen = obs[fg].seen
  BY <1>2, AbandonedIs
<1>4. new \in Observed /\ new.stage = "requested" /\ new.action = "none"
  BY <1>2, SegmentFacts, RequestedIs
<1> HIDE DEF old, new
<1>5. obs[fg].stage = "requested" /\ New(bg)
  <2>1. obs[fg].stage = "requested"
    BY <1>1, <1>2, UnderWay DEF Inductive
  <2> QED
    BY <1>2, <2>1 DEF Inductive, TurnOfStage
<1> DEFINE Others == Obs \ {fg, bg}
<1>6. /\ obs'[fg] = old /\ obs'[bg] = new /\ work'[fg] = "none" /\ work'[bg] = "ready"
      /\ \A p \in Others : obs'[p] = obs[p] /\ work'[p] = work[p]
      /\ obs' \in [Obs -> Observed] /\ work' \in [Obs -> Place]
  BY <1>1, <1>2, <1>3, <1>4 DEF TypeOK, Place
<1>7. \A p \in Obs : p = fg \/ p = bg \/ p \in Others
  OBVIOUS
<1>8. TypeOK'
  <2>1. bubble' \in [Turn -> {"none", "open", "answered", "closed"}]
    BY <1>2 DEF InterruptReview, TypeOK
  <2> QED
    BY <1>6, <2>1 DEF InterruptReview, TypeOK, Leaves, task, owner
<1> HIDE DEF Others
<1>9. PlaceOfStage'
  <2>1. \A p \in Others : p \in Obs
    BY DEF Others
  <2> QED
    BY <1>3, <1>4, <1>6, <1>7, <2>1 DEF Inductive, PlaceOfStage
<1>10. TurnOfStage'
  <2>1. \A k \in Turn \ {turn} : <<k, "fg">> \in Others /\ <<k, "bg">> \in Others
    BY ObsFacts DEF Others
  <2>2. \A k \in Turn \ {turn} : Untouched(k)' <=> Untouched(k)
    BY <1>6, <2>1 DEF Untouched, New
  <2>3. ~Untouched(turn)'
    BY <1>1, <1>4, <1>6 DEF Untouched, New
  <2>4. \A k \in Turn \ {turn} : obs'[<<k, "fg">>].stage = "requested" => New(<<k, "bg">>)'
    BY <1>6, <2>1 DEF Inductive, TurnOfStage, New
  <2>5. obs'[fg].stage # "requested"
    BY <1>3, <1>6
  <2>6. \A k \in Turn : k > turn => k # turn
    BY <1>2, ObservationAssumption DEF Turn
  <2> QED
    BY <1>1, <2>2, <2>3, <2>4, <2>5, <2>6 DEF Inductive, TurnOfStage
<1>11. Told'
  <2>1. summary[bg] = {} /\ summary[fg] = {}
    BY <1>2, <1>5 DEF Inductive, Told, New, Undone
  <2>2. \A p \in Obs : Undone(p)' => summary[p] = {}
    BY <1>6, <1>7, <2>1 DEF Inductive, Told, Undone, Others
  <2>3. \A p \in Obs : p[2] = "bg" /\ summary[p] # {} => summary[p] = obs'[p].seen
    BY <1>6, <1>7, <2>1 DEF Inductive, Told, Others
  <2> QED
    BY <1>1, <2>2, <2>3 DEF Inductive, Told
<1>12. Archived'
  <2>1. \A p \in endings \ {Closing} : p \in Others
    <3>1. Undone(fg) /\ Undone(bg)
      BY <1>5 DEF New, Undone
    <3> QED
      BY <3>1 DEF Others, Inductive, Archived, TypeOK
  <2>2. \A p \in Others : (Undone(p)' <=> Undone(p)) /\ obs'[p].reported = obs[p].reported
    BY <1>6 DEF Undone
  <2>3. \A p \in endings \ {Closing} : ~Undone(p)'
    BY <2>1, <2>2 DEF Inductive, Archived
  <2>4. \A k \in Turn : body[k] = "archived" =>
          \E p \in endings \ {Closing} : obs'[p].reported
    BY <2>1, <2>2 DEF Inductive, Archived
  <2> QED
    BY <1>1, <2>3, <2>4 DEF Archived
<1> QED
  BY <1>8, <1>9, <1>10, <1>11, <1>12 DEF Inductive

\* One execution moves, with what the log says of its observation, and nothing is told.
LEMMA MovesOn ==
  ASSUME TypeOK, Inductive, NEW o \in Obs, NEW r \in Observed, NEW w \in Place,
         work[o] # "none", obs' = [obs EXCEPT ![o] = r], work' = [work EXCEPT ![o] = w],
         r = obs[o] \/ (/\ r.stage \in {"completed", "applied"} /\ r.seen = obs[o].seen
                        /\ obs[o].stage = "requested" \/ r.reported = obs[o].reported),
         w = "ready" => r.stage \in {"requested", "completed"},
         w = "judge" => r.stage = "requested",
         w \in {"fold", "land", "finalize", "close", "settle", "apply"} => r.stage = "completed",
         UNCHANGED <<body, summary, turn>>, pc' = pc \/ pc' = "off",
         endings \subseteq endings', endings' \subseteq endings \cup {Closing}
  PROVE  obs' \in [Obs -> Observed] /\ work' \in [Obs -> Place] /\ Inductive'
<1>1. /\ obs' \in [Obs -> Observed] /\ work' \in [Obs -> Place]
      /\ obs'[o] = r /\ work'[o] = w
      /\ \A p \in Obs \ {o} : obs'[p] = obs[p] /\ work'[p] = work[p]
  BY DEF TypeOK
<1>2. PlaceOfStage'
  <2>1. r.stage = "requested" => r.action = "none"
    BY DEF Inductive, PlaceOfStage
  <2> QED
    BY <1>1, <2>1, PlaceKeeps DEF Inductive
<1>3. Onward
  <2>1. CASE r = obs[o]
    <3>1. obs' = obs
      BY <2>1 DEF TypeOK
    <3> QED
      BY <3>1, NoneGoesOn
  <2>2. CASE r # obs[o]
    <3>1. ~New(o)
      BY UnderWay DEF Inductive
    <3> QED
      BY <2>2, <3>1, OneGoesOn
  <2> QED
    BY <2>1, <2>2
<1>4. Quiet
  BY <1>3 DEF Quiet, Inductive, TurnOfStage
<1> QED
  BY <1>1, <1>2, <1>4, QuietKeeps DEF Inductive

\* An execution comes back, or decides, and no more.
LEMMA ReviewKeeps ==
  ASSUME TypeOK, Inductive, NEW o \in Obs, ResumeReview(o) \/ Judged(o) \/ Dispose(o)
  PROVE  TypeOK' /\ Inductive'
<1> DEFINE dropped == Completed(o, "keep_raw", "none", FALSE)
<1>1. obs[o] \in Observed
  BY DEF TypeOK
<1>2. /\ dropped \in Observed /\ dropped.stage = "completed" /\ dropped.seen = obs[o].seen
  BY <1>1, CompletedIs DEF Action
<1> HIDE DEF dropped
<1>3. CASE ResumeReview(o)
  <2>1. work[o] = "ready" /\ obs[o].stage \in {"requested", "completed"}
    BY <1>3 DEF ResumeReview, Inductive, PlaceOfStage
  <2>2. PICK r \in Observed, w \in Place :
          /\ obs' = [obs EXCEPT ![o] = r] /\ work' = [work EXCEPT ![o] = w]
          /\ r = obs[o] \/ (/\ r.stage = "completed" /\ r.seen = obs[o].seen
                            /\ obs[o].stage = "requested")
          /\ w \in {"judge", "settle", "fold", "apply"} /\ (w = "judge" <=> r.stage = "requested")
    <3>1. CASE Overruled(o)
      <4> DEFINE r == IF obs[o].stage = "completed" THEN obs[o] ELSE dropped
      <4>1. obs' = [obs EXCEPT ![o] = r] /\ work' = [work EXCEPT ![o] = "apply"]
        BY <1>3, <3>1 DEF ResumeReview, Goes, dropped
      <4>2. r \in Observed /\ "apply" \in Place /\ r.stage = "completed"
            /\ (r = obs[o] \/ (r.seen = obs[o].seen /\ obs[o].stage = "requested"))
        BY <1>1, <1>2, <2>1 DEF Place
      <4> HIDE DEF r
      <4> QED
        BY <4>1, <4>2
    <3>2. CASE ~Overruled(o)
      <4> DEFINE w == IF obs[o].stage = "requested" THEN "judge"
                      ELSE IF obs[o].settled THEN "settle" ELSE "fold"
      <4>1. obs' = [obs EXCEPT ![o] = obs[o]] /\ work' = [work EXCEPT ![o] = w]
        BY <1>3, <3>2 DEF ResumeReview, Goes, TypeOK
      <4>2. w \in Place /\ w \in {"judge", "settle", "fold", "apply"}
            /\ (w = "judge" <=> obs[o].stage = "requested")
        BY DEF Place
      <4> HIDE DEF w
      <4> QED
        BY <1>1, <4>1, <4>2
    <3> QED
      BY <3>1, <3>2
  <2>3. UNCHANGED <<body, summary, turn, pc, endings>>
    BY <1>3 DEF ResumeReview, run
  <2>4. guard' \subseteq Obs
    BY <1>3 DEF ResumeReview, TypeOK
  <2>5. obs' \in [Obs -> Observed] /\ work' \in [Obs -> Place] /\ Inductive'
    BY <2>1, <2>2, <2>3, MovesOn
  <2> QED
    BY <1>3, <2>4, <2>5 DEF ResumeReview, TypeOK, task, run, owner
<1>4. CASE Judged(o)
  <2>1. work[o] = "judge" /\ obs[o].stage = "requested"
    BY <1>4 DEF Judged, Inductive, PlaceOfStage
  <2>2. PICK verdict \in Verdicts, reported \in BOOLEAN :
          obs' = [obs EXCEPT ![o] = Completed(o, "foreground", verdict, reported)]
    BY <1>4 DEF Judged
  <2> DEFINE r == Completed(o, "foreground", verdict, reported)
  <2>3. r \in Observed /\ r.stage = "completed" /\ r.seen = obs[o].seen
    BY <1>1, CompletedIs DEF Action, Verdicts
  <2>4. obs' = [obs EXCEPT ![o] = r] /\ work' = [work EXCEPT ![o] = "fold"] /\ "fold" \in Place
        /\ UNCHANGED <<body, summary, turn, pc, endings>>
    BY <1>4, <2>2 DEF Judged, Goes, Place, run
  <2> HIDE DEF r
  <2>5. obs' \in [Obs -> Observed] /\ work' \in [Obs -> Place] /\ Inductive'
    BY <2>1, <2>3, <2>4, MovesOn
  <2> QED
    BY <1>4, <2>5 DEF Judged, TypeOK, task, run, owner
<1>5. CASE Dispose(o)
  <2>1. work[o] = "settle" /\ obs[o].stage = "completed"
    BY <1>5 DEF Dispose, Inductive, PlaceOfStage
  <2> DEFINE r == IF obs[o].settled THEN obs[o] ELSE [obs[o] EXCEPT !.settled = TRUE]
  <2>2. r \in Observed /\ r.stage = "completed" /\ r.seen = obs[o].seen
        /\ r.reported = obs[o].reported
    BY <1>1, <2>1 DEF Observed
  <2>3. obs' = [obs EXCEPT ![o] = r] /\ work' = [work EXCEPT ![o] = "apply"] /\ "apply" \in Place
    BY <1>5 DEF Dispose, Goes, Place, TypeOK
  <2>4. UNCHANGED <<body, summary, turn, endings>> /\ (pc' = pc \/ pc' = "off")
    BY <1>5 DEF Dispose
  <2> HIDE DEF r
  <2>5. obs' \in [Obs -> Observed] /\ work' \in [Obs -> Place] /\ Inductive'
    BY <2>1, <2>2, <2>3, <2>4, MovesOn
  <2>6. /\ {status', logged'} \subseteq Status /\ guard' \subseteq Obs
        /\ {signal', queued'} \subseteq BOOLEAN
        /\ pc' \in {"off", "act", "park", "settle", "observe"}
    BY <1>5 DEF Dispose, Settled, TypeOK, Status, Leaves, NewToken
  <2> QED
    BY <1>5, <2>5, <2>6 DEF Dispose, TypeOK
<1> QED
  BY <1>3, <1>4, <1>5

\* A review that goes on tells its segment.
LEMMA FoldRetryKeeps ==
  ASSUME TypeOK, Inductive, NEW o \in Obs, FoldRetry(o)
  PROVE  TypeOK' /\ Inductive'
<1>1. /\ o[2] = "fg" /\ work[o] = "fold" /\ work' = [work EXCEPT ![o] = "finalize"]
      /\ UNCHANGED <<obs, turn, pc, endings>>
  BY DEF FoldRetry, Goes, run
<1>2. obs[o].stage = "completed" /\ "finalize" \in Place
  BY <1>1 DEF Inductive, PlaceOfStage, Place
<1>3. CASE UNCHANGED <<summary, body>>
  <2>1. obs' = [obs EXCEPT ![o] = obs[o]] /\ obs[o] \in Observed
    BY <1>1 DEF TypeOK
  <2>2. work' \in [Obs -> Place] /\ Inductive'
    BY <1>1, <1>2, <1>3, <2>1, MovesOn
  <2> QED
    BY <1>3, <2>2 DEF FoldRetry, TypeOK, task, run, owner
<1>4. CASE /\ summary' = [summary EXCEPT ![o] = Segment(o[1])] /\ summary[o] = {}
           /\ body' = [k \in Turn |-> IF k \in Segment(o[1]) THEN "told" ELSE body[k]]
  <2>1. Segment(o[1]) \in SUBSET Turn /\ \A k \in Segment(o[1]) : body[k] = "raw"
    BY SegmentFacts, ObsFacts
  <2>2. /\ body' \in [Turn -> {"none", "raw", "told", "archived"}]
        /\ summary' \in [Obs -> SUBSET Turn]
        /\ TurnOfStage' /\ Told' /\ Archived'
    BY <1>1, <1>2, <1>4, <2>1, Tells
  <2>3. /\ work' \in [Obs -> Place] /\ work'[o] = "finalize"
        /\ \A p \in Obs \ {o} : obs'[p] = obs[p] /\ work'[p] = work[p]
    BY <1>1, <1>2 DEF TypeOK
  <2>4. PlaceOfStage'
    BY <1>1, <1>2, <2>3, PlaceKeeps DEF Inductive
  <2> QED
    BY <2>2, <2>3, <2>4 DEF FoldRetry, TypeOK, Inductive, task, run, owner
<1> QED
  BY <1>3, <1>4 DEF FoldRetry

\* A decision that ends the task is written to memory.
LEMMA FinalizeKeeps ==
  ASSUME TypeOK, Inductive, NEW o \in Obs, FinalizeStep(o) \/ FinalizeOutOfBand(o)
  PROVE  TypeOK' /\ Inductive'
<1>1. /\ work[o] = "finalize" /\ Finalize(o) /\ UNCHANGED <<summary, turn, pc>>
      /\ \E w \in {"settle", "close"} : work' = [work EXCEPT ![o] = w]
  BY DEF FinalizeStep, FinalizeOutOfBand, Goes, run
<1>2. obs[o].stage = "completed"
  BY <1>1 DEF Inductive, PlaceOfStage
<1>3. /\ obs' \in [Obs -> Observed] /\ obs'[o].stage = "completed"
      /\ \A p \in Obs \ {o} : obs'[p] = obs[p]
      /\ body' \in [Turn -> {"none", "raw", "told", "archived"}]
      /\ endings' \subseteq Obs \cup {Closing}
      /\ TurnOfStage' /\ Told' /\ Archived'
  BY <1>1, <1>2, Finalizes
<1>4. /\ work' \in [Obs -> Place] /\ work'[o] \in {"settle", "close"}
      /\ \A p \in Obs \ {o} : work'[p] = work[p]
  BY <1>1 DEF TypeOK, Place
<1>5. PlaceOfStage'
  BY <1>3, <1>4, PlaceKeeps DEF Inductive
<1>6. UNCHANGED <<logged, gone, bubble, task, run, guard, revived, owner, budget>>
  BY DEF FinalizeStep, FinalizeOutOfBand
<1> QED
  BY <1>1, <1>3, <1>4, <1>5, <1>6 DEF TypeOK, Inductive, task, run, owner
-------------------------------------------------------------------------------
(***************************************************************************)
(* The observation in the background                                       *)
(***************************************************************************)
\* An observation takes its turn, or decides, and no more.
LEMMA ObserverKeeps ==
  ASSUME TypeOK, Inductive, NEW o \in Obs, Begin(o) \/ Recap(o) \/ Verdict(o) \/ Land(o)
  PROVE  TypeOK' /\ Inductive'
<1> DEFINE dropped == Completed(o, "keep_raw", "none", FALSE)
<1>1. obs[o] \in Observed
  BY DEF TypeOK
<1>2. /\ dropped \in Observed /\ dropped.stage = "completed" /\ dropped.seen = obs[o].seen
  BY <1>1, CompletedIs DEF Action
<1> HIDE DEF dropped
<1>3. CASE Begin(o)
  <2>1. /\ work[o] = "ready" /\ obs[o].stage \in {"requested", "completed"}
        /\ obs[o].action = "close" => obs[o].stage = "completed"
    BY <1>3 DEF Begin, Inductive, PlaceOfStage
  <2>2. PICK r \in Observed, w \in Place :
          /\ obs' = [obs EXCEPT ![o] = r] /\ work' = [work EXCEPT ![o] = w]
          /\ r = obs[o] \/ (/\ r.stage = "completed" /\ r.seen = obs[o].seen
                            /\ obs[o].stage = "requested")
          /\ w \in {"judge", "finalize", "fold", "apply"} /\ (w = "judge" => r.stage = "requested")
          /\ w \in {"finalize", "fold", "apply"} => r.stage = "completed"
    <3>1. CASE status = "CANCELED"
      <4> DEFINE r == IF obs[o].stage = "completed" THEN obs[o] ELSE dropped
      <4>1. obs' = [obs EXCEPT ![o] = r] /\ work' = [work EXCEPT ![o] = "apply"]
        BY <1>3, <3>1 DEF Begin, Goes, dropped
      <4>2. r \in Observed /\ "apply" \in Place /\ r.stage = "completed"
            /\ (r = obs[o] \/ (r.seen = obs[o].seen /\ obs[o].stage = "requested"))
        BY <1>1, <1>2, <2>1 DEF Place
      <4> HIDE DEF r
      <4> QED
        BY <4>1, <4>2
    <3>2. CASE status # "CANCELED"
      <4> DEFINE w == IF obs[o].action = "close" /\ ~IsTreeCanceled THEN "finalize"
                      ELSE IF obs[o].stage = "requested" THEN "judge" ELSE "fold"
      <4>1. obs' = [obs EXCEPT ![o] = obs[o]] /\ work' = [work EXCEPT ![o] = w]
        BY <1>3, <3>2 DEF Begin, Goes, TypeOK
      <4>2. w \in Place /\ w \in {"judge", "finalize", "fold", "apply"}
            /\ (w = "judge" => obs[o].stage = "requested")
            /\ (w \in {"finalize", "fold", "apply"} => obs[o].stage = "completed")
        BY <2>1 DEF Place
      <4> HIDE DEF w
      <4> QED
        BY <1>1, <4>1, <4>2
    <3> QED
      BY <3>1, <3>2
  <2>3. UNCHANGED <<body, summary, turn, pc, endings>>
    BY <1>3 DEF Begin, run
  <2>4. obs' \in [Obs -> Observed] /\ work' \in [Obs -> Place] /\ Inductive'
    BY <2>1, <2>2, <2>3, MovesOn
  <2>5. guard' \subseteq Obs /\ status' \in Status
    BY <1>3 DEF Begin, TypeOK, Status
  <2> QED
    BY <1>3, <2>4, <2>5 DEF Begin, TypeOK, run, owner
<1>4. CASE Recap(o)
  <2>1. work[o] = "judge" /\ obs[o].stage = "requested"
    BY <1>4 DEF Recap, Inductive, PlaceOfStage
  <2>2. PICK action \in {"recap", "keep_raw"} :
          obs' = [obs EXCEPT ![o] = Completed(o, action, "none", FALSE)]
    BY <1>4 DEF Recap
  <2> DEFINE r == Completed(o, action, "none", FALSE)
  <2>3. r \in Observed /\ r.stage = "completed" /\ r.seen = obs[o].seen
    <3>1. action \in Action
      BY <2>2 DEF Action
    <3> QED
      BY <1>1, <3>1, CompletedIs
  <2>4. obs' = [obs EXCEPT ![o] = r] /\ work' = [work EXCEPT ![o] = "fold"] /\ "fold" \in Place
        /\ UNCHANGED <<body, summary, turn, pc, endings>>
    BY <1>4, <2>2 DEF Recap, Goes, Place, run
  <2> HIDE DEF r
  <2>5. obs' \in [Obs -> Observed] /\ work' \in [Obs -> Place] /\ Inductive'
    BY <2>1, <2>3, <2>4, MovesOn
  <2> QED
    BY <1>4, <2>5 DEF Recap, TypeOK, task, run, owner
<1>5. CASE Verdict(o)
  <2>1. work[o] = "judge" /\ obs[o].stage = "requested"
    BY <1>5 DEF Verdict, Inductive, PlaceOfStage
  <2>2. PICK r \in Observed, w \in {"fold", "land"} :
          /\ obs' = [obs EXCEPT ![o] = r] /\ work' = [work EXCEPT ![o] = w]
          /\ r.stage = "completed" /\ r.seen = obs[o].seen
    <3>1. PICK verdict \in Verdicts, reported \in BOOLEAN :
            \/ /\ obs' = [obs EXCEPT ![o] = Completed(o, "close", "done", reported)]
               /\ Goes(o, "land")
            \/ /\ obs' = [obs EXCEPT ![o] = Completed(o, IF reported THEN "recap" ELSE "keep_raw",
                                                      "none", FALSE)]
               /\ Goes(o, "fold")
      BY <1>5 DEF Verdict
    <3> DEFINE ends == Completed(o, "close", "done", reported)
    <3>2. ends \in Observed /\ ends.stage = "completed" /\ ends.seen = obs[o].seen
      <4>1. "close" \in Action /\ "done" \in {"none", "done", "continue"}
        BY DEF Action
      <4> QED
        BY <1>1, <4>1, CompletedIs
    <3> DEFINE tells == Completed(o, IF reported THEN "recap" ELSE "keep_raw", "none", FALSE)
    <3>3. tells \in Observed /\ tells.stage = "completed" /\ tells.seen = obs[o].seen
      <4>1. (IF reported THEN "recap" ELSE "keep_raw") \in Action
        BY DEF Action
      <4> QED
        BY <1>1, <4>1, CompletedIs
    <3>4. \/ obs' = [obs EXCEPT ![o] = ends] /\ work' = [work EXCEPT ![o] = "land"]
          \/ obs' = [obs EXCEPT ![o] = tells] /\ work' = [work EXCEPT ![o] = "fold"]
      BY <3>1 DEF Goes
    <3> HIDE DEF ends, tells
    <3> QED
      BY <3>2, <3>3, <3>4
  <2>3. UNCHANGED <<body, summary, turn, pc, endings>> /\ w \in Place
    BY <1>5 DEF Verdict, run, Place
  <2>4. obs' \in [Obs -> Observed] /\ work' \in [Obs -> Place] /\ Inductive'
    BY <2>1, <2>2, <2>3, MovesOn
  <2> QED
    BY <1>5, <2>4 DEF Verdict, TypeOK, task, run, owner
<1>6. CASE Land(o)
  <2>1. work[o] = "land" /\ obs[o].stage = "completed" /\ "finalize" \in Place
    BY <1>6 DEF Land, Inductive, PlaceOfStage, Place
  <2>2. obs' = [obs EXCEPT ![o] = obs[o]] /\ work' = [work EXCEPT ![o] = "finalize"]
        /\ UNCHANGED <<body, summary, turn, pc, endings>>
    BY <1>6 DEF Land, Goes, TypeOK, run
  <2>3. obs' \in [Obs -> Observed] /\ work' \in [Obs -> Place] /\ Inductive'
    BY <1>1, <2>1, <2>2, MovesOn
  <2> QED
    BY <1>6, <2>3 DEF Land, TypeOK, Status, run, owner
<1> QED
  BY <1>3, <1>4, <1>5, <1>6

\* An observation tells what it was given, all of it or nothing.
LEMMA FoldSegmentKeeps ==
  ASSUME TypeOK, Inductive, NEW o \in Obs, FoldSegment(o)
  PROVE  TypeOK' /\ Inductive'
<1>1. /\ o[2] = "bg" /\ work[o] = "fold" /\ work' = [work EXCEPT ![o] = "apply"]
      /\ UNCHANGED <<obs, turn, pc, endings>> /\ guard' \subseteq Obs
  BY DEF FoldSegment, Goes, run, Leaves, TypeOK
<1>2. obs[o].stage = "completed" /\ "apply" \in Place /\ obs[o] \in Observed
  BY <1>1 DEF Inductive, PlaceOfStage, Place, TypeOK
<1>3. CASE UNCHANGED <<summary, body>>
  <2>1. obs' = [obs EXCEPT ![o] = obs[o]]
    BY <1>1 DEF TypeOK
  <2>2. work' \in [Obs -> Place] /\ Inductive'
    BY <1>1, <1>2, <1>3, <2>1, MovesOn
  <2> QED
    BY <1>1, <1>3, <2>2 DEF FoldSegment, TypeOK, task, run, owner
<1>4. CASE /\ summary' = [summary EXCEPT ![o] = obs[o].seen] /\ StillThere(obs[o].seen)
           /\ body' = [k \in Turn |-> IF k \in obs[o].seen THEN "told" ELSE body[k]]
  <2>1. obs[o].seen \in SUBSET Turn /\ \A k \in obs[o].seen : body[k] = "raw"
    BY <1>2, <1>4 DEF Observed, StillThere, Raw
  <2>2. summary[o] = {}
    BY <1>1, <1>4, <2>1 DEF Inductive, Told, StillThere
  <2>3. /\ body' \in [Turn -> {"none", "raw", "told", "archived"}]
        /\ summary' \in [Obs -> SUBSET Turn]
        /\ TurnOfStage' /\ Told' /\ Archived'
    BY <1>1, <1>2, <1>4, <2>1, <2>2, Tells
  <2>4. /\ work' \in [Obs -> Place] /\ work'[o] = "apply"
        /\ \A p \in Obs \ {o} : obs'[p] = obs[p] /\ work'[p] = work[p]
    BY <1>1, <1>2 DEF TypeOK
  <2>5. PlaceOfStage'
    BY <1>1, <1>2, <2>4, PlaceKeeps DEF Inductive
  <2> QED
    BY <1>1, <2>3, <2>4, <2>5 DEF FoldSegment, TypeOK, Inductive, task, run, owner
<1> QED
  BY <1>3, <1>4 DEF FoldSegment

\* An ending is announced, or an observation is over.
LEMMA EndsKeep ==
  ASSUME TypeOK, Inductive, NEW o \in Obs, ClosePark(o) \/ Announce(o) \/ Applied(o)
  PROVE  TypeOK' /\ Inductive'
<1>1. obs[o] \in Observed
  BY DEF TypeOK
<1>2. CloseBubbles => bubble' \in [Turn -> {"none", "open", "answered", "closed"}]
  BY DEF CloseBubbles, TypeOK
<1>3. CASE ClosePark(o)
  <2>1. work[o] = "close" /\ obs[o].stage = "completed"
    BY <1>3 DEF ClosePark, Inductive, PlaceOfStage
  <2>2. obs' = [obs EXCEPT ![o] = obs[o]] /\ work' = [work EXCEPT ![o] = "settle"]
        /\ "settle" \in Place /\ UNCHANGED <<body, summary, turn, pc, endings>>
    BY <1>3 DEF ClosePark, Goes, Place, run, TypeOK
  <2>3. work' \in [Obs -> Place] /\ Inductive'
    BY <1>1, <2>1, <2>2, MovesOn
  <2> QED
    BY <1>2, <1>3, <2>3 DEF ClosePark, TypeOK, task, run, owner
<1>4. CASE Announce(o)
  <2>1. work[o] = "settle" /\ obs[o].stage = "completed"
    BY <1>4 DEF Announce, Inductive, PlaceOfStage
  <2> DEFINE r == IF obs[o].settled THEN obs[o] ELSE [obs[o] EXCEPT !.settled = TRUE]
  <2>2. r \in Observed /\ r.stage = "completed" /\ r.seen = obs[o].seen
        /\ r.reported = obs[o].reported
    BY <1>1, <2>1 DEF Observed
  <2>3. obs' = [obs EXCEPT ![o] = r] /\ work' = [work EXCEPT ![o] = "apply"] /\ "apply" \in Place
    BY <1>4 DEF Announce, Goes, Place, TypeOK
  <2>4. UNCHANGED <<body, summary, turn, endings, pc>>
    BY <1>4 DEF Announce, run
  <2> HIDE DEF r
  <2>5. obs' \in [Obs -> Observed] /\ work' \in [Obs -> Place] /\ Inductive'
    BY <2>1, <2>2, <2>3, <2>4, MovesOn
  <2>6. {status', logged'} \subseteq Status /\ guard' \subseteq Obs
    BY <1>4 DEF Announce, TypeOK, Status, Leaves
  <2> QED
    BY <1>4, <2>5, <2>6 DEF Announce, TypeOK, run, owner
<1>5. CASE Applied(o)
  <2>1. work[o] = "apply" /\ obs[o].stage = "completed"
    BY <1>5 DEF Applied, Inductive, PlaceOfStage
  <2> DEFINE r == [obs[o] EXCEPT !.stage = "applied"]
  <2>2. r \in Observed /\ r.stage = "applied" /\ r.seen = obs[o].seen
        /\ r.reported = obs[o].reported
    BY <1>1 DEF Observed, Stage
  <2>3. obs' = [obs EXCEPT ![o] = r] /\ work' = [work EXCEPT ![o] = "none"] /\ "none" \in Place
    BY <1>5 DEF Applied, Goes, Place
  <2>4. UNCHANGED <<body, summary, turn, pc>> /\ endings' \in {endings, endings \cup {Closing}}
    BY <1>5 DEF Applied, run
  <2> HIDE DEF r
  <2>5. obs' \in [Obs -> Observed] /\ work' \in [Obs -> Place] /\ Inductive'
    BY <2>1, <2>2, <2>3, <2>4, MovesOn
  <2>6. bubble' \in [Turn -> {"none", "open", "answered", "closed"}]
    BY <1>2, <1>5 DEF Applied, TypeOK
  <2> QED
    BY <1>5, <2>4, <2>5, <2>6 DEF Applied, TypeOK, task, run, owner
<1> QED
  BY <1>3, <1>4, <1>5
-------------------------------------------------------------------------------
(***************************************************************************)
(* The user, the host and the machine                                      *)
(***************************************************************************)
\* Whoever answers or cancels leaves the observations alone.
LEMMA CommandKeeps ==
  ASSUME TypeOK, Inductive, (\E k \in Turn : Reply(k)) \/ Cancel \/ CommitCancel \/ Closure
  PROVE  TypeOK' /\ Inductive'
<1>1. CASE \E k \in Turn : Reply(k)
  <2>1. PICK k \in Turn : Reply(k)
    BY <1>1
  <2>2. Inductive'
    BY <2>1, AsideKeeps DEF Reply, run, observers
  <2>3. bubble' \in [Turn -> {"none", "open", "answered", "closed"}]
    BY <2>1 DEF Reply, TypeOK
  <2>4. {status', logged'} \subseteq Status /\ queued' \in BOOLEAN
    BY <2>1 DEF Reply, TypeOK, Status
  <2> QED
    BY <2>1, <2>2, <2>3, <2>4 DEF Reply, TypeOK, run, observers
<1>2. CASE Cancel
  <2>1. Inductive'
    BY <1>2, AsideKeeps DEF Cancel, observers
  <2>2. budget' \in Budget
    BY <1>2, ObservationAssumption DEF Cancel, TypeOK, Budget
  <2>3. /\ {gone', condemned', signal'} \subseteq BOOLEAN
        /\ stopping' \in {"none", "commit", "closure"}
    BY <1>2 DEF Cancel, TypeOK
  <2> QED
    BY <1>2, <2>1, <2>2, <2>3 DEF Cancel, TypeOK, observers
<1>3. CASE CommitCancel
  <2>1. Inductive'
    BY <1>3, AsideKeeps DEF CommitCancel, run, observers
  <2>2. /\ {status', logged'} \subseteq Status /\ queued' \in BOOLEAN
        /\ stopping' \in {"none", "commit", "closure"}
    BY <1>3 DEF CommitCancel, TypeOK, Status
  <2> QED
    BY <1>3, <2>1, <2>2 DEF CommitCancel, TypeOK, run, observers
<1>4. CASE Closure
  <2>1. Inductive'
    BY <1>4, AsideKeeps DEF Closure, run, observers
  <2>2. bubble' \in [Turn -> {"none", "open", "answered", "closed"}]
    BY <1>4 DEF Closure, CloseBubbles, TypeOK
  <2>3. endings' \subseteq Obs \cup {Closing}
    BY <1>4 DEF Closure, TypeOK
  <2> QED
    BY <1>4, <2>1, <2>2, <2>3 DEF Closure, TypeOK, task, run, observers
<1> QED
  BY <1>1, <1>2, <1>3, <1>4

\* What a process knew of its executions is gone, what it wrote is not.
LEMMA CrashKeeps ==
  ASSUME TypeOK, Inductive, Crash
  PROVE  TypeOK' /\ Inductive'
<1>1. UNCHANGED <<obs, body, summary, turn, endings>> /\ pc' = "off"
  BY DEF Crash, durable
<1>2. TypeOK'
  <2>1. budget' \in Budget
    BY ObservationAssumption DEF Crash, TypeOK, Budget
  <2>2. work' \in [Obs -> Place]
    BY DEF Crash, NoExecution, Place
  <2> QED
    BY <2>1, <2>2 DEF Crash, durable, TypeOK, Status
<1>3. Quiet
  BY <1>1, NoneGoesOn DEF Quiet
<1>4. PlaceOfStage'
  <2>1. \A o \in Obs : work'[o] = "none"
    BY DEF Crash, NoExecution
  <2> QED
    BY <1>1, <2>1 DEF Inductive, PlaceOfStage
<1> QED
  BY <1>2, <1>3, <1>4, QuietKeeps DEF Inductive

\* A restart takes up what is not applied, each where its record says.
LEMMA ActivateKeeps ==
  ASSUME TypeOK, Inductive, Activate
  PROVE  TypeOK' /\ Inductive'
<1>1. /\ UNCHANGED <<obs, gone, body, summary, condemned, signal, turn, guard, stopping, budget>>
      /\ pc' \in {"off", "observe"} /\ (pc' = "observe" => Again # {})
      /\ endings' \in {endings, endings \cup {Closing}}
      /\ bubble' = bubble \/ CloseBubbles
      /\ revived' = {o \in Obs : Pending(o)} \ Again
      /\ work' = [o \in Obs |-> IF Pending(o) THEN "ready" ELSE "none"]
      /\ prepared' = FALSE /\ queued' \in BOOLEAN
  BY DEF Activate
<1>2. {status', logged'} \subseteq Status
  <2>1. Restore \in Status
    BY DEF Restore, TypeOK, Status
  <2> QED
    BY <2>1 DEF Activate, TypeOK, Status
<1>3. TypeOK'
  <2>1. bubble' \in [Turn -> {"none", "open", "answered", "closed"}]
    BY <1>1 DEF CloseBubbles, TypeOK
  <2>2. work' \in [Obs -> Place] /\ revived' \subseteq Obs
    BY <1>1 DEF Place
  <2> QED
    BY <1>1, <1>2, <2>1, <2>2 DEF TypeOK
<1>4. Again # {} => turn > 0
  <2> SUFFICES ASSUME NEW o \in Again PROVE turn > 0
    OBVIOUS
  <2>1. o \in Obs /\ o[1] \in Turn /\ o = <<o[1], "fg">> /\ ~New(o)
    BY ObsFacts DEF Again, Pending, New
  <2>2. ~(o[1] > turn)
    BY <2>1 DEF Inductive, TurnOfStage, Untouched
  <2> QED
    BY <2>1, <2>2, ObservationAssumption DEF Turn, TypeOK
<1>5. Quiet
  BY <1>1, <1>4, NoneGoesOn DEF Quiet
<1>6. PlaceOfStage'
  BY <1>1 DEF Inductive, PlaceOfStage, Pending
<1> QED
  BY <1>3, <1>5, <1>6, QuietKeeps DEF Inductive
-------------------------------------------------------------------------------
(***************************************************************************)
(* The specification                                                       *)
(***************************************************************************)
\* Nothing has happened yet.
LEMMA InitHolds == Init => TypeOK /\ Inductive
<1> SUFFICES ASSUME Init PROVE TypeOK /\ Inductive
  OBVIOUS
<1>1. Blank \in Observed /\ Blank.stage = "none"
  BY DEF Blank, Observed, Stage, Action
<1>2. \A o \in Obs : obs[o] = Blank /\ summary[o] = {} /\ work[o] = "none"
  BY DEF Init, NoExecution
<1>3. TypeOK
  <2>1. obs \in [Obs -> Observed] /\ work \in [Obs -> Place]
    BY <1>1 DEF Init, NoExecution, Place
  <2>2. turn \in 0 .. MaxTurns /\ budget \in Budget
    BY ObservationAssumption DEF Init, Budget
  <2> QED
    BY <2>1, <2>2 DEF Init, TypeOK, Status
<1>4. \A k \in Turn : body[k] = "none" /\ Untouched(k)
  BY <1>1, <1>2, ObsFacts DEF Init, Untouched, New
<1>5. PlaceOfStage
  BY <1>1, <1>2 DEF PlaceOfStage
<1>6. TurnOfStage
  BY <1>1, <1>2, <1>4, ObsFacts DEF Init, TurnOfStage
<1>7. Told /\ Archived
  BY <1>2, <1>4 DEF Init, Told, Archived
<1> QED
  BY <1>3, <1>5, <1>6, <1>7 DEF Inductive

\* A step that leaves everything as it is.
LEMMA StutterKeeps ==
  ASSUME TypeOK, Inductive, UNCHANGED vars
  PROVE  TypeOK' /\ Inductive'
<1>1. UNCHANGED <<obs, body, summary, turn, pc, work, endings>>
  BY DEF vars, durable, run, observers
<1>2. Inductive'
  BY <1>1, AsideKeeps
<1>3. TypeOK'
  BY DEF vars, durable, task, run, observers, owner, TypeOK
<1> QED
  BY <1>2, <1>3

\* Every step keeps the invariant.
LEMMA NextKeeps ==
  ASSUME TypeOK, Inductive, [Next]_vars
  PROVE  TypeOK' /\ Inductive'
<1>1. CASE \E o \in Obs : Observer(o)
  <2>1. PICK o \in Obs : Observer(o)
    BY <1>1
  <2>2. CASE Foreground(o)
    BY <2>2, ReviewKeeps, FoldRetryKeeps, FinalizeKeeps DEF Foreground
  <2>3. CASE Background(o)
    BY <2>3, ObserverKeeps, FoldSegmentKeeps, FinalizeKeeps, EndsKeep DEF Background
  <2>4. CASE Applied(o)
    BY <2>4, EndsKeep
  <2> QED
    BY <2>1, <2>2, <2>3, <2>4 DEF Observer
<1>2. CASE RunOnly
  BY <1>2, SettlesPark, CancelRunKeeps DEF RunOnly
<1>3. CASE Choices
  <2>1. CASE ParkAwaitUser
    BY <2>1, ParkKeeps DEF ParkAwaitUser
  <2>2. CASE ParkForInterrupt
    BY <2>2, ParkKeeps DEF ParkForInterrupt
  <2> QED
    BY <1>3, <2>1, <2>2, DispatchKeeps, RequestForegroundKeeps, InterruptReviewKeeps DEF Choices
<1>4. CASE Commands
  BY <1>4, CommandKeeps, ActivateKeeps DEF Commands
<1>5. CASE Crash
  BY <1>5, CrashKeeps
<1>6. CASE UNCHANGED vars
  BY <1>6, StutterKeeps
<1> QED
  BY <1>1, <1>2, <1>3, <1>4, <1>5, <1>6 DEF Next

\* An execution never does more than the log says of its observation, a turn is
\* observed before the next one is written, and it is told by one observation
\* at most, in every reachable state: each action of the model keeps this.
THEOREM InductiveInvariant == Spec => [](TypeOK /\ Inductive)
<1>1. Init => TypeOK /\ Inductive
  BY InitHolds
<1>2. TypeOK /\ Inductive /\ [Next]_vars => (TypeOK /\ Inductive)'
  BY NextKeeps
<1> QED
  BY <1>1, <1>2, PTL DEF Spec

\* Every variable keeps its type.
THEOREM TypeCorrect == Spec => []TypeOK
BY InductiveInvariant, PTL

\* Every turn is told once, whether commands meet decisions that are not carried
\* out yet or not (Early), whenever the task goes on (Late), and whatever comes
\* between the check of a verdict and its landing (Between): raw, by one summary,
\* or by the report the task ended with.
THEOREM TurnsStayTold == Spec => []TurnsAreTold
<1>1. ASSUME TypeOK, Inductive PROVE TurnsAreTold
  <2> SUFFICES ASSUME NEW k \in Turn
               PROVE  /\ Cardinality({o \in Obs : k \in summary[o]})
                           = IF body[k] = "told" THEN 1 ELSE 0
                      /\ body[k] = "archived" => \E o \in endings \ {Closing} : obs[o].reported
    BY DEF TurnsAreTold
  <2> DEFINE tellers == {o \in Obs : k \in summary[o]}
  <2>1. body[k] = "told" => Cardinality(tellers) = 1
    <3> SUFFICES ASSUME body[k] = "told" PROVE Cardinality(tellers) = 1
      OBVIOUS
    <3>1. PICK o \in Obs : k \in summary[o]
      BY <1>1 DEF Inductive, Told
    <3>2. \A p \in Obs : k \in summary[p] => p = o
      BY <1>1, <3>1 DEF Inductive, Told
    <3>3. tellers = {o}
      BY <3>1, <3>2
    <3> QED
      BY <3>3, FS_Singleton
  <2>2. body[k] # "told" => Cardinality(tellers) = 0
    <3> SUFFICES ASSUME body[k] # "told" PROVE Cardinality(tellers) = 0
      OBVIOUS
    <3>1. tellers = {}
      BY <1>1 DEF Inductive, Told
    <3> QED
      BY <3>1, FS_EmptySet
  <2>3. body[k] = "archived" => \E o \in endings \ {Closing} : obs[o].reported
    BY <1>1 DEF Inductive, Archived
  <2> HIDE DEF tellers
  <2> QED
    BY <2>1, <2>2, <2>3 DEF tellers
<1> QED
  BY <1>1, InductiveInvariant, PTL
-------------------------------------------------------------------------------
(***************************************************************************)
(* When a task is over                                                     *)
(***************************************************************************)
Fg(k) == <<k, "fg">>
Over == status \in Terminal
NoBubble == \A k \in Turn : bubble[k] # "open"
NoReview == \A k \in Turn : ~Pending(Fg(k))

\* An accepted verdict that has landed and is not carried out to its end yet.
Lands(o) == work[o] = "land"
Closes(o) == obs[o].stage = "completed" /\ obs[o].action = "close" /\ ~Lands(o)

\* The status and what is recorded of it; a cancellation that is not committed
\* yet keeps the task from running, and meets no review.
Agreed ==
  /\ logged \in Terminal => status = logged
  /\ prepared \/ status \in {"ACTIVE", "AWAITING_HUMAN", "CANCELED"} => logged = status
  /\ Closing \in endings \/ stopping = "closure" => logged = "CANCELED"
  /\ stopping = "commit" =>
       /\ pc \notin {"act", "observe"} /\ (condemned \/ Over)
       /\ Over \/ \A k \in Turn : Pending(Fg(k)) => prepared \/ work[Fg(k)] = "apply"

\* Whatever is not applied has an execution, as long as the session is up.
Carried ==
  /\ prepared => pc = "off" /\ revived = {} /\ \A o \in Obs : ~Live(o)
  /\ ~prepared => \A o \in Obs : Pending(o) => Live(o)
  /\ \A o \in revived : Pending(o)
  /\ \A o \in Obs : obs[o].stage = "requested" => ~obs[o].settled /\ ~obs[o].finalized

\* What is in the queue waits for nothing.
QueueShape ==
  queued => /\ status = "PENDING" /\ pc = "off" /\ NoBubble
            /\ \A k \in Turn : Pending(Fg(k)) => work[Fg(k)] = "apply"

\* Where the run is says what the status may be.
RunShape ==
  /\ pc = "act" => status = "ACTIVE" /\ NoBubble /\ NoReview
  /\ pc = "observe" => /\ status = "ACTIVE" /\ Pending(Fg(turn)) /\ Fg(turn) \notin revived
                       /\ work[Fg(turn)] # "apply"
  /\ pc = "park" => /\ status \in {"ACTIVE", "PENDING", "CANCELED"}
                    /\ status = "ACTIVE" => bubble[turn] = "open"
  /\ pc = "settle" => /\ status # "ACTIVE"
                      /\ status = "AWAITING_HUMAN" => bubble[turn] \in {"open", "answered"}
  /\ pc \in {"park", "settle"} => /\ turn > 0 /\ NoReview
                                  /\ status = "PENDING" => bubble[turn] = "answered"

\* Only the last turn has an open question, and it is not closed before the end.
BubbleShape ==
  \A k \in Turn :
    /\ bubble[k] = "open" => /\ k = turn /\ status # "PENDING"
                             /\ status = "ACTIVE" => pc = "park" \/ prepared
    /\ bubble[k] = "closed" => Over \/ \E o \in Obs : Closes(o)

\* What a review in the foreground has decided, and what came of it.
ReviewShape ==
  \A k \in Turn : LET o == Fg(k) IN
    Pending(o) =>
      /\ k = turn /\ NoBubble /\ "AWAITING_HUMAN" \notin {status, logged}
      /\ obs[o].stage = "completed" => obs[o].action = "foreground" \/ status = "CANCELED"
      /\ obs[o].action = "foreground" => obs[o].verdict \in Verdicts
      /\ obs[o].settled => /\ obs[o].action = "foreground"
                           /\ {status, logged} \subseteq {Settled(o), "CANCELED"}
      /\ status = "FINISHED" => obs[o].settled
      /\ obs[o].stage = "requested" => /\ prepared \/ pc = "observe" \/ status = "CANCELED"
                                       /\ logged \notin {"FINISHED", "PENDING"}
      /\ work[o] = "judge" => pc = "observe"
      /\ work[o] \in {"fold", "finalize", "settle"} =>
           obs[o].action = "foreground" /\ status # "CANCELED"
      /\ work[o] = "apply" => Over \/ queued
      /\ prepared \/ pc = "observe" \/ work[o] = "apply" \/ o \in revived \/ status = "CANCELED"

\* An accepted verdict ends the task, and it is carried out in order.
CloseShape ==
  \A o \in Obs :
    /\ obs[o].action = "close" => o[2] = "bg" /\ obs[o].verdict = "done"
    /\ obs[o].action = "foreground" => o[2] = "fg"
    /\ o[2] = "bg" /\ work[o] \in {"finalize", "settle"} => obs[o].action = "close"
    /\ work[o] = "close" => obs[o].action = "close"
    /\ work[o] = "fold" => obs[o].action # "close"
    /\ Closes(o) =>
         /\ logged \in {"AWAITING_HUMAN", "FINISHED"}
         /\ IF prepared THEN stopping = "none" ELSE status = "FINISHED"
         /\ obs[o].finalized => o \in endings
         /\ work[o] \in {"close", "settle", "apply"} => obs[o].finalized
         /\ work[o] \in {"settle", "apply"} => bubble[o[1]] # "open"
         /\ obs[o].settled \/ work[o] = "apply" => logged = "FINISHED"

\* There is always somebody who will go on with the task.
Driven ==
  /\ status = "PENDING" => queued \/ prepared \/ pc \in {"park", "settle"} \/ ~NoReview
  /\ status = "ACTIVE" => pc # "off" \/ prepared \/ ~NoReview
  /\ status = "AWAITING_HUMAN" => prepared \/ pc = "settle" \/ (turn > 0 /\ bubble[turn] = "open")
  /\ status = "FINISHED" => logged = "FINISHED" \/ \E o \in Obs : Closes(o)

\* One verdict at a time lands, and the status it was judged by is still there.
LandShape ==
  \A o \in Obs : Lands(o) =>
    /\ status = "AWAITING_HUMAN" /\ obs[o].action = "close"
    /\ ~obs[o].settled /\ ~obs[o].finalized
    /\ \A p \in Obs : Lands(p) => p = o

Ordered == /\ Agreed /\ Carried /\ QueueShape /\ RunShape
           /\ BubbleShape /\ ReviewShape /\ CloseShape /\ Driven

\* The reviews, by turn.
LEMMA FgFacts ==
  /\ \A k \in Turn : Fg(k) \in Obs /\ Fg(k)[1] = k /\ Fg(k)[2] = "fg"
  /\ \A o \in Obs : o[2] = "fg" => o[1] \in Turn /\ o = Fg(o[1])
  /\ \A o \in Obs : o[2] = "bg" => \A k : o # Fg(k)
  /\ \A j, k : Fg(j) = Fg(k) => j = k
BY DEF Fg, Obs, Turn

\* A verdict that is not carried out yet has ended the task.
LEMMA ClosesIs ==
  ASSUME Ordered, ~prepared, NEW o \in Obs, Closes(o)
  PROVE  status = "FINISHED" /\ logged \in {"AWAITING_HUMAN", "FINISHED"}
BY DEF Ordered, CloseShape

\* Whoever is not over has closed no question.
LEMMA NotOver ==
  ASSUME TypeOK, Ordered, ~prepared, ~Over
  PROVE  /\ \A o \in Obs : ~Closes(o)
         /\ \A k \in Turn : bubble[k] # "closed"
         /\ logged \notin Terminal
<1>1. \A o \in Obs : ~Closes(o)
  BY ClosesIs DEF Over, Terminal
<1>2. \A k \in Turn : bubble[k] # "closed"
  BY <1>1 DEF Ordered, BubbleShape
<1>3. logged \notin Terminal
  BY DEF Ordered, Agreed, Over
<1> QED
  BY <1>1, <1>2, <1>3

\* What observations are, when neither they nor their executions change.
LEMMA Still ==
  ASSUME UNCHANGED <<obs, work>>, NEW o
  PROVE  /\ Pending(o)' <=> Pending(o)
         /\ Closes(o)' <=> Closes(o)
         /\ Live(o)' <=> Live(o)
         /\ Settled(o)' = Settled(o)
BY DEF Pending, Closes, Live, Settled, Lands

\* A turn begins.
LEMMA DispatchOrders ==
  ASSUME TypeOK, Inductive, Ordered, Dispatch, ~Late
  PROVE  Ordered'
<1>1. /\ queued /\ ~prepared /\ pc = "off" /\ ~IsTreeCanceled
      /\ \A k \in Turn : work[<<k, "fg">>] # "apply"
      /\ queued' = FALSE /\ status' = "ACTIVE" /\ logged' = "ACTIVE" /\ pc' = "act"
      /\ UNCHANGED <<obs, work, revived, endings, bubble, condemned, prepared, stopping>>
  BY DEF Dispatch, observers
<1>2. status = "PENDING" /\ NoBubble /\ NoReview
  BY <1>1 DEF Ordered, QueueShape, NoReview, Fg
<1>3. ~Over /\ stopping = "none" /\ Closing \notin endings
  <2>1. ~Over
    BY <1>2 DEF Over, Terminal
  <2>2. stopping # "commit" /\ stopping # "closure" /\ Closing \notin endings
    BY <1>1, <1>2, <2>1 DEF Ordered, Agreed, IsTreeCanceled, Terminal, Over
  <2> QED
    BY <2>1, <2>2 DEF TypeOK
<1>4. /\ \A o \in Obs : ~Closes(o)
      /\ \A k \in Turn : bubble[k] # "closed"
  BY <1>1, <1>3, NotOver
<1>5. \A o : (Pending(o)' <=> Pending(o)) /\ (Closes(o)' <=> Closes(o)) /\ (Live(o)' <=> Live(o))
  BY <1>1, Still
<1>6. NoBubble' /\ NoReview'
  BY <1>1, <1>2, <1>5 DEF NoBubble, NoReview, Fg
<1>7. Agreed'
  BY <1>1, <1>3 DEF Agreed, Terminal
<1>8. Carried'
  BY <1>1, <1>5 DEF Ordered, Carried
<1>9. QueueShape' /\ RunShape'
  BY <1>1, <1>6 DEF QueueShape, RunShape
<1>10. BubbleShape'
  BY <1>1, <1>4, <1>6 DEF BubbleShape, NoBubble
<1>11. ReviewShape'
  BY <1>6 DEF ReviewShape, NoReview
<1>12. CloseShape'
  BY <1>1, <1>4, <1>5 DEF Ordered, CloseShape
<1>13. Driven'
  BY <1>1 DEF Driven
<1> QED
  BY <1>7, <1>8, <1>9, <1>10, <1>11, <1>12, <1>13 DEF Ordered

\* A parked run settles: what is over stays over.
LEMMA AwaitHumanOrders ==
  ASSUME TypeOK, Ordered, AwaitHuman
  PROVE  Ordered'
<1>1. /\ pc = "park" /\ pc' = "settle"
      /\ UNCHANGED <<obs, work, revived, endings, bubble, condemned, prepared, stopping, turn,
                     queued>>
      /\ \/ Over /\ UNCHANGED <<status, logged>>
         \/ ~Over /\ status' = "AWAITING_HUMAN" /\ logged' = "AWAITING_HUMAN"
  BY DEF AwaitHuman, observers, owner, Over
<1>2. /\ status \in {"ACTIVE", "PENDING", "CANCELED"} /\ NoReview /\ turn > 0
      /\ status = "ACTIVE" => bubble[turn] = "open"
      /\ status = "PENDING" => bubble[turn] = "answered"
      /\ ~queued /\ ~prepared
  BY <1>1 DEF Ordered, RunShape, QueueShape, Carried
<1>3. \A o \in Obs : ~Closes(o)
  BY <1>2, ClosesIs
<1>4. ~Over => logged \notin Terminal /\ \A k \in Turn : bubble[k] # "closed"
  BY <1>2, NotOver
<1>5. \A o : (Pending(o)' <=> Pending(o)) /\ (Closes(o)' <=> Closes(o)) /\ (Live(o)' <=> Live(o))
  BY <1>1, Still
<1>6. NoReview'
  BY <1>1, <1>2, <1>5 DEF NoReview, Fg
<1>7. Agreed'
  <2>1. CASE Over /\ UNCHANGED <<status, logged>>
    BY <1>1, <1>6, <2>1 DEF Ordered, Agreed, Over, NoReview
  <2>2. CASE ~Over /\ status' = "AWAITING_HUMAN" /\ logged' = "AWAITING_HUMAN"
    BY <1>1, <1>4, <1>6, <2>2 DEF Ordered, Agreed, Over, Terminal, NoReview
  <2> QED
    BY <1>1, <2>1, <2>2
<1>8. Carried'
  BY <1>1, <1>2, <1>5 DEF Ordered, Carried
<1>9. QueueShape' /\ RunShape'
  BY <1>1, <1>2, <1>6 DEF QueueShape, RunShape, Over, Terminal
<1>10. BubbleShape'
  BY <1>1, <1>2, <1>3, <1>4, <1>5 DEF Ordered, BubbleShape, Over, Terminal
<1>11. ReviewShape'
  BY <1>6 DEF ReviewShape, NoReview
<1>12. CloseShape'
  BY <1>1, <1>3, <1>5 DEF Ordered, CloseShape
<1>13. Driven'
  BY <1>1, <1>2 DEF Driven, Over, Terminal
<1> QED
  BY <1>7, <1>8, <1>9, <1>10, <1>11, <1>12, <1>13 DEF Ordered

\* A parked run has settled: an answer that came meanwhile is not forgotten.
LEMMA SettleParkOrders ==
  ASSUME TypeOK, Ordered, SettlePark
  PROVE  Ordered'
<1>1. /\ pc = "settle" /\ pc' = "off"
      /\ UNCHANGED <<obs, work, revived, endings, bubble, condemned, prepared, stopping, turn>>
      /\ \/ /\ bubble[turn] = "answered" /\ ~Over
            /\ status' = "PENDING" /\ logged' = "PENDING" /\ queued' = TRUE
         \/ /\ bubble[turn] # "answered" \/ Over
            /\ UNCHANGED <<status, logged, queued>>
  BY DEF SettlePark, Wake, observers, Over
<1>2. /\ status # "ACTIVE" /\ NoReview /\ turn > 0
      /\ status = "AWAITING_HUMAN" => bubble[turn] \in {"open", "answered"}
      /\ status = "PENDING" => bubble[turn] = "answered"
      /\ ~queued /\ ~prepared
  BY <1>1 DEF Ordered, RunShape, QueueShape, Carried
<1>3. ~Over => /\ logged \notin Terminal
               /\ \A k \in Turn : bubble[k] # "closed"
               /\ \A o \in Obs : ~Closes(o)
  BY <1>2, NotOver
<1>4. \A o : (Pending(o)' <=> Pending(o)) /\ (Closes(o)' <=> Closes(o)) /\ (Live(o)' <=> Live(o))
  BY <1>1, Still
<1>5. NoReview'
  BY <1>1, <1>2, <1>4 DEF NoReview, Fg
<1>6. bubble[turn] = "answered" => NoBubble
  BY DEF Ordered, BubbleShape, NoBubble
<1>7. Agreed'
  <2>1. CASE UNCHANGED <<status, logged>>
    BY <1>1, <1>5, <2>1 DEF Ordered, Agreed, Over, NoReview
  <2>2. CASE ~Over /\ status' = "PENDING" /\ logged' = "PENDING"
    BY <1>1, <1>2, <1>3, <1>5, <2>2 DEF Ordered, Agreed, Over, Terminal, NoReview
  <2> QED
    BY <1>1, <2>1, <2>2
<1>8. Carried'
  BY <1>1, <1>2, <1>4 DEF Ordered, Carried
<1>9. QueueShape'
  BY <1>1, <1>2, <1>5, <1>6 DEF QueueShape, NoBubble, NoReview
<1>10. RunShape'
  BY <1>1 DEF RunShape
<1>11. BubbleShape'
  <2>1. CASE UNCHANGED status
    BY <1>1, <1>2, <1>4, <2>1 DEF Ordered, BubbleShape, Over
  <2>2. CASE bubble[turn] = "answered" /\ ~Over
    BY <1>1, <1>3, <1>6, <2>2 DEF BubbleShape, NoBubble
  <2> QED
    BY <1>1, <2>1, <2>2
<1>12. ReviewShape'
  BY <1>5 DEF ReviewShape, NoReview
<1>13. CloseShape'
  <2>1. CASE UNCHANGED <<status, logged>>
    BY <1>1, <1>4, <2>1 DEF Ordered, CloseShape
  <2>2. CASE ~Over
    BY <1>1, <1>3, <1>4, <2>2 DEF Ordered, CloseShape
  <2> QED
    BY <1>1, <2>1, <2>2
<1>14. Driven'
  BY <1>1, <1>2, <1>4 DEF Ordered, Driven, Over, Terminal
<1> QED
  BY <1>7, <1>8, <1>9, <1>10, <1>11, <1>12, <1>13, <1>14 DEF Ordered

\* What holds of a turn that acts, or is reviewed.
LEMMA Acting ==
  ASSUME TypeOK, Inductive, Ordered, pc \in {"act", "observe"}
  PROVE  /\ status = "ACTIVE" /\ logged = "ACTIVE" /\ ~Over /\ NoBubble
         /\ ~prepared /\ ~queued /\ stopping = "none" /\ Closing \notin endings
         /\ \A o \in Obs : ~Closes(o)
         /\ \A k \in Turn : bubble[k] # "closed"
         /\ turn \in Turn /\ \A k \in Turn : Pending(Fg(k)) => k = turn /\ pc = "observe"
<1>1. status = "ACTIVE" /\ logged = "ACTIVE" /\ ~Over /\ ~prepared /\ ~queued
  BY DEF Ordered, RunShape, Carried, QueueShape, Agreed, Over, Terminal
<1>2. stopping = "none" /\ Closing \notin endings
  BY <1>1 DEF Ordered, Agreed, TypeOK
<1>3. turn \in Turn
  BY OfTurn DEF Inductive
<1>4. NoBubble /\ \A k \in Turn : Pending(Fg(k)) => k = turn /\ pc = "observe"
  <2>1. CASE pc = "act"
    BY <2>1 DEF Ordered, RunShape, NoReview
  <2>2. CASE pc = "observe"
    <3>1. Pending(Fg(turn))
      BY <2>2 DEF Ordered, RunShape
    <3> QED
      BY <1>3, <2>2, <3>1 DEF Ordered, ReviewShape
  <2> QED
    BY <2>1, <2>2
<1> QED
  BY <1>1, <1>2, <1>3, <1>4, NotOver

\* What an observation is, when its record and its execution do not change.
LEMMA Same ==
  ASSUME NEW p, obs'[p] = obs[p], work'[p] = work[p]
  PROVE  /\ Pending(p)' <=> Pending(p)
         /\ Closes(p)' <=> Closes(p)
         /\ Live(p)' <=> Live(p)
         /\ Settled(p)' = Settled(p)
BY DEF Pending, Closes, Live, Settled, Lands

\* A turn yields: one question opens, and one observation begins in the background.
LEMMA YieldOrders ==
  ASSUME TypeOK, Inductive, Ordered, NEW r \in Observed,
         pc \in {"act", "observe"}, pc' = "park",
         r.stage = "requested", r.action = "none", ~r.settled, ~r.finalized,
         bubble' = [bubble EXCEPT ![turn] = "open"],
         obs'[<<turn, "bg">>] = r, work'[<<turn, "bg">>] = "ready",
         \A p \in Obs : p \notin {Fg(turn), <<turn, "bg">>} =>
           obs'[p] = obs[p] /\ work'[p] = work[p],
         \/ pc = "act" /\ obs'[Fg(turn)] = obs[Fg(turn)] /\ work'[Fg(turn)] = work[Fg(turn)]
         \/ /\ obs'[Fg(turn)].stage = "applied" /\ work'[Fg(turn)] = "none"
            /\ obs'[Fg(turn)].action = "keep_raw",
         \A p \in revived : p \in Obs, New(<<turn, "bg">>), revived' = revived \ {Fg(turn)},
         UNCHANGED <<logged, status, condemned, stopping, endings, prepared, queued, turn>>
  PROVE  Ordered'
<1>1. /\ status = "ACTIVE" /\ logged = "ACTIVE" /\ ~Over /\ NoBubble
      /\ ~prepared /\ ~queued /\ stopping = "none" /\ Closing \notin endings
      /\ \A o \in Obs : ~Closes(o)
      /\ \A k \in Turn : bubble[k] # "closed"
      /\ turn \in Turn /\ \A k \in Turn : Pending(Fg(k)) => k = turn /\ pc = "observe"
  BY Acting
<1> PICK t \in Turn : turn = t
  BY <1>1
<1> DEFINE fg == Fg(t)
           bg == <<t, "bg">>
<1>2. fg \in Obs /\ bg \in Obs /\ fg # bg /\ \A k \in Turn : Fg(k) # bg /\ (k # t => Fg(k) # fg)
  BY <1>1, ObsFacts, FgFacts DEF Fg
<1>14. /\ obs'[bg] = r /\ work'[bg] = "ready" /\ New(bg) /\ revived' = revived \ {fg}
       /\ \A p \in Obs : p \notin {fg, bg} => obs'[p] = obs[p] /\ work'[p] = work[p]
       /\ \/ pc = "act" /\ obs'[fg] = obs[fg] /\ work'[fg] = work[fg]
          \/ obs'[fg].stage = "applied" /\ work'[fg] = "none" /\ obs'[fg].action = "keep_raw"
  OBVIOUS
<1> HIDE DEF fg, bg
<1>3. \A p \in Obs : p \notin {fg, bg} =>
        (Pending(p)' <=> Pending(p)) /\ (Closes(p)' <=> Closes(p)) /\ (Live(p)' <=> Live(p))
  BY <1>14, Same
<1>4. ~Pending(fg)' /\ ~Closes(fg)'
  <2>1. ~Pending(fg) \/ obs'[fg].stage = "applied"
    BY <1>1, <1>14, <1>2 DEF fg
  <2>2. ~Closes(fg)
    BY <1>1, <1>2
  <2> QED
    BY <1>14, <2>1, <2>2 DEF Pending, Closes
<1>5. ~Closes(bg)' /\ Live(bg)'
  BY <1>14 DEF Closes, Live
<1>6. NoReview'
  <2>1. ASSUME NEW k \in Turn PROVE ~Pending(Fg(k))'
    <3>1. CASE k = t
      BY <1>4, <3>1 DEF fg
    <3>2. CASE k # t
      BY <1>1, <1>2, <1>3, <3>2, FgFacts
    <3> QED
      BY <3>1, <3>2
  <2> QED
    BY <2>1 DEF NoReview, Fg
<1>7. \A p \in Obs : ~Closes(p)'
  BY <1>1, <1>3, <1>4, <1>5
<1>8. \A k \in Turn : bubble'[k] # "closed" /\ (bubble'[k] = "open" => k = turn)
  BY <1>1 DEF NoBubble, TypeOK
<1>9. Agreed'
  BY <1>1 DEF Agreed, Terminal
<1>10. Carried'
  <2>1. \A p \in Obs : Pending(p)' => Live(p)'
    BY <1>1, <1>3, <1>4, <1>5 DEF Ordered, Carried
  <2>2. \A p \in revived' : Pending(p)'
    <3>1. \A p \in revived' : p \in revived /\ p \in Obs /\ p # fg /\ Pending(p)
      BY <1>14 DEF Ordered, Carried
    <3>2. ~Pending(bg)
      BY <1>14 DEF New, Pending
    <3> QED
      BY <1>3, <3>1, <3>2
  <2>3. \A p \in Obs : obs'[p].stage = "requested" => ~obs'[p].settled /\ ~obs'[p].finalized
    BY <1>14 DEF Ordered, Carried
  <2> QED
    BY <1>1, <2>1, <2>2, <2>3 DEF Carried
<1>11. QueueShape' /\ RunShape'
  <2>1. bubble'[turn'] = "open" /\ turn' > 0
    BY <1>1, ObservationAssumption DEF TypeOK, Turn
  <2> QED
    BY <1>1, <1>6, <2>1 DEF QueueShape, RunShape
<1>12. BubbleShape'
  BY <1>1, <1>8 DEF BubbleShape
<1>13. ReviewShape'
  BY <1>6 DEF ReviewShape, NoReview
<1>15. CloseShape'
  BY <1>14, <1>7 DEF Ordered, CloseShape
<1>16. Driven'
  BY <1>1 DEF Driven
<1> QED
  BY <1>9, <1>10, <1>11, <1>12, <1>13, <1>15, <1>16 DEF Ordered

\* A turn yields to the user.
LEMMA ParkOrders ==
  ASSUME TypeOK, Inductive, Ordered, NEW judging \in BOOLEAN, Park(judging)
  PROVE  Ordered'
<1> DEFINE r == Requested(judging, Segment(turn) \cup {turn})
<1>1. pc = "act" /\ turn \in Turn /\ <<turn, "bg">> \in Obs /\ Untouched(turn)
  BY OfTurn DEF Inductive, Park
<1>2. r \in Observed /\ r.stage = "requested" /\ r.action = "none" /\ ~r.settled /\ ~r.finalized
  <2>1. Segment(turn) \cup {turn} \in SUBSET Turn
    BY <1>1, SegmentFacts
  <2> QED
    BY <2>1, RequestedIs
<1> HIDE DEF r
<1>3. /\ obs' = [obs EXCEPT ![<<turn, "bg">>] = r]
      /\ work' = [work EXCEPT ![<<turn, "bg">>] = "ready"]
      /\ bubble' = [bubble EXCEPT ![turn] = "open"] /\ pc' = "park"
      /\ UNCHANGED <<logged, status, condemned, stopping, endings, prepared, queued, turn, revived>>
  BY DEF Park, r, task, owner
<1>4. obs'[<<turn, "bg">>] = r /\ work'[<<turn, "bg">>] = "ready"
  BY <1>1, <1>3 DEF TypeOK
<1>5. \A p \in Obs : p # <<turn, "bg">> => obs'[p] = obs[p] /\ work'[p] = work[p]
  BY <1>3 DEF TypeOK
<1>6. Fg(turn) \in Obs /\ Fg(turn) # <<turn, "bg">> /\ New(Fg(turn)) /\ New(<<turn, "bg">>)
  BY <1>1, FgFacts DEF Untouched, Fg
<1>7. (\A p \in revived : p \in Obs) /\ Fg(turn) \notin revived
  BY <1>6 DEF TypeOK, Ordered, Carried, New, Pending
<1>8. revived' = revived \ {Fg(turn)}
  BY <1>3, <1>7
<1>9. obs'[Fg(turn)] = obs[Fg(turn)] /\ work'[Fg(turn)] = work[Fg(turn)]
  BY <1>5, <1>6
<1> QED
  BY <1>1, <1>2, <1>3, <1>4, <1>5, <1>6, <1>7, <1>8, <1>9, YieldOrders

\* The user interrupts a review.
LEMMA InterruptReviewOrders ==
  ASSUME TypeOK, Inductive, Ordered, InterruptReview
  PROVE  Ordered'
<1> DEFINE old == [Completed(Fg(turn), "keep_raw", "none", FALSE) EXCEPT !.stage = "applied"]
           r == Requested(FALSE, Segment(turn))
<1>1. /\ pc = "observe" /\ turn \in Turn /\ <<turn, "bg">> \in Obs /\ work[Fg(turn)] = "judge"
      /\ Fg(turn) \in Obs /\ Fg(turn) # <<turn, "bg">>
  BY OfTurn, FgFacts DEF Inductive, InterruptReview, Fg
<1>2. r \in Observed /\ r.stage = "requested" /\ r.action = "none" /\ ~r.settled /\ ~r.finalized
  BY <1>1, SegmentFacts, RequestedIs
<1>3. old \in Observed /\ old.stage = "applied" /\ old.action = "keep_raw"
  <2>1. obs[Fg(turn)] \in Observed
    BY <1>1 DEF TypeOK
  <2> QED
    BY <1>1, <2>1, AbandonedIs
<1> HIDE DEF old, r
<1>4. /\ obs' = [obs EXCEPT ![Fg(turn)] = old, ![<<turn, "bg">>] = r]
      /\ work' = [work EXCEPT ![Fg(turn)] = "none", ![<<turn, "bg">>] = "ready"]
      /\ bubble' = [bubble EXCEPT ![turn] = "open"] /\ pc' = "park"
      /\ revived' = revived \ {Fg(turn)}
      /\ UNCHANGED <<logged, status, condemned, stopping, endings, prepared, queued, turn>>
  BY DEF InterruptReview, old, r, task, owner, Fg
<1>5. obs'[<<turn, "bg">>] = r /\ work'[<<turn, "bg">>] = "ready"
  BY <1>1, <1>4 DEF TypeOK
<1>6. obs'[Fg(turn)] = old /\ work'[Fg(turn)] = "none"
  BY <1>1, <1>4 DEF TypeOK
<1>7. \A p \in Obs : p \notin {Fg(turn), <<turn, "bg">>} => obs'[p] = obs[p] /\ work'[p] = work[p]
  BY <1>4 DEF TypeOK
<1>8. New(<<turn, "bg">>)
  <2>1. obs[Fg(turn)].stage = "requested"
    BY <1>1 DEF Inductive, PlaceOfStage
  <2> QED
    BY <1>1, <2>1 DEF Inductive, TurnOfStage, Fg
<1>9. \A p \in revived : p \in Obs
  BY DEF TypeOK
<1> QED
  BY <1>1, <1>2, <1>3, <1>4, <1>5, <1>6, <1>7, <1>8, <1>9, YieldOrders

\* The actor stops by itself, and its turn is reviewed.
LEMMA RequestForegroundOrders ==
  ASSUME TypeOK, Inductive, Ordered, RequestForeground
  PROVE  Ordered'
<1>1. /\ status = "ACTIVE" /\ logged = "ACTIVE" /\ ~Over /\ NoBubble
      /\ ~prepared /\ ~queued /\ stopping = "none" /\ Closing \notin endings
      /\ \A o \in Obs : ~Closes(o)
      /\ \A k \in Turn : bubble[k] # "closed"
      /\ turn \in Turn /\ \A k \in Turn : ~Pending(Fg(k))
  BY Acting DEF RequestForeground
<1> PICK t \in Turn : turn = t
  BY <1>1
<1> DEFINE fg == Fg(t)
           r == Requested(TRUE, Segment(turn) \cup {turn})
<1>2. /\ r.stage = "requested" /\ r.action = "none" /\ ~r.settled /\ ~r.finalized
  <2>1. Segment(turn) \cup {turn} \in SUBSET Turn
    BY <1>1, SegmentFacts
  <2> QED
    BY <2>1, RequestedIs
<1>3. fg \in Obs /\ \A k \in Turn : k # t => Fg(k) # fg
  BY FgFacts
<1>4. /\ obs'[fg] = r /\ work'[fg] = "judge"
      /\ \A p \in Obs : p # fg => obs'[p] = obs[p] /\ work'[p] = work[p]
  BY <1>3 DEF RequestForeground, TypeOK, Fg
<1>5. /\ pc' = "observe"
      /\ UNCHANGED <<logged, status, condemned, stopping, endings, prepared, queued, turn, revived,
                     bubble>>
  BY DEF RequestForeground, task, owner
<1> HIDE DEF fg, r
<1>6. \A p \in Obs : p # fg =>
        (Pending(p)' <=> Pending(p)) /\ (Closes(p)' <=> Closes(p)) /\ (Live(p)' <=> Live(p))
  BY <1>4, Same
<1>7. Pending(fg)' /\ Live(fg)' /\ ~Closes(fg)'
  BY <1>2, <1>4 DEF Pending, Live, Closes
<1>8. NoBubble'
  BY <1>1, <1>5 DEF NoBubble
<1>9. fg \notin revived
  BY <1>1 DEF Ordered, Carried, fg
<1>10. \A p \in Obs : ~Closes(p)'
  BY <1>1, <1>6, <1>7
<1>11. Agreed'
  BY <1>1, <1>5 DEF Agreed, Terminal
<1>12. Carried'
  <2>1. \A p \in Obs : Pending(p)' => Live(p)'
    BY <1>1, <1>6, <1>7 DEF Ordered, Carried
  <2>2. \A p \in revived : p \in Obs /\ Pending(p)'
    BY <1>6, <1>9 DEF Ordered, Carried, TypeOK
  <2>3. \A p \in Obs : obs'[p].stage = "requested" => ~obs'[p].settled /\ ~obs'[p].finalized
    BY <1>2, <1>4 DEF Ordered, Carried
  <2> QED
    BY <1>1, <1>5, <2>1, <2>2, <2>3 DEF Carried
<1>13. QueueShape' /\ RunShape'
  <2>1. Pending(Fg(turn))' /\ Fg(turn)' \notin revived' /\ work'[Fg(turn)'] = "judge"
    BY <1>4, <1>5, <1>7, <1>9 DEF fg, Fg, Pending
  <2> QED
    BY <1>1, <1>5, <2>1 DEF QueueShape, RunShape
<1>14. BubbleShape'
  BY <1>1, <1>5, <1>8 DEF BubbleShape, NoBubble
<1>15. ReviewShape'
  <2> SUFFICES ASSUME NEW k \in Turn, Pending(Fg(k))'
               PROVE  k = t
    BY <1>1, <1>2, <1>4, <1>5, <1>8 DEF ReviewShape, fg
  <2> QED
    BY <1>1, <1>3, <1>6, FgFacts
<1>16. CloseShape'
  BY <1>2, <1>3, <1>4, <1>10 DEF Ordered, CloseShape
<1>17. Driven'
  BY <1>1, <1>5 DEF Driven
<1> QED
  BY <1>11, <1>12, <1>13, <1>14, <1>15, <1>16, <1>17 DEF Ordered

\* A run stops, and abandons the review it was in.
LEMMA CancelRunOrders ==
  ASSUME TypeOK, Inductive, Ordered, CancelRun
  PROVE  Ordered'
<1>1. /\ status = "ACTIVE" /\ logged = "ACTIVE" /\ ~Over /\ NoBubble
      /\ ~prepared /\ ~queued /\ stopping = "none" /\ Closing \notin endings
      /\ \A o \in Obs : ~Closes(o)
      /\ \A k \in Turn : bubble[k] # "closed"
      /\ turn \in Turn /\ \A k \in Turn : Pending(Fg(k)) => k = turn /\ pc = "observe"
  BY Acting DEF CancelRun
<1> PICK t \in Turn : turn = t
  BY <1>1
<1> DEFINE fg == Fg(t)
           r == [Completed(fg, "keep_raw", "none", FALSE) EXCEPT !.stage = "applied"]
<1>2. fg \in Obs /\ \A k \in Turn : k # t => Fg(k) # fg
  BY FgFacts
<1>3. r \in Observed /\ r.stage = "applied" /\ r.action = "keep_raw"
  <2>1. obs[fg] \in Observed
    BY <1>2 DEF TypeOK
  <2> QED
    BY <1>2, <2>1, AbandonedIs
<1> HIDE DEF r
<1>4. \/ pc = "act" /\ UNCHANGED <<obs, work>>
      \/ pc = "observe" /\ obs' = [obs EXCEPT ![fg] = r] /\ work' = [work EXCEPT ![fg] = "none"]
  BY DEF CancelRun, r, Fg
<1>5. /\ pc' = "off" /\ queued' = FALSE /\ status' = "CANCELED" /\ logged' = "CANCELED"
      /\ stopping' = "closure" /\ revived' = revived \ {fg}
      /\ UNCHANGED <<bubble, prepared, turn, endings>>
  BY DEF CancelRun, Fg
<1> HIDE DEF fg
<1>6. \A p \in Obs : p # fg => obs'[p] = obs[p] /\ work'[p] = work[p]
  BY <1>4 DEF TypeOK
<1>7. \A p \in Obs : p # fg =>
        (Pending(p)' <=> Pending(p)) /\ (Closes(p)' <=> Closes(p)) /\ (Live(p)' <=> Live(p))
  BY <1>6, Same
<1>8. \/ obs'[fg] = obs[fg] /\ work'[fg] = work[fg] /\ ~Pending(fg)
      \/ obs'[fg] = r /\ work'[fg] = "none"
  BY <1>1, <1>2, <1>4 DEF TypeOK, fg
<1>9. ~Pending(fg)' /\ ~Closes(fg)'
  BY <1>1, <1>2, <1>3, <1>8 DEF Pending, Closes
<1>10. NoReview'
  <2>1. ASSUME NEW k \in Turn PROVE ~Pending(Fg(k))'
    <3>1. CASE k = t
      BY <1>9, <3>1 DEF fg
    <3>2. CASE k # t
      BY <1>1, <1>2, <1>7, <3>2, FgFacts
    <3> QED
      BY <3>1, <3>2
  <2> QED
    BY <2>1 DEF NoReview, Fg
<1>11. \A p \in Obs : ~Closes(p)'
  BY <1>1, <1>7, <1>9
<1>12. Agreed'
  BY <1>5 DEF Agreed
<1>13. Carried'
  <2>1. \A p \in Obs : Pending(p)' => Live(p)'
    BY <1>1, <1>7, <1>9 DEF Ordered, Carried
  <2>2. \A p \in revived' : Pending(p)'
    BY <1>5, <1>7 DEF Ordered, Carried, TypeOK
  <2>3. \A p \in Obs : obs'[p].stage = "requested" => ~obs'[p].settled /\ ~obs'[p].finalized
    BY <1>3, <1>6, <1>8 DEF Ordered, Carried
  <2> QED
    BY <1>1, <1>5, <2>1, <2>2, <2>3 DEF Carried
<1>14. QueueShape' /\ RunShape'
  BY <1>5 DEF QueueShape, RunShape
<1>15. BubbleShape'
  BY <1>1, <1>5 DEF BubbleShape, NoBubble
<1>16. ReviewShape'
  BY <1>10 DEF ReviewShape, NoReview
<1>17. CloseShape'
  BY <1>3, <1>6, <1>8, <1>11 DEF Ordered, CloseShape
<1>18. Driven'
  BY <1>5 DEF Driven
<1> QED
  BY <1>12, <1>13, <1>14, <1>15, <1>16, <1>17, <1>18 DEF Ordered

\* The user answers: nothing that was decided is overtaken.
LEMMA ReplyOrders ==
  ASSUME TypeOK, Inductive, Ordered, NEW k \in Turn, Reply(k), ~Early
  PROVE  Ordered'
<1>1. /\ bubble[k] = "open" /\ ~Unresumed /\ bubble' = [bubble EXCEPT ![k] = "answered"]
      /\ UNCHANGED <<obs, work, revived, endings, condemned, prepared, stopping, turn, pc>>
      /\ \/ Over /\ UNCHANGED <<status, logged, queued>>
         \/ ~Over /\ status' = "PENDING" /\ logged' = "PENDING" /\ queued' = (pc = "off" \/ queued)
  BY DEF Reply, observers, run, Over
<1>2. /\ k = turn /\ bubble'[k] = "answered"
      /\ \A j \in Turn : j # k => bubble'[j] = bubble[j] /\ bubble[j] # "open"
  BY <1>1 DEF Ordered, BubbleShape, TypeOK
<1>3. NoReview /\ pc \notin {"act", "observe"} /\ ~queued
  <2>1. ~NoBubble
    BY <1>1 DEF NoBubble
  <2>2. NoReview
    BY <2>1 DEF Ordered, ReviewShape, NoReview
  <2> QED
    BY <2>1, <2>2, Acting DEF Ordered, QueueShape
<1>4. ~Over => \A o \in Obs : ~Closes(o)
  <2> SUFFICES ASSUME ~Over, NEW o \in Obs, Closes(o) PROVE FALSE
    OBVIOUS
  <2>1. prepared
    BY ClosesIs DEF Over, Terminal
  <2> QED
    BY <1>1, <2>1 DEF Unresumed, Closes
<1>5. ~Over => logged \notin Terminal /\ \A j \in Turn : bubble[j] # "closed"
  BY <1>4 DEF Ordered, Agreed, BubbleShape, Over
<1>6. \A o : (Pending(o)' <=> Pending(o)) /\ (Closes(o)' <=> Closes(o)) /\ (Live(o)' <=> Live(o))
  BY <1>1, Still
<1>7. NoReview' /\ NoBubble'
  BY <1>2, <1>3, <1>6 DEF NoReview, NoBubble, Fg
<1>8. Agreed'
  <2>1. CASE Over /\ UNCHANGED <<status, logged>>
    BY <1>1, <1>7, <2>1 DEF Ordered, Agreed, Over, NoReview
  <2>2. CASE ~Over /\ status' = "PENDING" /\ logged' = "PENDING"
    BY <1>1, <1>5, <1>7, <2>2 DEF Ordered, Agreed, Over, Terminal, NoReview
  <2> QED
    BY <1>1, <2>1, <2>2
<1>9. Carried'
  BY <1>1, <1>6 DEF Ordered, Carried
<1>10. QueueShape'
  BY <1>1, <1>3, <1>7 DEF QueueShape, NoReview
<1>11. RunShape'
  BY <1>1, <1>2, <1>3, <1>7 DEF Ordered, RunShape, Over, Terminal
<1>12. BubbleShape'
  <2>1. CASE Over /\ UNCHANGED status
    BY <2>1, <1>7 DEF BubbleShape, NoBubble, Over
  <2>2. CASE ~Over
    BY <1>2, <1>5, <1>7, <2>2 DEF BubbleShape, NoBubble
  <2> QED
    BY <1>1, <2>1, <2>2
<1>13. ReviewShape'
  BY <1>7 DEF ReviewShape, NoReview
<1>14. CloseShape'
  <2>1. CASE UNCHANGED <<status, logged>>
    <3>1. \A j \in Turn : bubble'[j] # "open"
      BY <1>7 DEF NoBubble
    <3>2. \A o \in Obs : o[1] \in Turn
      BY ObsFacts
    <3> QED
      BY <1>1, <1>6, <2>1, <3>1, <3>2 DEF Ordered, CloseShape
  <2>2. CASE ~Over
    BY <1>1, <1>4, <1>6, <2>2 DEF Ordered, CloseShape
  <2> QED
    BY <1>1, <2>1, <2>2
<1>15. Driven'
  <2>1. CASE Over /\ UNCHANGED <<status, logged>>
    BY <1>1, <1>6, <2>1 DEF Ordered, Driven, Over, Terminal
  <2>2. CASE ~Over
    BY <1>1, <1>3, <2>2 DEF Driven, TypeOK
  <2> QED
    BY <1>1, <2>1, <2>2
<1> QED
  BY <1>8, <1>9, <1>10, <1>11, <1>12, <1>13, <1>14, <1>15 DEF Ordered

\* A cancellation is asked for.
LEMMA CancelOrders ==
  ASSUME TypeOK, Inductive, Ordered, Cancel, ~Early
  PROVE  Ordered'
<1>1. /\ stopping = "none" /\ ~Unresumed /\ (condemned' <=> (condemned \/ ~Over))
      /\ UNCHANGED <<obs, work, revived, endings, bubble, prepared, turn, pc, status, logged,
                     queued>>
      /\ \/ UNCHANGED stopping
         \/ stopping' = "commit" /\ (pc = "off" \/ status # "ACTIVE")
  BY DEF Cancel, observers, Over
<1>2. \A o : (Pending(o)' <=> Pending(o)) /\ (Closes(o)' <=> Closes(o)) /\ (Live(o)' <=> Live(o))
             /\ Settled(o)' = Settled(o)
  BY <1>1, Still
<1>3. ASSUME stopping' = "commit", ~Over, NEW k \in Turn, Pending(Fg(k)), ~prepared
      PROVE  work[Fg(k)] = "apply"
  <2>1. pc # "observe"
    BY <1>1, <1>3 DEF Ordered, RunShape
  <2>2. obs[Fg(k)].stage = "completed" => obs[Fg(k)].action = "foreground" \/ status = "CANCELED"
    BY <1>3 DEF Ordered, ReviewShape
  <2>3. obs[Fg(k)].stage = "requested" => status = "CANCELED"
    BY <1>3, <2>1 DEF Ordered, ReviewShape
  <2>4. work[Fg(k)] = "apply" \/ Fg(k) \in revived \/ status = "CANCELED"
    BY <1>3, <2>1 DEF Ordered, ReviewShape
  <2>5. status # "CANCELED"
    BY <1>3 DEF Over, Terminal
  <2>6. obs[Fg(k)].stage = "completed" /\ obs[Fg(k)].action = "foreground"
    BY <1>3, <2>2, <2>3, <2>5 DEF Pending
  <2>7. Fg(k) \notin revived
    BY <1>1, <2>6, FgFacts DEF Unresumed
  <2> QED
    BY <2>4, <2>5, <2>7
<1>4. Agreed'
  <2>1. CASE UNCHANGED stopping
    BY <1>1, <2>1 DEF Ordered, Agreed
  <2>2. CASE stopping' = "commit" /\ (pc = "off" \/ status # "ACTIVE")
    <3>1. pc \notin {"act", "observe"}
      BY <2>2 DEF Ordered, RunShape
    <3>2. Over \/ \A k \in Turn : Pending(Fg(k))' => prepared \/ work[Fg(k)] = "apply"
      BY <1>2, <1>3, <2>2
    <3>3. Over' <=> Over
      BY <1>1 DEF Over
    <3>4. Over \/ \A k \in Turn : Pending(Fg(k))' => prepared' \/ work'[Fg(k)] = "apply"
      BY <1>1, <3>2
    <3>5. \A k \in Turn : Fg(k)' = Fg(k)
      BY DEF Fg
    <3> QED
      BY <1>1, <2>2, <3>1, <3>3, <3>4, <3>5 DEF Ordered, Agreed
  <2> QED
    BY <1>1, <2>1, <2>2
<1>5. Carried'
  BY <1>1, <1>2 DEF Ordered, Carried
<1>6. QueueShape' /\ RunShape' /\ BubbleShape' /\ Driven'
  BY <1>1, <1>2 DEF Ordered, QueueShape, RunShape, BubbleShape, Driven, NoBubble, NoReview, Over, Fg
<1>7. ReviewShape'
  BY <1>1, <1>2 DEF Ordered, ReviewShape, NoBubble, Over, Fg
<1>8. CloseShape'
  <2>1. \A o \in Obs : Closes(o) => ~prepared
    BY <1>1 DEF Unresumed, Closes
  <2> QED
    BY <1>1, <1>2, <2>1 DEF Ordered, CloseShape
<1> QED
  BY <1>4, <1>5, <1>6, <1>7, <1>8 DEF Ordered

\* A cancellation is committed: it meets no review that has decided.
LEMMA CommitCancelOrders ==
  ASSUME TypeOK, Inductive, Ordered, CommitCancel
  PROVE  Ordered'
<1>1. /\ stopping = "commit"
      /\ UNCHANGED <<obs, work, revived, endings, bubble, condemned, prepared, turn, pc>>
      /\ \/ Over /\ stopping' = "none" /\ UNCHANGED <<status, logged, queued>>
         \/ /\ ~Over /\ stopping' = "closure" /\ queued' = FALSE
            /\ status' = "CANCELED" /\ logged' = "CANCELED"
  BY DEF CommitCancel, observers, run, Over
<1>2. \A o : (Pending(o)' <=> Pending(o)) /\ (Closes(o)' <=> Closes(o)) /\ (Live(o)' <=> Live(o))
             /\ Settled(o)' = Settled(o)
  BY <1>1, Still
<1>3. CASE Over /\ stopping' = "none" /\ UNCHANGED <<status, logged, queued>>
  <2>1. Agreed' /\ Carried'
    BY <1>1, <1>2, <1>3 DEF Ordered, Agreed, Carried
  <2>2. QueueShape' /\ RunShape' /\ BubbleShape' /\ Driven'
    BY <1>1, <1>2, <1>3
       DEF Ordered, QueueShape, RunShape, BubbleShape, Driven, NoBubble, NoReview, Over, Fg
  <2>3. ReviewShape'
    BY <1>1, <1>2, <1>3 DEF Ordered, ReviewShape, NoBubble, Over, Fg
  <2>4. CloseShape'
    BY <1>1, <1>2, <1>3 DEF Ordered, CloseShape
  <2> QED
    BY <2>1, <2>2, <2>3, <2>4 DEF Ordered
<1>4. CASE /\ ~Over /\ stopping' = "closure" /\ queued' = FALSE
           /\ status' = "CANCELED" /\ logged' = "CANCELED"
  <2>1. /\ pc \notin {"act", "observe"}
        /\ \A k \in Turn : Pending(Fg(k)) => prepared \/ work[Fg(k)] = "apply"
    BY <1>1, <1>4 DEF Ordered, Agreed
  <2>2. \A o \in Obs : ~Closes(o)
    <3> SUFFICES ASSUME NEW o \in Obs, Closes(o) PROVE FALSE
      OBVIOUS
    <3>1. IF prepared THEN stopping = "none" ELSE status = "FINISHED"
      BY DEF Ordered, CloseShape
    <3> QED
      BY <1>1, <1>4, <3>1 DEF Over, Terminal
  <2>3. Agreed' /\ Carried'
    BY <1>1, <1>2, <1>4 DEF Ordered, Agreed, Carried
  <2>4. QueueShape' /\ Driven'
    BY <1>4 DEF QueueShape, Driven
  <2>5. RunShape'
    BY <1>1, <1>2, <1>4, <2>1 DEF Ordered, RunShape, NoReview, Fg
  <2>6. BubbleShape'
    BY <1>1, <1>4 DEF Ordered, BubbleShape, Over, Terminal
  <2>7. ReviewShape'
    <3> SUFFICES ASSUME NEW k \in Turn, Pending(Fg(k))
                 PROVE /\ k = turn /\ NoBubble
                       /\ obs[Fg(k)].action = "foreground" => obs[Fg(k)].verdict \in Verdicts
                       /\ obs[Fg(k)].settled => obs[Fg(k)].action = "foreground"
                       /\ work[Fg(k)] \notin {"judge", "fold", "finalize", "settle"}
      BY <1>1, <1>2, <1>4 DEF ReviewShape, NoBubble, Over, Terminal, Fg
    <3>1. work[Fg(k)] \notin {"judge", "fold", "finalize", "settle"}
      BY <2>1, FgFacts DEF Ordered, Carried, Live
    <3> QED
      BY <3>1 DEF Ordered, ReviewShape
  <2>8. CloseShape'
    BY <1>1, <1>2, <2>2 DEF Ordered, CloseShape
  <2> QED
    BY <2>3, <2>4, <2>5, <2>6, <2>7, <2>8 DEF Ordered
<1> QED
  BY <1>1, <1>3, <1>4

\* What is cancelled has its closure.
LEMMA ClosureOrders ==
  ASSUME TypeOK, Inductive, Ordered, Closure
  PROVE  Ordered'
<1>1. /\ logged = "CANCELED" /\ status = "CANCELED" /\ stopping' = "none"
      /\ endings' = endings \cup {Closing} /\ CloseBubbles
      /\ UNCHANGED <<obs, work, revived, condemned, prepared, turn, pc, status, logged, queued>>
  BY DEF Closure, Ordered, Agreed, Terminal, task, run, observers
<1>2. \A o : (Pending(o)' <=> Pending(o)) /\ (Closes(o)' <=> Closes(o)) /\ (Live(o)' <=> Live(o))
             /\ Settled(o)' = Settled(o)
  BY <1>1, Still
<1>3. NoBubble' /\ \A k \in Turn : bubble'[k] # "open"
  BY <1>1 DEF CloseBubbles, NoBubble
<1>4. \A o \in Obs : ~Closes(o)
  BY <1>1 DEF Ordered, CloseShape
<1>5. Agreed' /\ Carried'
  BY <1>1, <1>2 DEF Ordered, Agreed, Carried
<1>6. QueueShape' /\ Driven'
  BY <1>1 DEF Ordered, QueueShape, Driven
<1>7. RunShape'
  BY <1>1, <1>2 DEF Ordered, RunShape, NoReview, Fg
<1>8. BubbleShape'
  BY <1>1, <1>3 DEF BubbleShape, Over, Terminal
<1>9. ReviewShape'
  BY <1>1, <1>2, <1>3 DEF Ordered, ReviewShape, Over, Fg
<1>10. CloseShape'
  BY <1>1, <1>2, <1>4 DEF Ordered, CloseShape
<1> QED
  BY <1>5, <1>6, <1>7, <1>8, <1>9, <1>10 DEF Ordered

\* A review goes on by a step, and nothing else moves.
LEMMA ReviewMoves ==
  ASSUME TypeOK, Inductive, Ordered, NEW k \in Turn, NEW r \in Observed, NEW w \in Place,
         work[Fg(k)] \notin {"none", "apply"},
         obs' = [obs EXCEPT ![Fg(k)] = r], work' = [work EXCEPT ![Fg(k)] = w],
         w \notin {"none", "ready", "close"}, r.action # "close",
         \/ r.stage = "requested" /\ w = "judge" /\ r = obs[Fg(k)]
         \/ /\ r.stage = "completed" /\ w # "judge"
            /\ r.action = "foreground" \/ status = "CANCELED"
            /\ r.action = "foreground" => r.verdict \in Verdicts
            /\ r.settled = obs[Fg(k)].settled
            /\ obs[Fg(k)].stage = "completed" =>
                 r.action = obs[Fg(k)].action /\ r.verdict = obs[Fg(k)].verdict,
         w \in {"fold", "finalize", "settle"} => r.action = "foreground" /\ status # "CANCELED",
         w = "judge" => status # "CANCELED", w = "apply" => Over,
         endings' \in {endings, endings \cup {Fg(k)}},
         UNCHANGED <<logged, status, condemned, stopping, bubble, prepared, queued, turn, pc,
                     revived>>
  PROVE  Ordered'
<1> DEFINE o == Fg(k)
<1>1. o \in Obs /\ o[2] = "fg" /\ o # Closing /\ \A j \in Turn : j # k => Fg(j) # o
  BY FgFacts, ObsFacts
<1>2. /\ obs'[o] = r /\ work'[o] = w
      /\ \A p \in Obs : p # o => obs'[p] = obs[p] /\ work'[p] = work[p]
  BY <1>1 DEF TypeOK
<1>3. Pending(o) /\ Live(o)
  BY <1>1, UnderWay DEF Inductive, Pending, Live
<1>4. /\ k = turn /\ NoBubble /\ ~queued /\ ~prepared /\ ~NoReview
      /\ pc \notin {"act", "park", "settle"}
  <2>1. ~NoReview /\ ~prepared /\ ~queued
    BY <1>1, <1>3 DEF NoReview, Ordered, Carried, QueueShape
  <2> QED
    BY <1>3, <2>1 DEF Ordered, RunShape, ReviewShape
<1>5. Pending(o)' /\ Live(o)' /\ ~Closes(o) /\ ~Closes(o)'
  <2>1. ~Closes(o)
    BY <1>1 DEF Ordered, CloseShape, Closes
  <2> QED
    BY <1>2, <2>1 DEF Pending, Live, Closes
<1> HIDE DEF o
<1>6. \A p \in Obs : p # o =>
        (Pending(p)' <=> Pending(p)) /\ (Closes(p)' <=> Closes(p)) /\ (Live(p)' <=> Live(p))
  BY <1>2, Same
<1>7. \A p \in Obs : /\ Pending(p)' <=> Pending(p)
                     /\ Closes(p)' <=> Closes(p)
                     /\ Live(p)' <=> Live(p)
  BY <1>3, <1>5, <1>6
<1>8. ~NoReview' /\ NoBubble'
  BY <1>1, <1>4, <1>5 DEF NoReview, NoBubble, Fg, o
<1>9. Agreed'
  <2>1. stopping = "commit" /\ ~Over => FALSE
    BY <1>3, <1>4 DEF Ordered, Agreed, o
  <2>2. Closing \in endings' => Closing \in endings
    BY <1>1 DEF o
  <2> QED
    BY <2>1, <2>2 DEF Ordered, Agreed, Over
<1>10. Carried'
  <2>1. \A p \in revived : p \in Obs
    BY DEF TypeOK
  <2>2. obs'[o].stage = "requested" => ~obs'[o].settled /\ ~obs'[o].finalized
    BY <1>1, <1>2 DEF Ordered, Carried, o
  <2> QED
    BY <1>2, <1>4, <1>7, <2>1, <2>2 DEF Ordered, Carried
<1>11. QueueShape'
  BY <1>4 DEF QueueShape
<1>12. RunShape'
  <2>1. pc = "observe" => w # "apply"
    BY DEF Ordered, RunShape, Over, Terminal
  <2>2. pc = "observe" => /\ status = "ACTIVE" /\ Pending(o)' /\ o \notin revived
                          /\ work'[o] # "apply" /\ o = Fg(turn)
    BY <1>2, <1>4, <1>5, <2>1 DEF Ordered, RunShape, o
  <2>3. pc = "observe" => Pending(Fg(turn))'
    BY <1>5, <2>2 DEF Pending, Fg
  <2> QED
    BY <1>4, <2>2, <2>3 DEF RunShape, Fg
<1>13. BubbleShape'
  BY <1>4, <1>7 DEF Ordered, BubbleShape, Over
<1>14. ReviewShape'
  <2>1. /\ obs[o].settled => obs[o].action = "foreground"
                             /\ {status, logged} \subseteq {Settled(o), "CANCELED"}
        /\ "AWAITING_HUMAN" \notin {status, logged} /\ (status = "FINISHED" => obs[o].settled)
        /\ pc = "observe" \/ o \in revived \/ status = "CANCELED"
        /\ obs[o].stage = "requested" =>
             /\ pc = "observe" \/ status = "CANCELED"
             /\ logged \notin {"FINISHED", "PENDING"} /\ ~obs[o].settled
        /\ obs[o].action = "foreground" => obs[o].verdict \in Verdicts
    BY <1>1, <1>3, <1>4 DEF Ordered, ReviewShape, Carried, o
  <2>2. obs[o].settled => Settled(o)' = Settled(o) /\ r.action = "foreground"
    BY <1>2, <1>3, <2>1 DEF Settled, o, Pending
  <2> SUFFICES ASSUME NEW j \in Turn, Pending(Fg(j))'
               PROVE  j = k
    <3>1. k = turn' /\ NoBubble' /\ "AWAITING_HUMAN" \notin {status', logged'}
      BY <1>4, <1>8, <2>1
    <3>2. obs'[o].settled => obs'[o].action = "foreground"
                             /\ {status', logged'} \subseteq {Settled(o)', "CANCELED"}
      BY <1>2, <2>1, <2>2 DEF o
    <3>3. obs'[o].stage = "completed" => obs'[o].action = "foreground" \/ status' = "CANCELED"
      BY <1>2, <1>3, <2>1 DEF o
    <3>4. (obs'[o].action = "foreground" => obs'[o].verdict \in Verdicts)
          /\ (status' = "FINISHED" => obs'[o].settled)
      BY <1>2, <2>1 DEF o
    <3>5. obs'[o].stage = "requested" => /\ pc' = "observe" \/ status' = "CANCELED"
                                         /\ logged' \notin {"FINISHED", "PENDING"}
      BY <1>2, <2>1 DEF o
    <3>6. /\ work'[o] = "judge" => pc' = "observe"
          /\ work'[o] \in {"fold", "finalize", "settle"} =>
               obs'[o].action = "foreground" /\ status' # "CANCELED"
          /\ work'[o] = "apply" => Over'
          /\ pc' = "observe" \/ o \in revived' \/ status' = "CANCELED"
      BY <1>2, <2>1 DEF o, Over
    <3>7. \A j \in Turn : Pending(Fg(j))' => Fg(j) = o /\ j = k
      BY DEF o
    <3>8. Settled(Fg(k))' = Settled(o)'
      BY DEF o, Settled, Fg
    <3> QED
      BY <3>1, <3>2, <3>3, <3>4, <3>5, <3>6, <3>7, <3>8 DEF ReviewShape, o
  <2>3. Pending(Fg(j))
    BY <1>7, FgFacts
  <2> QED
    BY <1>4, <2>3 DEF Ordered, ReviewShape
<1>15. CloseShape'
  <2>1. \A p \in Obs : p # o =>
          obs'[p] = obs[p] /\ work'[p] = work[p] /\ (p \in endings => p \in endings')
    BY <1>2
  <2>2. obs'[o].action # "close" /\ o[2] = "fg" /\ w # "close"
    BY <1>1, <1>2
  <2> QED
    BY <1>2, <1>7, <1>5, <2>1, <2>2 DEF Ordered, CloseShape
<1>16. Driven'
  BY <1>7, <1>8, <1>4 DEF Ordered, Driven
<1> QED
  BY <1>9, <1>10, <1>11, <1>12, <1>13, <1>14, <1>15, <1>16 DEF Ordered

\* What a review that is under way has decided so far.
LEMMA ReviewIs ==
  ASSUME TypeOK, Inductive, Ordered, NEW k \in Turn, Live(Fg(k))
  PROVE  /\ Fg(k) \in Obs /\ obs[Fg(k)] \in Observed /\ Pending(Fg(k)) /\ ~prepared
         /\ obs[Fg(k)].action # "close"
         /\ obs[Fg(k)].stage = "completed" =>
              obs[Fg(k)].action = "foreground" \/ status = "CANCELED"
         /\ obs[Fg(k)].action = "foreground" => obs[Fg(k)].verdict \in Verdicts
         /\ obs[Fg(k)].stage = "requested" => pc = "observe" \/ status = "CANCELED"
         /\ work[Fg(k)] \in {"fold", "finalize", "settle"} =>
              obs[Fg(k)].action = "foreground" /\ status # "CANCELED"
<1>1. Fg(k) \in Obs /\ Fg(k)[2] = "fg" /\ obs[Fg(k)] \in Observed
  BY FgFacts DEF TypeOK
<1>2. Pending(Fg(k)) /\ ~prepared
  BY <1>1, UnderWay DEF Inductive, Pending, Live, Ordered, Carried
<1>3. obs[Fg(k)].action # "close"
  BY <1>1 DEF Ordered, CloseShape
<1> QED
  BY <1>1, <1>2, <1>3 DEF Ordered, ReviewShape

\* A review that the restart found is taken up.
LEMMA ResumeReviewOrders ==
  ASSUME TypeOK, Inductive, Ordered, NEW k \in Turn, ResumeReview(Fg(k))
  PROVE  Ordered'
<1> DEFINE o == Fg(k)
           dropped == Completed(o, "keep_raw", "none", FALSE)
<1>1. /\ work[o] = "ready" /\ Live(o)
      /\ UNCHANGED <<logged, status, condemned, stopping, bubble, prepared, queued, turn, pc,
                     revived, endings>>
  BY DEF ResumeReview, task, run, owner, Live
<1>2. /\ o \in Obs /\ obs[o] \in Observed /\ Pending(o) /\ ~prepared /\ obs[o].action # "close"
      /\ obs[o].stage = "completed" => obs[o].action = "foreground" \/ status = "CANCELED"
      /\ obs[o].action = "foreground" => obs[o].verdict \in Verdicts
      /\ obs[o].stage = "requested" => pc = "observe" \/ status = "CANCELED"
  BY <1>1, ReviewIs
<1>3. CASE Overruled(o)
  <2> DEFINE r == IF obs[o].stage = "completed" THEN obs[o] ELSE dropped
  <2>1. obs' = [obs EXCEPT ![o] = r] /\ work' = [work EXCEPT ![o] = "apply"]
    BY <1>3 DEF ResumeReview, Goes
  <2>2. dropped \in Observed /\ dropped.stage = "completed"
    BY <1>2, CompletedIs DEF Action
  <2>3. dropped.action = "keep_raw" /\ dropped.settled = obs[o].settled
    BY <1>2 DEF Completed, Observed
  <2>4. Over /\ (obs[o].stage = "requested" => status = "CANCELED")
    BY <1>3 DEF Overruled, Over, Terminal
  <2> HIDE DEF dropped
  <2>5. /\ r \in Observed /\ r.stage = "completed" /\ r.action # "close"
        /\ r.action = "foreground" \/ status = "CANCELED"
        /\ r.action = "foreground" => r.verdict \in Verdicts
        /\ r.settled = obs[o].settled
        /\ obs[o].stage = "completed" => r.action = obs[o].action /\ r.verdict = obs[o].verdict
    BY <1>2, <2>2, <2>3, <2>4 DEF Pending
  <2> HIDE DEF r
  <2>6. "apply" \in Place
    BY DEF Place
  <2> QED
    BY <1>1, <2>1, <2>4, <2>5, <2>6, ReviewMoves
<1>4. CASE ~Overruled(o)
  <2> DEFINE w == IF obs[o].stage = "requested" THEN "judge"
                  ELSE IF obs[o].settled THEN "settle" ELSE "fold"
  <2>1. obs' = [obs EXCEPT ![o] = obs[o]] /\ work' = [work EXCEPT ![o] = w]
    BY <1>4 DEF ResumeReview, Goes, TypeOK
  <2>2. status # "CANCELED" /\ w \in Place
    BY <1>4 DEF Overruled, Place
  <2>3. \/ obs[o].stage = "requested" /\ w = "judge"
        \/ obs[o].stage = "completed" /\ w \in {"settle", "fold"}
    BY <1>2 DEF Pending
  <2> HIDE DEF w
  <2> QED
    BY <1>1, <1>2, <2>1, <2>2, <2>3, ReviewMoves
<1> QED
  BY <1>3, <1>4

\* A review has decided.
LEMMA JudgedOrders ==
  ASSUME TypeOK, Inductive, Ordered, NEW k \in Turn, Judged(Fg(k))
  PROVE  Ordered'
<1> DEFINE o == Fg(k)
<1>1. /\ work[o] = "judge" /\ Live(o)
      /\ UNCHANGED <<logged, status, condemned, stopping, bubble, prepared, queued, turn, pc,
                     revived, endings>>
  BY DEF Judged, task, run, owner, Live
<1>2. o \in Obs /\ obs[o] \in Observed /\ obs[o].stage = "requested"
  BY <1>1, ReviewIs, FgFacts DEF Inductive, PlaceOfStage
<1>3. status # "CANCELED"
  <2>1. pc = "observe"
    BY <1>1, ReviewIs DEF Ordered, ReviewShape
  <2> QED
    BY <2>1 DEF Ordered, RunShape
<1>4. PICK verdict \in Verdicts, reported \in BOOLEAN :
        obs' = [obs EXCEPT ![o] = Completed(o, "foreground", verdict, reported)]
  BY DEF Judged
<1> DEFINE r == Completed(o, "foreground", verdict, reported)
<1>5. r \in Observed /\ r.stage = "completed"
  BY <1>2, CompletedIs DEF Action, Verdicts
<1>6. r.action = "foreground" /\ r.verdict = verdict /\ r.settled = obs[o].settled
  BY <1>2 DEF Completed, Observed
<1>7. obs' = [obs EXCEPT ![o] = r] /\ work' = [work EXCEPT ![o] = "fold"] /\ "fold" \in Place
  BY <1>4 DEF Judged, Goes, Place
<1> HIDE DEF r
<1> QED
  BY <1>1, <1>2, <1>3, <1>5, <1>6, <1>7, ReviewMoves

\* A review carries its decision out in memory.
LEMMA ReviewFoldsOrders ==
  ASSUME TypeOK, Inductive, Ordered, NEW k \in Turn, FoldRetry(Fg(k)) \/ FinalizeStep(Fg(k))
  PROVE  Ordered'
<1> DEFINE o == Fg(k)
<1>1. /\ work[o] \in {"fold", "finalize"} /\ Live(o)
      /\ UNCHANGED <<logged, status, condemned, stopping, bubble, prepared, queued, turn, pc,
                     revived>>
  BY DEF FoldRetry, FinalizeStep, task, run, owner, Live
<1>2. /\ o \in Obs /\ obs[o] \in Observed /\ obs[o].action = "foreground" /\ status # "CANCELED"
      /\ obs[o].verdict \in Verdicts /\ obs[o].stage = "completed"
  BY <1>1, ReviewIs DEF Inductive, PlaceOfStage
<1> PICK r \in Observed, w \in {"finalize", "settle"} :
      /\ obs' = [obs EXCEPT ![o] = r] /\ work' = [work EXCEPT ![o] = w]
      /\ r.stage = "completed" /\ r.action = "foreground" /\ r.verdict = obs[o].verdict
      /\ r.settled = obs[o].settled /\ endings' \in {endings, endings \cup {o}}
  <2>1. CASE FoldRetry(o)
    <3>1. obs' = [obs EXCEPT ![o] = obs[o]] /\ work' = [work EXCEPT ![o] = "finalize"]
          /\ endings' = endings
      BY <2>1 DEF FoldRetry, Goes, TypeOK
    <3> QED
      BY <1>2, <3>1
  <2>2. CASE FinalizeStep(o)
    <3> DEFINE r == [obs[o] EXCEPT !.finalized = TRUE]
    <3>1. obs' = [obs EXCEPT ![o] = r] /\ work' = [work EXCEPT ![o] = "settle"]
          /\ endings' \in {endings, endings \cup {o}}
      BY <2>2 DEF FinalizeStep, Finalize, Goes
    <3>2. /\ r \in Observed /\ r.stage = "completed" /\ r.action = "foreground"
          /\ r.verdict = obs[o].verdict /\ r.settled = obs[o].settled
      BY <1>2 DEF Observed
    <3> HIDE DEF r
    <3> QED
      BY <3>1, <3>2
  <2> QED
    BY <2>1, <2>2
<1>3. w \in Place
  BY DEF Place
<1> HIDE DEF o
<1> QED
  BY <1>1, <1>2, <1>3, ReviewMoves DEF o

\* The task does what its review has decided.
LEMMA DisposeOrders ==
  ASSUME TypeOK, Inductive, Ordered, NEW k \in Turn, Dispose(Fg(k))
  PROVE  Ordered'
<1> DEFINE o == Fg(k)
           r == IF obs[o].settled THEN obs[o] ELSE [obs[o] EXCEPT !.settled = TRUE]
           now == Settled(o)
<1>1. /\ work[o] = "settle" /\ Live(o) /\ work' = [work EXCEPT ![o] = "apply"]
      /\ IF obs[o].settled THEN UNCHANGED <<status, logged>> ELSE status' = now /\ logged' = now
      /\ queued' = (queued \/ obs[o].verdict = "continue")
      /\ pc' = (IF o \in revived THEN pc ELSE "off")
      /\ UNCHANGED <<condemned, stopping, bubble, prepared, turn, revived, endings>>
  BY DEF Dispose, Live, Goes
<1>2. obs' = [obs EXCEPT ![o] = r]
  BY DEF Dispose, TypeOK
<1>3. /\ o \in Obs /\ o[2] = "fg" /\ obs[o] \in Observed /\ Pending(o) /\ ~prepared
      /\ obs[o].action = "foreground" /\ status # "CANCELED" /\ obs[o].verdict \in Verdicts
      /\ obs[o].stage = "completed"
  BY <1>1, ReviewIs, FgFacts DEF Inductive, PlaceOfStage
<1>4. /\ r \in Observed /\ r.stage = "completed" /\ r.action = "foreground" /\ r.settled
      /\ r.verdict = obs[o].verdict
  BY <1>3 DEF Observed
<1> HIDE DEF r
<1>5. /\ obs'[o] = r /\ work'[o] = "apply"
      /\ \A p \in Obs : p # o => obs'[p] = obs[p] /\ work'[p] = work[p]
  BY <1>1, <1>2, <1>3 DEF TypeOK
<1>6. /\ now = (IF obs[o].verdict = "done" THEN "FINISHED" ELSE "PENDING")
      /\ now = "PENDING" <=> obs[o].verdict = "continue"
      /\ Settled(o)' = now
  BY <1>3, <1>4, <1>5 DEF Settled, Verdicts
<1>7. /\ k = turn /\ NoBubble /\ "AWAITING_HUMAN" \notin {status, logged}
      /\ obs[o].settled => {status, logged} \subseteq {now, "CANCELED"}
      /\ status = "FINISHED" => obs[o].settled
      /\ ~NoReview /\ ~queued /\ pc \in {"off", "observe"}
  <2>1. ~NoReview /\ ~queued
    BY <1>1, <1>3 DEF NoReview, Ordered, QueueShape
  <2> QED
    BY <1>3, <2>1 DEF Ordered, ReviewShape, RunShape, TypeOK
<1> HIDE DEF now
<1>8. logged # "CANCELED"
  BY <1>3 DEF Ordered, Agreed, Terminal
<1>9. status' = now /\ logged' = now
  BY <1>1, <1>3, <1>7, <1>8
<1>10. pc' = "off"
  <2>1. pc = "observe" => o \notin revived
    BY <1>7 DEF Ordered, RunShape
  <2> QED
    BY <1>1, <1>7, <2>1
<1>11. queued' <=> now = "PENDING"
  BY <1>1, <1>6, <1>7
<1>12. Pending(o)' /\ Live(o)' /\ ~Closes(o) /\ ~Closes(o)'
  BY <1>3, <1>4, <1>5 DEF Pending, Live, Closes
<1>13. /\ stopping = "commit" => Over
       /\ stopping # "closure" /\ Closing \notin endings
  <2>1. stopping = "commit" => Over
    BY <1>1, <1>3 DEF Ordered, Agreed, o
  <2> QED
    BY <1>8, <2>1 DEF Ordered, Agreed
<1>14. Over => now = "FINISHED"
  BY <1>3, <1>6, <1>7 DEF Over, Terminal
<1> HIDE DEF o
<1>15. \A p \in Obs : p # o =>
        (Pending(p)' <=> Pending(p)) /\ (Closes(p)' <=> Closes(p)) /\ (Live(p)' <=> Live(p))
  BY <1>5, Same
<1>16. \A p \in Obs : /\ Pending(p)' <=> Pending(p)
                      /\ Closes(p)' <=> Closes(p)
                      /\ Live(p)' <=> Live(p)
  BY <1>1, <1>3, <1>12, <1>15
<1>17. \A j \in Turn : Pending(Fg(j))' => j = k /\ Fg(j) = o
  BY <1>7, <1>16, FgFacts DEF Ordered, ReviewShape, o
<1>18. NoBubble' /\ \A p \in Obs : Closes(p)' => now = "FINISHED"
  <2>1. \A p \in Obs : Closes(p)' => Over
    BY <1>3, <1>16, ClosesIs DEF Over, Terminal
  <2> QED
    BY <1>1, <1>7, <1>14, <2>1 DEF NoBubble
<1>19. Agreed'
  <2>1. now \in {"PENDING", "FINISHED"}
    BY <1>6
  <2>2. stopping' = "commit" => Over'
    BY <1>1, <1>9, <1>13, <1>14 DEF Over, Terminal
  <2> QED
    BY <1>1, <1>3, <1>9, <1>10, <1>13, <2>1, <2>2 DEF Agreed, Terminal
<1>20. Carried'
  <2>1. \A p \in revived : p \in Obs
    BY DEF TypeOK
  <2>2. \A p \in Obs : obs'[p].stage = "requested" => ~obs'[p].settled /\ ~obs'[p].finalized
    BY <1>4, <1>5 DEF Ordered, Carried
  <2> QED
    BY <1>1, <1>3, <1>16, <2>1, <2>2 DEF Ordered, Carried
<1>21. QueueShape'
  <2>1. \A j \in Turn : Pending(Fg(j))' => work'[Fg(j)] = "apply"
    BY <1>5, <1>17
  <2> QED
    BY <1>9, <1>10, <1>11, <1>18, <2>1 DEF QueueShape, Pending, Fg
<1>22. RunShape'
  BY <1>10 DEF RunShape
<1>23. BubbleShape'
  <2>1. \A j \in Turn : bubble'[j] # "open"
    BY <1>18 DEF NoBubble
  <2>2. \A j \in Turn : bubble'[j] = "closed" => Over'
    <3>1. \A j \in Turn : bubble[j] = "closed" => Over
      BY <1>3, NotOver
    <3> QED
      BY <1>1, <1>9, <1>14, <3>1 DEF Over, Terminal
  <2> QED
    BY <2>1, <2>2 DEF BubbleShape
<1>24. ReviewShape'
  <2>1. k = turn' /\ now \in {"PENDING", "FINISHED"}
    BY <1>1, <1>6, <1>7
  <2>2. Over' \/ queued'
    BY <1>9, <1>11, <2>1 DEF Over, Terminal
  <2>3. Settled(Fg(k))' = now
    BY <1>6 DEF o, Settled, Fg
  <2>4. ~prepared'
    BY <1>1, <1>3
  <2> QED
    BY <1>3, <1>4, <1>5, <1>9, <1>17, <1>18, <2>1, <2>2, <2>3, <2>4 DEF ReviewShape, o
<1>25. CloseShape'
  <2>1. \A p \in Obs : Closes(p) => logged = "FINISHED" \/ now = "FINISHED"
    BY <1>16, <1>18
  <2> QED
    BY <1>1, <1>3, <1>4, <1>5, <1>9, <1>12, <1>16, <1>18, <2>1 DEF Ordered, CloseShape
<1>26. Driven'
  BY <1>6, <1>9, <1>11 DEF Driven
<1> QED
  BY <1>19, <1>20, <1>21, <1>22, <1>23, <1>24, <1>25, <1>26 DEF Ordered

\* An observation in the background goes on by a step, and nothing else moves.
LEMMA ObserverMoves ==
  ASSUME TypeOK, Inductive, Ordered, NEW o \in Obs, NEW r \in Observed,
         NEW w \in {"judge", "fold", "land", "finalize", "close", "apply"},
         o[2] = "bg", Live(o),
         obs' = [obs EXCEPT ![o] = r], work' = [work EXCEPT ![o] = w],
         r.stage = "completed" \/ r = obs[o], r.action # "foreground",
         Closes(o) <=> r.action = "close" /\ w # "land",
         w \in {"finalize", "close"} => r.action = "close",
         w \in {"fold", "apply"} => r.action # "close",
         r.action = "close" => /\ r.stage = "completed" /\ r.verdict = "done"
                               /\ r.settled = obs[o].settled /\ (r.finalized => o \in endings')
                               /\ w = "close" => r.finalized,
         endings' \in {endings, endings \cup {o}},
         UNCHANGED <<logged, status, condemned, stopping, bubble, prepared, queued, turn, pc,
                     revived>>
  PROVE  Ordered'
<1>1. /\ obs'[o] = r /\ work'[o] = w
      /\ \A p \in Obs : p # o => obs'[p] = obs[p] /\ work'[p] = work[p]
  BY DEF TypeOK
<1>2. /\ \A k \in Turn : Fg(k) \in Obs /\ Fg(k) # o
      /\ \A p \in Obs : p \in endings => p \in endings'
      /\ Closing \in endings' => Closing \in endings
  BY FgFacts, ObsFacts
<1>3. Pending(o) /\ ~prepared
  BY UnderWay DEF Inductive, Pending, Live, Ordered, Carried
<1>4. \A p \in Obs : p # o =>
        (Pending(p)' <=> Pending(p)) /\ (Closes(p)' <=> Closes(p)) /\ (Live(p)' <=> Live(p))
  BY <1>1, Same
<1>5. Pending(o)' /\ Live(o)' /\ (Closes(o)' <=> Closes(o))
  BY <1>1, <1>3 DEF Pending, Live, Closes, Lands
<1>6. \A p \in Obs : /\ Pending(p)' <=> Pending(p)
                     /\ Closes(p)' <=> Closes(p)
                     /\ Live(p)' <=> Live(p)
  BY <1>3, <1>4, <1>5 DEF Live
<1>7. \A k \in Turn : /\ obs'[Fg(k)] = obs[Fg(k)] /\ work'[Fg(k)] = work[Fg(k)]
                      /\ Pending(Fg(k))' <=> Pending(Fg(k))
                      /\ Settled(Fg(k))' = Settled(Fg(k))
  BY <1>1, <1>2, <1>6, Same
<1>8. /\ NoReview' <=> NoReview
      /\ NoBubble' <=> NoBubble
  BY <1>7 DEF NoReview, NoBubble, Fg
<1>9. Agreed'
  BY <1>2, <1>7 DEF Ordered, Agreed, Over, Fg
<1>10. Carried'
  <2>1. \A p \in revived : p \in Obs
    BY DEF TypeOK
  <2>2. \A p \in Obs : obs'[p].stage = "requested" => ~obs'[p].settled /\ ~obs'[p].finalized
    BY <1>1 DEF Ordered, Carried
  <2> QED
    BY <1>3, <1>6, <2>1, <2>2 DEF Ordered, Carried
<1>11. QueueShape'
  BY <1>7, <1>8 DEF Ordered, QueueShape, Fg
<1>12. RunShape'
  <2>1. pc = "observe" => turn \in Turn
    BY Acting
  <2> QED
    BY <1>7, <1>8, <2>1 DEF Ordered, RunShape, Fg
<1>13. BubbleShape'
  BY <1>6 DEF Ordered, BubbleShape, Over
<1>14. ReviewShape'
  BY <1>7, <1>8 DEF Ordered, ReviewShape, Over, Fg
<1>15. CloseShape'
  BY <1>1, <1>2, <1>3, <1>6 DEF Ordered, CloseShape
<1>16. Driven'
  BY <1>6, <1>8 DEF Ordered, Driven
<1> QED
  BY <1>9, <1>10, <1>11, <1>12, <1>13, <1>14, <1>15, <1>16 DEF Ordered

\* What an observation in the background that is under way has decided so far.
LEMMA ObserverIs ==
  ASSUME TypeOK, Inductive, Ordered, NEW o \in Obs, o[2] = "bg", Live(o), ~Lands(o)
  PROVE  /\ obs[o] \in Observed /\ Pending(o) /\ ~prepared /\ obs[o].action # "foreground"
         /\ obs[o].action = "close" => /\ Closes(o) /\ obs[o].verdict = "done"
                                       /\ status = "FINISHED"
                                       /\ obs[o].finalized => o \in endings
         /\ work[o] \in {"finalize", "settle", "close"} => obs[o].action = "close"
         /\ work[o] = "fold" => obs[o].action # "close"
         /\ work[o] \in {"fold", "finalize", "settle", "close", "apply"} =>
              obs[o].stage = "completed"
<1>1. obs[o] \in Observed /\ Pending(o) /\ ~prepared
  BY UnderWay DEF TypeOK, Inductive, Pending, Live, Ordered, Carried
<1>2. obs[o].action = "close" => Closes(o)
  BY <1>1 DEF Inductive, PlaceOfStage, Pending, Closes
<1> QED
  BY <1>1, <1>2 DEF Ordered, CloseShape, Inductive, PlaceOfStage

\* An observation that begins ends no task anew.
LEMMA BeginsAs ==
  ASSUME TypeOK, Inductive, Ordered, NEW o \in Obs, Begin(o)
  PROVE  UNCHANGED status
<1>1. o[2] = "bg" /\ work[o] = "ready" /\ Live(o) /\ ~Lands(o)
  BY DEF Begin, Live, Lands
<1>2. obs[o].action = "close" => status = "FINISHED"
  BY <1>1, ObserverIs
<1> QED
  BY <1>2 DEF Begin

\* An observation begins, or is taken up again.
LEMMA BeginOrders ==
  ASSUME TypeOK, Inductive, Ordered, NEW o \in Obs, Begin(o)
  PROVE  Ordered'
<1> DEFINE dropped == Completed(o, "keep_raw", "none", FALSE)
<1>1. /\ o[2] = "bg" /\ work[o] = "ready" /\ Live(o)
      /\ UNCHANGED <<logged, condemned, stopping, bubble, prepared, queued, turn, pc, revived,
                     endings>> /\ ~Lands(o)
  BY DEF Begin, run, owner, Live, Lands
<1>2. /\ obs[o] \in Observed /\ Pending(o) /\ obs[o].action # "foreground"
      /\ obs[o].action = "close" => /\ Closes(o) /\ obs[o].verdict = "done"
                                    /\ status = "FINISHED"
                                    /\ obs[o].finalized => o \in endings
  BY <1>1, ObserverIs
<1>3. CASE status = "CANCELED"
  <2> DEFINE r == IF obs[o].stage = "completed" THEN obs[o] ELSE dropped
  <2>1. obs' = [obs EXCEPT ![o] = r] /\ work' = [work EXCEPT ![o] = "apply"]
        /\ status' = status
    BY <1>3 DEF Begin, Goes
  <2>2. dropped \in Observed /\ dropped.stage = "completed"
    BY <1>2, CompletedIs DEF Action
  <2>3. dropped.action = "keep_raw"
    BY <1>2 DEF Completed, Observed
  <2> HIDE DEF dropped
  <2>4. /\ r \in Observed /\ r.stage = "completed"
        /\ r.action \notin {"foreground", "close"} /\ ~Closes(o)
    BY <1>2, <1>3, <2>2, <2>3 DEF Closes
  <2> HIDE DEF r
  <2> QED
    BY <1>1, <2>1, <2>4, ObserverMoves
<1>4. CASE status # "CANCELED"
  <2> DEFINE w == IF obs[o].action = "close" THEN "finalize"
                  ELSE IF obs[o].stage = "requested" THEN "judge" ELSE "fold"
  <2>1. obs[o].action = "close" => ~IsTreeCanceled
    BY <1>2 DEF IsTreeCanceled
  <2>2. obs' = [obs EXCEPT ![o] = obs[o]] /\ work' = [work EXCEPT ![o] = w]
    BY <1>4, <2>1 DEF Begin, Goes, TypeOK
  <2>3. status' = status
    BY <1>2, <1>4 DEF Begin
  <2>4. /\ Closes(o) <=> obs[o].action = "close"
        /\ w \in {"judge", "fold", "finalize"}
        /\ w = "finalize" <=> obs[o].action = "close"
        /\ obs[o].action = "close" => obs[o].stage = "completed"
    BY <1>2 DEF Closes
  <2> HIDE DEF w
  <2> QED
    BY <1>1, <1>2, <2>2, <2>3, <2>4, ObserverMoves
<1> QED
  BY <1>3, <1>4

\* An observation in the background has decided, but not that the task is over.
LEMMA DecidedOrders ==
  ASSUME TypeOK, Inductive, Ordered, NEW o \in Obs, o[2] = "bg", work[o] = "judge",
         NEW action \in {"recap", "keep_raw"}, Goes(o, "fold"),
         obs' = [obs EXCEPT ![o] = Completed(o, action, "none", FALSE)],
         UNCHANGED <<logged, status, condemned, stopping, bubble, prepared, queued, turn, pc,
                     revived, endings>>
  PROVE  Ordered'
<1> DEFINE r == Completed(o, action, "none", FALSE)
<1>1. Live(o) /\ obs[o] \in Observed /\ work' = [work EXCEPT ![o] = "fold"]
  BY DEF Live, TypeOK, Goes
<1>2. r \in Observed /\ r.stage = "completed"
  <2>1. action \in Action
    BY DEF Action
  <2> QED
    BY <1>1, <2>1, CompletedIs
<1>3. r.action = action
  BY <1>1 DEF Completed, Observed
<1>4. ~Closes(o)
  BY DEF Inductive, PlaceOfStage, Closes
<1>5. obs' = [obs EXCEPT ![o] = r]
  OBVIOUS
<1> HIDE DEF r
<1> QED
  BY <1>1, <1>2, <1>3, <1>4, <1>5, ObserverMoves

\* An observation carries its decision out in memory.
LEMMA ObserverFoldsOrders ==
  ASSUME TypeOK, Inductive, Ordered, NEW o \in Obs, FoldSegment(o) \/ FinalizeOutOfBand(o)
  PROVE  Ordered'
<1>1. /\ o[2] = "bg" /\ work[o] \in {"fold", "finalize"} /\ Live(o) /\ ~Lands(o)
      /\ UNCHANGED <<logged, status, condemned, stopping, bubble, prepared, queued, turn, pc,
                     revived>>
  BY DEF FoldSegment, FinalizeOutOfBand, task, run, owner, Live, Lands
<1>2. /\ obs[o] \in Observed /\ obs[o].action # "foreground" /\ obs[o].stage = "completed"
      /\ obs[o].action = "close" => /\ Closes(o) /\ obs[o].verdict = "done"
                                    /\ obs[o].finalized => o \in endings
      /\ work[o] = "finalize" <=> obs[o].action = "close"
  BY <1>1, ObserverIs
<1>3. CASE FoldSegment(o)
  <2>1. obs' = [obs EXCEPT ![o] = obs[o]] /\ work' = [work EXCEPT ![o] = "apply"]
        /\ endings' = endings /\ work[o] = "fold"
    BY <1>3 DEF FoldSegment, Goes, TypeOK
  <2> QED
    BY <1>1, <1>2, <2>1, ObserverMoves DEF Closes
<1>4. CASE FinalizeOutOfBand(o)
  <2> DEFINE r == [obs[o] EXCEPT !.finalized = TRUE]
  <2>1. /\ obs' = [obs EXCEPT ![o] = r] /\ work' = [work EXCEPT ![o] = "close"]
        /\ work[o] = "finalize"
    BY <1>4 DEF FinalizeOutOfBand, Finalize, Goes
  <2>2. /\ r \in Observed /\ r.stage = "completed" /\ r.action = obs[o].action
        /\ r.verdict = obs[o].verdict /\ r.settled = obs[o].settled /\ r.finalized
    BY <1>2 DEF Observed
  <2>3. endings' \in {endings, endings \cup {o}} /\ o \in endings'
    BY <1>2, <1>4, <2>1 DEF FinalizeOutOfBand, Finalize
  <2> HIDE DEF r
  <2> QED
    BY <1>1, <1>2, <2>1, <2>2, <2>3, ObserverMoves
<1> QED
  BY <1>3, <1>4

\* The model has judged a parked turn: a verdict that is accepted is recorded.
LEMMA VerdictOrders ==
  ASSUME TypeOK, Inductive, Ordered, NEW o \in Obs, Verdict(o)
  PROVE  Ordered'
<1>1. /\ o[2] = "bg" /\ work[o] = "judge" /\ Live(o)
      /\ UNCHANGED <<logged, status, condemned, stopping, bubble, prepared, queued, turn, pc,
                     revived, endings>>
  BY DEF Verdict, task, run, owner, Live
<1> PICK verdict \in Verdicts, reported \in BOOLEAN :
      IF verdict = "done" /\ Accepts
      THEN /\ obs' = [obs EXCEPT ![o] = Completed(o, "close", "done", reported)]
           /\ Goes(o, "land")
      ELSE /\ obs' = [obs EXCEPT ![o] = Completed(o, IF reported THEN "recap" ELSE "keep_raw",
                                                  "none", FALSE)]
           /\ Goes(o, "fold")
  BY DEF Verdict
<1>2. CASE ~(verdict = "done" /\ Accepts)
  <2> DEFINE action == IF reported THEN "recap" ELSE "keep_raw"
  <2>1. action \in {"recap", "keep_raw"}
    OBVIOUS
  <2>2. /\ obs' = [obs EXCEPT ![o] = Completed(o, action, "none", FALSE)]
        /\ Goes(o, "fold")
    BY <1>2
  <2> HIDE DEF action
  <2> QED
    BY <1>1, <2>1, <2>2, DecidedOrders
<1>3. CASE verdict = "done" /\ Accepts
  <2> DEFINE r == Completed(o, "close", "done", reported)
  <2>1. obs' = [obs EXCEPT ![o] = r] /\ work' = [work EXCEPT ![o] = "land"]
    BY <1>3 DEF Goes
  <2>2. obs[o] \in Observed /\ obs[o].stage = "requested" /\ ~obs[o].settled /\ ~obs[o].finalized
    BY <1>1 DEF TypeOK, Inductive, PlaceOfStage, Ordered, Carried
  <2>3. r \in Observed
    BY <2>2, CompletedIs DEF Action
  <2>4. /\ r.stage = "completed" /\ r.action = "close" /\ r.verdict = "done"
        /\ ~r.settled /\ ~r.finalized /\ ~Closes(o)
    BY <2>2 DEF Completed, Observed, Closes
  <2> HIDE DEF r
  <2>5. /\ Closes(o) <=> r.action = "close" /\ "land" # "land"
        /\ r.settled = obs[o].settled /\ r.action # "foreground"
    BY <2>2, <2>3, <2>4 DEF Observed
  <2> QED
    BY <1>1, <2>1, <2>3, <2>4, <2>5, ObserverMoves
<1> QED
  BY <1>2, <1>3

\* What has landed ends the task.
LEMMA LandOrders ==
  ASSUME TypeOK, Inductive, Ordered, LandShape, NEW o \in Obs, Land(o)
  PROVE  Ordered'
<1>1. /\ o[2] = "bg" /\ Live(o) /\ Lands(o) /\ work' = [work EXCEPT ![o] = "finalize"]
      /\ status = "AWAITING_HUMAN" /\ status' = "FINISHED"
      /\ obs[o].stage = "completed" /\ obs[o].action = "close" /\ obs[o].verdict = "done"
      /\ ~obs[o].settled /\ ~obs[o].finalized
      /\ UNCHANGED <<obs, logged, condemned, stopping, bubble, prepared, queued, turn, pc, revived,
                     endings>>
  BY DEF Land, Goes, run, owner, Live, Lands, LandShape, Inductive, PlaceOfStage, Ordered, CloseShape
<1>2. work'[o] = "finalize" /\ \A p \in Obs : p # o => work'[p] = work[p]
  BY <1>1 DEF TypeOK
<1>3. ~Over /\ ~prepared /\ logged = "AWAITING_HUMAN"
  BY <1>1 DEF Over, Terminal, Ordered, Carried, Agreed
<1>4. /\ \A p \in Obs : ~Closes(p)
      /\ \A k \in Turn : bubble[k] # "closed"
  BY <1>3, NotOver
<1>5. Closing \notin endings /\ stopping # "closure" /\ ~queued /\ pc \notin {"act", "observe", "park"}
  BY <1>1, <1>3 DEF Ordered, Agreed, QueueShape, RunShape
<1>6. NoReview
  BY <1>1 DEF Ordered, ReviewShape, NoReview
<1>7. \A p \in Obs : p # o =>
        (Pending(p)' <=> Pending(p)) /\ (Closes(p)' <=> Closes(p)) /\ (Live(p)' <=> Live(p))
  BY <1>1, <1>2, Same
<1>8. Pending(o)' /\ Closes(o)' /\ Live(o)' /\ Pending(o)
  BY <1>1, <1>2 DEF Pending, Closes, Live, Lands
<1>9. \A p \in Obs : (Pending(p)' <=> Pending(p)) /\ (Closes(p)' <=> p = o) /\ (Live(p) => Live(p)')
  BY <1>4, <1>7, <1>8
<1>10. NoReview' /\ (NoBubble' <=> NoBubble)
  BY <1>1, <1>6, <1>9, FgFacts DEF NoReview, NoBubble, Fg
<1>11. Agreed'
  BY <1>1, <1>3, <1>5 DEF Ordered, Agreed, Over, Terminal
<1>12. Carried'
  <2>1. \A p \in revived : p \in Obs
    BY DEF TypeOK
  <2> QED
    BY <1>1, <1>3, <1>9, <2>1 DEF Ordered, Carried
<1>13. QueueShape' /\ RunShape'
  BY <1>1, <1>5, <1>10 DEF Ordered, QueueShape, RunShape
<1>14. BubbleShape'
  BY <1>1, <1>4 DEF Ordered, BubbleShape
<1>15. ReviewShape'
  BY <1>10 DEF ReviewShape, NoReview
<1>16. CloseShape'
  BY <1>1, <1>2, <1>3, <1>9 DEF Ordered, CloseShape
<1>17. Driven'
  BY <1>1, <1>8 DEF Driven
<1> QED
  BY <1>11, <1>12, <1>13, <1>14, <1>15, <1>16, <1>17 DEF Ordered

\* An accepted verdict that is carried out: the task is over, and waits for nobody.
LEMMA ClosingIs ==
  ASSUME TypeOK, Inductive, Ordered, NEW o \in Obs, work[o] = "close" \/ Announce(o)
  PROVE  /\ Closes(o) /\ o[2] = "bg" /\ status = "FINISHED" /\ ~prepared /\ ~queued
         /\ logged \in {"AWAITING_HUMAN", "FINISHED"} /\ Closing \notin endings
         /\ stopping # "closure" /\ pc \notin {"act", "observe", "park"}
         /\ obs[o].verdict = "done" /\ obs[o].finalized /\ o \in endings
         /\ \A k \in Turn : Fg(k) # o
<1>1. o[2] = "bg" /\ Live(o) /\ ~Lands(o) /\ work[o] \in {"close", "settle"}
  <2>1. work[o] = "close" => o[2] = "bg"
    BY DEF Ordered, CloseShape
  <2> QED
    BY <2>1 DEF Announce, Live, Lands
<1>2. /\ Closes(o) /\ status = "FINISHED" /\ ~prepared /\ obs[o].verdict = "done"
      /\ obs[o].finalized => o \in endings
  BY <1>1, ObserverIs
<1>3. logged \in {"AWAITING_HUMAN", "FINISHED"} /\ obs[o].finalized
  BY <1>1, <1>2 DEF Ordered, CloseShape
<1> QED
  BY <1>1, <1>2, <1>3, FgFacts DEF Ordered, Agreed, QueueShape, RunShape

\* The open question is closed with the task.
LEMMA CloseParkOrders ==
  ASSUME TypeOK, Inductive, Ordered, NEW o \in Obs, ClosePark(o)
  PROVE  Ordered'
<1>1. /\ work[o] = "close" /\ work' = [work EXCEPT ![o] = "settle"] /\ CloseBubbles
      /\ UNCHANGED <<obs, logged, status, condemned, stopping, prepared, queued, turn, pc, revived,
                     endings>>
  BY DEF ClosePark, task, run, owner, Goes
<1>2. /\ Closes(o) /\ o[2] = "bg" /\ status = "FINISHED" /\ ~prepared /\ ~queued
      /\ pc \notin {"act", "observe", "park"} /\ obs[o].finalized
      /\ \A k \in Turn : Fg(k) # o
  BY <1>1, ClosingIs
<1>3. work'[o] = "settle" /\ \A p \in Obs : p # o => work'[p] = work[p]
  BY <1>1 DEF TypeOK
<1>4. /\ \A p : (Pending(p)' <=> Pending(p)) /\ Settled(p)' = Settled(p)
      /\ \A p \in Obs : Closes(p)' <=> Closes(p)
  BY <1>1, <1>3 DEF Pending, Closes, Settled, Lands
<1>5. \A p \in Obs : Live(p) => Live(p)'
  BY <1>3 DEF Live
<1>6. \A k \in Turn : work'[Fg(k)] = work[Fg(k)]
  BY <1>2, <1>3, FgFacts
<1>7. NoBubble' /\ \A k \in Turn : bubble'[k] # "open"
  BY <1>1 DEF CloseBubbles, NoBubble
<1>8. Agreed'
  BY <1>1, <1>4, <1>6 DEF Ordered, Agreed, Over, Fg
<1>9. Carried'
  <2>1. \A p \in revived : p \in Obs
    BY DEF TypeOK
  <2> QED
    BY <1>1, <1>2, <1>4, <1>5, <2>1 DEF Ordered, Carried
<1>10. QueueShape' /\ RunShape'
  BY <1>1, <1>2, <1>4 DEF Ordered, QueueShape, RunShape, NoReview, Fg
<1>11. BubbleShape'
  BY <1>1, <1>2, <1>7 DEF BubbleShape, Over, Terminal
<1>12. ReviewShape'
  BY <1>1, <1>2, <1>4, <1>6, <1>7 DEF Ordered, ReviewShape, Over, Fg
<1>13. CloseShape'
  <2>1. o[1] \in Turn /\ \A p \in Obs : p[1] \in Turn
    BY ObsFacts
  <2> QED
    BY <1>1, <1>2, <1>3, <1>4, <1>7, <2>1 DEF Ordered, CloseShape
<1>14. Driven'
  BY <1>1, <1>2, <1>4 DEF Ordered, Driven
<1> QED
  BY <1>8, <1>9, <1>10, <1>11, <1>12, <1>13, <1>14 DEF Ordered

\* The end of the task is recorded.
LEMMA AnnounceOrders ==
  ASSUME TypeOK, Inductive, Ordered, NEW o \in Obs, Announce(o)
  PROVE  Ordered'
<1> DEFINE r == IF obs[o].settled THEN obs[o] ELSE [obs[o] EXCEPT !.settled = TRUE]
<1>1. /\ work[o] = "settle" /\ work' = [work EXCEPT ![o] = "apply"]
      /\ obs' = [obs EXCEPT ![o] = r] /\ status' = "FINISHED"
      /\ UNCHANGED <<bubble, condemned, stopping, prepared, queued, turn, pc, revived,
                     endings>>
  BY DEF Announce, run, owner, Goes, TypeOK
<1>2. /\ Closes(o) /\ o[2] = "bg" /\ status = "FINISHED" /\ ~prepared /\ ~queued
      /\ logged \in {"AWAITING_HUMAN", "FINISHED"} /\ Closing \notin endings
      /\ stopping # "closure" /\ pc \notin {"act", "observe", "park"}
      /\ obs[o].verdict = "done" /\ obs[o].finalized /\ o \in endings
      /\ \A k \in Turn : Fg(k) # o
  BY ClosingIs
<1>3. bubble[o[1]] # "open" /\ logged' = "FINISHED"
  BY <1>1, <1>2 DEF Ordered, CloseShape, Announce
<1>4. r.stage = "completed" /\ r.action = "close" /\ r.verdict = "done" /\ r.finalized
  BY <1>2 DEF TypeOK, Observed, Closes
<1> HIDE DEF r
<1>5. /\ obs'[o] = r /\ work'[o] = "apply"
      /\ \A p \in Obs : p # o => obs'[p] = obs[p] /\ work'[p] = work[p]
  BY <1>1 DEF TypeOK
<1>6. \A p \in Obs : p # o =>
        (Pending(p)' <=> Pending(p)) /\ (Closes(p)' <=> Closes(p)) /\ (Live(p)' <=> Live(p))
  BY <1>5, Same
<1>7. Pending(o)' /\ Pending(o) /\ Closes(o)' /\ Live(o)'
  BY <1>2, <1>4, <1>5 DEF Pending, Closes, Live, Lands
<1>8. \A p \in Obs : (Pending(p)' <=> Pending(p)) /\ (Closes(p)' <=> Closes(p))
                     /\ (Live(p) => Live(p)')
  BY <1>2, <1>6, <1>7
<1>9. \A k \in Turn : /\ obs'[Fg(k)] = obs[Fg(k)] /\ work'[Fg(k)] = work[Fg(k)]
                      /\ Pending(Fg(k))' <=> Pending(Fg(k))
                      /\ Settled(Fg(k))' = Settled(Fg(k))
  BY <1>2, <1>5, <1>8, FgFacts, Same
<1>10. Agreed'
  BY <1>1, <1>2, <1>3 DEF Ordered, Agreed, Over, Terminal
<1>11. Carried'
  <2>1. \A p \in revived : p \in Obs
    BY DEF TypeOK
  <2>2. \A p \in Obs : obs'[p].stage = "requested" => ~obs'[p].settled /\ ~obs'[p].finalized
    BY <1>4, <1>5 DEF Ordered, Carried
  <2> QED
    BY <1>1, <1>2, <1>8, <2>1, <2>2 DEF Ordered, Carried
<1>12. QueueShape' /\ RunShape'
  BY <1>1, <1>2, <1>9 DEF Ordered, QueueShape, RunShape, NoReview, Fg
<1>13. BubbleShape'
  BY <1>1, <1>2 DEF Ordered, BubbleShape, Over, Terminal
<1>14. ReviewShape'
  <2>1. \A k \in Turn : Pending(Fg(k)) =>
          /\ k = turn /\ NoBubble /\ obs[Fg(k)].settled
          /\ Settled(Fg(k)) = "FINISHED" /\ obs[Fg(k)].stage # "requested"
    BY <1>2, FgFacts DEF Ordered, ReviewShape, Carried
  <2> QED
    BY <1>1, <1>2, <1>3, <1>9, <2>1 DEF Ordered, ReviewShape, Over, Terminal, NoBubble, Fg
<1>15. CloseShape'
  BY <1>1, <1>2, <1>3, <1>4, <1>5, <1>8 DEF Ordered, CloseShape
<1>16. Driven'
  BY <1>1, <1>3 DEF Driven
<1> QED
  BY <1>10, <1>11, <1>12, <1>13, <1>14, <1>15, <1>16 DEF Ordered

\* What is recorded of an observation that is carried out: a cancelled task has its closure.
LEMMA AppliedOrders ==
  ASSUME TypeOK, Inductive, Ordered, NEW o \in Obs, Applied(o)
  PROVE  Ordered'
<1> DEFINE r == [obs[o] EXCEPT !.stage = "applied"]
<1>1. /\ work[o] = "apply" /\ work' = [work EXCEPT ![o] = "none"] /\ Live(o)
      /\ obs' = [obs EXCEPT ![o] = r] /\ revived' = revived \ {o}
      /\ IF status = "CANCELED" THEN endings' = endings \cup {Closing} /\ CloseBubbles
         ELSE UNCHANGED <<endings, bubble>>
      /\ UNCHANGED <<logged, status, condemned, stopping, prepared, queued, turn, pc>>
  BY DEF Applied, task, run, owner, Goes, Live
<1>2. /\ r.stage = "applied" /\ r.action = obs[o].action /\ r.verdict = obs[o].verdict
      /\ r.settled = obs[o].settled /\ r.finalized = obs[o].finalized
      /\ obs[o].stage = "completed"
  BY <1>1 DEF TypeOK, Observed, Inductive, PlaceOfStage
<1> HIDE DEF r
<1>3. /\ obs'[o] = r /\ work'[o] = "none"
      /\ \A p \in Obs : p # o => obs'[p] = obs[p] /\ work'[p] = work[p]
  BY <1>1 DEF TypeOK
<1>4. ~Pending(o)' /\ ~Closes(o)' /\ ~prepared /\ Pending(o)
  BY <1>1, <1>2, <1>3 DEF Pending, Closes, Ordered, Carried
<1>5. \A p \in Obs : p # o =>
        (Pending(p)' <=> Pending(p)) /\ (Closes(p)' <=> Closes(p)) /\ (Live(p)' <=> Live(p))
  BY <1>3, Same
<1>6. \A p \in Obs : Pending(p)' => p # o /\ Pending(p) /\ obs'[p] = obs[p] /\ work'[p] = work[p]
                                    /\ Settled(p)' = Settled(p)
  BY <1>3, <1>4, <1>5, Same
<1>7. Closes(o) => status = "FINISHED" /\ logged = "FINISHED"
  BY <1>1, <1>4 DEF Ordered, CloseShape
<1>8. \A k \in Turn : Fg(k) = o => Over \/ queued
  BY <1>1, <1>4 DEF Ordered, ReviewShape
<1>9. /\ NoReview => NoReview'
      /\ \A k \in Turn : bubble'[k] = "open" => bubble[k] = "open"
      /\ NoBubble => NoBubble'
  BY <1>1, <1>6, FgFacts DEF NoReview, NoBubble, CloseBubbles, TypeOK, Pending, Fg
<1>10. NoReview' => NoReview \/ Over \/ queued
  <2> SUFFICES ASSUME NoReview', ~NoReview PROVE Over \/ queued
    OBVIOUS
  <2>1. PICK k \in Turn : Pending(Fg(k))
    BY DEF NoReview
  <2>2. ~Pending(Fg(k))'
    BY DEF NoReview, Fg
  <2> QED
    BY <1>5, <1>8, <2>1, <2>2, FgFacts
<1>11. Agreed'
  <2>1. status = "CANCELED" => logged = "CANCELED"
    BY DEF Ordered, Agreed
  <2>2. \A k \in Turn : Pending(Fg(k))' => Pending(Fg(k)) /\ work'[Fg(k)] = work[Fg(k)]
    BY <1>6, FgFacts
  <2> QED
    BY <1>1, <2>1, <2>2 DEF Ordered, Agreed, Over, Fg, Pending
<1>12. Carried'
  <2>1. \A p \in revived' : p \in revived /\ p # o /\ p \in Obs
    BY <1>1 DEF TypeOK
  <2>2. \A p \in Obs : obs'[p].stage = "requested" => ~obs'[p].settled /\ ~obs'[p].finalized
    BY <1>2, <1>3 DEF Ordered, Carried
  <2> QED
    BY <1>1, <1>4, <1>5, <1>6, <2>1, <2>2 DEF Ordered, Carried
<1>13. QueueShape'
  <2>1. \A k \in Turn : Pending(Fg(k))' => Pending(Fg(k)) /\ work'[Fg(k)] = work[Fg(k)]
    BY <1>6, FgFacts
  <2> QED
    BY <1>1, <1>9, <2>1 DEF Ordered, QueueShape, Pending, Fg
<1>14. RunShape'
  <2>1. pc = "observe" => /\ Pending(Fg(turn))' /\ Fg(turn) \notin revived'
                          /\ work'[Fg(turn)] # "apply"
    <3> SUFFICES ASSUME pc = "observe"
                 PROVE  Pending(Fg(turn))' /\ Fg(turn) \notin revived' /\ work'[Fg(turn)] # "apply"
      OBVIOUS
    <3>1. turn \in Turn /\ Pending(Fg(turn)) /\ Fg(turn) \notin revived /\ work[Fg(turn)] # "apply"
      BY Acting DEF Ordered, RunShape
    <3> PICK t \in Turn : turn = t
      BY <3>1
    <3>2. Fg(t) \in Obs /\ Fg(t) # o
      BY <1>1, <3>1, FgFacts
    <3>3. Pending(Fg(t))'
      BY <1>5, <3>1, <3>2
    <3> QED
      BY <1>1, <1>3, <3>1, <3>2, <3>3 DEF Pending, Fg
  <2>2. status = "ACTIVE" \/ status = "AWAITING_HUMAN" => bubble' = bubble
    BY <1>1
  <2>3. status = "PENDING" => bubble' = bubble
    BY <1>1
  <2> QED
    BY <1>1, <1>9, <2>1, <2>2, <2>3 DEF Ordered, RunShape, Pending, Fg
<1>15. BubbleShape'
  <2>1. \A k \in Turn : bubble'[k] = "closed" => Over
    <3>1. \A k \in Turn : bubble[k] = "closed" => Over
      BY <1>4, NotOver
    <3>2. status = "CANCELED" => Over
      BY DEF Over, Terminal
    <3> QED
      BY <1>1, <3>1, <3>2
  <2> QED
    BY <1>1, <1>9, <2>1 DEF Ordered, BubbleShape, Over
<1>16. ReviewShape'
  <2>1. \A k \in Turn : Pending(Fg(k))' =>
          /\ Pending(Fg(k)) /\ obs'[Fg(k)] = obs[Fg(k)] /\ work'[Fg(k)] = work[Fg(k)]
          /\ Settled(Fg(k))' = Settled(Fg(k)) /\ (Fg(k) \in revived => Fg(k) \in revived')
    BY <1>1, <1>6, FgFacts
  <2> QED
    BY <1>1, <1>9, <2>1 DEF Ordered, ReviewShape, Over, Pending, Settled, Fg
<1>17. CloseShape'
  <2>1. \A k \in Turn : bubble'[k] = "open" => bubble[k] = "open"
    BY <1>9
  <2>2. \A p \in Obs : Closes(p)' => p # o /\ Closes(p) /\ p[1] \in Turn
    BY <1>4, <1>5, ObsFacts
  <2>3. \A p \in endings : p \in endings'
    BY <1>1
  <2> QED
    BY <1>1, <1>2, <1>3, <2>1, <2>2, <2>3 DEF Ordered, CloseShape
<1>18. Driven'
  <2>1. status = "AWAITING_HUMAN" => bubble' = bubble
    BY <1>1
  <2>2. status = "FINISHED" => logged = "FINISHED" \/ \E p \in Obs : Closes(p)'
    <3>1. status = "FINISHED" => logged = "FINISHED" \/ \E p \in Obs : Closes(p)
      BY DEF Ordered, Driven
    <3> QED
      BY <1>5, <1>7, <3>1
  <2>3. queued => status = "PENDING"
    BY DEF Ordered, QueueShape
  <2> QED
    BY <1>1, <1>10, <2>1, <2>2, <2>3 DEF Ordered, Driven, Over, Terminal
<1> QED
  BY <1>11, <1>12, <1>13, <1>14, <1>15, <1>16, <1>17, <1>18 DEF Ordered

\* What is left when the process dies is in the log.
LEMMA CrashOrders ==
  ASSUME TypeOK, Inductive, Ordered, LandShape, Crash
  PROVE  Ordered'
<1>1. /\ ~prepared /\ status' = logged /\ pc' = "off" /\ revived' = {} /\ queued' = FALSE
      /\ prepared' = TRUE /\ stopping' = "none"
      /\ UNCHANGED <<obs, logged, bubble, endings, turn>>
  BY DEF Crash, durable
<1>2. \A p \in Obs : ~Live(p)' /\ work'[p] = "none"
  BY DEF Crash, NoExecution, Live
<1>3. /\ \A p : (Pending(p)' <=> Pending(p)) /\ Settled(p)' = Settled(p)
      /\ \A p \in Obs : Closes(p)' <=> Closes(p) \/ Lands(p)
  <2>1. \A p \in Obs : Lands(p) => obs[p].stage = "completed" /\ obs[p].action = "close"
    BY DEF Lands, LandShape, Inductive, PlaceOfStage
  <2> QED
    BY <1>1, <1>2, <2>1 DEF Pending, Closes, Settled, Lands
<1>4. /\ status # "PENDING" => logged # "PENDING"
      /\ Over => logged \in Terminal \/ \E p \in Obs : Closes(p)
      /\ logged \in Terminal => status = logged
      /\ status = "CANCELED" => logged = "CANCELED"
  <2>1. /\ logged \in Terminal => status = logged
        /\ status \in {"ACTIVE", "AWAITING_HUMAN", "CANCELED"} => logged = status
    BY DEF Ordered, Agreed
  <2>2. status = "FINISHED" => logged = "FINISHED" \/ \E p \in Obs : Closes(p)
    BY DEF Ordered, Driven
  <2>3. \A p \in Obs : Closes(p) => logged # "PENDING"
    BY <1>1, ClosesIs
  <2> QED
    BY <2>1, <2>2, <2>3 DEF Over, Terminal, TypeOK, Status
<1>5. Agreed'
  BY <1>1 DEF Ordered, Agreed
<1>6. Carried'
  BY <1>1, <1>2 DEF Ordered, Carried
<1>7. QueueShape' /\ RunShape'
  BY <1>1 DEF QueueShape, RunShape
<1>8. BubbleShape'
  BY <1>1, <1>3, <1>4 DEF Ordered, BubbleShape, Over
<1>9. ReviewShape'
  <2>1. \A k \in Turn : Fg(k) \in Obs /\ work'[Fg(k)] = "none"
    BY <1>2, FgFacts
  <2> QED
    BY <1>1, <1>3, <1>4, <2>1 DEF Ordered, ReviewShape, NoBubble, Over, Terminal, Fg
<1>10. CloseShape'
  <2>1. \A p \in Obs : Lands(p) => logged = "AWAITING_HUMAN" /\ ~obs[p].settled /\ ~obs[p].finalized
    BY DEF LandShape, Ordered, Agreed
  <2> QED
    BY <1>1, <1>2, <1>3, <2>1 DEF Ordered, CloseShape
<1>11. Driven'
  BY <1>1 DEF Driven
<1> QED
  BY <1>5, <1>6, <1>7, <1>8, <1>9, <1>10, <1>11 DEF Ordered

\* Where a restart finds the task and its reviews.
LEMMA Found ==
  ASSUME TypeOK, Inductive, Ordered, prepared
  PROVE  /\ status = logged /\ pc = "off"
         /\ \A p \in Obs : Pending(p) /\ obs[p].action = "close" <=> Closes(p)
         /\ \A p \in Obs : Closes(p) => status \in {"AWAITING_HUMAN", "FINISHED"}
         /\ \A k \in Turn : Fg(k) \in Again <=> Pending(Fg(k)) /\ obs[Fg(k)].action = "none"
         /\ \A p \in Again : \E k \in Turn : p = Fg(k)
         /\ queued => status = "PENDING" /\ NoBubble /\ NoReview
         /\ \A k \in Turn : Pending(Fg(k)) =>
              /\ k = turn /\ NoBubble /\ status # "AWAITING_HUMAN"
              /\ status = "CANCELED" \/ obs[Fg(k)].stage # "completed"
                   \/ obs[Fg(k)].action = "foreground"
              /\ obs[Fg(k)].stage = "requested" =>
                   /\ obs[Fg(k)].action = "none" /\ ~obs[Fg(k)].settled
                   /\ status \notin {"FINISHED", "PENDING"}
<1>1. status = logged /\ pc = "off" /\ \A p \in Obs : ~Live(p)
  BY DEF Ordered, Agreed, Carried
<1>2. \A p \in Obs : Pending(p) /\ obs[p].action = "close" <=> Closes(p)
  BY <1>1 DEF Inductive, PlaceOfStage, Pending, Closes, Lands, Live
<1>3. \A p \in Obs : Closes(p) => status \in {"AWAITING_HUMAN", "FINISHED"}
  BY <1>1 DEF Ordered, CloseShape
<1>4. /\ \A k \in Turn : Fg(k) \in Again <=> Pending(Fg(k)) /\ obs[Fg(k)].action = "none"
      /\ \A p \in Again : \E k \in Turn : p = Fg(k)
  BY FgFacts DEF Again
<1>5. queued => status = "PENDING" /\ NoBubble /\ NoReview
  BY <1>1, FgFacts DEF Ordered, QueueShape, NoReview, Live
<1>6. ASSUME NEW k \in Turn, Pending(Fg(k))
      PROVE  /\ k = turn /\ NoBubble /\ status # "AWAITING_HUMAN"
             /\ status = "CANCELED" \/ obs[Fg(k)].stage # "completed"
                  \/ obs[Fg(k)].action = "foreground"
             /\ obs[Fg(k)].stage = "requested" =>
                  /\ obs[Fg(k)].action = "none" /\ ~obs[Fg(k)].settled
                  /\ status \notin {"FINISHED", "PENDING"}
  <2>1. obs[Fg(k)].stage = "requested" => obs[Fg(k)].action = "none" /\ ~obs[Fg(k)].settled
    BY FgFacts DEF Inductive, PlaceOfStage, Ordered, Carried
  <2> QED
    BY <1>1, <1>6, <2>1 DEF Ordered, ReviewShape
<1> QED
  BY <1>1, <1>2, <1>3, <1>4, <1>5, <1>6

\* What every restart does to the executions.
LEMMA TakenUp ==
  ASSUME TypeOK, Inductive, Ordered, Activate
  PROVE  /\ prepared /\ ~prepared' /\ stopping = "none" /\ stopping' = "none"
         /\ UNCHANGED <<obs, condemned, turn>>
         /\ \A p : (Pending(p)' <=> Pending(p)) /\ Settled(p)' = Settled(p)
         /\ \A p \in Obs : Closes(p)' <=> Closes(p)
         /\ \A p \in Obs : work'[p] = IF Pending(p) THEN "ready" ELSE "none"
         /\ \A k \in Turn : Pending(Fg(k)) /\ obs[Fg(k)].action # "none" => Fg(k) \in revived'
         /\ \A p \in Again : p \notin revived'
         /\ Carried'
         /\ NoReview' <=> NoReview
<1>1. /\ prepared /\ ~prepared' /\ stopping = "none" /\ stopping' = "none"
      /\ UNCHANGED <<obs, condemned, turn>>
      /\ work' = [o \in Obs |-> IF Pending(o) THEN "ready" ELSE "none"]
      /\ revived' = {o \in Obs : Pending(o)} \ Again
  BY DEF Activate
<1>2. \A p \in Obs : work'[p] = IF Pending(p) THEN "ready" ELSE "none"
  BY <1>1
<1>3. /\ \A p : (Pending(p)' <=> Pending(p)) /\ Settled(p)' = Settled(p)
      /\ \A p \in Obs : Closes(p)' <=> Closes(p)
  BY <1>1, <1>2 DEF Pending, Closes, Settled, Lands, Live, Ordered, Carried
<1>4. Carried'
  BY <1>1, <1>2, <1>3 DEF Ordered, Carried, Live
<1>5. \A k \in Turn : Pending(Fg(k)) /\ obs[Fg(k)].action # "none" => Fg(k) \in revived'
  BY <1>1, FgFacts, Found
<1>6. NoReview' <=> NoReview
  BY <1>3 DEF NoReview, Fg
<1> QED
  BY <1>1, <1>2, <1>3, <1>4, <1>5, <1>6

\* A restart takes an accepted verdict up where it left it.
LEMMA VerdictsTakenUp ==
  ASSUME TypeOK, Inductive, Ordered, Activate,
         \A p \in Obs : Closes(p) => status' = "FINISHED" /\ UNCHANGED <<logged, bubble, endings>>
  PROVE  CloseShape'
<1>1. /\ ~prepared' /\ UNCHANGED obs
      /\ \A p \in Obs : Closes(p)' <=> Closes(p)
      /\ \A p \in Obs : work'[p] \in {"ready", "none"}
  BY TakenUp
<1> QED
  BY <1>1 DEF Ordered, CloseShape

\* The first command after a restart cancels the task.
LEMMA ActivateCancelOrders ==
  ASSUME TypeOK, Inductive, Ordered, Activate,
         Restore = "CANCELED" \/ (Restore # "FINISHED" /\ gone)
  PROVE  Ordered'
<1>1. /\ status' = "CANCELED" /\ logged' = "CANCELED" /\ ~queued' /\ pc' = "off"
      /\ endings' = endings \cup {Closing} /\ CloseBubbles
  BY DEF Activate
<1>2. /\ prepared /\ ~prepared' /\ stopping' = "none" /\ UNCHANGED <<obs, turn>>
      /\ \A p : Pending(p)' <=> Pending(p)
      /\ \A p \in Obs : Closes(p)' <=> Closes(p)
      /\ \A p \in Obs : work'[p] \in {"ready", "none"}
      /\ Carried'
  BY TakenUp
<1>3. \A p \in Obs : ~Closes(p)
  BY <1>2, Found DEF Restore, Terminal
<1>4. NoBubble' /\ \A k \in Turn : bubble'[k] # "open"
  BY <1>1 DEF CloseBubbles, NoBubble
<1>5. Agreed' /\ QueueShape' /\ RunShape' /\ Driven'
  BY <1>1, <1>2 DEF Agreed, QueueShape, RunShape, Driven
<1>6. BubbleShape'
  BY <1>1, <1>4 DEF BubbleShape, Over, Terminal
<1>7. ReviewShape'
  <2>1. \A k \in Turn : work'[Fg(k)] \in {"ready", "none"}
    BY <1>2, FgFacts
  <2> QED
    BY <1>1, <1>2, <1>4, <2>1 DEF Ordered, ReviewShape, Over, Fg
<1>8. CloseShape'
  BY <1>3, VerdictsTakenUp
<1> QED
  BY <1>2, <1>5, <1>6, <1>7, <1>8 DEF Ordered

\* The first command after a restart finds that the task has ended.
LEMMA ActivateFinishedOrders ==
  ASSUME TypeOK, Inductive, Ordered, Activate, Restore = "FINISHED"
  PROVE  Ordered'
<1>1. /\ status' = "FINISHED" /\ UNCHANGED <<logged, bubble, endings>> /\ pc' = "off"
      /\ queued' = (Again = {} /\ queued)
  BY DEF Activate, Terminal
<1>2. /\ prepared /\ ~prepared' /\ stopping' = "none" /\ UNCHANGED <<obs, turn>>
      /\ \A p : (Pending(p)' <=> Pending(p)) /\ Settled(p)' = Settled(p)
      /\ \A p \in Obs : Closes(p)' <=> Closes(p)
      /\ \A p \in Obs : work'[p] \in {"ready", "none"}
      /\ \A k \in Turn : Pending(Fg(k)) /\ obs[Fg(k)].action # "none" => Fg(k) \in revived'
      /\ Carried'
  BY TakenUp
<1>3. status = logged /\ (logged = "FINISHED" \/ \E p \in Obs : Closes(p))
      /\ logged \in {"AWAITING_HUMAN", "FINISHED"} /\ ~queued
  BY <1>2, Found DEF Restore
<1>4. Agreed'
  BY <1>1, <1>2, <1>3 DEF Ordered, Agreed, Terminal
<1>5. QueueShape' /\ RunShape'
  BY <1>1, <1>3 DEF QueueShape, RunShape
<1>6. BubbleShape'
  BY <1>1, <1>2 DEF Ordered, BubbleShape, Over, Terminal
<1>7. ReviewShape'
  <2>1. \A k \in Turn : work'[Fg(k)] \in {"ready", "none"}
    BY <1>2, FgFacts
  <2>2. \A k \in Turn : Pending(Fg(k)) =>
          /\ logged = "FINISHED" /\ obs[Fg(k)].stage = "completed"
          /\ obs[Fg(k)].action = "foreground" /\ Fg(k) \in revived'
    BY <1>2, <1>3, Found DEF Pending
  <2>3. NoBubble' <=> NoBubble
    BY <1>1 DEF NoBubble
  <2> QED
    BY <1>1, <1>2, <1>3, <2>1, <2>2, <2>3 DEF Ordered, ReviewShape, Over, Fg
<1>8. CloseShape'
  BY <1>1, VerdictsTakenUp
<1>9. Driven'
  BY <1>1, <1>2, <1>3 DEF Driven
<1> QED
  BY <1>2, <1>4, <1>5, <1>6, <1>7, <1>8, <1>9 DEF Ordered

\* The first command after a restart goes on with a task that is not over.
LEMMA ActivateOpenOrders ==
  ASSUME TypeOK, Inductive, Ordered, Activate,
         ~(Restore = "CANCELED" \/ (Restore # "FINISHED" /\ gone)), Restore # "FINISHED"
  PROVE  Ordered'
<1> DEFINE open == \E k \in Turn : bubble[k] = "open"
           blocked == open \/ \E o \in Obs : Pending(o) /\ (o[2] = "fg" \/ obs[o].action = "close")
           now == IF Again # {} THEN "ACTIVE"
                  ELSE IF open THEN "AWAITING_HUMAN"
                  ELSE IF blocked THEN status ELSE "PENDING"
<1>1. Restore \notin Terminal
  BY DEF Terminal
<1>2. /\ status' = now /\ UNCHANGED <<bubble, endings>>
      /\ logged' = (IF Again # {} \/ (open /\ now = "AWAITING_HUMAN") THEN now ELSE logged)
      /\ queued' = (Again = {} /\ (queued \/ (~blocked /\ now # "FINISHED")))
      /\ pc' = (IF Again # {} THEN "observe" ELSE "off")
  BY <1>1, Zenon DEF Activate
<1> HIDE DEF open, blocked
<1>3. /\ prepared /\ ~prepared' /\ stopping' = "none" /\ UNCHANGED <<obs, turn>>
      /\ \A p : (Pending(p)' <=> Pending(p)) /\ Settled(p)' = Settled(p)
      /\ \A p \in Obs : Closes(p)' <=> Closes(p)
      /\ \A p \in Obs : work'[p] \in {"ready", "none"}
      /\ \A k \in Turn : Pending(Fg(k)) /\ obs[Fg(k)].action # "none" => Fg(k) \in revived'
      /\ \A p \in Again : p \notin revived'
      /\ Carried'
      /\ NoReview' <=> NoReview
  BY TakenUp
<1>4. status = logged /\ status \in {"PENDING", "ACTIVE", "AWAITING_HUMAN"}
      /\ \A p \in Obs : ~Closes(p)
  BY <1>1, <1>3, Found DEF Restore, Terminal, TypeOK, Status
<1>5. /\ open <=> ~NoBubble
      /\ blocked <=> ~NoBubble \/ ~NoReview
  <2>1. open <=> ~NoBubble
    BY DEF open, NoBubble
  <2>2. (\E o \in Obs : Pending(o) /\ (o[2] = "fg" \/ obs[o].action = "close")) <=> ~NoReview
    BY <1>3, <1>4, Found, FgFacts DEF NoReview
  <2> QED
    BY <2>1, <2>2 DEF blocked
<1>6. /\ NoReview => Again = {}
      /\ ~NoReview => NoBubble /\ status # "AWAITING_HUMAN" /\ ~queued
      /\ Again # {} => Fg(turn) \in Again /\ Pending(Fg(turn))
  BY <1>3, Found DEF NoReview
<1> HIDE DEF now
<1>7. /\ \A k \in Turn : bubble'[k] # "closed"
      /\ \A k \in Turn : bubble'[k] = "open" => k = turn /\ turn > 0
      /\ NoBubble' <=> NoBubble
  <2>1. \A k \in Turn : bubble[k] # "closed"
    BY <1>4 DEF Ordered, BubbleShape, Over, Terminal
  <2>2. \A k \in Turn : bubble[k] = "open" => k = turn /\ turn > 0
    BY ObservationAssumption DEF Ordered, BubbleShape, Turn
  <2> QED
    BY <1>2, <2>1, <2>2 DEF NoBubble
<1>8. CASE Again # {}
  <2>1. /\ status' = "ACTIVE" /\ logged' = "ACTIVE" /\ ~queued' /\ pc' = "observe"
        /\ NoBubble /\ Fg(turn) \in Again /\ Pending(Fg(turn))
    BY <1>2, <1>6, <1>8 DEF now
  <2> PICK t \in Turn : turn = t /\ Fg(t) \in Again /\ Pending(Fg(t))
    BY <1>3, <2>1, Found
  <2>2. /\ obs[Fg(t)].stage = "requested" /\ obs[Fg(t)].action = "none" /\ ~obs[Fg(t)].settled
        /\ work'[Fg(t)] \in {"ready", "none"} /\ Fg(t) \notin revived'
    BY <1>3, <1>4, Found, FgFacts DEF Pending
  <2>3. \A k \in Turn : Pending(Fg(k)) => k = t
    BY <1>3, Found
  <2>4. Agreed'
    BY <1>2, <1>3, <1>4, <2>1 DEF Ordered, Agreed, Terminal
  <2>5. QueueShape'
    BY <2>1 DEF QueueShape
  <2>6. RunShape'
    BY <1>3, <2>1, <2>2 DEF RunShape, Pending, Fg
  <2>7. BubbleShape'
    BY <1>7, <2>1 DEF BubbleShape, NoBubble
  <2>8. ReviewShape'
    BY <1>3, <1>7, <2>1, <2>2, <2>3 DEF ReviewShape, Over, Fg
  <2>9. Driven'
    BY <2>1 DEF Driven
  <2> QED
    BY <1>3, <1>4, <2>4, <2>5, <2>6, <2>7, <2>8, <2>9, VerdictsTakenUp DEF Ordered
<1>9. CASE Again = {}
  <2>1. /\ status' = (IF ~NoBubble THEN "AWAITING_HUMAN" ELSE IF ~NoReview THEN status
                      ELSE "PENDING")
        /\ logged' = (IF ~NoBubble THEN "AWAITING_HUMAN" ELSE logged)
        /\ queued' <=> NoBubble /\ NoReview
        /\ pc' = "off"
    <3>1. open <=> ~NoBubble
      BY <1>5
    <3>2. NoBubble => (blocked <=> ~NoReview)
      BY <1>5
    <3>3. queued => NoBubble /\ NoReview
      BY <1>3, Found
    <3>4. queued' <=> queued \/ (~blocked /\ now # "FINISHED")
      BY <1>2, <1>9
    <3>5. now = (IF ~NoBubble THEN "AWAITING_HUMAN" ELSE IF ~NoReview THEN status
                 ELSE "PENDING")
      BY <1>9, <3>1, <3>2 DEF now
    <3>6. blocked <=> ~NoBubble \/ ~NoReview
      BY <1>5
    <3>7. queued' <=> NoBubble /\ NoReview
      BY <3>3, <3>4, <3>5, <3>6
    <3> QED
      BY <1>2, <1>9, <3>1, <3>5, <3>7
  <2>2. \A k \in Turn : Pending(Fg(k)) =>
          /\ NoBubble /\ k = turn /\ status # "AWAITING_HUMAN" /\ Fg(k) \in revived'
          /\ obs[Fg(k)].stage = "completed" /\ work'[Fg(k)] \in {"ready", "none"}
    BY <1>3, <1>4, <1>9, Found, FgFacts DEF Pending
  <2>3. Agreed'
    BY <1>2, <1>3, <1>4, <1>6, <2>1 DEF Ordered, Agreed, Terminal
  <2>4. QueueShape'
    BY <1>3, <1>4, <1>6, <1>7, <2>1 DEF QueueShape, NoReview, Fg
  <2>5. RunShape'
    BY <2>1 DEF RunShape
  <2>6. BubbleShape'
    BY <1>3, <1>7, <2>1 DEF BubbleShape, NoBubble
  <2>7. ReviewShape'
    <3>1. \A k \in Turn : Pending(Fg(k)) => status' = status /\ logged' = status
      BY <1>4, <2>1, <2>2 DEF NoReview
    <3> QED
      BY <1>3, <1>4, <1>7, <2>1, <2>2, <3>1 DEF Ordered, ReviewShape, Over, Terminal, Fg
  <2>8. Driven'
    <3>1. ~NoBubble => turn' > 0 /\ bubble'[turn'] = "open"
      BY <1>2, <1>3, <1>7 DEF NoBubble
    <3> QED
      BY <1>3, <1>4, <1>6, <2>1, <3>1 DEF Driven
  <2> QED
    BY <1>3, <1>4, <2>3, <2>4, <2>5, <2>6, <2>7, <2>8, VerdictsTakenUp DEF Ordered
<1> QED
  BY <1>8, <1>9

\* Nothing has happened yet: the task is in the queue.
LEMMA InitOrdered == Init => Ordered /\ LandShape
<1> SUFFICES ASSUME Init PROVE Ordered /\ LandShape
  OBVIOUS
<1>1. /\ Blank.stage = "none" /\ Blank.action = "none" /\ ~Blank.settled /\ ~Blank.finalized
  BY DEF Blank
<1>2. /\ \A p \in Obs : obs[p] = Blank /\ work[p] = "none"
      /\ \A k \in Turn : bubble[k] = "none"
      /\ logged = "PENDING" /\ status = "PENDING" /\ queued /\ ~prepared /\ pc = "off"
      /\ stopping = "none" /\ endings = {} /\ revived = {}
  BY DEF Init, NoExecution
<1>3. \A p \in Obs : ~Pending(p) /\ ~Closes(p)
  BY <1>1, <1>2 DEF Pending, Closes
<1>4. NoBubble /\ NoReview
  BY <1>2, <1>3, FgFacts DEF NoBubble, NoReview
<1>5. Agreed /\ Carried
  BY <1>1, <1>2, <1>3 DEF Agreed, Carried, Terminal
<1>6. QueueShape /\ RunShape /\ Driven
  BY <1>2, <1>3, <1>4, FgFacts DEF QueueShape, RunShape, Driven
<1>7. BubbleShape /\ ReviewShape /\ CloseShape /\ LandShape
  BY <1>1, <1>2, <1>3, <1>4 DEF BubbleShape, ReviewShape, CloseShape, LandShape, Lands, NoReview
<1> QED
  BY <1>5, <1>6, <1>7 DEF Ordered

\* A step that leaves everything as it is.
LEMMA StutterOrders ==
  ASSUME Ordered, UNCHANGED vars
  PROVE  Ordered'
<1>1. UNCHANGED <<obs, work, revived, endings, bubble, condemned, prepared, turn, pc, status,
                  logged,
                  queued, stopping>>
  BY DEF vars, durable, task, run, observers, owner
<1>2. \A o : (Pending(o)' <=> Pending(o)) /\ (Closes(o)' <=> Closes(o)) /\ (Live(o)' <=> Live(o))
             /\ Settled(o)' = Settled(o)
  BY <1>1, Still
<1>3. Agreed' /\ Carried'
  BY <1>1, <1>2 DEF Ordered, Agreed, Carried, Over, Fg
<1>4. QueueShape' /\ RunShape' /\ BubbleShape' /\ Driven'
  BY <1>1, <1>2
     DEF Ordered, QueueShape, RunShape, BubbleShape, Driven, NoBubble, NoReview, Over, Fg
<1>5. ReviewShape'
  BY <1>1, <1>2 DEF Ordered, ReviewShape, NoBubble, Over, Fg
<1>6. CloseShape'
  BY <1>1, <1>2 DEF Ordered, CloseShape
<1> QED
  BY <1>3, <1>4, <1>5, <1>6 DEF Ordered

\* Every step of an observation keeps the order.
LEMMA ObserverOrders ==
  ASSUME TypeOK, Inductive, Ordered, LandShape, NEW o \in Obs, Observer(o)
  PROVE  Ordered'
<1>1. CASE Foreground(o)
  <2>1. o[2] = "fg"
    BY <1>1 DEF Foreground, ResumeReview, Judged, FoldRetry, FinalizeStep, Dispose
  <2> PICK k \in Turn : o = Fg(k)
    BY <2>1, FgFacts
  <2> QED
    BY <1>1, ResumeReviewOrders, JudgedOrders, ReviewFoldsOrders, DisposeOrders DEF Foreground
<1>2. CASE Background(o)
  <2>1. CASE Recap(o)
    <3>1. /\ o[2] = "bg" /\ work[o] = "judge" /\ Goes(o, "fold")
          /\ UNCHANGED <<logged, status, condemned, stopping, bubble, prepared, queued, turn, pc,
                         revived, endings>>
      BY <2>1 DEF Recap, task, run, owner
    <3>2. PICK action \in {"recap", "keep_raw"} :
            obs' = [obs EXCEPT ![o] = Completed(o, action, "none", FALSE)]
      BY <2>1 DEF Recap
    <3> QED
      BY <3>1, <3>2, DecidedOrders
  <2> QED
    BY <1>2, <2>1, BeginOrders, VerdictOrders, LandOrders, ObserverFoldsOrders, CloseParkOrders,
       AnnounceOrders DEF Background
<1>3. CASE Applied(o)
  BY <1>3, AppliedOrders
<1> QED
  BY <1>1, <1>2, <1>3 DEF Observer

\* From its check to its landing a verdict is alone with the status.
LEMMA LandKeeps ==
  ASSUME TypeOK, Inductive, Ordered, LandShape, [Next]_vars, ~Between
  PROVE  LandShape'
<1>1. ASSUME NEW o \in Obs, Lands(o)
      PROVE  /\ status = "AWAITING_HUMAN" /\ obs[o].stage = "completed" /\ obs[o].action = "close"
             /\ ~obs[o].settled /\ ~obs[o].finalized /\ Landing /\ ~prepared
             /\ \A p \in Obs : Lands(p) => p = o
  BY <1>1 DEF LandShape, Lands, Landing, Inductive, PlaceOfStage, Ordered, Carried, Live
<1>2. ASSUME UNCHANGED <<obs, work>>, UNCHANGED status \/ ~Landing
      PROVE  LandShape'
  BY <1>1, <1>2 DEF LandShape, Lands
<1>3. ASSUME NEW o \in Obs, Observer(o) PROVE LandShape'
  <2>1. work \in [Obs -> Place] /\ obs \in [Obs -> Observed]
    BY DEF TypeOK
  <2>2. ASSUME work'[o] # "land", \A p \in Obs : p # o => obs'[p] = obs[p] /\ work'[p] = work[p],
               UNCHANGED status \/ ~Landing \/ Lands(o)
        PROVE  LandShape'
    BY <1>1, <2>2 DEF LandShape, Lands
  <2>3. CASE Foreground(o) \/ Applied(o)
    <3>1. \A p \in Obs : p # o => obs'[p] = obs[p] /\ work'[p] = work[p]
      BY <2>1, <2>3 DEF Foreground, ResumeReview, Judged, FoldRetry, FinalizeStep, Finalize, Dispose,
                        Applied, Goes
    <3>2. work'[o] # "land"
      BY <2>1, <2>3 DEF Foreground, ResumeReview, Judged, FoldRetry, FinalizeStep, Dispose,
                        Applied, Goes
    <3>3. UNCHANGED status \/ ~Landing
      BY <2>3 DEF Foreground, ResumeReview, Judged, FoldRetry, FinalizeStep, Dispose, Applied, task
    <3> QED
      BY <2>2, <3>1, <3>2, <3>3
  <2>4. CASE Begin(o) \/ Recap(o) \/ FoldSegment(o) \/ FinalizeOutOfBand(o) \/ ClosePark(o)
             \/ Announce(o) \/ Land(o)
    <3>1. \A p \in Obs : p # o => obs'[p] = obs[p] /\ work'[p] = work[p]
      BY <2>1, <2>4 DEF Begin, Recap, FoldSegment, FinalizeOutOfBand, Finalize, ClosePark, Announce,
                        Land, Goes
    <3>2. work'[o] # "land"
      BY <2>1, <2>4 DEF Begin, Recap, FoldSegment, FinalizeOutOfBand, ClosePark, Announce, Land, Goes
    <3>3. UNCHANGED status \/ ~Landing \/ Lands(o)
      <4>1. ASSUME Announce(o) \/ Begin(o) PROVE UNCHANGED status \/ ~Landing
        <5>1. UNCHANGED status \/ status = "FINISHED"
          BY <4>1, ClosingIs, BeginsAs DEF Announce
        <5> QED
          BY <1>1, <5>1 DEF Landing, Lands
      <4> QED
        BY <2>4, <4>1 DEF Recap, FoldSegment, FinalizeOutOfBand, ClosePark, Land, Lands, task
    <3> QED
      BY <2>2, <3>1, <3>2, <3>3
  <2>5. CASE Verdict(o)
    <3>1. ~Landing /\ UNCHANGED status /\ obs[o].stage = "requested"
          /\ ~obs[o].settled /\ ~obs[o].finalized /\ obs[o] \in Observed
      BY <2>1, <2>5 DEF Verdict, task, Inductive, PlaceOfStage, Ordered, Carried
    <3>2. \A p \in Obs : p # o => work'[p] # "land"
      BY <2>1, <2>5, <3>1 DEF Verdict, Goes, Landing
    <3>3. work'[o] = "land" => /\ status = "AWAITING_HUMAN" /\ obs'[o].action = "close"
                               /\ ~obs'[o].settled /\ ~obs'[o].finalized
      <4> PICK verdict \in Verdicts, reported \in BOOLEAN :
            \/ /\ Accepts /\ Goes(o, "land")
               /\ obs' = [obs EXCEPT ![o] = Completed(o, "close", "done", reported)]
            \/ Goes(o, "fold")
        BY <2>5 DEF Verdict
      <4>1. /\ Completed(o, "close", "done", reported).action = "close"
            /\ ~Completed(o, "close", "done", reported).settled
            /\ ~Completed(o, "close", "done", reported).finalized
        BY <3>1 DEF Completed, Observed
      <4> QED
        BY <2>1, <4>1 DEF Goes, Accepts
    <3> QED
      BY <3>1, <3>2, <3>3 DEF LandShape, Lands
  <2> QED
    BY <1>3, <2>3, <2>4, <2>5 DEF Observer, Background
<1>4. CASE RunOnly
  <2>1. CASE AwaitHuman \/ SettlePark
    BY <1>2, <2>1 DEF AwaitHuman, SettlePark, observers
  <2>2. CASE CancelRun
    <3>1. \A p \in Obs : work'[p] = "land" => work[p] = "land"
      BY <2>2 DEF CancelRun, TypeOK
    <3>2. ~Landing
      BY <2>2 DEF CancelRun
    <3> QED
      BY <3>1, <3>2 DEF LandShape, Lands, Landing
  <2> QED
    BY <1>4, <2>1, <2>2 DEF RunOnly
<1>5. CASE Choices
  <2>1. CASE Dispatch
    BY <1>2, <2>1 DEF Dispatch, observers
  <2>2. CASE ParkAwaitUser \/ ParkForInterrupt \/ RequestForeground \/ InterruptReview
    <3>1. pc \in {"act", "observe"}
      BY <2>2 DEF ParkAwaitUser, ParkForInterrupt, Park, RequestForeground, InterruptReview
    <3>2. ~Landing
      BY <1>1, <3>1, Acting DEF Landing, Lands
    <3>3. \A p \in Obs : work'[p] = "land" => work[p] = "land"
      BY <2>2 DEF ParkAwaitUser, ParkForInterrupt, Park, RequestForeground, InterruptReview, TypeOK
    <3> QED
      BY <3>2, <3>3 DEF LandShape, Lands, Landing
  <2> QED
    BY <1>5, <2>1, <2>2 DEF Choices
<1>6. CASE Commands
  <2>1. CASE Activate
    <3>1. \A p \in Obs : work'[p] # "land"
      BY <2>1 DEF Activate
    <3> QED
      BY <3>1 DEF LandShape, Lands
  <2>2. CASE (\E k \in Turn : Reply(k)) \/ Cancel \/ CommitCancel \/ Closure
    BY <1>2, <2>2 DEF Reply, Cancel, CommitCancel, Closure, observers, task
  <2> QED
    BY <1>6, <2>1, <2>2 DEF Commands
<1>7. CASE Crash
  <2>1. \A p \in Obs : work'[p] # "land"
    BY <1>7 DEF Crash, NoExecution
  <2> QED
    BY <2>1 DEF LandShape, Lands
<1>8. CASE UNCHANGED vars
  BY <1>2, <1>8 DEF vars, durable, observers, task
<1> QED
  BY <1>3, <1>4, <1>5, <1>6, <1>7, <1>8 DEF Next

\* Every step keeps the order, when a turn waits for the review before, a command
\* for the decisions a restart has found, and an answer for a verdict that lands.
LEMMA NextOrders ==
  ASSUME TypeOK, Inductive, Ordered, LandShape, [Next]_vars, ~Early, ~Late
  PROVE  Ordered'
<1>1. CASE \E o \in Obs : Observer(o)
  BY <1>1, ObserverOrders
<1>2. CASE RunOnly
  BY <1>2, AwaitHumanOrders, SettleParkOrders, CancelRunOrders DEF RunOnly
<1>3. CASE Choices
  <2>1. CASE ParkAwaitUser \/ ParkForInterrupt
    BY <2>1, ParkOrders DEF ParkAwaitUser, ParkForInterrupt
  <2> QED
    BY <1>3, <2>1, DispatchOrders, RequestForegroundOrders, InterruptReviewOrders DEF Choices
<1>4. CASE Commands
  <2>1. CASE Activate
    BY <2>1, ActivateCancelOrders, ActivateFinishedOrders, ActivateOpenOrders
  <2> QED
    BY <1>4, <2>1, ReplyOrders, CancelOrders, CommitCancelOrders, ClosureOrders DEF Commands
<1>5. CASE Crash
  BY <1>5, CrashOrders
<1>6. CASE UNCHANGED vars
  BY <1>6, StutterOrders
<1> QED
  BY <1>1, <1>2, <1>3, <1>4, <1>5, <1>6 DEF Next

\* Whatever is not over has somebody who goes on with it, and what is over is
\* carried out in order, in every reachable state: each action of the model
\* keeps this.  A turn waits for the review before it, a command for what a
\* restart has found, and an answer for a verdict that lands: the code waits for
\* none of these (a trace without each hypothesis breaks EndsWhole).
THEOREM OrderedInvariant ==
  ASSUME ~Early, ~Late, ~Between
  PROVE  Spec => [](TypeOK /\ Inductive /\ Ordered /\ LandShape)
<1>1. Init => TypeOK /\ Inductive /\ Ordered /\ LandShape
  BY InitHolds, InitOrdered
<1>2. TypeOK /\ Inductive /\ Ordered /\ LandShape /\ [Next]_vars
        => (TypeOK /\ Inductive /\ Ordered /\ LandShape)'
  BY NextKeeps, NextOrders, LandKeeps
<1> QED
  BY <1>1, <1>2, PTL DEF Spec

\* When nothing is under way the task is over, or it waits for an answer that
\* can still be given: under the same hypotheses.
THEOREM RestsAtRest ==
  ASSUME ~Early, ~Late, ~Between
  PROVE  Spec => []AtRest
<1>1. ASSUME TypeOK, Ordered PROVE AtRest
  <2> SUFFICES ASSUME pc = "off", ~queued, ~prepared, stopping = "none", \A o \in Obs : ~Live(o)
               PROVE  \/ status \in Terminal /\ logged = status
                      \/ status = "AWAITING_HUMAN" /\ logged = status /\ bubble[turn] = "open"
    BY DEF AtRest
  <2>1. \A o \in Obs : ~Pending(o)
    BY <1>1 DEF Ordered, Carried
  <2>2. NoReview /\ \A o \in Obs : ~Closes(o)
    BY <2>1, FgFacts DEF NoReview, Pending, Closes
  <2>3. status \in {"AWAITING_HUMAN", "FINISHED", "CANCELED"}
    BY <1>1, <2>2 DEF Ordered, Driven, TypeOK, Status
  <2>4. status = "FINISHED" => logged = "FINISHED"
    BY <1>1, <2>2 DEF Ordered, Driven
  <2>5. status \in {"AWAITING_HUMAN", "CANCELED"} => logged = status
    BY <1>1 DEF Ordered, Agreed
  <2>6. status = "AWAITING_HUMAN" => bubble[turn] = "open"
    BY <1>1 DEF Ordered, Driven
  <2> QED
    BY <2>3, <2>4, <2>5, <2>6 DEF Terminal
<1> QED
  BY <1>1, OrderedInvariant, PTL

\* Of what has decided, only its own last step says that it is applied.
LEMMA OnlyApplied ==
  ASSUME TypeOK, Inductive, Next, NEW o \in Obs,
         obs[o].stage = "completed", obs'[o].stage = "applied"
  PROVE  Applied(o)
<1>1. obs \in [Obs -> Observed] /\ obs[o] \in Observed
  BY DEF TypeOK
<1>2. \A p \in Obs : \A r : obs' = [obs EXCEPT ![p] = r] => p = o /\ r.stage = "applied"
  BY <1>1
<1>3. obs' # obs
  OBVIOUS
<1>4. ASSUME NEW p \in Obs, Observer(p) PROVE Applied(o)
  <2>1. obs[p] \in Observed /\ \A action \in Action, reported \in BOOLEAN :
          \A verdict \in {"none", "done", "continue"} :
            Completed(p, action, verdict, reported).stage = "completed"
    BY <1>1, CompletedIs
  <2>2. /\ [obs[p] EXCEPT !.finalized = TRUE].stage = obs[p].stage
        /\ [obs[p] EXCEPT !.settled = TRUE].stage = obs[p].stage
    BY <2>1 DEF Observed
  <2> DEFINE dropped == IF obs[p].stage = "completed" THEN obs[p]
                        ELSE Completed(p, "keep_raw", "none", FALSE)
  <2>3. dropped.stage = "completed"
    BY <2>1 DEF Action
  <2>4. obs' # [obs EXCEPT ![p] = dropped]
    BY <1>2, <2>3
  <2>5. \A action \in Action, reported \in BOOLEAN :
          \A verdict \in {"none", "done", "continue"} :
            obs' # [obs EXCEPT ![p] = Completed(p, action, verdict, reported)]
    BY <1>2, <2>1
  <2>6. /\ obs' # [obs EXCEPT ![p].finalized = TRUE]
        /\ obs' # [obs EXCEPT ![p].settled = TRUE]
    BY <1>1, <1>2, <2>2
  <2>7. ~Foreground(p)
    <3>1. ~ResumeReview(p)
      BY <1>3, <2>4 DEF ResumeReview
    <3>2. ~Judged(p)
      BY <2>5 DEF Judged, Verdicts, Action
    <3>3. ~FoldRetry(p) /\ ~FinalizeStep(p) /\ ~Dispose(p)
      BY <1>3, <2>6 DEF FoldRetry, FinalizeStep, Finalize, Dispose
    <3> QED
      BY <3>1, <3>2, <3>3 DEF Foreground
  <2>8. ~Background(p)
    <3>1. ~Begin(p)
      BY <1>3, <2>4 DEF Begin
    <3>2. ~Recap(p) /\ ~Verdict(p) /\ ~Land(p)
      BY <1>3, <2>5 DEF Recap, Verdict, Land, Verdicts, Action
    <3>3. ~FoldSegment(p) /\ ~FinalizeOutOfBand(p) /\ ~ClosePark(p) /\ ~Announce(p)
      BY <1>3, <2>6 DEF FoldSegment, FinalizeOutOfBand, Finalize, ClosePark, Announce
    <3> QED
      BY <3>1, <3>2, <3>3 DEF Background
  <2>9. Applied(p)
    BY <1>4, <2>7, <2>8 DEF Observer
  <2>10. p = o
    BY <1>2, <2>9 DEF Applied
  <2> QED
    BY <2>9, <2>10
<1>5. ~RunOnly
  <2>1. ~CancelRun
    <3> SUFFICES ASSUME CancelRun PROVE FALSE
      OBVIOUS
    <3>1. /\ pc = "observe" /\ work[<<turn, "fg">>] = "judge"
          /\ \A p : p # <<turn, "fg">> => (obs'[p] = obs[p] \/ p \notin Obs)
      BY <1>1, <1>3 DEF CancelRun
    <3>2. <<turn, "fg">> \in Obs
      BY <3>1, OfTurn DEF Inductive
    <3> QED
      BY <3>1, <3>2 DEF Inductive, PlaceOfStage
  <2> QED
    BY <1>3, <2>1 DEF RunOnly, AwaitHuman, SettlePark
<1>6. ~Choices
  <2> SUFFICES ASSUME Choices PROVE FALSE
    OBVIOUS
  <2>1. /\ pc \in {"act", "observe"} /\ <<turn, "fg">> \in Obs /\ <<turn, "bg">> \in Obs
        /\ pc = "act" => Untouched(turn)
    <3>1. pc \in {"act", "observe"}
      BY <1>3 DEF Choices, Dispatch, ParkAwaitUser, ParkForInterrupt, Park, RequestForeground,
                  InterruptReview
    <3> QED
      BY <3>1, OfTurn DEF Inductive
  <2>2. CASE ParkAwaitUser \/ ParkForInterrupt \/ RequestForeground
    <3>1. pc = "act" /\ o \notin {<<turn, "fg">>, <<turn, "bg">>}
      BY <2>1, <2>2 DEF ParkAwaitUser, ParkForInterrupt, Park, RequestForeground, Untouched, New
    <3> QED
      BY <1>1, <2>2, <3>1 DEF ParkAwaitUser, ParkForInterrupt, Park, RequestForeground
  <2>3. CASE InterruptReview
    <3>1. work[<<turn, "fg">>] = "judge"
      BY <2>3 DEF InterruptReview
    <3>2. obs[<<turn, "fg">>].stage = "requested" /\ New(<<turn, "bg">>)
      BY <2>1, <3>1, OfTurn, <2>3 DEF Inductive, PlaceOfStage, TurnOfStage, InterruptReview
    <3>3. o # <<turn, "fg">> /\ o # <<turn, "bg">>
      BY <3>2 DEF New
    <3> QED
      BY <1>1, <2>3, <3>3 DEF InterruptReview
  <2> QED
    BY <1>3, <2>2, <2>3 DEF Choices, Dispatch
<1>7. ~Commands /\ ~Crash
  BY <1>3 DEF Commands, Reply, Cancel, CommitCancel, Closure, Activate, Crash, durable
<1> QED
  BY <1>4, <1>5, <1>6, <1>7 DEF Next

\* What is recorded as applied is all done.
LEMMA AppliedIsWhole ==
  ASSUME TypeOK, Inductive, Ordered, NEW o \in Obs, Applied(o)
  PROVE  Whole(o)
<1>1. /\ work[o] = "apply" /\ Live(o) /\ UNCHANGED logged
      /\ IF status = "CANCELED" THEN endings' = endings \cup {Closing} /\ CloseBubbles
         ELSE UNCHANGED <<endings, bubble>>
  BY DEF Applied, Live
<1>2. ~prepared /\ obs[o].stage = "completed"
  BY <1>1 DEF Ordered, Carried, Inductive, PlaceOfStage
<1>3. ASSUME obs[o].action = "close"
      PROVE  /\ logged' = "FINISHED" /\ o \in endings' /\ Closing \notin endings'
             /\ obs[o].finalized /\ bubble'[o[1]] # "open"
  <2>1. Closes(o) /\ status = "FINISHED"
    BY <1>1, <1>2, <1>3, ClosesIs DEF Closes, Lands
  <2>2. logged = "FINISHED" /\ obs[o].finalized /\ o \in endings /\ bubble[o[1]] # "open"
    BY <1>1, <2>1 DEF Ordered, CloseShape
  <2> QED
    BY <1>1, <2>1, <2>2 DEF Ordered, Agreed
<1>4. logged = "CANCELED" => status = "CANCELED"
  BY DEF Ordered, Agreed, Terminal
<1>5. CloseBubbles => \A k \in Turn : bubble'[k] # "open"
  BY DEF CloseBubbles
<1> QED
  BY <1>1, <1>3, <1>4, <1>5 DEF Whole

\* What has ended stays so.
LEMMA EndStays ==
  ASSUME TypeOK, Inductive, Ordered, Next, logged \in Terminal
  PROVE  logged' = logged
<1>1. status = logged /\ Over
  BY DEF Ordered, Agreed, Over
<1>2. ASSUME NEW o \in Obs, Observer(o) PROVE logged' = logged
  <2>1. ASSUME Dispose(o) PROVE logged' = logged
    <3>1. o[2] = "fg" /\ Live(o) /\ (obs[o].settled => logged' = logged) /\ work[o] = "settle"
      BY <2>1 DEF Dispose, Live
    <3> PICK k \in Turn : o = Fg(k)
      BY <3>1, FgFacts
    <3>2. status # "CANCELED" /\ Pending(o)
      BY <3>1, ReviewIs
    <3>3. status = "FINISHED" => obs[o].settled
      BY <3>2 DEF Ordered, ReviewShape
    <3> QED
      BY <1>1, <3>1, <3>2, <3>3 DEF Terminal
  <2>2. ASSUME Announce(o) PROVE logged' = logged
    <3>1. logged \in {"AWAITING_HUMAN", "FINISHED"} /\ logged' \in {logged, "FINISHED"}
      BY <2>2, ClosingIs DEF Announce
    <3> QED
      BY <3>1 DEF Terminal
  <2> QED
    BY <1>2, <2>1, <2>2
       DEF Observer, Foreground, Background, ResumeReview, Judged, FoldRetry, FinalizeStep, Begin,
           Recap, Verdict, Land, FoldSegment, FinalizeOutOfBand, ClosePark, Applied
<1>3. ~CancelRun
  <2>1. pc \in {"act", "observe"} => logged = "ACTIVE"
    BY Acting
  <2> QED
    BY <2>1 DEF CancelRun, Terminal
<1>4. RunOnly => logged' = logged
  BY <1>1, <1>3 DEF RunOnly, AwaitHuman, SettlePark, Wake, Over
<1>5. Choices => logged' = logged
  <2>1. ~Dispatch
    BY <1>1 DEF Dispatch, Ordered, QueueShape, Over, Terminal
  <2> QED
    BY <2>1 DEF Choices, ParkAwaitUser, ParkForInterrupt, Park, RequestForeground, InterruptReview
<1>6. Commands => logged' = logged
  <2>1. ASSUME Activate PROVE logged' = logged
    <3>1. Restore = status /\ (status = "CANCELED" \/ status = "FINISHED")
      BY <1>1 DEF Restore, Over, Terminal
    <3> QED
      BY <1>1, <2>1, <3>1 DEF Activate, Terminal
  <2> QED
    BY <1>1, <2>1 DEF Commands, Reply, Cancel, CommitCancel, Closure, Over
<1>7. Crash => logged' = logged
  BY DEF Crash, durable
<1> QED
  BY <1>2, <1>4, <1>5, <1>6, <1>7 DEF Next

\* ObserveApplied means that all is done, an accepted verdict wins, and what has
\* ended stays so, unless a command meets decisions a restart has not carried out
\* yet (Early), a turn begins before the review is marked applied (Late), or an
\* answer comes between the check of a verdict and its landing (Between).
THEOREM EndsStayWhole ==
  ASSUME ~Early, ~Late, ~Between
  PROVE  Spec => EndsWhole
<1> DEFINE Ending == /\ \A o \in Obs : obs[o].stage = "completed" /\ obs'[o].stage = "applied"
                                         => Whole(o)
                     /\ logged \in Terminal => logged' = logged
<1>1. ASSUME TypeOK, Inductive, Ordered, [Next]_vars PROVE [Ending]_vars
  BY <1>1, OnlyApplied, AppliedIsWhole, EndStays
<1>2. EndsWhole <=> [][Ending]_vars
  BY PTL DEF EndsWhole
<1> HIDE DEF Ending
<1>3. TypeOK /\ Inductive /\ Ordered /\ [Next]_vars => [Ending]_vars
  BY <1>1
<1> QED
  BY <1>2, <1>3, OrderedInvariant, PTL DEF Spec
=============================================================================
