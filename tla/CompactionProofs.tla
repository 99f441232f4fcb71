--------------------------- MODULE CompactionProofs ---------------------------
(* That compaction loses nothing, for any tree of tasks, any history and any    *)
(* number of turns, compactions and crashes, where no crash comes between the   *)
(* write of a report and its mark.                                              *)
(*                                                                              *)
(* Every step folds: it supersedes ids and writes records under ids nobody has  *)
(* seen (FoldIn), so a step is judged by what it removes.  A digest tells what  *)
(* it removes (TextsAgree, Numbered, FoldTells), a capsule's closing slot tells *)
(* of the whole tree it stands for (Shaped), and turns are shed only when they  *)
(* are told elsewhere (Observed).                                               *)
(*                                                                              *)
(* And that what it leaves of a closed task stays accounted for (Accounts, over *)
(* Remembers): a digest names what an observer left behind while it was written *)
(* (Pending, Residue), and nobody writes a slot of a task whose capsule was     *)
(* reduced, because its parent waits for whoever is not closed yet (Closed).    *)
EXTENDS Compaction, FiniteSetTheorems, TLAPS

(* ------------------------------ the invariant ------------------------------- *)

\* What a record of each kind may be: its text tells of its task and of what that
\* delegated, a slot that closes a task all of that or nothing yet.
Shaped(r) ==
  /\ r.kind \in {"raw", "segment", "collapsed", "start", "result", "recap", "finish", "lean",
       "digest"}
  /\ r.id[1] = "raw" => r.kind = "raw"
  /\ r.kind = "raw" =>
       \E t \in Tasks : \E n \in 1 .. Turns[t] : \E v \in {0, 1} :
         r = Record(Id("raw", t, n, v), "raw", t, {<<t, n>>})
  /\ IF r.kind = "digest" THEN r.task = 0
     ELSE r.task \in Tasks /\ r.tells \subseteq FactsOf(Below(r.task))
  /\ r.kind = "recap" => r.tells = {}
  /\ IsClosing(r) => r.tells = {} \/ r.tells = FactsOf(Below(r.task))
  /\ r.kind = "finish" => \E name \in {"close", "report"} : r.id = Id(name, r.task, 1, 0)

\* The view is made of such records; the pictures to be rewritten are turns as spoken.
RecordsShaped ==
  /\ \A r \in live : Shaped(r)
  /\ \A r \in todo : Shaped(r) /\ r.kind = "raw" /\ r.id[4] = 0

\* An id stands for one text, in the view and in what is about to be folded.
OneText(records) == \A r, s \in records : r.id = s.id => r.tells = s.tells
TextsAgree == OneText(live \cup sel)

\* Ids that are superseded stay so, what is about to be folded was written, and
\* what was made from a record has superseded it.
IdsAccounted ==
  /\ gone \cap Ids(live) = {}
  /\ Ids(sel) \subseteq KnownIds /\ Ids(todo) \subseteq KnownIds
  /\ \A t \in Tasks :
       /\ \A n \in 1 .. Turns[t] : Id("raw", t, n, 1) \in KnownIds => Id("raw", t, n, 0) \in gone
       /\ Id("demote", t, 1, 1) \in KnownIds => Id("report", t, 1, 0) \in gone
       /\ Id("demote", t, 1, 0) \in KnownIds => Id("close", t, 1, 0) \in gone

\* Digests and collapsed prompts are numbered in the order they are written.
Named(name) == {i \in KnownIds : i[1] = name}
Numbered ==
  /\ IsFiniteSet(Named("digest")) /\ IsFiniteSet(Named("collapsed"))
  /\ \A i \in Named("digest") : i[3] \in Nat /\ i[3] < Cardinality(Named("digest"))
  /\ \A i \in Named("collapsed") : i[4] \in Nat /\ i[4] < Cardinality(Named("collapsed"))

\* An observer that has a report to write, which nobody has seen yet.
Due(t) == obs[t].kind = "report" /\ obs[t].pc \notin {"shedding", "done"}

\* What a compaction is about to write tells what it is about to fold.
FoldTells ==
  /\ pc = "summarise" /\ level = "current" => Told(sel) \subseteq FactsOf(Below(Current))
  /\ pc = "fold" => new # {} /\ \A n \in new :
       /\ n.kind = "digest" /\ n.task = 0 /\ n.tells = Told(sel)
       /\ n.id = Id("digest", 0, Cardinality(Named("digest")), 0)
  /\ pc = "lean" => new # {} /\ \A n \in new :
       /\ n.task \in Tasks /\ ~Due(n.task)
       /\ \E origin \in {"close", "report"} :
            /\ n = Record(Id("demote", n.task, 1, IF origin = "report" THEN 1 ELSE 0), "lean",
                          n.task, FactsOf(Below(n.task)))
            /\ n.id \notin KnownIds /\ Id(origin, n.task, 1, 0) \in Ids(sel)
       /\ Told(sel) \subseteq n.tells

\* What is told by something else than the words themselves.
Aloud == {r \in live : r.kind # "raw"}
Facts(t) == {t} \X (1 .. Turns[t])

\* An observer that is not done has folded nothing yet, the slots its report is to
\* replace tell nothing, and it sheds the turns of a task that is told elsewhere.
Observed(t) ==
  /\ Id("segment", t, SegmentEnd(t), 0) \in KnownIds
       => obs[t].kind = "segment" /\ obs[t].pc = "done"
  /\ Due(t) =>
       /\ Id("report", t, 0, 0) \notin KnownIds /\ Id("report", t, 1, 0) \notin KnownIds
       /\ \A r \in live : r.task = t /\ r.kind \in {"recap", "finish", "lean"} => r.tells = {}
       /\ \A r \in live : r.id \in obs[t].ids => r.tells = {}
  /\ obs[t].pc = "shedding" => obs[t].kind \in {"report", "close"} /\ Facts(t) \subseteq Told(Aloud)
  /\ obs[t].kind = "close" /\ Id("close", t, 1, 0) \in KnownIds => Facts(t) \subseteq Told(Aloud)
  /\ obs[t].kind = "judge" => Id("close", t, 1, 0) \notin KnownIds

\* The observers there can be; the slots one has found were written.
Observers == [kind : {"none", "segment", "report", "judge", "close"},
              pc : {"due", "judging", "reported", "writing", "recapping", "finishing",
                    "shedding", "done"},
              known : BOOLEAN, ids : SUBSET KnownIds]
ObserversTyped == obs \in [Tasks -> Observers]

\* The invariant: what the records tell, and what the tellers know.
Remembers ==
  /\ ObserversTyped /\ RecordsShaped /\ TextsAgree /\ IdsAccounted /\ Numbered /\ FoldTells
  /\ \A t \in Tasks : Observed(t)
  /\ NothingLost

(* -------------------------------- the tree ---------------------------------- *)

\* A task is below itself, and so is what it delegated.
LEMMA BelowFacts ==
  ASSUME NEW t \in Tasks
  PROVE  /\ t \in Below(t) /\ Below(t) \subseteq Tasks
         /\ \A u \in Tasks : Parent[u] \in Below(t) => u \in Below(t)
<1>1. DOMAIN Parent = Tasks /\ {t} \cup Tasks = Tasks
  BY MemoryAssumption
<1>2. t \in Below(t) /\ Below(t) \subseteq Tasks
  BY <1>1 DEF Below, Descendants
<1>3. ASSUME NEW u \in Tasks, Parent[u] \in Below(t) PROVE u \in Below(t)
  BY <1>1, <1>3 DEF Below, Descendants
<1> QED BY <1>2, <1>3

\* Nothing else is below it.
LEMMA BelowIsLeast ==
  ASSUME NEW t \in Tasks, NEW S \in SUBSET Tasks, t \in S,
         \A v \in Tasks : Parent[v] \in S => v \in S
  PROVE  Below(t) \subseteq S
<1>1. DOMAIN Parent = Tasks /\ {t} \cup Tasks = Tasks
  BY MemoryAssumption
<1> QED BY <1>1 DEF Below, Descendants

\* What is below a task below another is below that one.
LEMMA BelowNests ==
  ASSUME NEW t \in Tasks, NEW u \in Below(t)
  PROVE  Below(u) \subseteq Below(t)
<1>1. u \in Tasks /\ Below(t) \subseteq Tasks
  BY BelowFacts
<1> QED BY <1>1, BelowFacts, BelowIsLeast

\* The tree compaction sees of a task is part of the tree there is.
LEMMA TreeIsBelow ==
  ASSUME NEW view, NEW t \in Tasks,
         \A r \in view : r.kind \in {"recap", "finish", "lean"} => r.task \in Tasks
  PROVE  Descendants(Parents(view), {t}) \subseteq Below(t)
<1> DEFINE P == Parents(view)
           S == Below(t) \cap ({t} \cup DOMAIN P)
<1>0. 0 \notin Tasks
  BY MemoryAssumption
<1>1. \A v \in DOMAIN P : P[v] = 0 \/ (v \in Tasks /\ P[v] = Parent[v])
  BY DEF Parents
<1> HIDE DEF P
<1>2. \A v \in DOMAIN P : P[v] \in S => v \in S
  BY <1>0, <1>1, BelowFacts
<1>3. {t} \subseteq S /\ S \in SUBSET ({t} \cup DOMAIN P)
  BY BelowFacts
<1>4. Descendants(P, {t}) \subseteq S
  BY <1>2, <1>3 DEF Descendants
<1> QED BY <1>4 DEF P

\* The facts of more tasks are more facts; a task's own are among those of its tree.
LEMMA FactsGrow ==
  ASSUME NEW ts, NEW us, ts \subseteq us
  PROVE  FactsOf(ts) \subseteq FactsOf(us)
  BY DEF FactsOf

\* A task's own facts, and those of any tree below it, are facts of its tree.
LEMMA FactsOfTree ==
  ASSUME NEW t \in Tasks
  PROVE  /\ Facts(t) \subseteq FactsOf(Below(t))
         /\ \A u \in Below(t) : FactsOf(Below(u)) \subseteq FactsOf(Below(t))
<1>1. Facts(t) \subseteq FactsOf(Below(t))
  BY BelowFacts DEF Facts, FactsOf
<1>2. ASSUME NEW u \in Below(t) PROVE FactsOf(Below(u)) \subseteq FactsOf(Below(t))
  BY <1>2, BelowNests, FactsGrow
<1> QED BY <1>1, <1>2

(* -------------------------------- the folds --------------------------------- *)

\* A step that leaves the store alone folds nothing into nothing.
LEMMA QuietFold == UNCHANGED store => FoldIn({}, {})
  BY DEF store, FoldIn, Unseen, Supersede

\* What a fold does to the view and to the ids that are known.
LEMMA FoldEffect ==
  ASSUME NEW ids, NEW records, FoldIn(ids, records), IdsAccounted
  PROVE  /\ live' = {r \in live : r.id \notin ids} \cup {r \in records : r.id \notin KnownIds}
         /\ KnownIds' = KnownIds \cup Ids(records)
         /\ gone \subseteq gone' /\ ids \cap KnownIds \subseteq gone'
         /\ gone' \cap Ids(live') = {}
<1>1. live' = {r \in live : r.id \notin ids} \cup {r \in records : r.id \notin KnownIds}
  BY DEF FoldIn, Unseen
<1>2. gone' = gone \cup (ids \cap Ids(live)) /\ gone \cap Ids(live) = {}
  BY DEF FoldIn, Supersede, IdsAccounted
<1>3. KnownIds' = KnownIds \cup Ids(records)
  <2>1. ASSUME NEW i \in KnownIds' PROVE i \in KnownIds \cup Ids(records)
    BY <1>1, <1>2, <2>1 DEF KnownIds, Ids
  <2>2. ASSUME NEW i \in KnownIds PROVE i \in KnownIds'
    BY <1>1, <1>2, <2>2 DEF KnownIds, Ids
  <2>3. ASSUME NEW i \in Ids(records) PROVE i \in KnownIds'
    <3>1. CASE i \in KnownIds
      BY <3>1, <2>2
    <3>2. CASE i \notin KnownIds
      BY <3>2, <1>1, <2>3 DEF KnownIds, Ids
    <3> QED BY <3>1, <3>2
  <2> QED BY <2>1, <2>2, <2>3
<1>4. gone \subseteq gone' /\ ids \cap KnownIds \subseteq gone'
  BY <1>2 DEF KnownIds
<1>5. gone' \cap Ids(live') = {}
  BY <1>1, <1>2 DEF KnownIds, Ids
<1> QED BY <1>1, <1>3, <1>4, <1>5

\* Whoever writes shaped records leaves shaped records.
LEMMA FoldShapes ==
  ASSUME NEW ids, NEW records, FoldIn(ids, records), RecordsShaped,
         \A r \in records : Shaped(r)
  PROVE  \A r \in live' : Shaped(r)
  BY DEF FoldIn, Unseen, RecordsShaped

\* Under an id that is not known there is no other text.
LEMMA FoldTexts ==
  ASSUME NEW ids, NEW records, FoldIn(ids, records), IdsAccounted, TextsAgree, OneText(records)
  PROVE  OneText(live' \cup sel)
<1>1. \A r \in live \cup sel : r.id \in KnownIds
  BY DEF IdsAccounted, KnownIds, Ids
<1>2. live' \subseteq live \cup {r \in records : r.id \notin KnownIds}
  BY FoldEffect
<1> QED BY <1>1, <1>2 DEF TextsAgree, OneText

\* What was told is told if what is removed is.
LEMMA FoldTellsStill ==
  ASSUME NEW ids, NEW records, FoldIn(ids, records), IdsAccounted,
         \A s \in live : s.id \in ids => s.tells \subseteq Told(live')
  PROVE  Told(live) \subseteq Told(live')
<1> SUFFICES ASSUME NEW s \in live PROVE s.tells \subseteq Told(live')
  BY DEF Told
<1>1. CASE s.id \in ids
  BY <1>1
<1>2. CASE s.id \notin ids
  <2>1. s \in live'
    BY <1>2, FoldEffect
  <2> QED BY <2>1 DEF Told
<1> QED BY <1>1, <1>2

\* And what was told by more than the words themselves, likewise.
LEMMA FoldTellsAloud ==
  ASSUME NEW ids, NEW records, FoldIn(ids, records), IdsAccounted,
         \A s \in Aloud : s.id \in ids => s.tells \subseteq Told(Aloud')
  PROVE  Told(Aloud) \subseteq Told(Aloud')
<1> SUFFICES ASSUME NEW s \in Aloud PROVE s.tells \subseteq Told(Aloud')
  BY DEF Told
<1>1. CASE s.id \in ids
  BY <1>1
<1>2. CASE s.id \notin ids
  <2>1. s \in Aloud'
    BY <1>2, FoldEffect DEF Aloud
  <2> QED BY <2>1 DEF Told
<1> QED BY <1>1, <1>2

\* A raw record tells its own fact, and its id says which.
LEMMA RawTells ==
  ASSUME NEW r, Shaped(r), r.id[1] = "raw"
  PROVE  /\ r.kind = "raw" /\ r.task \in Tasks /\ r.task = r.id[2] /\ r.id[3] \in 1 .. Turns[r.task]
         /\ r.tells = {<<r.id[2], r.id[3]>>} /\ r.id[4] \in {0, 1}
         /\ r = Record(Id("raw", r.id[2], r.id[3], r.id[4]), "raw", r.id[2], r.tells)
<1>0. PICK t \in Tasks : \E n \in 1 .. Turns[t] : \E v \in {0, 1} :
        r = Record(Id("raw", t, n, v), "raw", t, {<<t, n>>})
  BY DEF Shaped
<1>1. PICK n \in 1 .. Turns[t], v \in {0, 1} :
        r = Record(Id("raw", t, n, v), "raw", t, {<<t, n>>})
  BY <1>0
<1>2. r.id = <<"raw", t, n, v>> /\ r.kind = "raw" /\ r.task = t /\ r.tells = {<<t, n>>}
  BY <1>1 DEF Record, Id
<1>3. r.id[2] = t /\ r.id[3] = n /\ r.id[4] = v
  BY <1>2
<1> QED BY <1>1, <1>2, <1>3

\* Only a raw record has such an id.
LEMMA RawIds ==
  ASSUME NEW r, Shaped(r), r.kind = "raw"
  PROVE  r.id[1] = "raw"
<1>0. PICK t \in Tasks : \E n \in 1 .. Turns[t] : \E v \in {0, 1} :
        r = Record(Id("raw", t, n, v), "raw", t, {<<t, n>>})
  BY DEF Shaped
<1>1. PICK n \in 1 .. Turns[t], v \in {0, 1} :
        r = Record(Id("raw", t, n, v), "raw", t, {<<t, n>>})
  BY <1>0
<1> QED BY <1>1 DEF Record, Id

\* Nothing is lost by a fold that still tells what was told.
LEMMA FoldLosesNothing ==
  ASSUME NEW ids, NEW records, FoldIn(ids, records), IdsAccounted, NothingLost,
         \A r \in records : Shaped(r),
         Told(live) \subseteq Told(live')
  PROVE  NothingLost'
<1> SUFFICES ASSUME NEW i \in KnownIds', i[1] = "raw"
             PROVE  <<i[2], i[3]>> \in Told(live')
  BY DEF NothingLost, Written
<1>1. CASE i \in KnownIds
  BY <1>1 DEF NothingLost, Written
<1>2. CASE i \notin KnownIds
  <2>1. PICK r \in records : r.id = i /\ r.id \notin KnownIds
    BY <1>2, FoldEffect DEF Ids
  <2>2. r \in live' /\ r.tells = {<<i[2], i[3]>>}
    BY <2>1, FoldEffect, RawTells
  <2> QED BY <2>2 DEF Told
<1> QED BY <1>1, <1>2

\* An id is its four parts.
LEMMA IdParts ==
  ASSUME NEW name, NEW t, NEW n, NEW v
  PROVE  LET i == Id(name, t, n, v) IN i[1] = name /\ i[2] = t /\ i[3] = n /\ i[4] = v
  BY DEF Id

(* ------------------------ what a step has to show --------------------------- *)

\* The books of ids are kept by whoever writes no picture anew and no capsule.
LEMMA FoldAccounts ==
  ASSUME IdsAccounted, NEW ids, NEW records, FoldIn(ids, records),
         Ids(sel') \subseteq KnownIds', Ids(todo') \subseteq KnownIds',
         \A r \in records : r.id[1] \notin {"raw", "demote"}
  PROVE  IdsAccounted'
<1>1. /\ KnownIds' = KnownIds \cup Ids(records) /\ gone \subseteq gone'
      /\ gone' \cap Ids(live') = {}
  BY FoldEffect
<1>2. \A i \in Ids(records) : i[1] \notin {"raw", "demote"}
  BY DEF Ids
<1> SUFFICES ASSUME NEW t \in Tasks
    PROVE  /\ \A n \in 1 .. Turns[t] : Id("raw", t, n, 1) \in KnownIds'
                => Id("raw", t, n, 0) \in gone'
           /\ Id("demote", t, 1, 1) \in KnownIds' => Id("report", t, 1, 0) \in gone'
           /\ Id("demote", t, 1, 0) \in KnownIds' => Id("close", t, 1, 0) \in gone'
  BY <1>1 DEF IdsAccounted, Ids
<1>3. \A n, v : Id("raw", t, n, v) \notin Ids(records) /\ Id("demote", t, n, v) \notin Ids(records)
  BY <1>2 DEF Id
<1> QED BY <1>1, <1>3 DEF IdsAccounted

\* The numbers are kept by whoever writes neither a digest nor a collapsed prompt.
LEMMA FoldNumbers ==
  ASSUME IdsAccounted, Numbered, NEW ids, NEW records, FoldIn(ids, records),
         \A r \in records : r.id[1] \notin {"digest", "collapsed"}
  PROVE  /\ Named("digest")' = Named("digest") /\ Named("collapsed")' = Named("collapsed")
         /\ Numbered'
<1>1. KnownIds' = KnownIds \cup Ids(records)
  BY FoldEffect
<1>2. \A i \in Ids(records) : i[1] \notin {"digest", "collapsed"}
  BY DEF Ids
<1>3. Named("digest")' = Named("digest") /\ Named("collapsed")' = Named("collapsed")
  BY <1>1, <1>2 DEF Named
<1> QED BY <1>3 DEF Numbered

\* An observer is where it was if nothing was written in its name.
LEMMA FoldObserved ==
  ASSUME Remembers, NEW u \in Tasks, obs'[u] = obs[u],
         NEW ids, NEW records, FoldIn(ids, records),
         \A r \in records :
           /\ r.id[1] \in {"segment", "close", "report"} => r.id[2] # u
           /\ r.kind \in {"recap", "finish", "lean"} /\ Due(u) => r.task # u,
         Told(Aloud) \subseteq Told(Aloud')
  PROVE  Observed(u)'
<1>1. /\ live' = {r \in live : r.id \notin ids} \cup {r \in records : r.id \notin KnownIds}
      /\ KnownIds' = KnownIds \cup Ids(records)
  BY FoldEffect DEF Remembers
<1>2. \A i \in Ids(records) : i[1] \in {"segment", "close", "report"} => i[2] # u
  BY DEF Ids
<1>3. /\ \A n, v : Id("segment", u, n, v) \notin Ids(records)
      /\ \A n, v : Id("close", u, n, v) \notin Ids(records)
      /\ \A n, v : Id("report", u, n, v) \notin Ids(records)
  BY <1>2 DEF Id
<1>4. Observed(u) /\ obs[u].ids \subseteq KnownIds
  BY DEF Remembers, ObserversTyped, Observers
<1>5. Due(u)' = Due(u)
  BY DEF Due
<1>6. Due(u) => /\ \A r \in live' : r.task = u /\ r.kind \in {"recap", "finish", "lean"}
                     => r.tells = {}
                /\ \A r \in live' : r.id \in obs[u].ids => r.tells = {}
  BY <1>1, <1>4 DEF Observed
<1>7. Due(u) => Id("report", u, 0, 0) \notin KnownIds' /\ Id("report", u, 1, 0) \notin KnownIds'
  BY <1>1, <1>3, <1>4 DEF Observed
<1>8. Id("segment", u, SegmentEnd(u), 0) \in KnownIds' =>
        obs[u].kind = "segment" /\ obs[u].pc = "done"
  BY <1>1, <1>3, <1>4 DEF Observed
<1>9. /\ obs[u].kind = "judge" => Id("close", u, 1, 0) \notin KnownIds'
      /\ Id("close", u, 1, 0) \in KnownIds' => Id("close", u, 1, 0) \in KnownIds
  BY <1>1, <1>3, <1>4 DEF Observed
<1>10. /\ obs[u].pc = "shedding"
            => obs[u].kind \in {"report", "close"} /\ Facts(u) \subseteq Told(Aloud')
       /\ obs[u].kind = "close" /\ Id("close", u, 1, 0) \in KnownIds'
            => Facts(u) \subseteq Told(Aloud')
  BY <1>4, <1>9 DEF Observed
<1> QED BY <1>5, <1>6, <1>7, <1>8, <1>9, <1>10 DEF Observed

\* Types of observers grow with the ids that are known.
LEMMA ObserversGrow ==
  ASSUME ObserversTyped, KnownIds \subseteq KnownIds', UNCHANGED obs
  PROVE  ObserversTyped'
<1>1. Observers \subseteq Observers'
  BY DEF Observers
<1>2. obs \in [Tasks -> Observers]
  BY DEF ObserversTyped
<1>3. obs' \in [Tasks -> Observers']
  BY <1>1, <1>2
<1> QED BY <1>3 DEF ObserversTyped

\* And so when one observer moves.
LEMMA ObserverMoves ==
  ASSUME ObserversTyped, KnownIds \subseteq KnownIds', NEW t \in Tasks, NEW o \in Observers,
         obs' = [obs EXCEPT ![t] = o]
  PROVE  /\ ObserversTyped'
         /\ obs'[t] = o /\ \A u \in Tasks \ {t} : obs'[u] = obs[u]
<1>1. Observers \subseteq Observers'
  BY DEF Observers
<1>2. obs \in [Tasks -> Observers]
  BY DEF ObserversTyped
<1>3. obs' \in [Tasks -> Observers']
  BY <1>1, <1>2
<1>4. ObserversTyped'
  BY <1>3 DEF ObserversTyped
<1> QED BY <1>2, <1>4

\* What the step of an observer has to show: that it folds away nothing that is not
\* told, and writes in the name of its own task only.
LEMMA ObserverStep ==
  ASSUME Remembers, UNCHANGED compaction,
         NEW t \in Tasks, NEW o \in Observers, obs' = [obs EXCEPT ![t] = o],
         NEW ids, NEW records, FoldIn(ids, records), OneText(records),
         \A r \in records :
           /\ Shaped(r) /\ r.id[1] \in {"segment", "frame", "close", "report"}
           /\ r.id[1] # "frame" => r.id[2] = t
           /\ r.kind \in {"recap", "finish", "lean"} => r.task = t,
         Told(live) \subseteq Told(live'), Told(Aloud) \subseteq Told(Aloud'),
         Due(t)' => Due(t), Observed(t)'
  PROVE  Remembers'
<1> USE DEF Remembers
<1>0. sel' = sel /\ todo' = todo /\ new' = new /\ pc' = pc /\ level' = level
  BY DEF compaction
<1>1. /\ KnownIds' = KnownIds \cup Ids(records)
  BY FoldEffect
<1>2. /\ ObserversTyped' /\ obs'[t] = o
      /\ \A u \in Tasks \ {t} : obs'[u] = obs[u]
  BY <1>1, ObserverMoves
<1>3. RecordsShaped'
  BY <1>0, FoldShapes DEF RecordsShaped
<1>4. TextsAgree'
  BY <1>0, FoldTexts DEF TextsAgree
<1>5. IdsAccounted'
  <2>1. Ids(sel') \subseteq KnownIds' /\ Ids(todo') \subseteq KnownIds'
    BY <1>0, <1>1 DEF IdsAccounted
  <2>2. \A r \in records : r.id[1] \notin {"raw", "demote"}
    OBVIOUS
  <2> QED BY <2>1, <2>2, FoldAccounts
<1>6. Numbered' /\ Named("digest")' = Named("digest")
  <2>1. \A r \in records : r.id[1] \notin {"digest", "collapsed"}
    OBVIOUS
  <2> QED BY <2>1, FoldNumbers
<1>7. FoldTells'
  <2>1. pc = "summarise" /\ level = "current" => Told(sel) \subseteq FactsOf(Below(Current))
    BY DEF FoldTells
  <2>2. pc = "fold" => new # {} /\ \A n \in new :
          /\ n.kind = "digest" /\ n.task = 0 /\ n.tells = Told(sel)
          /\ n.id = Id("digest", 0, Cardinality(Named("digest")), 0)
    BY DEF FoldTells
  <2>3. ASSUME pc = "lean"
        PROVE  new # {} /\ \A n \in new :
          /\ n.task \in Tasks /\ ~Due(n.task)'
          /\ \E origin \in {"close", "report"} :
            /\ n = Record(Id("demote", n.task, 1, IF origin = "report" THEN 1 ELSE 0), "lean",
                          n.task, FactsOf(Below(n.task)))
            /\ n.id \notin KnownIds' /\ Id(origin, n.task, 1, 0) \in Ids(sel)
          /\ Told(sel) \subseteq n.tells
    <3>1. new # {}
      BY <2>3 DEF FoldTells
    <3> SUFFICES ASSUME NEW n \in new
                 PROVE
          /\ n.task \in Tasks /\ ~Due(n.task)'
          /\ \E origin \in {"close", "report"} :
            /\ n = Record(Id("demote", n.task, 1, IF origin = "report" THEN 1 ELSE 0), "lean",
                          n.task, FactsOf(Below(n.task)))
            /\ n.id \notin KnownIds' /\ Id(origin, n.task, 1, 0) \in Ids(sel)
          /\ Told(sel) \subseteq n.tells
      BY <3>1
    <3>2. n.task \in Tasks /\ ~Due(n.task) /\ Told(sel) \subseteq n.tells
      BY <2>3 DEF FoldTells
    <3>3. ~Due(n.task)'
      BY <1>2, <3>2 DEF Due
    <3>4. PICK origin \in {"close", "report"} :
            /\ n = Record(Id("demote", n.task, 1, IF origin = "report" THEN 1 ELSE 0), "lean",
                          n.task, FactsOf(Below(n.task)))
            /\ n.id \notin KnownIds /\ Id(origin, n.task, 1, 0) \in Ids(sel)
      BY <2>3 DEF FoldTells
    <3>5. n.id[1] = "demote"
      BY <3>4 DEF Record, Id
    <3>6. n.id \notin KnownIds'
      BY <1>1, <3>4, <3>5 DEF Ids
    <3> QED BY <3>2, <3>3, <3>4, <3>6
  <2> QED BY <1>0, <1>6, <2>1, <2>2, <2>3 DEF FoldTells
<1>8. ASSUME NEW u \in Tasks PROVE Observed(u)'
  <2>1. CASE u = t
    BY <2>1
  <2>2. CASE u # t
    BY <1>2, <2>2, FoldObserved
  <2> QED BY <2>1, <2>2
<1>9. NothingLost'
  BY FoldLosesNothing
<1> QED BY <1>2, <1>3, <1>4, <1>5, <1>6, <1>7, <1>8, <1>9

\* What a step of the compaction has to show.
LEMMA CompactionStep ==
  ASSUME Remembers, UNCHANGED obs,
         NEW ids, NEW records, FoldIn(ids, records),
         \A r \in records :
           /\ Shaped(r) /\ r.id[1] \in {"raw", "digest", "collapsed", "demote"}
           /\ r.kind \in {"recap", "finish", "lean"} => ~Due(r.task),
         Told(live) \subseteq Told(live'), Told(Aloud) \subseteq Told(Aloud'),
         \A r \in todo' : Shaped(r) /\ r.kind = "raw" /\ r.id[4] = 0,
         TextsAgree', IdsAccounted', Numbered', FoldTells'
  PROVE  Remembers'
<1> USE DEF Remembers
<1>1. KnownIds' = KnownIds \cup Ids(records)
  BY FoldEffect
<1>2. ObserversTyped'
  BY <1>1, ObserversGrow
<1>3. RecordsShaped'
  BY FoldShapes DEF RecordsShaped
<1>4. ASSUME NEW u \in Tasks PROVE Observed(u)'
  <2>1. obs'[u] = obs[u]
    OBVIOUS
  <2>2. \A r \in records :
           /\ r.id[1] \in {"segment", "close", "report"} => r.id[2] # u
           /\ r.kind \in {"recap", "finish", "lean"} /\ Due(u) => r.task # u
    OBVIOUS
  <2> QED BY <2>1, <2>2, FoldObserved
<1>5. NothingLost'
  BY FoldLosesNothing
<1> QED BY <1>2, <1>3, <1>4, <1>5

(* ------------------------------ the observers ------------------------------- *)

\* An observer that writes nothing only moves.
LEMMA QuietObserver ==
  ASSUME Remembers, UNCHANGED <<store, compaction>>,
         NEW t \in Tasks, NEW o \in Observers, obs' = [obs EXCEPT ![t] = o],
         Due(t)' => Due(t), Observed(t)'
  PROVE  Remembers'
<1>1. FoldIn({}, {}) /\ UNCHANGED compaction
  BY QuietFold
<1>2. live' = live
  BY DEF store
<1>3. Told(live) \subseteq Told(live') /\ Told(Aloud) \subseteq Told(Aloud')
  BY <1>2 DEF Aloud
<1>4. OneText({})
  BY DEF OneText
<1> QED BY <1>1, <1>3, <1>4, ObserverStep

\* An observer that begins to judge writes nothing.
LEMMA JudgeStep ==
  ASSUME Remembers, NEW t \in Tasks, Judge(t)
  PROVE  Remembers'
<1> DEFINE o == [obs[t] EXCEPT !.pc = "judging"]
<1>1. obs[t] \in Observers
  BY DEF Remembers, ObserversTyped
<1>2. o \in Observers /\ o.pc = "judging" /\ o.kind = obs[t].kind /\ o.ids = obs[t].ids
  BY <1>1 DEF Observers
<1>3. obs' = [obs EXCEPT ![t] = o] /\ obs[t].pc = "due" /\ UNCHANGED <<store, compaction>>
  BY DEF Judge, At, Set
<1> HIDE DEF o
<1>4. obs'[t] = o
  BY <1>3 DEF Remembers, ObserversTyped
<1>5. live' = live /\ KnownIds' = KnownIds /\ Aloud' = Aloud
  BY <1>3 DEF store, KnownIds, Ids, Aloud
<1>6. Due(t)' = Due(t)
  BY <1>2, <1>3, <1>4 DEF Due
<1>7. Observed(t)
  BY DEF Remembers
<1>8. Observed(t)'
  BY <1>2, <1>3, <1>4, <1>5, <1>6, <1>7 DEF Observed
<1> QED BY <1>2, <1>3, <1>6, <1>8, QuietObserver

\* Recording a result writes no memory; the kind of a parked task's observer is settled.
LEMMA JudgedMoves ==
  ASSUME Remembers, NEW t \in Tasks, Judged(t)
  PROVE  \E o \in Observers :
        /\ obs' = [obs EXCEPT ![t] = o] /\ obs'[t] = o /\ o.ids = obs[t].ids
        /\ \/ o.pc = "done" /\ o.kind = obs[t].kind
           \/ /\ o.pc \in {"reported", "writing"}
              /\ \/ o.kind = obs[t].kind /\ obs[t].kind # "judge"
                 \/ obs[t].kind = "judge" /\ o.kind \in {"segment", "close"}
<1>1. obs[t] \in Observers /\ obs \in [Tasks -> Observers]
  BY DEF Remembers, ObserversTyped
<1>2. PICK o \in Observers :
        /\ obs' = [obs EXCEPT ![t] = o] /\ o.ids = obs[t].ids
        /\ \/ o.pc = "done" /\ o.kind = obs[t].kind
           \/ /\ o.pc \in {"reported", "writing"}
              /\ \/ o.kind = obs[t].kind /\ obs[t].kind # "judge"
                 \/ obs[t].kind = "judge" /\ o.kind \in {"segment", "close"}
  <2>1. CASE ~obs[t].known /\ At(t, "done")
    <3> DEFINE o == [obs[t] EXCEPT !.pc = "done"]
    <3>1. o \in Observers /\ o.pc = "done" /\ o.kind = obs[t].kind /\ o.ids = obs[t].ids
      BY <1>1 DEF Observers
    <3>2. obs' = [obs EXCEPT ![t] = o]
      BY <2>1 DEF At, Set
    <3> QED BY <3>1, <3>2
  <2>2. ASSUME NEW kind \in IF obs[t].kind = "judge" THEN {"segment", "close"} ELSE {obs[t].kind},
               Set(t, [obs[t] EXCEPT !.known = TRUE, !.kind = kind,
                         !.pc = IF kind = "report" THEN "reported" ELSE "writing"])
        PROVE  \E o \in Observers :
        /\ obs' = [obs EXCEPT ![t] = o] /\ o.ids = obs[t].ids
        /\ \/ o.pc = "done" /\ o.kind = obs[t].kind
           \/ /\ o.pc \in {"reported", "writing"}
              /\ \/ o.kind = obs[t].kind /\ obs[t].kind # "judge"
                 \/ obs[t].kind = "judge" /\ o.kind \in {"segment", "close"}
    <3> DEFINE o == [obs[t] EXCEPT !.known = TRUE, !.kind = kind,
                         !.pc = IF kind = "report" THEN "reported" ELSE "writing"]
    <3>1. kind \in {"none", "segment", "report", "judge", "close"}
      BY <1>1 DEF Observers
    <3>2. /\ o \in Observers /\ o.pc \in {"reported", "writing"} /\ o.kind = kind
          /\ o.ids = obs[t].ids
      BY <1>1, <3>1 DEF Observers
    <3>3. obs' = [obs EXCEPT ![t] = o]
      BY <2>2 DEF Set
    <3> HIDE DEF o
    <3> QED BY <3>2, <3>3
  <2> QED BY <2>1, <2>2 DEF Judged
<1>4. obs'[t] = o
  BY <1>1, <1>2
<1> QED BY <1>2, <1>4

\* And so nothing is forgotten by it.
LEMMA JudgedStep ==
  ASSUME Remembers, NEW t \in Tasks, Judged(t)
  PROVE  Remembers'
<1>2. PICK o \in Observers :
        /\ obs' = [obs EXCEPT ![t] = o] /\ obs'[t] = o /\ o.ids = obs[t].ids
        /\ \/ o.pc = "done" /\ o.kind = obs[t].kind
           \/ /\ o.pc \in {"reported", "writing"}
              /\ \/ o.kind = obs[t].kind /\ obs[t].kind # "judge"
                 \/ obs[t].kind = "judge" /\ o.kind \in {"segment", "close"}
  BY JudgedMoves
<1>3. obs[t].pc = "judging" /\ UNCHANGED <<store, compaction>>
  BY DEF Judged
<1>5. live' = live /\ KnownIds' = KnownIds /\ Aloud' = Aloud
  BY <1>3 DEF store, KnownIds, Ids, Aloud
<1>6. Due(t)' => Due(t)
  BY <1>2, <1>3 DEF Due
<1>7. Observed(t)
  BY DEF Remembers
<1>8. Observed(t)'
  BY <1>2, <1>3, <1>5, <1>6, <1>7 DEF Observed
<1> QED BY <1>2, <1>3, <1>6, <1>8, QuietObserver

\* The slots an observer finds under the ids of closing slots are those.
LEMMA FindTargetStep ==
  ASSUME Remembers, NEW t \in Tasks, FindTarget(t)
  PROVE  Remembers'
<1> DEFINE o == [obs[t] EXCEPT !.ids = Ids(Target(t)),
                               !.pc = IF Target(t) = {} THEN "done" ELSE "writing"]
<1>1. obs[t] \in Observers /\ obs \in [Tasks -> Observers]
  BY DEF Remembers, ObserversTyped
<1>2. /\ obs' = [obs EXCEPT ![t] = o] /\ obs[t].pc = "reported"
      /\ UNCHANGED <<store, compaction>>
  BY DEF FindTarget, Set
<1>3. \A s \in Target(t) : s \in live /\ s.task = t /\ s.kind \in {"recap", "finish", "lean"}
  BY DEF Target, ClosingOf
<1>4. Ids(Target(t)) \subseteq KnownIds
  BY <1>3 DEF KnownIds, Ids
<1>5. o \in Observers /\ o.pc \in {"done", "writing"} /\ o.kind = obs[t].kind
      /\ o.ids = Ids(Target(t))
  BY <1>1, <1>4 DEF Observers
<1> HIDE DEF o
<1>6. obs'[t] = o
  BY <1>1, <1>2
<1>7. live' = live /\ KnownIds' = KnownIds /\ Aloud' = Aloud
  BY <1>2 DEF store, KnownIds, Ids, Aloud
<1>8. Due(t)' => Due(t)
  BY <1>2, <1>5, <1>6 DEF Due
<1>9. Observed(t) /\ TextsAgree
  BY DEF Remembers
<1>10. Due(t) => \A r \in live : r.id \in o.ids => r.tells = {}
  <2> SUFFICES ASSUME Due(t), NEW r \in live, r.id \in Ids(Target(t)) PROVE r.tells = {}
    BY <1>5
  <2>1. PICK s \in Target(t) : s.id = r.id
    BY DEF Ids
  <2>2. s.tells = {}
    BY <2>1, <1>3, <1>9 DEF Observed
  <2> QED BY <2>1, <2>2, <1>3, <1>9 DEF TextsAgree, OneText
<1>11. Observed(t)'
  BY <1>2, <1>5, <1>6, <1>7, <1>8, <1>9, <1>10 DEF Observed
<1> QED BY <1>2, <1>5, <1>8, <1>11, QuietObserver

\* Where an observer goes when all it does besides is to write.
LEMMA ObserverAt ==
  ASSUME Remembers, NEW t \in Tasks, NEW place \in {"recapping", "finishing", "shedding", "done"},
         At(t, place)
  PROVE  \E o \in Observers :
           /\ obs' = [obs EXCEPT ![t] = o] /\ obs'[t] = o
           /\ o.pc = place /\ o.kind = obs[t].kind /\ o.ids = obs[t].ids
<1> DEFINE o == [obs[t] EXCEPT !.pc = place]
<1>1. obs[t] \in Observers /\ obs \in [Tasks -> Observers]
  BY DEF Remembers, ObserversTyped
<1>2. o \in Observers /\ o.pc = place /\ o.kind = obs[t].kind /\ o.ids = obs[t].ids
  BY <1>1 DEF Observers
<1>3. obs' = [obs EXCEPT ![t] = o]
  BY DEF At, Set
<1> HIDE DEF o
<1>4. obs'[t] = o
  BY <1>1, <1>3
<1> QED BY <1>2, <1>3, <1>4

\* Records of a kind that is shaped by what is said of it.
LEMMA SegmentShaped ==
  ASSUME NEW t \in Tasks
  PROVE  LET r == Record(Id("segment", t, SegmentEnd(t), 0), "segment", t,
               {t} \X (2 .. SegmentEnd(t)))
         IN  Shaped(r)
<1> DEFINE r == Record(Id("segment", t, SegmentEnd(t), 0), "segment", t,
             {t} \X (2 .. SegmentEnd(t)))
<1>1. r.kind = "segment" /\ r.id[1] = "segment" /\ r.task = t
        /\ r.tells = {t} \X (2 .. SegmentEnd(t))
  BY DEF Record, Id
<1>2. {t} \X (2 .. SegmentEnd(t)) \subseteq Facts(t)
  BY MemoryAssumption DEF SegmentEnd, Facts
<1>3. r.tells \subseteq FactsOf(Below(t))
  BY <1>1, <1>2, FactsOfTree
<1> HIDE DEF r
<1>4. Shaped(r)
  BY <1>1, <1>3 DEF Shaped, IsClosing
<1> QED BY <1>4 DEF r

\* A segment tells what the turns tell that it takes the place of.
LEMMA FoldSegmentStep ==
  ASSUME Remembers, NEW t \in Tasks, FoldSegment(t)
  PROVE  Remembers'
<1> DEFINE r == Record(Id("segment", t, SegmentEnd(t), 0), "segment", t,
             {t} \X (2 .. SegmentEnd(t)))
<1>0. obs[t].kind = "segment" /\ obs[t].pc = "writing" /\ UNCHANGED compaction
  BY DEF FoldSegment
<1>1. PICK o \in Observers :
           /\ obs' = [obs EXCEPT ![t] = o] /\ obs'[t] = o
           /\ o.pc = "done" /\ o.kind = obs[t].kind /\ o.ids = obs[t].ids
  BY ObserverAt DEF FoldSegment
<1>2. Observed(t) /\ IdsAccounted
  BY DEF Remembers
<1>3. ~Due(t)' /\ ~Due(t)
  BY <1>0, <1>1 DEF Due
<1>4. CASE UNCHANGED store
  <2>1. live' = live /\ KnownIds' = KnownIds /\ Aloud' = Aloud
    BY <1>4 DEF store, KnownIds, Ids, Aloud
  <2>2. Observed(t)'
    BY <1>0, <1>1, <1>2, <1>3, <2>1 DEF Observed
  <2> QED BY <1>0, <1>1, <1>3, <1>4, <2>2, QuietObserver
<1>5. CASE FoldIn(SegmentOf(t), {r})
  <2>1. Shaped(r)
    BY SegmentShaped
  <2>2. /\ r.id = Id("segment", t, SegmentEnd(t), 0) /\ r.kind = "segment" /\ r.task = t
        /\ r.tells = {t} \X (2 .. SegmentEnd(t))
    BY DEF Record
  <2>3. r.id[1] = "segment" /\ r.id[2] = t
    BY <2>2 DEF Id
  <2> HIDE DEF r
  <2>4. r \in live' /\ r.id \in KnownIds'
    <3>1. r.id \notin KnownIds
      BY <1>0, <1>2, <2>2 DEF Observed
    <3>2. r \in live'
      BY <1>2, <1>5, <3>1, FoldEffect
    <3> QED BY <3>2 DEF KnownIds, Ids
  <2>5. ASSUME NEW s \in live, s.id \in SegmentOf(t)
        PROVE  s.kind = "raw" /\ s.tells \subseteq r.tells
    <3>1. PICK n \in 2 .. SegmentEnd(t) : s.id = Id("raw", t, n, 0)
      BY <2>5 DEF SegmentOf
    <3>2. s.id[1] = "raw" /\ s.id[2] = t /\ s.id[3] = n
      BY <3>1 DEF Id
    <3>3. s.kind = "raw" /\ s.tells = {<<t, n>>}
      BY <3>2, RawTells DEF Remembers, RecordsShaped
    <3> QED BY <3>3, <2>2
  <2>6. Told(live) \subseteq Told(live')
    <3>1. \A s \in live : s.id \in SegmentOf(t) => s.tells \subseteq Told(live')
      BY <2>4, <2>5 DEF Told
    <3> QED BY <3>1, <1>2, <1>5, FoldTellsStill
  <2>7. Told(Aloud) \subseteq Told(Aloud')
    <3>1. \A s \in Aloud : s.id \in SegmentOf(t) => s.tells \subseteq Told(Aloud')
      BY <2>5 DEF Aloud
    <3> QED BY <3>1, <1>2, <1>5, FoldTellsAloud
  <2>8. Observed(t)'
    BY <1>0, <1>1, <1>3 DEF Observed
  <2>9. OneText({r})
    BY DEF OneText
  <2> QED BY <1>0, <1>1, <1>3, <1>5, <2>1, <2>2, <2>3, <2>6, <2>7, <2>8, <2>9, ObserverStep
<1> QED BY <1>4, <1>5 DEF FoldSegment

\* The records of a child in the name of its parent.
LEMMA FrameShaped ==
  ASSUME NEW t \in Tasks, Parent[t] # 0, NEW closed \in BOOLEAN
  PROVE  /\ \A r \in Frame(t, closed) :
              /\ Shaped(r) /\ r.id[1] = "frame" /\ r.kind \in {"start", "result"} /\ r.tells = {}
              /\ r.task \in Tasks
         /\ OneText(Frame(t, closed))
<1>1. ASSUME NEW r \in Frame(t, closed)
      PROVE  /\ r.id[1] = "frame" /\ r.kind \in {"start", "result"} /\ r.tells = {}
             /\ r.task = Parent[t]
  <2>1. PICK k \in IF closed THEN {0, 1} ELSE {0} :
          r = [Record(Id("frame", Parent[t], t, k), IF k = 0 THEN "start" ELSE "result",
                      Parent[t], {}) EXCEPT !.child = t]
    BY DEF Frame
  <2>2. /\ r.id = Id("frame", Parent[t], t, k) /\ r.kind = IF k = 0 THEN "start" ELSE "result"
        /\ r.task = Parent[t] /\ r.tells = {}
    BY <2>1 DEF Record
  <2> QED BY <2>2 DEF Id
<1>2. Parent[t] \in Tasks
  BY MemoryAssumption
<1>3. ASSUME NEW r \in Frame(t, closed) PROVE Shaped(r)
  <2>1. r.id[1] = "frame" /\ r.kind \in {"start", "result"} /\ r.tells = {} /\ r.task \in Tasks
    BY <1>1, <1>2
  <2> QED BY <2>1 DEF Shaped, IsClosing
<1> QED BY <1>1, <1>2, <1>3 DEF OneText

\* The two slots that close a task.
LEMMA SlotsShaped ==
  ASSUME NEW t \in Tasks, NEW name \in {"close", "report"},
         NEW tells \in {{}, FactsOf(Below(t))}
  PROVE  /\ \A r \in Slots(name, t, tells) :
              /\ Shaped(r) /\ r.id[1] = name /\ r.id[2] = t /\ r.task = t
              /\ \/ r.kind = "recap" /\ r.id = Id(name, t, 0, 0) /\ r.tells = {}
                 \/ r.kind = "finish" /\ r.id = Id(name, t, 1, 0) /\ r.tells = tells
         /\ OneText(Slots(name, t, tells))
         /\ \E r \in Slots(name, t, tells) : r.id = Id(name, t, 1, 0)
         /\ \E r \in Slots(name, t, tells) : r.id = Id(name, t, 0, 0)
<1> DEFINE a == Record(Id(name, t, 0, 0), "recap", t, {})
           b == Record(Id(name, t, 1, 0), "finish", t, tells)
<1>1. a.kind = "recap" /\ a.id = Id(name, t, 0, 0) /\ a.tells = {} /\ a.task = t
  BY DEF Record
<1>2. b.kind = "finish" /\ b.id = Id(name, t, 1, 0) /\ b.tells = tells /\ b.task = t
  BY DEF Record
<1>3. Slots(name, t, tells) = {a, b}
  BY DEF Slots
<1> HIDE DEF a, b
<1>4. a.id[1] = name /\ a.id[2] = t /\ b.id[1] = name /\ b.id[2] = t /\ a.id # b.id
  BY <1>1, <1>2 DEF Id
<1>5. Shaped(a)
  BY <1>1, <1>4 DEF Shaped, IsClosing
<1>6. Shaped(b)
  BY <1>2, <1>4 DEF Shaped, IsClosing
<1> QED BY <1>1, <1>2, <1>3, <1>4, <1>5, <1>6 DEF OneText

\* Writing more tells more.
LEMMA IngestTells ==
  ASSUME NEW records, FoldIn({}, records), IdsAccounted
  PROVE  Told(live) \subseteq Told(live') /\ Told(Aloud) \subseteq Told(Aloud')
  BY FoldTellsStill, FoldTellsAloud

\* What closing a parked task writes besides its last slot.
LEMMA CloseEarlyStep ==
  ASSUME Remembers, NEW t \in Tasks, NEW from, NEW place \in {"recapping", "finishing"},
         NEW records, CloseStep(t, from, records, place), OneText(records),
         \A r \in records :
           /\ Shaped(r) /\ r.id[1] \in {"frame", "close"} /\ r.id # Id("close", t, 1, 0)
           /\ r.id[1] # "frame" => r.id[2] = t
           /\ r.kind \in {"recap", "finish", "lean"} => r.task = t
  PROVE  Remembers'
<1>0. obs[t].kind = "close" /\ FoldIn({}, records) /\ UNCHANGED compaction
  BY DEF CloseStep, Ingest
<1>1. PICK o \in Observers :
           /\ obs' = [obs EXCEPT ![t] = o] /\ obs'[t] = o
           /\ o.pc = place /\ o.kind = obs[t].kind /\ o.ids = obs[t].ids
  BY ObserverAt DEF CloseStep
<1>2. Observed(t) /\ IdsAccounted
  BY DEF Remembers
<1>3. ~Due(t)'
  BY <1>0, <1>1 DEF Due
<1>4. Told(live) \subseteq Told(live') /\ Told(Aloud) \subseteq Told(Aloud')
  BY <1>0, <1>2, IngestTells
<1>5. KnownIds' = KnownIds \cup Ids(records)
  BY <1>0, <1>2, FoldEffect
<1>6. Id("segment", t, SegmentEnd(t), 0) \notin KnownIds'
  <2>1. Id("segment", t, SegmentEnd(t), 0) \notin KnownIds
    BY <1>0, <1>2 DEF Observed
  <2>2. \A i \in Ids(records) : i[1] \in {"frame", "close"}
    BY DEF Ids
  <2>3. Id("segment", t, SegmentEnd(t), 0) \notin Ids(records)
    BY <2>2 DEF Id
  <2> QED BY <1>5, <2>1, <2>3
<1>7. Id("close", t, 1, 0) \in KnownIds' => Id("close", t, 1, 0) \in KnownIds
  BY <1>5 DEF Ids
<1>8. Observed(t)'
  BY <1>0, <1>1, <1>2, <1>3, <1>4, <1>6, <1>7 DEF Observed
<1>9. \A r \in records : Shaped(r) /\ r.id[1] \in {"segment", "frame", "close", "report"}
  OBVIOUS
<1> QED BY <1>0, <1>1, <1>3, <1>4, <1>8, <1>9, ObserverStep

\* The parent is told by the frame of its child, which tells no fact.
LEMMA CloseResultStep ==
  ASSUME Remembers, NEW t \in Tasks, CloseResult(t)
  PROVE  Remembers'
<1>1. CASE Parent[t] = 0
  <2>1. CloseStep(t, "writing", {}, "recapping") /\ OneText({})
    BY <1>1 DEF CloseResult, OneText
  <2> QED BY <2>1, CloseEarlyStep
<1>2. CASE Parent[t] # 0
  <2>1. CloseStep(t, "writing", Frame(t, TRUE), "recapping")
    BY <1>2 DEF CloseResult
  <2>2. /\ OneText(Frame(t, TRUE))
        /\ \A r \in Frame(t, TRUE) :
             Shaped(r) /\ r.id[1] = "frame" /\ r.kind \in {"start", "result"}
    BY <1>2, FrameShaped
  <2>3. Id("close", t, 1, 0)[1] = "close"
    BY DEF Id
  <2> QED BY <2>1, <2>2, <2>3, CloseEarlyStep
<1> QED BY <1>1, <1>2

\* The first of the slots that close a task tells nothing either.
LEMMA CloseRecapStep ==
  ASSUME Remembers, NEW t \in Tasks, CloseRecap(t)
  PROVE  Remembers'
<1>1. CloseStep(t, "recapping", SlotOf(t, 0), "finishing")
  BY DEF CloseRecap
<1>2. /\ OneText(Slots("close", t, FactsOf(Below(t))))
      /\ \A r \in Slots("close", t, FactsOf(Below(t))) :
           Shaped(r) /\ r.id[1] = "close" /\ r.id[2] = t /\ r.task = t
  BY SlotsShaped
<1>3. SlotOf(t, 0) \subseteq Slots("close", t, FactsOf(Below(t)))
      /\ \A r \in SlotOf(t, 0) : r.id # Id("close", t, 1, 0)
  BY DEF SlotOf, Id
<1>4. OneText(SlotOf(t, 0))
  BY <1>2, <1>3 DEF OneText
<1> QED BY <1>1, <1>2, <1>3, <1>4, CloseEarlyStep

\* The last slot tells the task, and what it delegated.
LEMMA CloseFinishStep ==
  ASSUME Remembers, NEW t \in Tasks, CloseFinish(t)
  PROVE  Remembers'
<1> DEFINE slots == Slots("close", t, FactsOf(Below(t)))
           records == SlotOf(t, 1)
<1>0. /\ obs[t].kind = "close" /\ obs[t].pc = "finishing" /\ FoldIn({}, records)
      /\ UNCHANGED compaction
  BY DEF CloseFinish, CloseStep, Ingest
<1>1. PICK o \in Observers :
           /\ obs' = [obs EXCEPT ![t] = o] /\ obs'[t] = o
           /\ o.pc = "shedding" /\ o.kind = obs[t].kind /\ o.ids = obs[t].ids
  BY ObserverAt DEF CloseFinish, CloseStep
<1>2. Observed(t) /\ IdsAccounted
  BY DEF Remembers
<1>3. ~Due(t)'
  BY <1>0, <1>1 DEF Due
<1>4. Told(live) \subseteq Told(live') /\ Told(Aloud) \subseteq Told(Aloud')
  BY <1>0, <1>2, IngestTells
<1>5. KnownIds' = KnownIds \cup Ids(records)
  BY <1>0, <1>2, FoldEffect
<1>6. /\ OneText(slots)
      /\ \A r \in slots :
           /\ Shaped(r) /\ r.id[1] = "close" /\ r.id[2] = t /\ r.task = t
           /\ \/ r.kind = "recap" /\ r.id = Id("close", t, 0, 0)
              \/ r.kind = "finish" /\ r.id = Id("close", t, 1, 0) /\ r.tells = FactsOf(Below(t))
      /\ \E r \in slots : r.id = Id("close", t, 1, 0)
  BY SlotsShaped
<1>7. records \subseteq slots /\ \A r \in slots : r \in records <=> r.id[3] = 1
  BY DEF SlotOf
<1> HIDE DEF slots, records
<1>8. PICK b \in records :
             b.id = Id("close", t, 1, 0) /\ b.kind = "finish" /\ b.tells = FactsOf(Below(t))
  BY <1>6, <1>7 DEF Id
<1>9. Id("segment", t, SegmentEnd(t), 0) \notin KnownIds'
  <2>1. Id("segment", t, SegmentEnd(t), 0) \notin KnownIds
    BY <1>0, <1>2 DEF Observed
  <2>2. \A i \in Ids(records) : i[1] = "close"
    BY <1>6, <1>7 DEF Ids
  <2>3. Id("segment", t, SegmentEnd(t), 0) \notin Ids(records)
    BY <2>2 DEF Id
  <2> QED BY <1>5, <2>1, <2>3
<1>10. Facts(t) \subseteq Told(Aloud')
  <2>1. CASE b.id \in KnownIds
    BY <1>0, <1>2, <1>4, <1>8, <2>1 DEF Observed
  <2>2. CASE b.id \notin KnownIds
    <3>1. b \in live' /\ b.kind # "raw"
      BY <1>0, <1>2, <1>8, <2>2, FoldEffect
    <3>2. Facts(t) \subseteq b.tells
      BY <1>8, FactsOfTree
    <3> QED BY <3>1, <3>2 DEF Told, Aloud
  <2> QED BY <2>1, <2>2
<1>11. Observed(t)'
  BY <1>0, <1>1, <1>3, <1>9, <1>10 DEF Observed
<1>12. OneText(records)
  BY <1>6, <1>7 DEF OneText
<1>13. \A r \in records : /\ Shaped(r) /\ r.id[1] \in {"segment", "frame", "close", "report"}
                          /\ r.id[2] = t /\ r.task = t
  BY <1>6, <1>7
<1> QED BY <1>0, <1>1, <1>3, <1>4, <1>11, <1>12, <1>13, ObserverStep

\* A capsule that was reduced to its report.
LEMMA LeanShaped ==
  ASSUME NEW t \in Tasks, NEW name \in {"report", "demote"}, NEW n, NEW v
  PROVE  LET r == Record(Id(name, t, n, v), "lean", t, FactsOf(Below(t)))
         IN  /\ Shaped(r) /\ r.id = Id(name, t, n, v) /\ r.id[1] = name /\ r.id[2] = t
             /\ r.kind = "lean" /\ r.task = t /\ r.tells = FactsOf(Below(t))
<1> DEFINE r == Record(Id(name, t, n, v), "lean", t, FactsOf(Below(t)))
<1>1. r.kind = "lean" /\ r.id = Id(name, t, n, v) /\ r.task = t /\ r.tells = FactsOf(Below(t))
  BY DEF Record
<1>2. r.id[1] = name /\ r.id[2] = t
  BY <1>1 DEF Id
<1> HIDE DEF r
<1>3. Shaped(r)
  BY <1>1, <1>2 DEF Shaped, IsClosing
<1> QED BY <1>1, <1>2, <1>3 DEF r

\* The slots that are replaced tell nothing, and the report is new.
LEMMA WriteReportStep ==
  ASSUME Remembers, NEW t \in Tasks, WriteReport(t)
  PROVE  Remembers'
<1> DEFINE records == Report(t)
<1>0. /\ obs[t].kind = "report" /\ obs[t].pc = "writing" /\ UNCHANGED compaction
      /\ IF Id("report", t, 0, 0) \in Ids(live) \cap obs[t].ids
           THEN UNCHANGED store ELSE FoldIn(obs[t].ids, records)
  BY DEF WriteReport
<1>1. PICK o \in Observers :
           /\ obs' = [obs EXCEPT ![t] = o] /\ obs'[t] = o
           /\ o.pc = "shedding" /\ o.kind = obs[t].kind /\ o.ids = obs[t].ids
  BY ObserverAt DEF WriteReport
<1>2. Observed(t) /\ IdsAccounted
  BY DEF Remembers
<1>3. Due(t) /\ ~Due(t)'
  BY <1>0, <1>1 DEF Due
<1>4. Id("report", t, 0, 0) \notin KnownIds /\ Id("report", t, 1, 0) \notin KnownIds
  BY <1>2, <1>3 DEF Observed
<1>5. FoldIn(obs[t].ids, records)
  BY <1>0, <1>4 DEF KnownIds
<1>6. /\ OneText(records)
      /\ \A r \in records : /\ Shaped(r) /\ r.id[1] = "report" /\ r.id[2] = t /\ r.task = t
                            /\ r.kind # "raw"
      /\ \E r \in records : r.id \notin KnownIds /\ r.tells = FactsOf(Below(t))
  <2>1. CASE \E r \in Read(obs[t].ids) : r.kind = "lean"
    <3> DEFINE l == Record(Id("report", t, 0, 0), "lean", t, FactsOf(Below(t)))
    <3>1. records = {l}
      BY <2>1 DEF Report
    <3>2. /\ Shaped(l) /\ l.id = Id("report", t, 0, 0) /\ l.id[1] = "report" /\ l.id[2] = t
          /\ l.kind = "lean" /\ l.task = t /\ l.tells = FactsOf(Below(t))
      BY LeanShaped
    <3> HIDE DEF l
    <3> QED BY <1>4, <3>1, <3>2 DEF OneText
  <2>2. CASE ~\E r \in Read(obs[t].ids) : r.kind = "lean"
    <3>1. records = Slots("report", t, FactsOf(Below(t)))
      BY <2>2 DEF Report
    <3>2. /\ OneText(records)
          /\ \A r \in records :
               /\ Shaped(r) /\ r.id[1] = "report" /\ r.id[2] = t /\ r.task = t
               /\ \/ r.kind = "recap" /\ r.id = Id("report", t, 0, 0) /\ r.tells = {}
                  \/ r.kind = "finish" /\ r.id = Id("report", t, 1, 0)
                       /\ r.tells = FactsOf(Below(t))
          /\ \E r \in records : r.id = Id("report", t, 1, 0)
      BY <3>1, SlotsShaped
    <3>3. PICK r \in records : r.id = Id("report", t, 1, 0)
      BY <3>2
    <3>4. Id("report", t, 1, 0) # Id("report", t, 0, 0)
      BY DEF Id
    <3> HIDE DEF records
    <3>5. r.tells = FactsOf(Below(t)) /\ r.id \notin KnownIds
      BY <1>4, <3>2, <3>3, <3>4
    <3> QED BY <3>2, <3>5
  <2> QED BY <2>1, <2>2
<1> HIDE DEF records
<1>7. \A s \in live : s.id \in obs[t].ids => s.tells = {}
  BY <1>2, <1>3 DEF Observed
<1>8. Told(live) \subseteq Told(live') /\ Told(Aloud) \subseteq Told(Aloud')
  <2>1. \A s \in Aloud : s.id \in obs[t].ids => s.tells \subseteq Told(Aloud')
    BY <1>7 DEF Aloud
  <2> QED BY <1>2, <1>5, <1>7, <2>1, FoldTellsStill, FoldTellsAloud
<1>9. KnownIds' = KnownIds \cup Ids(records)
  BY <1>2, <1>5, FoldEffect
<1>10. Id("segment", t, SegmentEnd(t), 0) \notin KnownIds'
  <2>1. Id("segment", t, SegmentEnd(t), 0) \notin KnownIds
    BY <1>0, <1>2 DEF Observed
  <2>2. \A i \in Ids(records) : i[1] = "report"
    BY <1>6 DEF Ids
  <2>3. Id("segment", t, SegmentEnd(t), 0) \notin Ids(records)
    BY <2>2 DEF Id
  <2> QED BY <1>9, <2>1, <2>3
<1>11. Facts(t) \subseteq Told(Aloud')
  <2>1. PICK r \in records : r.id \notin KnownIds /\ r.tells = FactsOf(Below(t)) /\ r.kind # "raw"
    BY <1>6
  <2>2. r \in live'
    BY <1>2, <1>5, <2>1, FoldEffect
  <2>3. Facts(t) \subseteq r.tells
    BY <2>1, FactsOfTree
  <2> QED BY <2>1, <2>2, <2>3 DEF Told, Aloud
<1>12. Observed(t)'
  BY <1>0, <1>1, <1>3, <1>10, <1>11 DEF Observed
<1>13. \A r \in records : /\ Shaped(r) /\ r.id[1] \in {"segment", "frame", "close", "report"}
                          /\ r.id[2] = t /\ r.task = t
  BY <1>6
<1> QED BY <1>0, <1>1, <1>3, <1>5, <1>6, <1>8, <1>12, <1>13, ObserverStep

\* The turns that go are told by something else.
LEMMA ShedStep ==
  ASSUME Remembers, NEW t \in Tasks, Shed(t)
  PROVE  Remembers'
<1> DEFINE turns == Ids({r \in BodyOf(live, t) : r.kind = "raw" /\ ~IsPrompt(r)})
<1>0. obs[t].pc = "shedding" /\ UNCHANGED compaction
  BY DEF Shed
<1>1. PICK o \in Observers :
           /\ obs' = [obs EXCEPT ![t] = o] /\ obs'[t] = o
           /\ o.pc = "done" /\ o.kind = obs[t].kind /\ o.ids = obs[t].ids
  BY ObserverAt DEF Shed
<1>2. Observed(t) /\ IdsAccounted /\ RecordsShaped
  BY DEF Remembers
<1>3. ~Due(t)'
  BY <1>1 DEF Due
<1>4. FoldIn({}, {}) \/ FoldIn(turns, {})
  BY QuietFold DEF Shed
<1>5. PICK ids : (ids = {} \/ ids = turns) /\ FoldIn(ids, {})
  BY <1>4
<1>6. ASSUME NEW s \in live, s.id \in ids
      PROVE  s.kind = "raw" /\ s.tells \subseteq Facts(t)
  <2>1. PICK r \in live : r.id = s.id /\ r.kind = "raw" /\ r.task = t
    BY <1>5, <1>6 DEF Ids, BodyOf
  <2>2. s.id[1] = "raw" /\ s.id[2] = t
    BY <1>2, <2>1, RawIds, RawTells DEF RecordsShaped
  <2>3. /\ s.kind = "raw" /\ s.id[3] \in 1 .. Turns[t]
        /\ s.tells = {<<t, s.id[3]>>}
    BY <1>2, <2>2, RawTells DEF RecordsShaped
  <2> QED BY <2>3 DEF Facts
<1>7. Told(Aloud) \subseteq Told(Aloud')
  <2>1. \A s \in Aloud : s.id \in ids => s.tells \subseteq Told(Aloud')
    BY <1>6 DEF Aloud
  <2> QED BY <1>2, <1>5, <2>1, FoldTellsAloud
<1>8. Told(live) \subseteq Told(live')
  <2>1. Facts(t) \subseteq Told(Aloud')
    BY <1>0, <1>2, <1>7 DEF Observed
  <2>2. Told(Aloud') \subseteq Told(live')
    BY DEF Told, Aloud
  <2>3. \A s \in live : s.id \in ids => s.tells \subseteq Told(live')
    BY <1>6, <2>1, <2>2
  <2> QED BY <1>2, <1>5, <2>3, FoldTellsStill
<1>9. KnownIds' = KnownIds
  <2>1. Ids({}) = {}
    BY DEF Ids
  <2>2. KnownIds' = KnownIds \cup Ids({})
    BY <1>2, <1>5, FoldEffect
  <2> QED BY <2>1, <2>2
<1>10. Observed(t)'
  BY <1>0, <1>1, <1>2, <1>3, <1>7, <1>9 DEF Observed
<1>11. OneText({})
  BY DEF OneText
<1> QED BY <1>0, <1>1, <1>3, <1>5, <1>7, <1>8, <1>10, <1>11, ObserverStep

(* ------------------------------ the compaction ------------------------------ *)

\* A step of the compaction that writes nothing chooses among what there is.
LEMMA QuietCompaction ==
  ASSUME Remembers, UNCHANGED <<store, obs>>,
         sel' \subseteq live \cup sel, todo' \subseteq {r \in live : Pictured(r)} \cup todo,
         FoldTells'
  PROVE  Remembers'
<1> USE DEF Remembers
<1>1. FoldIn({}, {})
  BY QuietFold
<1>2. live' = live /\ gone' = gone /\ KnownIds' = KnownIds /\ Aloud' = Aloud
  BY DEF store, KnownIds, Ids, Aloud
<1>3. \A r \in todo' : Shaped(r) /\ r.kind = "raw" /\ r.id[4] = 0
  BY DEF RecordsShaped, Pictured
<1>4. TextsAgree'
  BY <1>2 DEF TextsAgree, OneText
<1>5. Ids(sel') \subseteq KnownIds' /\ Ids(todo') \subseteq KnownIds'
  BY <1>2 DEF IdsAccounted, KnownIds, Ids
<1>6. IdsAccounted'
  BY <1>1, <1>5, FoldAccounts
<1>7. Numbered'
  BY <1>1, FoldNumbers
<1> QED BY <1>1, <1>2, <1>3, <1>4, <1>6, <1>7, CompactionStep

\* Where nothing is about to be folded there is nothing to tell.
LEMMA NothingToTell ==
  ASSUME pc' \notin {"summarise", "fold", "lean"}
  PROVE  FoldTells'
  BY DEF FoldTells

\* The steps that only look and go on.
LEMMA LookingStep ==
  ASSUME Remembers, Begin \/ EnterHistory \/ Outage \/ EnterCapsules \/ EnterCurrent
  PROVE  Remembers'
<1>1. UNCHANGED <<store, obs>>
  BY DEF Begin, EnterHistory, Outage, EnterCapsules, EnterCurrent
<1>2. sel' \subseteq live \cup sel
  BY DEF Begin, EnterHistory, Outage, EnterCapsules, EnterCurrent
<1>3. todo' \subseteq {r \in live : Pictured(r)} \cup todo
  BY DEF Begin, EnterHistory, Outage, EnterCapsules, EnterCurrent
<1>4. pc' \in {"pictures", "select", "capsules", "idle", "capsule"}
  BY DEF Begin, EnterHistory, Outage, EnterCapsules, EnterCurrent, Go
<1> QED BY <1>1, <1>2, <1>3, <1>4, NothingToTell, QuietCompaction

\* What a level selects is there, and the third level selects from the current task.
LEMMA ChosenIsThere ==
  ASSUME RecordsShaped
  PROVE  /\ Chosen \subseteq live
         /\ level = "current" => Told(Chosen) \subseteq FactsOf(Below(Current))
<1>1. Collapsing(live) \subseteq BodyOf(live, Current)
  BY DEF Collapsing
<1>2. BodyOf(live, Current) \subseteq live
  BY DEF BodyOf
<1>3. Selection(live, Keep) \subseteq live
  BY DEF Selection
<1>4. \A r \in BodyOf(live, Current) : r.tells \subseteq FactsOf(Below(Current))
  BY DEF BodyOf, IsBody, RecordsShaped, Shaped
<1> QED BY <1>1, <1>2, <1>3, <1>4 DEF Chosen, Told

\* The selection the model is asked to digest.
LEMMA DigestStep ==
  ASSUME Remembers, UNCHANGED <<store, level, obs>>, Digest
  PROVE  Remembers'
<1>1. sel' = Chosen /\ todo' = {} /\ pc' = "summarise" /\ level' = level
  BY DEF Digest, Go
<1>2. /\ Chosen \subseteq live
      /\ level = "current" => Told(Chosen) \subseteq FactsOf(Below(Current))
  BY ChosenIsThere DEF Remembers
<1>3. FoldTells'
  BY <1>1, <1>2 DEF FoldTells
<1> QED BY <1>1, <1>2, <1>3, QuietCompaction

\* A level with nothing to select goes on to the next.
LEMMA AfterLevelGoes ==
  ASSUME NEW stopping \in BOOLEAN, AfterLevel(stopping)
  PROVE  pc' \in {"idle", "capsules", "check"}
  BY DEF AfterLevel, Go

\* Selecting writes nothing.
LEMMA SelectStep ==
  ASSUME Remembers, Select
  PROVE  Remembers'
<1> DEFINE pictured == {r \in Chosen : Pictured(r)}
<1>0. UNCHANGED <<store, level, obs>>
  BY DEF Select
<1>1. \/ AfterLevel(FALSE) /\ UNCHANGED <<sel, todo>>
      \/ Digest
      \/ todo' = pictured /\ Go("rewrite") /\ UNCHANGED sel
  BY DEF Select
<1>2. CASE AfterLevel(FALSE) /\ UNCHANGED <<sel, todo>>
  <2>1. FoldTells'
    BY <1>2, AfterLevelGoes, NothingToTell
  <2> QED BY <1>0, <1>2, <2>1, QuietCompaction
<1>3. CASE Digest
  BY <1>0, <1>3, DigestStep
<1>4. CASE todo' = pictured /\ Go("rewrite") /\ UNCHANGED sel
  <2>1. FoldTells'
    BY <1>4, NothingToTell DEF Go
  <2>2. Chosen \subseteq live
    BY ChosenIsThere DEF Remembers
  <2> QED BY <1>0, <1>4, <2>1, <2>2, QuietCompaction
<1> QED BY <1>1, <1>2, <1>3, <1>4

\* Nor does selecting again.
LEMMA ReselectStep ==
  ASSUME Remembers, Reselect
  PROVE  Remembers'
<1>0. UNCHANGED <<store, level, obs>>
  BY DEF Reselect
<1>1. \/ AfterLevel(FALSE) /\ UNCHANGED <<sel, todo>>
      \/ Digest
  BY DEF Reselect
<1>2. CASE AfterLevel(FALSE) /\ UNCHANGED <<sel, todo>>
  <2>1. FoldTells'
    BY <1>2, AfterLevelGoes, NothingToTell
  <2> QED BY <1>0, <1>2, <2>1, QuietCompaction
<1>3. CASE Digest
  BY <1>0, <1>3, DigestStep
<1> QED BY <1>1, <1>2, <1>3

\* The digest tells what was selected, under the next number.
LEMMA TakeGuardsStep ==
  ASSUME Remembers, TakeGuards
  PROVE  Remembers'
<1>0. /\ UNCHANGED <<store, obs>> /\ pc' = "fold" /\ sel' = sel /\ todo' = todo
      /\ new' = {DigestRecord}
  BY DEF TakeGuards, Go
<1>1. /\ DigestRecord.kind = "digest" /\ DigestRecord.task = 0 /\ DigestRecord.tells = Told(sel)
      /\ DigestRecord.id = Id("digest", 0, Cardinality(Named("digest")), 0)
  BY DEF DigestRecord, Record, Named
<1>2. Named("digest")' = Named("digest")
  BY <1>0 DEF Named, KnownIds, Ids, store
<1>3. FoldTells'
  BY <1>0, <1>1, <1>2 DEF FoldTells
<1> QED BY <1>0, <1>3, QuietCompaction

\* A capsule whose closing slot tells its task may stand for the tree of it.
LEMMA TakeCapsuleStep ==
  ASSUME Remembers, TakeCapsule
  PROVE  Remembers'
<1> PICK t : t = Min(queue)
  OBVIOUS
<1> DEFINE tree == Descendants(Parents(live), {t})
           closing == ReportIn(live, t)
<1>0. UNCHANGED <<store, obs>> /\ todo' = todo
  BY DEF TakeCapsule
<1>1. \/ GoOrStop("capsule") /\ UNCHANGED <<sel, new>>
      \/ /\ closing # {} /\ sel' = {r \in live : r.task \in tree}
         /\ new' = {Record(Id("demote", t, r.id[3], IF r.id[1] = "report" THEN 1 ELSE 0),
                           "lean", t, r.tells) : r \in closing}
         /\ pc' = "lean"
  BY DEF TakeCapsule, Go
<1>2. \A r \in closing : r \in live /\ r.task = t /\ r.kind = "finish" /\ r.tells # {}
  BY DEF ReportIn
<1>3. t \in tree
  BY DEF Descendants
<1> HIDE DEF closing
<1>4. CASE GoOrStop("capsule") /\ UNCHANGED <<sel, new>>
  <2>1. FoldTells'
    BY <1>4, NothingToTell DEF GoOrStop, Go
  <2> QED BY <1>0, <1>4, <2>1, QuietCompaction
<1>5. CASE /\ closing # {} /\ sel' = {r \in live : r.task \in tree}
           /\ new' = {Record(Id("demote", t, r.id[3], IF r.id[1] = "report" THEN 1 ELSE 0),
                             "lean", t, r.tells) : r \in closing}
           /\ pc' = "lean"
  <2>0. RecordsShaped /\ IdsAccounted
    BY DEF Remembers
  <2>1. t \in Tasks
    BY <1>2, <1>5, <2>0 DEF RecordsShaped, Shaped
  <2>2. tree \subseteq Below(t) /\ Below(t) \subseteq Tasks
    <3>1. \A r \in live : r.kind \in {"recap", "finish", "lean"} => r.task \in Tasks
      BY <2>0 DEF RecordsShaped, Shaped
    <3> QED BY <2>1, <3>1, TreeIsBelow, BelowFacts
  <2> HIDE DEF tree
  <2>3. Told(sel') \subseteq FactsOf(Below(t))
    <3> SUFFICES ASSUME NEW r \in live, r.task \in tree PROVE r.tells \subseteq FactsOf(Below(t))
      BY <1>5 DEF Told
    <3>1. r.task \in Below(t) /\ r.task # 0
      BY <2>2, MemoryAssumption
    <3>2. r.tells \subseteq FactsOf(Below(r.task))
      BY <2>0, <3>1 DEF RecordsShaped, Shaped
    <3> QED BY <2>1, <3>1, <3>2, FactsOfTree
  <2>4. ASSUME NEW r \in closing
        PROVE  /\ r.tells = FactsOf(Below(t)) /\ ~Due(t)
               /\ \E origin \in {"close", "report"} : r.id = Id(origin, t, 1, 0)
    <3>1. r \in live /\ r.task = t /\ r.kind = "finish" /\ r.tells # {}
      BY <1>2
    <3>2. Shaped(r)
      BY <2>0, <3>1 DEF RecordsShaped
    <3>3. r.tells = FactsOf(Below(t))
      BY <3>1, <3>2 DEF Shaped, IsClosing
    <3>4. \E origin \in {"close", "report"} : r.id = Id(origin, t, 1, 0)
      BY <3>1, <3>2 DEF Shaped
    <3>5. ~Due(t)
      BY <2>1, <3>1 DEF Remembers, Observed
    <3> QED BY <3>3, <3>4, <3>5
  <2>5. KnownIds' = KnownIds /\ ~Due(t)' /\ new' # {}
    BY <1>0, <1>5, <2>4 DEF store, KnownIds, Ids, Due
  <2>6. ASSUME NEW n \in new'
        PROVE  /\ n.task = t
               /\ \E origin \in {"close", "report"} :
                    /\ n = Record(Id("demote", t, 1, IF origin = "report" THEN 1 ELSE 0), "lean",
                                  t, FactsOf(Below(t)))
                    /\ n.id \notin KnownIds /\ Id(origin, t, 1, 0) \in Ids(sel')
               /\ n.tells = FactsOf(Below(t))
    <3>1. PICK r \in closing :
            n = Record(Id("demote", t, r.id[3], IF r.id[1] = "report" THEN 1 ELSE 0),
                       "lean", t, r.tells)
      BY <1>5
    <3>2. PICK origin \in {"close", "report"} : r.id = Id(origin, t, 1, 0)
      BY <2>4
    <3>3. r.id[3] = 1 /\ r.id[1] = origin
      BY <3>2 DEF Id
    <3>4. n = Record(Id("demote", t, 1, IF origin = "report" THEN 1 ELSE 0), "lean",
                     t, FactsOf(Below(t)))
      BY <2>4, <3>1, <3>3
    <3>5. /\ n.task = t /\ n.tells = FactsOf(Below(t))
          /\ n.id = Id("demote", t, 1, IF origin = "report" THEN 1 ELSE 0)
      BY <3>4 DEF Record
    <3>6. r \in live /\ r.task = t
      BY <1>2
    <3>7. Id(origin, t, 1, 0) \in Ids(sel')
      BY <1>3, <1>5, <3>2, <3>6 DEF Ids
    <3>8. Id(origin, t, 1, 0) \notin gone
      BY <2>0, <3>2, <3>6 DEF IdsAccounted, Ids
    <3>9. n.id \notin KnownIds
      BY <2>0, <2>1, <3>5, <3>8 DEF IdsAccounted
    <3> QED BY <3>4, <3>5, <3>7, <3>9
  <2>7. FoldTells'
    <3>1. \A n \in new' : /\ n.task \in Tasks /\ ~Due(n.task)'
                          /\ Told(sel') \subseteq n.tells
      BY <2>1, <2>3, <2>5, <2>6
    <3>2. \A n \in new' : \E origin \in {"close", "report"} :
            /\ n = Record(Id("demote", n.task, 1, IF origin = "report" THEN 1 ELSE 0), "lean",
                          n.task, FactsOf(Below(n.task)))
            /\ n.id \notin KnownIds' /\ Id(origin, n.task, 1, 0) \in Ids(sel')
      BY <2>5, <2>6
    <3> QED BY <1>5, <2>5, <3>1, <3>2 DEF FoldTells
  <2> QED BY <1>0, <1>5, <2>7, QuietCompaction
<1> QED BY <1>1, <1>4, <1>5

\* Rewriting a picture gives its record another id and the same text.
LEMMA PlainIs ==
  ASSUME NEW r, Shaped(r), r.kind = "raw", r.id[4] = 0
  PROVE  /\ Shaped(Plain(r)) /\ Plain(r).id[1] = "raw" /\ Plain(r).tells = r.tells
         /\ Plain(r).kind = "raw"
         /\ \E t \in Tasks : \E n \in 1 .. Turns[t] :
              r.id = Id("raw", t, n, 0) /\ Plain(r).id = Id("raw", t, n, 1)
<1>1. PICK t \in Tasks : \E n \in 1 .. Turns[t] : \E v \in {0, 1} :
        r = Record(Id("raw", t, n, v), "raw", t, {<<t, n>>})
  BY DEF Shaped
<1>2. PICK n \in 1 .. Turns[t], v \in {0, 1} :
        r = Record(Id("raw", t, n, v), "raw", t, {<<t, n>>})
  BY <1>1
<1>3. v = 0
  BY <1>2 DEF Record, Id
<1>4. r.id = <<"raw", t, n, 0>>
  BY <1>2, <1>3 DEF Record, Id
<1>5. [r.id EXCEPT ![4] = 1] = <<"raw", t, n, 1>>
  BY <1>4
<1>6. Plain(r) = [r EXCEPT !.id = [r.id EXCEPT ![4] = 1]]
  BY <1>2 DEF Plain, Record
<1>7. Plain(r) = Record(Id("raw", t, n, 1), "raw", t, {<<t, n>>})
  BY <1>2, <1>5, <1>6 DEF Record, Id
<1> DEFINE p == Plain(r)
<1>8. /\ p.id = Id("raw", t, n, 1) /\ p.kind = "raw" /\ p.task = t /\ p.tells = {<<t, n>>}
      /\ p.id[1] = "raw"
  BY <1>7 DEF Record, Id
<1>9. Shaped(p)
  <2>1. {<<t, n>>} \subseteq FactsOf(Below(t))
    BY FactsOfTree DEF Facts
  <2> HIDE DEF p
  <2> QED BY <1>7, <1>8, <2>1 DEF p, Shaped, IsClosing
<1>10. r.tells = {<<t, n>>} /\ r.id = Id("raw", t, n, 0)
  BY <1>2, <1>3 DEF Record
<1> QED BY <1>8, <1>9, <1>10

\* So nothing is lost by it, and no id is used again.
LEMMA RewriteStep ==
  ASSUME Remembers, RewritePictures, UNCHANGED <<sel, obs>>, todo' = {},
         pc' \notin {"summarise", "fold", "lean"}
  PROVE  Remembers'
<1> DEFINE records == {Plain(r) : r \in todo}
<1>0. FoldIn(Ids(todo), records)
  BY DEF RewritePictures
<1>1. IdsAccounted /\ RecordsShaped /\ TextsAgree /\ Numbered
  BY DEF Remembers
<1>2. ASSUME NEW r \in todo
      PROVE  /\ Shaped(Plain(r)) /\ Plain(r).id[1] = "raw" /\ Plain(r).tells = r.tells
             /\ Plain(r).kind = "raw"
             /\ \E t \in Tasks : \E n \in 1 .. Turns[t] :
                  r.id = Id("raw", t, n, 0) /\ Plain(r).id = Id("raw", t, n, 1)
  BY <1>1, PlainIs DEF RecordsShaped
<1>3. \A p \in records : Shaped(p) /\ p.id[1] = "raw" /\ p.kind = "raw"
  BY <1>2
<1>4. /\ KnownIds' = KnownIds \cup Ids(records)
      /\ gone \subseteq gone' /\ Ids(todo) \cap KnownIds \subseteq gone'
      /\ gone' \cap Ids(live') = {}
  BY <1>0, <1>1, FoldEffect
<1>5. ASSUME NEW s \in live, s.id \in Ids(todo)
      PROVE  s.kind = "raw" /\ s.tells \subseteq Told(live')
  <2>1. PICK r \in todo : r.id = s.id
    BY <1>5 DEF Ids
  <2>0. PICK t \in Tasks : \E n \in 1 .. Turns[t] :
          r.id = Id("raw", t, n, 0) /\ Plain(r).id = Id("raw", t, n, 1)
    BY <1>2
  <2>2. PICK n \in 1 .. Turns[t] :
          r.id = Id("raw", t, n, 0) /\ Plain(r).id = Id("raw", t, n, 1)
    BY <2>0
  <2>3. Plain(r).id \notin KnownIds
    BY <1>1, <2>1, <2>2 DEF IdsAccounted, Ids
  <2>4. Plain(r) \in live'
    BY <1>0, <1>1, <2>3, FoldEffect
  <2>5. r.id[1] = "raw" /\ Shaped(r) /\ Shaped(s)
    BY <1>1, <2>2 DEF RecordsShaped, Id
  <2>6. s.kind = "raw" /\ s.tells = {<<s.id[2], s.id[3]>>} /\ r.tells = {<<r.id[2], r.id[3]>>}
    BY <2>1, <2>5, RawTells
  <2>7. s.tells = Plain(r).tells
    BY <1>2, <2>1, <2>6
  <2> QED BY <2>4, <2>6, <2>7 DEF Told
<1> HIDE DEF records
<1>6. Told(live) \subseteq Told(live') /\ Told(Aloud) \subseteq Told(Aloud')
  <2>1. \A s \in Aloud : s.id \in Ids(todo) => s.tells \subseteq Told(Aloud')
    BY <1>5 DEF Aloud
  <2> QED BY <1>0, <1>1, <1>5, <2>1, FoldTellsStill, FoldTellsAloud
<1>7. OneText(records)
  BY <1>3, RawTells DEF OneText
<1>8. TextsAgree'
  <2>1. OneText(live' \cup sel)
    BY <1>0, <1>1, <1>7, FoldTexts
  <2> QED BY <2>1 DEF TextsAgree
<1>9. IdsAccounted'
  <2>1. Ids(sel') \subseteq KnownIds' /\ Ids(todo') \subseteq KnownIds'
    BY <1>1, <1>4 DEF IdsAccounted, Ids
  <2>2. \A i \in Ids(records) : i[1] = "raw"
    BY <1>3 DEF Ids
  <2>3. ASSUME NEW t \in Tasks, NEW n \in 1 .. Turns[t], Id("raw", t, n, 1) \in KnownIds'
        PROVE  Id("raw", t, n, 0) \in gone'
    <3>1. CASE Id("raw", t, n, 1) \in KnownIds
      BY <1>1, <1>4, <3>1 DEF IdsAccounted
    <3>2. CASE Id("raw", t, n, 1) \in Ids(records)
      <4>1. PICK r \in todo : Plain(r).id = Id("raw", t, n, 1)
        BY <3>2 DEF Ids, records
      <4>0. PICK u \in Tasks : \E m \in 1 .. Turns[u] :
              r.id = Id("raw", u, m, 0) /\ Plain(r).id = Id("raw", u, m, 1)
        BY <1>2
      <4>2. PICK m \in 1 .. Turns[u] :
              r.id = Id("raw", u, m, 0) /\ Plain(r).id = Id("raw", u, m, 1)
        BY <4>0
      <4>3. u = t /\ m = n
        BY <4>1, <4>2 DEF Id
      <4>4. r.id \in Ids(todo) /\ Ids(todo) \subseteq KnownIds
        BY <1>1 DEF IdsAccounted, Ids
      <4> QED BY <1>4, <4>2, <4>3, <4>4
    <3> QED BY <1>4, <2>3, <3>1, <3>2
  <2>4. ASSUME NEW t \in Tasks
        PROVE  /\ Id("demote", t, 1, 1) \in KnownIds' => Id("report", t, 1, 0) \in gone'
               /\ Id("demote", t, 1, 0) \in KnownIds' => Id("close", t, 1, 0) \in gone'
    <3>1. \A v : Id("demote", t, 1, v) \notin Ids(records)
      BY <2>2 DEF Id
    <3> QED BY <1>1, <1>4, <3>1 DEF IdsAccounted
  <2> QED BY <1>4, <2>1, <2>3, <2>4 DEF IdsAccounted
<1>10. Numbered'
  <2>1. \A r \in records : r.id[1] \notin {"digest", "collapsed"}
    BY <1>3
  <2> QED BY <1>0, <1>1, <2>1, FoldNumbers
<1>11. FoldTells'
  BY NothingToTell
<1> QED BY <1>0, <1>3, <1>6, <1>8, <1>9, <1>10, <1>11, CompactionStep

\* Before the levels and within one, pictures are rewritten.
LEMMA PicturesStep ==
  ASSUME Remembers, DemotePictures \/ Rewrite
  PROVE  Remembers'
<1>1. RewritePictures /\ UNCHANGED <<sel, obs>> /\ todo' = {}
  BY DEF DemotePictures, Rewrite
<1>2. pc' \notin {"summarise", "fold", "lean"}
  BY DEF DemotePictures, Rewrite, GoOrStop, Go
<1> QED BY <1>1, <1>2, RewriteStep

\* A record that tells all that was selected makes up for what is folded into it.
LEMMA SelectionTold ==
  ASSUME Remembers, NEW records, FoldIn(Ids(sel), records),
         NEW n \in records, n.id \notin KnownIds, n.kind # "raw", Told(sel) \subseteq n.tells
  PROVE  Told(live) \subseteq Told(live') /\ Told(Aloud) \subseteq Told(Aloud')
<1>1. IdsAccounted /\ TextsAgree
  BY DEF Remembers
<1>2. n \in live' /\ n \in Aloud'
  BY <1>1, FoldEffect DEF Aloud
<1>3. ASSUME NEW s \in live, s.id \in Ids(sel) PROVE s.tells \subseteq n.tells
  <2>1. PICK r \in sel : r.id = s.id
    BY <1>3 DEF Ids
  <2>2. r.tells = s.tells
    BY <1>1, <2>1 DEF TextsAgree, OneText
  <2> QED BY <2>2 DEF Told
<1>4. \A s \in live : s.id \in Ids(sel) => s.tells \subseteq Told(live')
  BY <1>2, <1>3 DEF Told
<1>5. \A s \in Aloud : s.id \in Ids(sel) => s.tells \subseteq Told(Aloud')
  BY <1>2, <1>3 DEF Told, Aloud
<1> QED BY <1>1, <1>4, <1>5, FoldTellsStill, FoldTellsAloud

\* One more id under the next number.
LEMMA NextNumber ==
  ASSUME NEW S, IsFiniteSet(S), NEW i, i \notin S, NEW k \in {3, 4},
         \A j \in S : j[k] \in Nat /\ j[k] < Cardinality(S), i[k] = Cardinality(S)
  PROVE  /\ IsFiniteSet(S \cup {i})
         /\ \A j \in S \cup {i} : j[k] \in Nat /\ j[k] < Cardinality(S \cup {i})
<1>1. IsFiniteSet(S \cup {i}) /\ Cardinality(S \cup {i}) = Cardinality(S) + 1
  BY FS_AddElement
<1>2. Cardinality(S) \in Nat
  BY FS_CardinalityType
<1>3. ASSUME NEW j \in S \cup {i} PROVE j[k] \in Nat /\ j[k] < Cardinality(S) + 1
  <2>1. CASE j = i
    BY <1>2, <2>1
  <2>2. CASE j \in S
    <3> DEFINE m == j[k]
               c == Cardinality(S)
    <3>1. m \in Nat /\ m < c /\ c \in Nat
      BY <1>2, <2>2
    <3> HIDE DEF m, c
    <3>2. m < c + 1
      BY <3>1
    <3> QED BY <3>1, <3>2 DEF m, c
  <2> QED BY <2>1, <2>2
<1> QED BY <1>1, <1>3

\* The current task is collapsed into a prompt that tells what it replaces.
LEMMA CollapseStep ==
  ASSUME Remembers, Collapse
  PROVE  Remembers'
<1> PICK k : k = Cardinality(Named("collapsed"))
  OBVIOUS
<1> DEFINE c == Record(Id("collapsed", Current, 0, k), "collapsed", Current, Told(sel))
<1>0. /\ FoldIn(Ids(sel), {c}) /\ UNCHANGED <<todo, obs>> /\ sel' = {} /\ pc' = "idle"
      /\ pc = "summarise" /\ level = "current"
  BY DEF Collapse, Finish, Go, Named
<1>1. /\ c.kind = "collapsed" /\ c.task = Current /\ c.tells = Told(sel)
      /\ c.id = Id("collapsed", Current, 0, k)
  BY DEF Record
<1>2. c.id[1] = "collapsed" /\ c.id[4] = k
  BY <1>1 DEF Id
<1> HIDE DEF c
<1>3. IdsAccounted /\ RecordsShaped /\ TextsAgree /\ Numbered
  BY DEF Remembers
<1>4. Shaped(c)
  <2>1. Told(sel) \subseteq FactsOf(Below(Current))
    BY <1>0 DEF Remembers, FoldTells
  <2>2. Current \in Tasks
    BY MemoryAssumption
  <2> QED BY <1>1, <1>2, <2>1, <2>2 DEF Shaped, IsClosing
<1>5. c.id \notin KnownIds
  <2> SUFFICES ASSUME c.id \in KnownIds PROVE FALSE
    OBVIOUS
  <2>1. c.id \in Named("collapsed")
    BY <1>2 DEF Named
  <2>2. k \in Nat /\ k < k
    BY <1>2, <1>3, <2>1 DEF Numbered
  <2> QED BY <2>2
<1>6. Told(live) \subseteq Told(live') /\ Told(Aloud) \subseteq Told(Aloud')
  BY <1>0, <1>1, <1>5, SelectionTold
<1>7. KnownIds' = KnownIds \cup {c.id}
  <2>1. Ids({c}) = {c.id}
    BY DEF Ids
  <2> QED BY <1>0, <1>3, <2>1, FoldEffect
<1>8. Numbered'
  <2>1. Named("digest")' = Named("digest") /\ Named("collapsed")' = Named("collapsed") \cup {c.id}
    BY <1>2, <1>7 DEF Named
  <2>2. c.id \notin Named("collapsed")
    BY <1>5 DEF Named
  <2> DEFINE S == Named("collapsed")
  <2>3. /\ IsFiniteSet(S) /\ c.id \notin S /\ c.id[4] = Cardinality(S)
        /\ \A i \in S : i[4] \in Nat /\ i[4] < Cardinality(S)
    BY <1>2, <1>3, <2>2 DEF Numbered
  <2> HIDE DEF S
  <2>4. /\ IsFiniteSet(S \cup {c.id})
        /\ \A i \in S \cup {c.id} : i[4] \in Nat /\ i[4] < Cardinality(S \cup {c.id})
    BY <2>3, NextNumber
  <2> QED BY <1>3, <2>1, <2>4 DEF Numbered, S
<1>9. TextsAgree'
  <2>1. OneText({c})
    BY DEF OneText
  <2>2. OneText(live' \cup sel)
    BY <1>0, <1>3, <2>1, FoldTexts
  <2> QED BY <1>0, <2>2 DEF TextsAgree, OneText
<1>10. IdsAccounted'
  <2>1. Ids(sel') \subseteq KnownIds' /\ Ids(todo') \subseteq KnownIds'
    BY <1>0, <1>3, <1>7 DEF IdsAccounted, Ids
  <2> QED BY <1>0, <1>2, <1>3, <2>1, FoldAccounts
<1>11. FoldTells'
  BY <1>0, NothingToTell
<1>12. \A r \in todo' : Shaped(r) /\ r.kind = "raw" /\ r.id[4] = 0
  BY <1>0, <1>3 DEF RecordsShaped
<1> QED BY <1>0, <1>1, <1>2, <1>4, <1>6, <1>8, <1>9, <1>10, <1>11, <1>12, CompactionStep

\* The id of the next digest has not been written.
LEMMA NextDigestNew ==
  ASSUME Numbered
  PROVE  Id("digest", 0, Cardinality(Named("digest")), 0) \notin KnownIds
<1> PICK k : k = Cardinality(Named("digest"))
  OBVIOUS
<1> PICK d : d = Id("digest", 0, k, 0)
  OBVIOUS
<1>1. d[1] = "digest" /\ d[3] = k
  BY DEF Id
<1> SUFFICES ASSUME d \in KnownIds PROVE FALSE
  OBVIOUS
<1>2. d \in Named("digest")
  BY <1>1 DEF Named
<1>3. k \in Nat /\ k < k
  BY <1>1, <1>2 DEF Numbered
<1> QED BY <1>3

\* The digest takes the place of what its author read, and of nothing else.
LEMMA FoldHistoryStep ==
  ASSUME Remembers, FoldHistory
  PROVE  Remembers'
<1> PICK k : k = Cardinality(Named("digest"))
  OBVIOUS
<1> PICK d : d = Id("digest", 0, k, 0)
  OBVIOUS
<1>0. /\ FoldIn(Ids(sel), new) /\ UNCHANGED <<todo, obs>> /\ sel' = {} /\ pc = "fold"
      /\ pc' \in {"idle", "capsules", "check"}
  BY AfterLevelGoes DEF FoldHistory, Go
<1>1. /\ new # {}
      /\ \A n \in new : n.kind = "digest" /\ n.task = 0 /\ n.tells = Told(sel) /\ n.id = d
  BY <1>0 DEF Remembers, FoldTells
<1>2. d[1] = "digest" /\ d[3] = k
  BY DEF Id
<1>3. IdsAccounted /\ RecordsShaped /\ TextsAgree /\ Numbered
  BY DEF Remembers
<1>4. \A n \in new : Shaped(n) /\ n.id[1] = "digest"
  BY <1>1, <1>2 DEF Shaped, IsClosing
<1>5. d \notin KnownIds
  BY <1>3, NextDigestNew
<1>6. Told(live) \subseteq Told(live') /\ Told(Aloud) \subseteq Told(Aloud')
  <2>1. PICK n \in new : n.id \notin KnownIds /\ n.kind # "raw" /\ Told(sel) \subseteq n.tells
    BY <1>1, <1>5
  <2> QED BY <1>0, <2>1, SelectionTold
<1>7. KnownIds' = KnownIds \cup {d}
  <2>1. Ids(new) = {d}
    BY <1>1 DEF Ids
  <2> QED BY <1>0, <1>3, <2>1, FoldEffect
<1>8. Numbered'
  <2>1. Named("collapsed")' = Named("collapsed") /\ Named("digest")' = Named("digest") \cup {d}
    BY <1>2, <1>7 DEF Named
  <2>2. d \notin Named("digest")
    BY <1>5 DEF Named
  <2> DEFINE S == Named("digest")
  <2>3. /\ IsFiniteSet(S) /\ d \notin S /\ d[3] = Cardinality(S)
        /\ \A i \in S : i[3] \in Nat /\ i[3] < Cardinality(S)
    BY <1>2, <1>3, <2>2 DEF Numbered
  <2> HIDE DEF S
  <2>4. /\ IsFiniteSet(S \cup {d})
        /\ \A i \in S \cup {d} : i[3] \in Nat /\ i[3] < Cardinality(S \cup {d})
    BY <2>3, NextNumber
  <2> QED BY <1>3, <2>1, <2>4 DEF Numbered, S
<1>9. TextsAgree'
  <2>1. OneText(new)
    BY <1>1 DEF OneText
  <2>2. OneText(live' \cup sel)
    BY <1>0, <1>3, <2>1, FoldTexts
  <2> QED BY <1>0, <2>2 DEF TextsAgree, OneText
<1>10. IdsAccounted'
  <2>1. Ids(sel') \subseteq KnownIds' /\ Ids(todo') \subseteq KnownIds'
    BY <1>0, <1>3, <1>7 DEF IdsAccounted, Ids
  <2> QED BY <1>0, <1>3, <1>4, <2>1, FoldAccounts
<1>11. FoldTells'
  BY <1>0, NothingToTell
<1>12. \A r \in todo' : Shaped(r) /\ r.kind = "raw" /\ r.id[4] = 0
  BY <1>0, <1>3 DEF RecordsShaped
<1> QED BY <1>0, <1>1, <1>4, <1>6, <1>8, <1>9, <1>10, <1>11, <1>12, CompactionStep

\* A capsule reduced to its report tells the tree it stood for.
LEMMA MakeLeanStep ==
  ASSUME Remembers, MakeLean
  PROVE  Remembers'
<1>0. /\ FoldIn(Ids(sel), new) /\ UNCHANGED <<todo, obs>> /\ sel' = {} /\ pc = "lean"
      /\ pc' \in {"idle", "capsule"}
  BY DEF MakeLean, GoOrStop, Go
<1>1. IdsAccounted /\ RecordsShaped /\ TextsAgree /\ Numbered
  BY DEF Remembers
<1>2. new # {} /\ \A n \in new : n.task \in Tasks /\ ~Due(n.task) /\ Told(sel) \subseteq n.tells
  BY <1>0 DEF Remembers, FoldTells
<1>3. ASSUME NEW n \in new
      PROVE  /\ Shaped(n) /\ n.id[1] = "demote" /\ n.kind = "lean" /\ n.id \notin KnownIds
             /\ n.id[2] = n.task /\ n.tells = FactsOf(Below(n.task))
             /\ \/ /\ n.id = Id("demote", n.task, 1, 1)
                   /\ Id("report", n.task, 1, 0) \in Ids(sel)
                \/ /\ n.id = Id("demote", n.task, 1, 0)
                   /\ Id("close", n.task, 1, 0) \in Ids(sel)
  <2>1. PICK origin \in {"close", "report"} :
            /\ n = Record(Id("demote", n.task, 1, IF origin = "report" THEN 1 ELSE 0), "lean",
                          n.task, FactsOf(Below(n.task)))
            /\ n.id \notin KnownIds /\ Id(origin, n.task, 1, 0) \in Ids(sel)
    BY <1>0 DEF Remembers, FoldTells
  <2>2. PICK t : t = n.task
    OBVIOUS
  <2>3. PICK v : v = IF origin = "report" THEN 1 ELSE 0
    OBVIOUS
  <2>4. n = Record(Id("demote", t, 1, v), "lean", t, FactsOf(Below(t))) /\ t \in Tasks
    BY <1>2, <2>1, <2>2, <2>3
  <2>5. /\ Shaped(n) /\ n.id = Id("demote", t, 1, v) /\ n.id[1] = "demote" /\ n.id[2] = t
        /\ n.kind = "lean" /\ n.tells = FactsOf(Below(t))
    BY <2>4, LeanShaped
  <2> QED BY <2>1, <2>2, <2>3, <2>5
<1>4. Told(live) \subseteq Told(live') /\ Told(Aloud) \subseteq Told(Aloud')
  <2>1. PICK n \in new : n.id \notin KnownIds /\ n.kind # "raw" /\ Told(sel) \subseteq n.tells
    BY <1>2, <1>3
  <2> QED BY <1>0, <2>1, SelectionTold
<1>5. /\ KnownIds' = KnownIds \cup Ids(new)
      /\ gone \subseteq gone' /\ Ids(sel) \cap KnownIds \subseteq gone'
      /\ gone' \cap Ids(live') = {}
  BY <1>0, <1>1, FoldEffect
<1>6. IdsAccounted'
  <2>1. Ids(sel') \subseteq KnownIds' /\ Ids(todo') \subseteq KnownIds'
    BY <1>0, <1>1, <1>5 DEF IdsAccounted, Ids
  <2>2. \A i \in Ids(new) : i[1] = "demote"
    BY <1>3 DEF Ids
  <2>3. ASSUME NEW t \in Tasks, NEW n \in 1 .. Turns[t], Id("raw", t, n, 1) \in KnownIds'
        PROVE  Id("raw", t, n, 0) \in gone'
    <3>1. Id("raw", t, n, 1) \notin Ids(new)
      BY <2>2 DEF Id
    <3> QED BY <1>1, <1>5, <2>3, <3>1 DEF IdsAccounted
  <2>4. ASSUME NEW t \in Tasks, Id("demote", t, 1, 1) \in Ids(new)
        PROVE  Id("report", t, 1, 0) \in gone'
    <3>1. PICK n \in new : n.id = Id("demote", t, 1, 1)
      BY <2>4 DEF Ids
    <3>2. n.task = t /\ n.id # Id("demote", n.task, 1, 0)
      <4>1. n.id[2] = t /\ n.id[4] = 1
        BY <3>1, IdParts
      <4>2. Id("demote", n.task, 1, 0)[4] = 0
        BY IdParts
      <4> QED BY <1>3, <4>1, <4>2
    <3>3. Id("report", t, 1, 0) \in Ids(sel)
      BY <1>3, <3>2
    <3> QED BY <1>1, <1>5, <3>3 DEF IdsAccounted
  <2>5. ASSUME NEW t \in Tasks, Id("demote", t, 1, 0) \in Ids(new)
        PROVE  Id("close", t, 1, 0) \in gone'
    <3>1. PICK n \in new : n.id = Id("demote", t, 1, 0)
      BY <2>5 DEF Ids
    <3>2. n.task = t /\ n.id # Id("demote", n.task, 1, 1)
      <4>1. n.id[2] = t /\ n.id[4] = 0
        BY <3>1, IdParts
      <4>2. Id("demote", n.task, 1, 1)[4] = 1
        BY IdParts
      <4> QED BY <1>3, <4>1, <4>2
    <3>3. Id("close", t, 1, 0) \in Ids(sel)
      BY <1>3, <3>2
    <3> QED BY <1>1, <1>5, <3>3 DEF IdsAccounted
  <2>6. ASSUME NEW t \in Tasks
        PROVE  /\ Id("demote", t, 1, 1) \in KnownIds' => Id("report", t, 1, 0) \in gone'
               /\ Id("demote", t, 1, 0) \in KnownIds' => Id("close", t, 1, 0) \in gone'
    BY <1>1, <1>5, <2>4, <2>5 DEF IdsAccounted
  <2> QED BY <1>5, <2>1, <2>3, <2>6 DEF IdsAccounted
<1>7. Numbered'
  <2>1. \A r \in new : r.id[1] \notin {"digest", "collapsed"}
    BY <1>3
  <2> QED BY <1>0, <1>1, <2>1, FoldNumbers
<1>8. TextsAgree'
  <2>1. OneText(new)
    BY <1>3 DEF OneText
  <2>2. OneText(live' \cup sel)
    BY <1>0, <1>1, <2>1, FoldTexts
  <2> QED BY <1>0, <2>2 DEF TextsAgree, OneText
<1>9. FoldTells'
  BY <1>0, NothingToTell
<1>10. \A r \in todo' : Shaped(r) /\ r.kind = "raw" /\ r.id[4] = 0
  BY <1>0, <1>1 DEF RecordsShaped
<1> QED BY <1>0, <1>2, <1>3, <1>4, <1>6, <1>7, <1>8, <1>9, <1>10, CompactionStep

(* --------------------------- crashes and the start -------------------------- *)

\* An observer that was asked for starts again; none has left a report unmarked.
LEMMA CrashStep ==
  ASSUME Remembers, Crash, ~Reapplied
  PROVE  Remembers'
<1> USE DEF Remembers
<1>0. /\ UNCHANGED store /\ pc' = "idle" /\ sel' = {} /\ todo' = {}
      /\ obs' = [t \in Tasks |-> IF obs[t].pc = "done" THEN obs[t]
                                 ELSE [obs[t] EXCEPT !.pc = "due", !.ids = {}]]
      /\ \A t \in Tasks : ~(obs[t].kind = "report" /\ obs[t].pc = "shedding")
  BY DEF Crash
<1>1. FoldIn({}, {})
  BY <1>0, QuietFold
<1>2. live' = live /\ gone' = gone /\ KnownIds' = KnownIds /\ Aloud' = Aloud
  BY <1>0 DEF store, KnownIds, Ids, Aloud
<1>3. ASSUME NEW t \in Tasks
      PROVE  /\ obs'[t] \in Observers /\ obs'[t].kind = obs[t].kind
             /\ \/ obs'[t] = obs[t] /\ obs[t].pc = "done"
                \/ obs'[t].pc = "due" /\ obs'[t].ids = {} /\ obs[t].pc # "done"
  <2>1. obs[t] \in Observers
    BY DEF ObserversTyped
  <2>2. CASE obs[t].pc = "done"
    <3>1. obs'[t] = obs[t]
      BY <1>0, <2>2
    <3> QED BY <2>1, <2>2, <3>1
  <2>3. CASE obs[t].pc # "done"
    <3>1. obs'[t] = [obs[t] EXCEPT !.pc = "due", !.ids = {}]
      BY <1>0, <2>3
    <3> QED BY <2>1, <2>3, <3>1 DEF Observers
  <2> QED BY <2>2, <2>3
<1>4. ObserversTyped'
  <2>1. Observers' = Observers
    BY <1>2 DEF Observers
  <2>2. obs' = [t \in Tasks |-> obs'[t]]
    BY <1>0
  <2>3. obs' \in [Tasks -> Observers]
    BY <1>3, <2>2
  <2> QED BY <2>1, <2>3 DEF ObserversTyped
<1>5. RecordsShaped' /\ TextsAgree'
  <2>1. RecordsShaped'
    BY <1>0, <1>2 DEF RecordsShaped
  <2>2. live' \cup sel' \subseteq live \cup sel
    BY <1>0, <1>2
  <2>3. TextsAgree'
    BY <2>2 DEF TextsAgree, OneText
  <2> QED BY <2>1, <2>3
<1>6. IdsAccounted'
  <2>1. Ids(sel') \subseteq KnownIds' /\ Ids(todo') \subseteq KnownIds'
    BY <1>0 DEF Ids
  <2> QED BY <1>1, <2>1, FoldAccounts
<1>7. Numbered'
  BY <1>1, FoldNumbers
<1>8. FoldTells'
  BY <1>0, NothingToTell
<1>9. ASSUME NEW t \in Tasks PROVE Observed(t)'
  <2>1. Observed(t) /\ ~(obs[t].kind = "report" /\ obs[t].pc = "shedding")
    BY <1>0
  <2>2. Due(t)' = Due(t)
    BY <1>3, <2>1 DEF Due
  <2>3. Due(t) => \A r \in live : r.id \in obs'[t].ids => r.tells = {}
    BY <1>3, <2>1 DEF Due
  <2>4. /\ Id("segment", t, SegmentEnd(t), 0) \in KnownIds =>
             obs'[t].kind = "segment" /\ obs'[t].pc = "done"
        /\ obs'[t].pc # "shedding"
        /\ obs'[t].kind = "close" /\ Id("close", t, 1, 0) \in KnownIds
             => Facts(t) \subseteq Told(Aloud)
        /\ obs'[t].kind = "judge" => Id("close", t, 1, 0) \notin KnownIds
    BY <1>3, <2>1 DEF Observed
  <2> QED BY <1>2, <2>1, <2>2, <2>3, <2>4 DEF Observed
<1>10. NothingLost'
  BY <1>2 DEF NothingLost, Written
<1> QED BY <1>4, <1>5, <1>6, <1>7, <1>8, <1>9, <1>10

\* What an id of the start tells.
FirstText(i) ==
  IF i[1] = "raw" THEN {<<i[2], i[3]>>}
  ELSE IF i[1] = "report" /\ i[3] = 1 THEN FactsOf(Below(i[2])) ELSE {}

\* What may be there at the start in the name of a task.
Original(r, t, how) ==
  /\ Shaped(r) /\ r.tells = FirstText(r.id)
  /\ r.id[1] \in {"raw", "report", "close", "frame"}
  /\ r.id[1] = "raw" => r.id[4] = 0
  /\ r.id[1] = "report" => how \in {"settled", "lagging"} /\ r.id[2] = t
  /\ r.id[1] = "close" => how = "closed" /\ r.id[2] = t
  /\ r.kind \in {"recap", "finish", "lean"} => r.task = t /\ (how = "closed" => r.tells = {})

\* A turn as it was written.
LEMMA RawOriginal ==
  ASSUME NEW t \in Tasks, NEW n \in 1 .. Turns[t], NEW how
  PROVE  Original(RawOf(t, n), t, how)
<1> DEFINE r == RawOf(t, n)
<1>1. /\ r = Record(Id("raw", t, n, 0), "raw", t, {<<t, n>>})
      /\ r.id = Id("raw", t, n, 0) /\ r.kind = "raw" /\ r.task = t /\ r.tells = {<<t, n>>}
  BY DEF RawOf, Record
<1>2. r.id[1] = "raw" /\ r.id[2] = t /\ r.id[3] = n /\ r.id[4] = 0
  BY <1>1, IdParts
<1>3. {<<t, n>>} \subseteq FactsOf(Below(t))
  BY FactsOfTree DEF Facts
<1> HIDE DEF r
<1>4. Shaped(r)
  BY <1>1, <1>2, <1>3 DEF Shaped, IsClosing
<1>5. r.tells = FirstText(r.id)
  BY <1>1, <1>2 DEF FirstText
<1> QED BY <1>1, <1>2, <1>4, <1>5 DEF Original, r

\* The four things found of a task of the past.
LEMMA FoundCases ==
  ASSUME NEW t \in Tasks, NEW how \in {"settled", "lagging", "closed", "parked", "open"},
         NEW r \in Found(t, how)
  PROVE  \/ \E n \in 1 .. Turns[t] : r = RawOf(t, n)
         \/ r \in Slots("report", t, FactsOf(Below(t))) /\ how \in {"settled", "lagging"}
         \/ r \in Slots("close", t, {}) /\ how = "closed"
         \/ \E closed \in BOOLEAN : r \in Frame(t, closed) /\ Parent[t] # 0
<1>1. 1 \in 1 .. Turns[t]
  BY MemoryAssumption
<1>2. \/ \E n \in IF how = "settled" /\ t \notin Short THEN {1} ELSE 1 .. Turns[t] : r = RawOf(t, n)
      \/ r \in Slots("report", t, FactsOf(Below(t))) /\ how \in {"settled", "lagging"}
      \/ r \in Slots("close", t, {}) /\ how = "closed"
      \/ r \in Frame(t, how \in {"settled", "lagging", "closed"}) /\ Parent[t] # 0
  BY DEF Found
<1>3. (how \in {"settled", "lagging", "closed"}) \in BOOLEAN
  OBVIOUS
<1> QED BY <1>1, <1>2, <1>3

\* All that is found of a task is original.
LEMMA FoundOriginal ==
  ASSUME NEW t \in Tasks, NEW how \in {"settled", "lagging", "closed", "parked", "open"},
         NEW r \in Found(t, how)
  PROVE  Original(r, t, how)
<1>1. CASE \E n \in 1 .. Turns[t] : r = RawOf(t, n)
  BY <1>1, RawOriginal
<1>2. CASE r \in Slots("report", t, FactsOf(Below(t))) /\ how \in {"settled", "lagging"}
  <2>1. /\ Shaped(r) /\ r.id[1] = "report" /\ r.id[2] = t /\ r.task = t
        /\ \/ r.kind = "recap" /\ r.id = Id("report", t, 0, 0) /\ r.tells = {}
           \/ r.kind = "finish" /\ r.id = Id("report", t, 1, 0) /\ r.tells = FactsOf(Below(t))
    BY <1>2, SlotsShaped
  <2>2. r.tells = FirstText(r.id)
    BY <2>1 DEF FirstText, Id
  <2> QED BY <1>2, <2>1, <2>2 DEF Original
<1>3. CASE r \in Slots("close", t, {}) /\ how = "closed"
  <2>1. /\ Shaped(r) /\ r.id[1] = "close" /\ r.id[2] = t /\ r.task = t /\ r.tells = {}
    BY <1>3, SlotsShaped
  <2>2. r.tells = FirstText(r.id)
    BY <2>1 DEF FirstText
  <2> QED BY <1>3, <2>1, <2>2 DEF Original
<1>4. ASSUME NEW closed \in BOOLEAN, r \in Frame(t, closed), Parent[t] # 0
      PROVE  Original(r, t, how)
  <2>1. Shaped(r) /\ r.id[1] = "frame" /\ r.kind \in {"start", "result"} /\ r.tells = {}
    BY <1>4, FrameShaped
  <2> QED BY <2>1 DEF Original, FirstText
<1>5. \/ \E n \in 1 .. Turns[t] : r = RawOf(t, n)
      \/ r \in Slots("report", t, FactsOf(Below(t))) /\ how \in {"settled", "lagging"}
      \/ r \in Slots("close", t, {}) /\ how = "closed"
      \/ \E closed \in BOOLEAN : r \in Frame(t, closed) /\ Parent[t] # 0
  BY FoundCases
<1> QED BY <1>1, <1>2, <1>3, <1>4, <1>5

\* A record of the start was found of a past task, or is a turn of the current one.
LEMMA UnionCases ==
  ASSUME NEW past, NEW r \in live,
         live = (UNION {Found(t, past[t]) : t \in Past})
                \cup {RawOf(Current, n) : n \in 1 .. Turns[Current]}
  PROVE  \/ \E t \in Past : r \in Found(t, past[t])
         \/ \E n \in 1 .. Turns[Current] : r = RawOf(Current, n)
<1> DEFINE found == {Found(t, past[t]) : t \in Past}
           turns == {RawOf(Current, n) : n \in 1 .. Turns[Current]}
<1>1. live = (UNION found) \cup turns
  OBVIOUS
<1>2. r \in turns => \E n \in 1 .. Turns[Current] : r = RawOf(Current, n)
  OBVIOUS
<1>3. \A f \in found : \E t \in Past : f = Found(t, past[t])
  OBVIOUS
<1> HIDE DEF found, turns
<1>4. CASE r \in turns
  BY <1>2, <1>4
<1>5. CASE r \in UNION found
  <2>1. PICK f \in found : r \in f
    BY <1>5
  <2>2. PICK t \in Past : f = Found(t, past[t])
    BY <1>3
  <2> QED BY <2>1, <2>2
<1>6. r \in turns \/ r \in UNION found
  BY <1>1
<1> QED BY <1>4, <1>5, <1>6

\* At the start everything is as it was told.
LEMMA InitRemembers == Init => Remembers
<1> SUFFICES ASSUME Init PROVE Remembers
  OBVIOUS
<1>1. PICK past \in Histories :
       /\ live = (UNION {Found(t, past[t]) : t \in Past})
                 \cup {RawOf(Current, n) : n \in 1 .. Turns[Current]}
       /\ obs = [t \in Tasks |-> Observer(
            IF t = Current \/ past[t] = "lagging" THEN "segment"
            ELSE IF past[t] = "closed" THEN "report"
            ELSE IF past[t] = "parked" THEN "judge" ELSE "none")]
  BY DEF Init
<1>2. gone = {} /\ pc = "idle" /\ todo = {} /\ sel = {} /\ new = {}
  BY DEF Init
<1>3. /\ Past = Tasks \ {Current} /\ Current \in Tasks
      /\ \A t \in Past : past[t] \in {"settled", "lagging", "closed", "parked", "open"}
  BY MemoryAssumption DEF Past
<1>4. ASSUME NEW r \in live
      PROVE  \/ \E t \in Past : Original(r, t, past[t])
             \/ Original(r, Current, "open")
  <2>1. ASSUME NEW t \in Past, r \in Found(t, past[t])
        PROVE  Original(r, t, past[t])
    BY <1>3, <2>1, FoundOriginal
  <2>2. CASE \E n \in 1 .. Turns[Current] : r = RawOf(Current, n)
    BY <1>3, <2>2, RawOriginal
  <2>3. \/ \E t \in Past : r \in Found(t, past[t])
        \/ \E n \in 1 .. Turns[Current] : r = RawOf(Current, n)
    BY <1>1, UnionCases
  <2>4. CASE \E t \in Past : r \in Found(t, past[t])
    <3>1. PICK t \in Past : r \in Found(t, past[t])
      BY <2>4
    <3>2. Original(r, t, past[t])
      BY <2>1, <3>1
    <3> QED BY <3>2
  <2> QED BY <2>2, <2>3, <2>4
<1>5. KnownIds = Ids(live) /\ \A i \in KnownIds : \E r \in live : r.id = i
  BY <1>2 DEF KnownIds, Ids
<1>6. \A r \in live : Shaped(r) /\ r.tells = FirstText(r.id)
                      /\ r.id[1] \in {"raw", "report", "close", "frame"}
  BY <1>4 DEF Original
<1>7. \A r \in live : /\ r.id[1] = "report"
                             => r.id[2] \in Past /\ past[r.id[2]] \in {"settled", "lagging"}
                      /\ r.id[1] = "close" => r.id[2] \in Past /\ past[r.id[2]] = "closed"
                      /\ r.kind \in {"recap", "finish", "lean"} /\ r.task \in Past =>
                           (past[r.task] = "closed" => r.tells = {})
  BY <1>3, <1>4 DEF Original
<1>8. ASSUME NEW t \in Tasks
      PROVE  /\ obs[t].pc \in {"due", "done"} /\ obs[t].known = FALSE /\ obs[t].ids = {}
             /\ obs[t].kind \in {"none", "segment", "report", "judge"}
             /\ obs[t].kind = "report" => t \in Past /\ past[t] = "closed"
             /\ obs[t].kind = "judge" => t \in Past /\ past[t] = "parked"
             /\ obs[t] \in Observers
  <2>1. obs[t] = Observer(
            IF t = Current \/ past[t] = "lagging" THEN "segment"
            ELSE IF past[t] = "closed" THEN "report"
            ELSE IF past[t] = "parked" THEN "judge" ELSE "none")
    BY <1>1
  <2>2. PICK kind \in {"none", "segment", "report", "judge"} :
          /\ obs[t] = Observer(kind)
          /\ kind = "report" => t \in Past /\ past[t] = "closed"
          /\ kind = "judge" => t \in Past /\ past[t] = "parked"
    BY <1>3, <2>1
  <2>3. obs[t].kind = kind
    BY <2>2 DEF Observer
  <2> QED BY <2>2, <2>3 DEF Observer, Observers
<1>9. ObserversTyped
  BY <1>1, <1>8 DEF ObserversTyped
<1>10. RecordsShaped
  BY <1>2, <1>6 DEF RecordsShaped
<1>11. TextsAgree
  BY <1>2, <1>6 DEF TextsAgree, OneText
<1>12. \A i \in KnownIds : i[1] \in {"raw", "report", "close", "frame"}
  BY <1>5, <1>6
<1>13. IdsAccounted
  <2>1. Ids(sel) = {} /\ Ids(todo) = {}
    BY <1>2 DEF Ids
  <2>2. ASSUME NEW t \in Tasks PROVE \A v : Id("demote", t, 1, v) \notin KnownIds
    BY <1>12 DEF Id
  <2>3. ASSUME NEW t \in Tasks, NEW n \in 1 .. Turns[t] PROVE Id("raw", t, n, 1) \notin KnownIds
    <3> SUFFICES ASSUME Id("raw", t, n, 1) \in KnownIds PROVE FALSE
      OBVIOUS
    <3>1. PICK r \in live : r.id = Id("raw", t, n, 1)
      BY <1>5
    <3>2. r.id[1] = "raw" /\ r.id[4] = 1
      BY <3>1, IdParts
    <3> QED BY <1>4, <3>2 DEF Original
  <2> QED BY <1>2, <2>1, <2>2, <2>3 DEF IdsAccounted
<1>14. Numbered
  <2>1. Named("digest") = {} /\ Named("collapsed") = {}
    BY <1>12 DEF Named
  <2> QED BY <2>1, FS_EmptySet DEF Numbered
<1>15. FoldTells
  BY <1>2 DEF FoldTells
<1>16. ASSUME NEW t \in Tasks PROVE Observed(t)
  <2>1. Id("segment", t, SegmentEnd(t), 0) \notin KnownIds
    BY <1>12 DEF Id
  <2>2. ASSUME Due(t)
        PROVE  /\ Id("report", t, 0, 0) \notin KnownIds /\ Id("report", t, 1, 0) \notin KnownIds
               /\ \A r \in live : r.task = t /\ r.kind \in {"recap", "finish", "lean"}
                    => r.tells = {}
    <3>1. t \in Past /\ past[t] = "closed"
      BY <1>8, <2>2 DEF Due
    <3>2. \A i \in KnownIds : i[1] = "report" => past[i[2]] \in {"settled", "lagging"}
      BY <1>5, <1>7
    <3>3. \A n : Id("report", t, n, 0) \notin KnownIds
      BY <3>1, <3>2 DEF Id
    <3> QED BY <1>7, <3>1, <3>3
  <2>3. ASSUME obs[t].kind = "judge" PROVE Id("close", t, 1, 0) \notin KnownIds
    <3>1. past[t] = "parked"
      BY <1>8, <2>3
    <3>2. \A i \in KnownIds : i[1] = "close" => past[i[2]] = "closed"
      BY <1>5, <1>7
    <3> QED BY <3>1, <3>2 DEF Id
  <2> QED BY <1>8, <2>1, <2>2, <2>3 DEF Observed
<1>17. NothingLost
  <2> SUFFICES ASSUME NEW i \in KnownIds, i[1] = "raw" PROVE <<i[2], i[3]>> \in Told(live)
    BY DEF NothingLost, Written
  <2>1. PICK r \in live : r.id = i
    BY <1>5
  <2>2. r.tells = {<<i[2], i[3]>>}
    BY <1>6, <2>1 DEF FirstText
  <2> QED BY <2>1, <2>2 DEF Told
<1> QED BY <1>9, <1>10, <1>11, <1>13, <1>14, <1>15, <1>16, <1>17 DEF Remembers

(* -------------------------------- theorems ---------------------------------- *)

\* Every step of an observer or of the compaction remembers.
LEMMA NextRemembers ==
  ASSUME ~Reapplied, Remembers, [Next]_vars
  PROVE  Remembers'
<1>1. CASE Begin \/ EnterHistory \/ Outage \/ EnterCapsules \/ EnterCurrent
  BY <1>1, LookingStep
<1>2. CASE DemotePictures \/ Rewrite
  BY <1>2, PicturesStep
<1>3. CASE Select
  BY <1>3, SelectStep
<1>4. CASE Reselect
  BY <1>4, ReselectStep
<1>5. CASE TakeGuards
  BY <1>5, TakeGuardsStep
<1>6. CASE Collapse
  BY <1>6, CollapseStep
<1>7. CASE FoldHistory
  BY <1>7, FoldHistoryStep
<1>8. CASE TakeCapsule
  BY <1>8, TakeCapsuleStep
<1>9. CASE MakeLean
  BY <1>9, MakeLeanStep
<1>10. CASE Crash
  BY <1>10, CrashStep
<1>11. ASSUME NEW t \in Tasks, Observe(t) PROVE Remembers'
  BY <1>11, JudgeStep, JudgedStep, FoldSegmentStep, CloseResultStep, CloseRecapStep,
     CloseFinishStep, FindTargetStep, WriteReportStep, ShedStep DEF Observe
<1>12. CASE UNCHANGED vars
  <2>1. /\ UNCHANGED <<store, obs>> /\ sel' = sel /\ todo' = todo
        /\ pc' = pc /\ level' = level /\ new' = new
    BY <1>12 DEF vars, store
  <2>2. KnownIds' = KnownIds
    BY <2>1 DEF store, KnownIds, Ids
  <2>3. FoldTells'
    BY <2>1, <2>2 DEF Remembers, FoldTells, Named, Due
  <2> QED BY <2>1, <2>3, QuietCompaction
<1> QED BY <1>1, <1>2, <1>3, <1>4, <1>5, <1>6, <1>7, <1>8, <1>9, <1>10, <1>11, <1>12
        DEF Next, Compact

\* The memory remembers, always (TextsAgree, IdsAccounted, Observed and the rest),
\* where no crash comes between a report's write and its mark.
THEOREM MemoryRemembers ==
  ASSUME ~Reapplied PROVE Spec => []Remembers
<1>1. Remembers /\ [Next]_vars => Remembers'
  BY NextRemembers
<1> QED BY <1>1, InitRemembers, PTL DEF Spec

\* Whatever the agent was told or did is told by a record it still has, for any
\* tree of tasks, history and number of turns, compactions and crashes.
THEOREM NothingIsLost ==
  ASSUME ~Reapplied PROVE Spec => []NothingLost
<1>1. Remembers => NothingLost
  BY DEF Remembers
<1> QED BY <1>1, MemoryRemembers, PTL

(* --------------------- the invariant about the details ---------------------- *)

\* An id stands for one record, in the view and in what is about to be folded.
OneRecord(records) == \A r, s \in records : r.id = s.id => r = s
RecordsApart == OneRecord(live \cup sel)

\* The current task is not closed; only a digest names what was left; the result of
\* a child is written under the child's id.
Owned ==
  /\ obs[Current].kind = "segment"
  /\ \A r \in live :
       /\ r.kind \in {"recap", "finish", "lean"} => r.task # Current
       /\ r.kind # "digest" => r.left = {}
       /\ r.kind = "result" => r.id = Id("frame", Parent[r.child], r.child, 1)

\* The parent of a task that may still be closed waits for it, with the start of its
\* frame out of reach of what is about to be folded, until the result is there.
FrameId(t, n) == Id("frame", Parent[t], t, n)
Backed(t) ==
  /\ FrameId(t, 0) \in KnownIds
  /\ \/ FrameId(t, 1) \in KnownIds
     \/ \E r \in live : /\ r.id = FrameId(t, 0) /\ r.kind = "start" /\ r.task = Parent[t]
                        /\ r.child = t /\ r.id \notin Ids(sel)

\* How far the closing of a task has come, by its observer and by its slots.
Closed(t) ==
  /\ Id("report", t, 1, 0) \in KnownIds => obs[t].kind \notin {"judge", "close"}
  /\ \A r \in live : r.id = Id("close", t, 1, 0) /\ r.tells # {} => obs[t].kind = "close"
  /\ obs[t].kind \in {"judge", "close"} =>
       /\ \A r \in live : IsClosing(r) /\ r.task = t => Id("close", t, 1, 0) \in KnownIds
       /\ Id("close", t, 1, 0) \in KnownIds => Id("close", t, 0, 0) \in KnownIds
       /\ Parent[t] # 0 => Backed(t)
  /\ obs[t].kind = "close" =>
       /\ obs[t].pc = "finishing" => Id("close", t, 0, 0) \in KnownIds
       /\ Parent[t] # 0 /\ (\/ obs[t].pc \in {"recapping", "finishing", "shedding"}
                            \/ Id("close", t, 1, 0) \in KnownIds)
            => FrameId(t, 1) \in KnownIds
  /\ \A r \in live : r.id \in obs[t].ids => r.task = t /\ r.kind \in {"recap", "finish", "lean"}

\* A reduced capsule is alone, its report is not due, and no picture of it is about
\* to be rewritten.
Alone ==
  \A l \in live : l.kind = "lean" =>
    /\ ~Due(l.task)
    /\ \A s \in live : s.task = l.task => s = l
    /\ \A r \in todo : r.task # l.task

\* The next compaction can see a task with a turn, or one that a digest names; the
\* pictures about to be rewritten are of such tasks.
Reached(t) == (\E r \in live : IsTurn(r) /\ r.task = t) \/ t \in Residuals(live)
Marked ==
  /\ pc \notin {"pictures", "rewrite"} => todo = {}
  /\ \A r \in todo : r.task \in Past /\ WasClosed(r.task) => Reached(r.task)

\* What a compaction holds while it folds, and what it is about to fold.
Holding ==
  /\ held # {} => pc \in {"fold", "lean"}
  /\ 0 \notin held /\ \A u \in Tasks \cap held : ~Guarded(u)

Pending ==
  /\ pc \in {"summarise", "fold"} => \A r \in sel : r.left \subseteq prior
  /\ pc = "summarise" /\ level = "current" => \A r \in sel : IsBody(r) /\ r.task = Current
  /\ pc = "fold" =>
       /\ \E n \in new : new = {n}
       /\ \A t \in SelOrigins : t \in held
       /\ \A n \in new : \A s \in live :
            IsBody(s) /\ s.id \notin Ids(sel) /\ s.task \in SelOrigins \cup prior
              => s.task \in n.left
  /\ pc = "lean" =>
       /\ \E n \in new : new = {n}
       /\ \A r \in sel : r.task \in held
       /\ \A n \in new :
            /\ n.task \in held /\ n.task # Current
            /\ \A s \in live : s.task = n.task \/ (IsBody(s) /\ s.task \in held)
                 => s.id \in Ids(sel)
            /\ \A u \in Tasks : Parent[u] = n.task /\ obs[u].kind \in {"judge", "close"} =>
                 FrameId(u, 1) \in KnownIds

\* What is left of a task that was closed is of a task that can be seen.
Residue == \A t \in Past : WasClosed(t) /\ BodyOf(live, t) # {} => Reached(t)

\* The second invariant: what is left of each task, and who may still write of it.
Accounts ==
  /\ RecordsApart /\ Owned /\ Alone /\ Marked /\ Holding /\ Pending /\ Residue
  /\ \A t \in Tasks : Closed(t)

(* ------------------------ what a step has to account for --------------------- *)

\* Under an id that is not known there is no other record.
LEMMA FoldApart ==
  ASSUME NEW ids, NEW records, FoldIn(ids, records), IdsAccounted, RecordsApart, OneRecord(records)
  PROVE  OneRecord(live' \cup sel)
<1>1. \A r \in live \cup sel : r.id \in KnownIds
  BY DEF IdsAccounted, KnownIds, Ids
<1>2. live' \subseteq live \cup {r \in records : r.id \notin KnownIds}
  BY FoldEffect
<1> QED BY <1>1, <1>2 DEF RecordsApart, OneRecord

\* A task stays in reach if its turns and the digests stay.
LEMMA StaysReached ==
  ASSUME NEW ids, NEW records, FoldIn(ids, records), IdsAccounted, NEW u, Reached(u),
         \A r \in live : r.id \in ids => (IsTurn(r) => r.task # u) /\ r.left = {}
  PROVE  Reached(u)'
<1>1. \A r \in live : r.id \notin ids => r \in live'
  BY FoldEffect
<1>2. CASE \E r \in live : IsTurn(r) /\ r.task = u
  BY <1>1, <1>2 DEF Reached
<1>3. CASE u \in Residuals(live)
  <2>1. PICK r \in live : u \in r.left
    BY <1>3 DEF Residuals
  <2>2. r \in live'
    BY <1>1, <2>1
  <2> QED BY <2>1, <2>2 DEF Reached, Residuals
<1> QED BY <1>2, <1>3 DEF Reached

\* How far the closing of a task has come stays true if nothing is written in its
\* name and the start of its frame is not folded.
LEMMA ClosedKept ==
  ASSUME Remembers, Accounts, NEW u \in Tasks, obs'[u] = obs[u],
         NEW ids, NEW records, FoldIn(ids, records), Ids(sel') \subseteq Ids(sel),
         \A r \in live : r.kind = "start" /\ r.id \in ids => r.id \in Ids(sel),
         \A r \in records : r.id[1] \in {"report", "close"} => r.id[2] # u,
         \A r \in records : r.id \notin KnownIds /\ IsClosing(r) /\ r.task = u
           /\ obs[u].kind \in {"judge", "close"} => Id("close", u, 1, 0) \in KnownIds
  PROVE  Closed(u)'
<1>1. /\ live' = {r \in live : r.id \notin ids} \cup {r \in records : r.id \notin KnownIds}
      /\ KnownIds' = KnownIds \cup Ids(records)
  BY FoldEffect DEF Remembers
<1>2. Closed(u) /\ obs[u].ids \subseteq KnownIds
  BY DEF Accounts, Remembers, ObserversTyped, Observers
<1>3. \A r \in records : \A n : r.id # Id("report", u, n, 0) /\ r.id # Id("close", u, n, 0)
  BY IdParts
<1>4. \A n : /\ Id("report", u, n, 0) \in KnownIds' <=> Id("report", u, n, 0) \in KnownIds
             /\ Id("close", u, n, 0) \in KnownIds' <=> Id("close", u, n, 0) \in KnownIds
  BY <1>1, <1>3 DEF Ids
<1>5. ASSUME Backed(u) PROVE Backed(u)'
  <2>1. FrameId(u, 0) \in KnownIds'
    BY <1>1, <1>5 DEF Backed
  <2>2. CASE FrameId(u, 1) \in KnownIds
    BY <1>1, <2>1, <2>2 DEF Backed, FrameId
  <2>3. CASE FrameId(u, 1) \notin KnownIds
    <3>1. PICK r \in live : /\ r.id = FrameId(u, 0) /\ r.kind = "start" /\ r.task = Parent[u]
                            /\ r.child = u /\ r.id \notin Ids(sel)
      BY <1>5, <2>3 DEF Backed
    <3>2. r \in live' /\ r.id \notin Ids(sel')
      BY <1>1, <3>1
    <3> QED BY <2>1, <3>1, <3>2 DEF Backed, FrameId
  <2> QED BY <2>2, <2>3
<1>6. \A r \in live' : r.id = Id("close", u, 1, 0) /\ r.tells # {} => obs[u].kind = "close"
  BY <1>1, <1>2, <1>3 DEF Closed
<1>7. obs[u].kind \in {"judge", "close"} =>
        \A r \in live' : IsClosing(r) /\ r.task = u => Id("close", u, 1, 0) \in KnownIds'
  BY <1>1, <1>2, <1>4 DEF Closed
<1>8. \A r \in live' : r.id \in obs[u].ids => r.task = u /\ r.kind \in {"recap", "finish", "lean"}
  BY <1>1, <1>2 DEF Closed
<1>9. FrameId(u, 1) \in KnownIds => (FrameId(u, 1) \in KnownIds)'
  BY <1>1 DEF FrameId
<1> QED BY <1>2, <1>4, <1>5, <1>6, <1>7, <1>8, <1>9 DEF Closed, FrameId

\* What the step of an observer has to account for: it removes turns and slots of its
\* task only, and what it writes anew is not in the way of a reduced capsule, of
\* what is about to be folded, or of who is held.
LEMMA ObserverAccounts ==
  ASSUME Remembers, Accounts, UNCHANGED compaction,
         NEW t \in Tasks, NEW o, obs' = [obs EXCEPT ![t] = o], obs'[t] = o,
         NEW ids, NEW records, FoldIn(ids, records), OneRecord(records),
         \A r \in live : r.id \in ids =>
           /\ r.task = t /\ r.kind \in {"raw", "recap", "finish", "lean"}
           /\ IsTurn(r) => \E s \in live' : IsTurn(s) /\ s.task = t,
         \A r \in records :
           /\ r.kind \in {"segment", "start", "result", "recap", "finish"} /\ r.left = {}
           /\ r.kind \notin {"start", "result"} => r.task = t
           /\ r.kind = "result" => r.id = Id("frame", Parent[r.child], r.child, 1)
           /\ r.kind \in {"recap", "finish"} => t # Current
           /\ r.id[1] \in {"close", "report"} => r.id[2] = t /\ IsTurn(r) /\ r.task = t,
         \A r \in records : r.id \notin KnownIds =>
           /\ \A l \in live : l.kind = "lean" => l.task # r.task
           /\ pc = "lean" => \A n \in new : n.task # r.task
           /\ IsBody(r) => t \notin held
           /\ IsBody(r) => \E s \in live :
                IsBody(s) /\ s.task = t /\ (pc = "fold" => s.id \notin Ids(sel)),
         Due(t)' => Due(t), Guarded(t)' => t \notin held,
         o.kind \in {"judge", "close"} => obs[t].kind \in {"judge", "close"},
         obs[t].kind = "segment" => o.kind = "segment",
         Closed(t)'
  PROVE  Accounts'
<1> USE DEF Accounts
<1>0. /\ sel' = sel /\ todo' = todo /\ new' = new /\ pc' = pc /\ level' = level
      /\ held' = held /\ prior' = prior
  BY DEF compaction
<1>1. /\ live' = {r \in live : r.id \notin ids} \cup {r \in records : r.id \notin KnownIds}
      /\ KnownIds' = KnownIds \cup Ids(records)
  BY FoldEffect DEF Remembers
<1>2. \A u \in Tasks \ {t} : obs'[u] = obs[u]
  BY DEF Remembers, ObserversTyped
<1>3. RecordsApart'
  <2>1. OneRecord(live' \cup sel)
    BY FoldApart DEF Remembers
  <2> QED BY <1>0, <2>1 DEF RecordsApart
<1>4. Owned'
  <2>1. obs'[Current].kind = "segment"
    BY <1>2, MemoryAssumption DEF Owned
  <2> QED BY <1>1, <2>1 DEF Owned
<1>5. Alone'
  <2> SUFFICES ASSUME NEW l \in live', l.kind = "lean"
               PROVE  /\ ~Due(l.task)'
                      /\ \A s \in live' : s.task = l.task => s = l
                      /\ \A r \in todo' : r.task # l.task
    BY DEF Alone
  <2>1. l \in live
    BY <1>1
  <2>2. ~Due(l.task) /\ (\A s \in live : s.task = l.task => s = l)
        /\ (\A r \in todo : r.task # l.task)
    BY <2>1 DEF Alone
  <2>3. ~Due(l.task)'
    <3>1. l.task \in Tasks
      BY <2>1 DEF Remembers, RecordsShaped, Shaped
    <3>2. CASE l.task = t
      BY <2>2, <3>2
    <3>3. CASE l.task # t
      BY <1>2, <2>2, <3>1, <3>3 DEF Due
    <3> QED BY <3>2, <3>3
  <2>4. \A s \in live' : s.task = l.task => s = l
    BY <1>1, <2>1, <2>2
  <2> QED BY <1>0, <2>2, <2>3, <2>4
<1>6. ASSUME NEW u, Reached(u) PROVE Reached(u)'
  <2>1. \A r \in live : r.id \in ids => r.left = {}
    BY DEF Owned
  <2>2. CASE \E r \in live : r.id \in ids /\ IsTurn(r) /\ r.task = u
    BY <2>2 DEF Reached
  <2>3. CASE ~\E r \in live : r.id \in ids /\ IsTurn(r) /\ r.task = u
    BY <1>6, <2>1, <2>3, StaysReached DEF Remembers
  <2> QED BY <2>2, <2>3
<1>7. ASSUME NEW u, WasClosed(u)', ~WasClosed(u) PROVE Reached(u)'
  <2>1. PICK i \in KnownIds' : i[2] = u /\ i[1] \in {"close", "report"} /\ i[3] = 1
    BY <1>7 DEF WasClosed
  <2>2. i \notin KnownIds
    BY <1>7, <2>1 DEF WasClosed
  <2>3. PICK r \in records : r.id = i
    BY <1>1, <2>2 DEF Ids
  <2>4. r \in live' /\ IsTurn(r) /\ r.task = u
    BY <1>1, <2>1, <2>2, <2>3
  <2> QED BY <2>4 DEF Reached
<1>8. Marked'
  <2>1. \A r \in todo : r.task \in Past /\ WasClosed(r.task)' => Reached(r.task)'
    BY <1>6, <1>7 DEF Marked
  <2> QED BY <1>0, <2>1 DEF Marked, Past
<1>9. Residue'
  <2> SUFFICES ASSUME NEW u \in Past, WasClosed(u)', NEW s \in live', IsBody(s), s.task = u
               PROVE  Reached(u)'
    BY DEF Residue, BodyOf, Past
  <2>1. CASE ~WasClosed(u)
    BY <1>7, <2>1
  <2>2. CASE WasClosed(u)
    <3>1. \E b \in live : IsBody(b) /\ b.task = u
      BY <1>1 DEF IsBody
    <3>2. Reached(u)
      BY <2>2, <3>1 DEF Residue, BodyOf
    <3> QED BY <1>6, <3>2
  <2> QED BY <2>1, <2>2
<1>10. Holding'
  <2>1. \A u \in Tasks \cap held : ~Guarded(u)'
    BY <1>2 DEF Holding, Guarded
  <2> QED BY <1>0, <2>1 DEF Holding
<1>11. Pending'
  <2>1. /\ pc \in {"summarise", "fold"} => \A r \in sel : r.left \subseteq prior
        /\ pc = "summarise" /\ level = "current" => \A r \in sel : IsBody(r) /\ r.task = Current
    BY DEF Pending
  <2>2. ASSUME pc = "fold"
        PROVE  /\ \E n \in new : new = {n}
               /\ \A u \in SelOrigins : u \in held
               /\ \A n \in new : \A s \in live' :
                    IsBody(s) /\ s.id \notin Ids(sel) /\ s.task \in SelOrigins \cup prior
                      => s.task \in n.left
    <3>1. /\ \E n \in new : new = {n}
          /\ \A u \in SelOrigins : u \in held
          /\ \A n \in new : \A s \in live :
               IsBody(s) /\ s.id \notin Ids(sel) /\ s.task \in SelOrigins \cup prior
                 => s.task \in n.left
      BY <2>2 DEF Pending
    <3>2. \A s \in live' : IsBody(s) /\ s.id \notin Ids(sel) =>
            \E b \in live : IsBody(b) /\ b.id \notin Ids(sel) /\ b.task = s.task
      BY <1>1, <2>2 DEF IsBody
    <3> QED BY <3>1, <3>2
  <2>3. ASSUME pc = "lean"
        PROVE  /\ \E n \in new : new = {n}
               /\ \A r \in sel : r.task \in held
               /\ \A n \in new :
                    /\ n.task \in held /\ n.task # Current
                    /\ \A s \in live' : s.task = n.task \/ (IsBody(s) /\ s.task \in held)
                         => s.id \in Ids(sel)
                    /\ \A u \in Tasks : Parent[u] = n.task /\ obs'[u].kind \in {"judge", "close"} =>
                         FrameId(u, 1) \in KnownIds'
    <3>1. (\E n \in new : new = {n}) /\ (\A r \in sel : r.task \in held)
      BY <2>3 DEF Pending
    <3> SUFFICES ASSUME NEW n \in new
                 PROVE
                    /\ n.task \in held /\ n.task # Current
                    /\ \A s \in live' : s.task = n.task \/ (IsBody(s) /\ s.task \in held)
                         => s.id \in Ids(sel)
                    /\ \A u \in Tasks : Parent[u] = n.task /\ obs'[u].kind \in {"judge", "close"} =>
                         FrameId(u, 1) \in KnownIds'
      BY <3>1
    <3>2. /\ n.task \in held /\ n.task # Current
          /\ \A s \in live : s.task = n.task \/ (IsBody(s) /\ s.task \in held) => s.id \in Ids(sel)
          /\ \A u \in Tasks : Parent[u] = n.task /\ obs[u].kind \in {"judge", "close"} =>
                         FrameId(u, 1) \in KnownIds
      BY <2>3 DEF Pending
    <3>3. ASSUME NEW s \in live', s.task = n.task \/ (IsBody(s) /\ s.task \in held)
          PROVE  s.id \in Ids(sel)
      <4>1. CASE s \in live
        BY <3>2, <3>3, <4>1
      <4>2. CASE s \in records /\ s.id \notin KnownIds
        <5>1. s.task # n.task
          BY <2>3, <4>2
        <5>2. IsBody(s) /\ s.task \in held
          BY <3>3, <5>1
        <5> QED BY <4>2, <5>2 DEF IsBody
      <4> QED BY <1>1, <4>1, <4>2
    <3>4. ASSUME NEW u \in Tasks, Parent[u] = n.task, obs'[u].kind \in {"judge", "close"}
          PROVE  FrameId(u, 1) \in KnownIds'
      <4>1. obs[u].kind \in {"judge", "close"}
        BY <1>2, <3>4
      <4> QED BY <1>1, <3>2, <3>4, <4>1
    <3> QED BY <3>2, <3>3, <3>4
  <2>4. SelOrigins' = SelOrigins
    BY <1>0 DEF SelOrigins
  <2> QED BY <1>0, <2>1, <2>2, <2>3, <2>4 DEF Pending, FrameId
<1>12. ASSUME NEW u \in Tasks PROVE Closed(u)'
  <2>1. CASE u = t
    BY <2>1
  <2>2. CASE u # t
    <3>1. Ids(sel') \subseteq Ids(sel) /\ obs'[u] = obs[u]
      BY <1>0, <1>2, <2>2
    <3>2. \A r \in live : r.kind = "start" /\ r.id \in ids => r.id \in Ids(sel)
      OBVIOUS
    <3>3. \A r \in records : r.id[1] \in {"report", "close"} => r.id[2] # u
      BY <2>2
    <3>4. \A r \in records : r.id \notin KnownIds /\ IsClosing(r) /\ r.task = u
           /\ obs[u].kind \in {"judge", "close"} => Id("close", u, 1, 0) \in KnownIds
      BY <2>2 DEF IsClosing
    <3> QED BY <3>1, <3>2, <3>3, <3>4, ClosedKept
  <2> QED BY <2>1, <2>2
<1> QED BY <1>3, <1>4, <1>5, <1>8, <1>9, <1>10, <1>11, <1>12

\* How far the closing of a task has come after its own observer wrote.
LEMMA ClosedAfter ==
  ASSUME Remembers, Accounts, sel' = sel, NEW t \in Tasks,
         obs'[t].kind = obs[t].kind, obs'[t].ids = obs[t].ids,
         NEW ids, NEW records, FoldIn(ids, records),
         \A r \in live : r.kind = "start" => r.id \notin ids,
         Id("report", t, 1, 0) \in KnownIds' => obs[t].kind \notin {"judge", "close"},
         \A r \in records : r.id = Id("close", t, 1, 0) => obs[t].kind = "close",
         obs[t].kind \in {"judge", "close"} =>
           /\ \A r \in records : IsClosing(r) /\ r.task = t => Id("close", t, 1, 0) \in KnownIds'
           /\ Id("close", t, 1, 0) \in KnownIds' => Id("close", t, 0, 0) \in KnownIds',
         obs[t].kind = "close" =>
           /\ obs'[t].pc = "finishing" => Id("close", t, 0, 0) \in KnownIds'
           /\ Parent[t] # 0 /\ (\/ obs'[t].pc \in {"recapping", "finishing", "shedding"}
                                \/ Id("close", t, 1, 0) \in KnownIds')
                => FrameId(t, 1) \in KnownIds'
  PROVE  Closed(t)'
<1>1. /\ live' = {r \in live : r.id \notin ids} \cup {r \in records : r.id \notin KnownIds}
      /\ KnownIds' = KnownIds \cup Ids(records)
  BY FoldEffect DEF Remembers
<1>2. Closed(t) /\ obs[t].ids \subseteq KnownIds
  BY DEF Accounts, Remembers, ObserversTyped, Observers
<1>3. ASSUME Backed(t) PROVE Backed(t)'
  <2>1. FrameId(t, 0) \in KnownIds'
    BY <1>1, <1>3 DEF Backed
  <2>2. CASE FrameId(t, 1) \in KnownIds
    BY <1>1, <2>1, <2>2 DEF Backed, FrameId
  <2>3. CASE FrameId(t, 1) \notin KnownIds
    <3>1. PICK r \in live : /\ r.id = FrameId(t, 0) /\ r.kind = "start" /\ r.task = Parent[t]
                            /\ r.child = t /\ r.id \notin Ids(sel)
      BY <1>3, <2>3 DEF Backed
    <3>2. r \in live' /\ r.id \notin Ids(sel')
      BY <1>1, <3>1
    <3> QED BY <2>1, <3>1, <3>2 DEF Backed, FrameId
  <2> QED BY <2>2, <2>3
<1>4. \A r \in live' : r.id = Id("close", t, 1, 0) /\ r.tells # {} => obs'[t].kind = "close"
  BY <1>1, <1>2 DEF Closed
<1>5. obs[t].kind \in {"judge", "close"} =>
        \A r \in live' : IsClosing(r) /\ r.task = t => Id("close", t, 1, 0) \in KnownIds'
  BY <1>1, <1>2 DEF Closed
<1>6. \A r \in live' : r.id \in obs'[t].ids => r.task = t /\ r.kind \in {"recap", "finish", "lean"}
  BY <1>1, <1>2 DEF Closed
<1>7. obs[t].kind \in {"judge", "close"} /\ Parent[t] # 0 => Backed(t)'
  BY <1>2, <1>3 DEF Closed
<1> QED BY <1>4, <1>5, <1>6, <1>7 DEF Closed, FrameId

\* An observer that writes nothing only moves.
LEMMA QuietObserverAccounts ==
  ASSUME Remembers, Accounts, UNCHANGED <<store, compaction>>,
         NEW t \in Tasks, NEW o, obs' = [obs EXCEPT ![t] = o], obs'[t] = o,
         \/ o.kind = obs[t].kind
         \/ obs[t].kind = "judge" /\ o.kind \in {"segment", "close"},
         o.pc \notin {"recapping", "finishing", "shedding"},
         \A r \in live : r.id \in o.ids => r.task = t /\ r.kind \in {"recap", "finish", "lean"},
         Due(t)' => Due(t), Guarded(t)' => t \notin held
  PROVE  Accounts'
<1>1. live' = live /\ KnownIds' = KnownIds /\ sel' = sel
  BY DEF store, compaction, KnownIds, Ids
<1>2. Closed(t) /\ Observed(t)
  BY DEF Accounts, Remembers
<1>3. Backed(t)' = Backed(t)
  BY <1>1 DEF Backed, FrameId
<1>4. /\ Id("report", t, 1, 0) \in KnownIds' => o.kind \notin {"judge", "close"}
      /\ \A r \in live' : r.id = Id("close", t, 1, 0) /\ r.tells # {} => o.kind = "close"
  BY <1>1, <1>2 DEF Closed
<1>5. o.kind \in {"judge", "close"} =>
       /\ \A r \in live : IsClosing(r) /\ r.task = t => Id("close", t, 1, 0) \in KnownIds
       /\ Id("close", t, 1, 0) \in KnownIds => Id("close", t, 0, 0) \in KnownIds
       /\ Parent[t] # 0 => Backed(t)
  BY <1>2 DEF Closed
<1>6. o.kind = "close" /\ Parent[t] # 0 /\ Id("close", t, 1, 0) \in KnownIds
        => FrameId(t, 1) \in KnownIds
  BY <1>2 DEF Closed, Observed
<1>7. Closed(t)'
  BY <1>1, <1>3, <1>4, <1>5, <1>6 DEF Closed, FrameId
<1> PICK none : none = {}
  OBVIOUS
<1>8. FoldIn(none, none) /\ OneRecord(none) /\ UNCHANGED compaction
  BY QuietFold DEF OneRecord
<1>9. /\ o.kind \in {"judge", "close"} => obs[t].kind \in {"judge", "close"}
      /\ obs[t].kind = "segment" => o.kind = "segment"
  OBVIOUS
<1>10. \A r \in live : r.id \in none =>
         /\ r.task = t /\ r.kind \in {"raw", "recap", "finish", "lean"}
         /\ IsTurn(r) => \E s \in live' : IsTurn(s) /\ s.task = t
  OBVIOUS
<1>11. \A r \in none :
         /\ r.kind \in {"segment", "start", "result", "recap", "finish"} /\ r.left = {}
         /\ r.kind \notin {"start", "result"} => r.task = t
         /\ r.kind = "result" => r.id = Id("frame", Parent[r.child], r.child, 1)
         /\ r.kind \in {"recap", "finish"} => t # Current
         /\ r.id[1] \in {"close", "report"} => r.id[2] = t /\ IsTurn(r) /\ r.task = t
  OBVIOUS
<1>12. \A r \in none : r.id \notin KnownIds =>
         /\ \A l \in live : l.kind = "lean" => l.task # r.task
         /\ pc = "lean" => \A n \in new : n.task # r.task
         /\ IsBody(r) => t \notin held
         /\ IsBody(r) => \E s \in live :
              IsBody(s) /\ s.task = t /\ (pc = "fold" => s.id \notin Ids(sel))
  OBVIOUS
<1> QED BY <1>7, <1>8, <1>9, <1>10, <1>11, <1>12, ObserverAccounts

\* An observer judges a task nobody holds.
LEMMA JudgeAccounts ==
  ASSUME Remembers, Accounts, NEW t \in Tasks, Judge(t)
  PROVE  Accounts'
<1> DEFINE o == [obs[t] EXCEPT !.pc = "judging"]
<1>1. obs[t] \in Observers /\ obs \in [Tasks -> Observers]
  BY DEF Remembers, ObserversTyped
<1>2. o.pc = "judging" /\ o.kind = obs[t].kind /\ o.ids = obs[t].ids
  BY <1>1 DEF Observers
<1>3. /\ obs' = [obs EXCEPT ![t] = o] /\ obs[t].pc = "due" /\ UNCHANGED <<store, compaction>>
      /\ t \notin held
  BY DEF Judge, At, Set
<1> HIDE DEF o
<1>4. obs'[t] = o
  BY <1>1, <1>3
<1>5. Due(t)' => Due(t)
  BY <1>2, <1>3, <1>4 DEF Due
<1>6. \A r \in live : r.id \in o.ids => r.task = t /\ r.kind \in {"recap", "finish", "lean"}
  BY <1>2 DEF Accounts, Closed
<1> QED BY <1>2, <1>3, <1>4, <1>5, <1>6, QuietObserverAccounts

\* It keeps its guard when its result is recorded.
LEMMA JudgedAccounts ==
  ASSUME Remembers, Accounts, NEW t \in Tasks, Judged(t)
  PROVE  Accounts'
<1>1. PICK o \in Observers :
        /\ obs' = [obs EXCEPT ![t] = o] /\ obs'[t] = o /\ o.ids = obs[t].ids
        /\ \/ o.pc = "done" /\ o.kind = obs[t].kind
           \/ /\ o.pc \in {"reported", "writing"}
              /\ \/ o.kind = obs[t].kind /\ obs[t].kind # "judge"
                 \/ obs[t].kind = "judge" /\ o.kind \in {"segment", "close"}
  BY JudgedMoves
<1>2. obs[t].pc = "judging" /\ UNCHANGED <<store, compaction>>
  BY DEF Judged
<1>3. Due(t)' => Due(t)
  BY <1>1, <1>2 DEF Due
<1>4. t \notin held
  BY <1>2 DEF Accounts, Holding, Guarded
<1>5. \A r \in live : r.id \in o.ids => r.task = t /\ r.kind \in {"recap", "finish", "lean"}
  BY <1>1 DEF Accounts, Closed
<1>6. \/ o.kind = obs[t].kind
      \/ obs[t].kind = "judge" /\ o.kind \in {"segment", "close"}
  BY <1>1
<1>7. o.pc \notin {"recapping", "finishing", "shedding"}
  BY <1>1
<1> QED BY <1>1, <1>2, <1>3, <1>4, <1>5, <1>6, <1>7, QuietObserverAccounts

\* The slots an observer finds are the closing slots of its task.
LEMMA FindTargetAccounts ==
  ASSUME Remembers, Accounts, NEW t \in Tasks, FindTarget(t)
  PROVE  Accounts'
<1> DEFINE o == [obs[t] EXCEPT !.ids = Ids(Target(t)),
                               !.pc = IF Target(t) = {} THEN "done" ELSE "writing"]
<1>1. obs[t] \in Observers /\ obs \in [Tasks -> Observers]
  BY DEF Remembers, ObserversTyped
<1>2. /\ obs' = [obs EXCEPT ![t] = o] /\ obs[t].pc = "reported" /\ t \notin held
      /\ UNCHANGED <<store, compaction>>
  BY DEF FindTarget, Set
<1>3. \A s \in Target(t) : s \in live /\ s.task = t /\ s.kind \in {"recap", "finish", "lean"}
  BY DEF Target, ClosingOf
<1>4. o.pc \in {"done", "writing"} /\ o.kind = obs[t].kind /\ o.ids = Ids(Target(t))
  BY <1>1 DEF Observers
<1> HIDE DEF o
<1>5. obs'[t] = o
  BY <1>1, <1>2
<1>6. Due(t)' => Due(t)
  BY <1>2, <1>4, <1>5 DEF Due
<1>7. \A r \in live : r.id \in o.ids => r.task = t /\ r.kind \in {"recap", "finish", "lean"}
  <2> SUFFICES ASSUME NEW r \in live, r.id \in Ids(Target(t))
               PROVE  r.task = t /\ r.kind \in {"recap", "finish", "lean"}
    BY <1>4
  <2>1. PICK s \in Target(t) : s.id = r.id
    BY DEF Ids
  <2>2. s = r
    BY <1>3, <2>1 DEF Accounts, RecordsApart, OneRecord
  <2> QED BY <1>3, <2>1, <2>2
<1>8. o.pc \notin {"recapping", "finishing", "shedding"}
  BY <1>4
<1> QED BY <1>2, <1>4, <1>5, <1>6, <1>7, <1>8, QuietObserverAccounts

\* A segment is folded only where its turns are, and they are in nobody's hands.
LEMMA FoldSegmentAccounts ==
  ASSUME Remembers, Accounts, NEW t \in Tasks, FoldSegment(t)
  PROVE  Accounts'
<1> DEFINE r == Record(Id("segment", t, SegmentEnd(t), 0), "segment", t,
             {t} \X (2 .. SegmentEnd(t)))
<1>0. obs[t].kind = "segment" /\ obs[t].pc = "writing" /\ UNCHANGED compaction
  BY DEF FoldSegment
<1>1. PICK o \in Observers :
           /\ obs' = [obs EXCEPT ![t] = o] /\ obs'[t] = o
           /\ o.pc = "done" /\ o.kind = obs[t].kind /\ o.ids = obs[t].ids
  BY ObserverAt DEF FoldSegment
<1>2. ~Due(t)' /\ ~Guarded(t)' /\ t \notin held
  BY <1>0, <1>1 DEF Due, Guarded, Accounts, Holding
<1>3. CASE UNCHANGED store
  <2>1. \A s \in live : s.id \in o.ids => s.task = t /\ s.kind \in {"recap", "finish", "lean"}
    BY <1>1 DEF Accounts, Closed
  <2>2. o.pc \notin {"recapping", "finishing", "shedding"}
    BY <1>1
  <2> QED BY <1>0, <1>1, <1>2, <1>3, <2>1, <2>2, QuietObserverAccounts
<1>4. CASE SegmentOf(t) # {} /\ SegmentOf(t) \subseteq Ids(live) /\ FoldIn(SegmentOf(t), {r})
  <2>1. /\ r.id = Id("segment", t, SegmentEnd(t), 0) /\ r.kind = "segment" /\ r.task = t
        /\ r.left = {}
    BY DEF Record
  <2> HIDE DEF r
  <2>2. r.id[1] = "segment"
    BY <2>1, IdParts
  <2>3. ASSUME NEW s \in live, s.id \in SegmentOf(t) PROVE s.task = t /\ s.kind = "raw"
    <3>1. PICK n \in 2 .. SegmentEnd(t) : s.id = Id("raw", t, n, 0)
      BY <2>3 DEF SegmentOf
    <3>2. s.id[1] = "raw" /\ s.id[2] = t
      BY <3>1, IdParts
    <3> QED BY <3>2, RawTells DEF Remembers, RecordsShaped
  <2>4. PICK s \in live : s.task = t /\ s.kind = "raw"
    BY <1>4, <2>3 DEF Ids
  <2>5. \A l \in live : l.kind = "lean" => l.task # t
    BY <2>4 DEF Accounts, Alone
  <2>6. pc = "lean" => \A n \in new : n.task # t
    BY <1>2 DEF Accounts, Pending
  <2>7. ASSUME pc = "fold" PROVE s.id \notin Ids(sel)
    <3> SUFFICES ASSUME s.id \in Ids(sel) PROVE FALSE
      OBVIOUS
    <3>1. PICK q \in sel : q.id = s.id
      BY DEF Ids
    <3>2. q = s
      BY <3>1 DEF Accounts, RecordsApart, OneRecord
    <3>3. t \in SelOrigins
      BY <2>4, <3>1, <3>2, MemoryAssumption DEF SelOrigins
    <3> QED BY <1>2, <2>7, <3>3 DEF Accounts, Pending
  <2>8. \E b \in live : IsBody(b) /\ b.task = t /\ (pc = "fold" => b.id \notin Ids(sel))
    BY <2>4, <2>7 DEF IsBody
  <2>9. \A b \in live : b.id \in SegmentOf(t) =>
           /\ b.task = t /\ b.kind \in {"raw", "recap", "finish", "lean"}
           /\ IsTurn(b) => \E c \in live' : IsTurn(c) /\ c.task = t
    BY <2>3 DEF IsTurn
  <2>10. Closed(t)'
    <3>1. KnownIds' = KnownIds \cup {r.id}
      BY <1>4, FoldEffect DEF Remembers, Ids
    <3>2. sel' = sel /\ \A b \in live : b.kind = "start" => b.id \notin SegmentOf(t)
      BY <1>0, <2>3 DEF compaction
    <3>3. r.id # Id("close", t, 1, 0)
      BY <2>2, IdParts
    <3>4. obs[t].kind \notin {"judge", "close"}
      BY <1>0
    <3> QED BY <1>1, <1>4, <3>2, <3>3, <3>4, ClosedAfter
  <2>11. OneRecord({r})
    BY DEF OneRecord
  <2>12. \A b \in {r} :
           /\ b.kind \in {"segment", "start", "result", "recap", "finish"} /\ b.left = {}
           /\ b.kind \notin {"start", "result"} => b.task = t
           /\ b.kind = "result" => b.id = Id("frame", Parent[b.child], b.child, 1)
           /\ b.kind \in {"recap", "finish"} => t # Current
           /\ b.id[1] \in {"close", "report"} => b.id[2] = t /\ IsTurn(b) /\ b.task = t
    BY <2>1, <2>2
  <2>13. \A b \in {r} : b.id \notin KnownIds =>
           /\ \A l \in live : l.kind = "lean" => l.task # b.task
           /\ pc = "lean" => \A n \in new : n.task # b.task
           /\ IsBody(b) => t \notin held
           /\ IsBody(b) => \E c \in live :
                IsBody(c) /\ c.task = t /\ (pc = "fold" => c.id \notin Ids(sel))
    BY <1>2, <2>1, <2>5, <2>6, <2>8
  <2>14. /\ Due(t)' => Due(t)
         /\ Guarded(t)' => t \notin held
         /\ o.kind \in {"judge", "close"} => obs[t].kind \in {"judge", "close"}
         /\ obs[t].kind = "segment" => o.kind = "segment"
    BY <1>1, <1>2
  <2>15. FoldIn(SegmentOf(t), {r}) /\ UNCHANGED compaction
    BY <1>0, <1>4
  <2> QED BY <1>1, <2>9, <2>10, <2>11, <2>12, <2>13, <2>14, <2>15, ObserverAccounts
<1> QED BY <1>3, <1>4 DEF FoldSegment

\* The records of a child in the name of its parent are written under the child's id.
LEMMA FrameOwned ==
  ASSUME NEW t
  PROVE  /\ \A r \in Frame(t, TRUE) :
              /\ r.kind \in {"start", "result"} /\ r.left = {} /\ r.task = Parent[t] /\ r.child = t
              /\ r.id[1] = "frame"
              /\ r.id = FrameId(t, IF r.kind = "start" THEN 0 ELSE 1)
         /\ OneRecord(Frame(t, TRUE)) /\ FrameId(t, 1) \in Ids(Frame(t, TRUE))
<1> DEFINE a == [Record(Id("frame", Parent[t], t, 0), "start", Parent[t], {}) EXCEPT !.child = t]
           b == [Record(Id("frame", Parent[t], t, 1), "result", Parent[t], {}) EXCEPT !.child = t]
<1>1. a.kind = "start" /\ a.left = {} /\ a.task = Parent[t] /\ a.child = t /\ a.id = FrameId(t, 0)
  BY DEF Record, FrameId
<1>2. b.kind = "result" /\ b.left = {} /\ b.task = Parent[t] /\ b.child = t /\ b.id = FrameId(t, 1)
  BY DEF Record, FrameId
<1>3. Frame(t, TRUE) = {a, b}
  BY DEF Frame
<1> HIDE DEF a, b
<1>4. /\ FrameId(t, 0)[1] = "frame" /\ FrameId(t, 1)[1] = "frame"
      /\ FrameId(t, 0)[4] = 0 /\ FrameId(t, 1)[4] = 1
  BY IdParts DEF FrameId
<1>5. a.id # b.id
  BY <1>1, <1>2, <1>4
<1> QED BY <1>1, <1>2, <1>3, <1>4, <1>5 DEF OneRecord, Ids

\* The slots that close a task are its own.
LEMMA SlotsOwned ==
  ASSUME NEW t \in Tasks, NEW name \in {"close", "report"},
         NEW tells \in {{}, FactsOf(Below(t))}
  PROVE  /\ \A r \in Slots(name, t, tells) :
              /\ r.left = {} /\ r.task = t /\ r.id[1] = name /\ r.id[2] = t
              /\ \/ r.kind = "recap" /\ r.id = Id(name, t, 0, 0)
                 \/ r.kind = "finish" /\ r.id = Id(name, t, 1, 0)
         /\ OneRecord(Slots(name, t, tells))
         /\ \E r \in Slots(name, t, tells) : r.id = Id(name, t, 0, 0)
<1> DEFINE a == Record(Id(name, t, 0, 0), "recap", t, {})
           b == Record(Id(name, t, 1, 0), "finish", t, tells)
<1>1. a.kind = "recap" /\ a.left = {} /\ a.id = Id(name, t, 0, 0) /\ a.task = t
  BY DEF Record
<1>2. b.kind = "finish" /\ b.left = {} /\ b.id = Id(name, t, 1, 0) /\ b.task = t
  BY DEF Record
<1>3. Slots(name, t, tells) = {a, b}
  BY DEF Slots
<1> HIDE DEF a, b
<1>4. /\ a.id[1] = name /\ a.id[2] = t /\ a.id[3] = 0
      /\ b.id[1] = name /\ b.id[2] = t /\ b.id[3] = 1
  BY <1>1, <1>2, IdParts
<1>5. a.id # b.id
  BY <1>4
<1> QED BY <1>1, <1>2, <1>3, <1>4, <1>5 DEF OneRecord

\* The step of an observer that closes a parked task, one record after the other.
LEMMA CloseAccounts ==
  ASSUME Remembers, Accounts, NEW t \in Tasks, NEW from \in {"writing", "recapping", "finishing"},
         NEW place \in {"recapping", "finishing", "shedding"},
         NEW records, CloseStep(t, from, records, place), OneRecord(records),
         \A r \in records :
           /\ r.kind \in {"start", "result", "recap", "finish"} /\ r.left = {}
           /\ r.kind \in {"recap", "finish"} => r.task = t
           /\ r.kind = "result" => r.id = Id("frame", Parent[r.child], r.child, 1)
           /\ r.id[1] # "report"
           /\ r.id[1] = "close" => r.id[2] = t /\ r.kind \in {"recap", "finish"},
         \A r \in records : r.id \notin KnownIds =>
           /\ \A l \in live : l.kind = "lean" => l.task # r.task
           /\ pc = "lean" => \A n \in new : n.task # r.task,
         \A r \in records : IsClosing(r) /\ r.task = t => Id("close", t, 1, 0) \in KnownIds',
         Id("close", t, 1, 0) \in KnownIds' => Id("close", t, 0, 0) \in KnownIds',
         place = "finishing" => Id("close", t, 0, 0) \in KnownIds',
         Parent[t] # 0 => FrameId(t, 1) \in KnownIds'
  PROVE  Accounts'
<1>0. obs[t].kind = "close" /\ obs[t].pc = from /\ FoldIn({}, records) /\ UNCHANGED compaction
  BY DEF CloseStep, Ingest
<1>1. PICK o \in Observers :
           /\ obs' = [obs EXCEPT ![t] = o] /\ obs'[t] = o
           /\ o.pc = place /\ o.kind = obs[t].kind /\ o.ids = obs[t].ids
  BY ObserverAt DEF CloseStep
<1>2. t \notin held /\ t # Current
  BY <1>0 DEF Guarded, Accounts, Holding, Owned
<1>3. /\ ~Due(t)' /\ Guarded(t)'
      /\ o.kind \in {"judge", "close"} => obs[t].kind \in {"judge", "close"}
      /\ obs[t].kind = "segment" => o.kind = "segment"
  BY <1>0, <1>1 DEF Due, Guarded
<1>4. KnownIds' = KnownIds \cup Ids(records)
  BY <1>0, FoldEffect DEF Remembers
<1>5. Id("report", t, 1, 0) \notin KnownIds'
  <2>1. Id("report", t, 1, 0) \notin KnownIds
    BY <1>0 DEF Accounts, Closed
  <2>2. Id("report", t, 1, 0)[1] = "report"
    BY IdParts
  <2> QED BY <1>4, <2>1, <2>2 DEF Ids
<1>6. Closed(t)'
  <2>1. sel' = sel /\ \A r \in live : r.kind = "start" => r.id \notin {}
    BY <1>0 DEF compaction
  <2> QED BY <1>0, <1>1, <1>5, <2>1, ClosedAfter
<1> PICK none : none = {}
  OBVIOUS
<1>7. FoldIn(none, records)
  BY <1>0
<1>8. \A r \in live : r.id \in none =>
         /\ r.task = t /\ r.kind \in {"raw", "recap", "finish", "lean"}
         /\ IsTurn(r) => \E s \in live' : IsTurn(s) /\ s.task = t
  OBVIOUS
<1>9. \A r \in records :
         /\ r.kind \in {"segment", "start", "result", "recap", "finish"} /\ r.left = {}
         /\ r.kind \notin {"start", "result"} => r.task = t
         /\ r.kind = "result" => r.id = Id("frame", Parent[r.child], r.child, 1)
         /\ r.kind \in {"recap", "finish"} => t # Current
         /\ r.id[1] \in {"close", "report"} => r.id[2] = t /\ IsTurn(r) /\ r.task = t
  BY <1>2 DEF IsTurn
<1>10. \A r \in records : r.id \notin KnownIds =>
         /\ \A l \in live : l.kind = "lean" => l.task # r.task
         /\ pc = "lean" => \A n \in new : n.task # r.task
         /\ IsBody(r) => t \notin held
         /\ IsBody(r) => \E s \in live :
              IsBody(s) /\ s.task = t /\ (pc = "fold" => s.id \notin Ids(sel))
  BY DEF IsBody
<1> QED BY <1>0, <1>1, <1>2, <1>3, <1>6, <1>7, <1>8, <1>9, <1>10, ObserverAccounts

\* The result comes only while the parent waits for it, and so is not reduced.
LEMMA CloseResultAccounts ==
  ASSUME Remembers, Accounts, NEW t \in Tasks, CloseResult(t)
  PROVE  Accounts'
<1>0. obs[t].kind = "close" /\ obs[t].pc = "writing"
  BY DEF CloseResult, CloseStep
<1>1. Closed(t)
  BY DEF Accounts
<1>2. /\ Id("close", t, 1, 0) \in KnownIds => Id("close", t, 0, 0) \in KnownIds
      /\ \A r \in live : IsClosing(r) /\ r.task = t => Id("close", t, 1, 0) \in KnownIds
      /\ Parent[t] # 0 => Backed(t)
  BY <1>0, <1>1 DEF Closed
<1>3. CASE Parent[t] = 0
  <2> PICK none : none = {}
    OBVIOUS
  <2>1. CloseStep(t, "writing", none, "recapping") /\ OneRecord(none)
    BY <1>3 DEF CloseResult, OneRecord
  <2>2. KnownIds' = KnownIds \cup Ids(none)
    BY <2>1, FoldEffect DEF CloseStep, Ingest, Remembers
  <2>3. KnownIds' = KnownIds
    BY <2>2 DEF Ids
  <2> QED BY <1>2, <1>3, <2>1, <2>3, CloseAccounts
<1>4. CASE Parent[t] # 0
  <2> PICK frame : frame = Frame(t, TRUE)
    OBVIOUS
  <2>1. CloseStep(t, "writing", frame, "recapping")
    BY <1>4 DEF CloseResult
  <2>2. /\ \A r \in frame :
              /\ r.kind \in {"start", "result"} /\ r.left = {} /\ r.task = Parent[t] /\ r.child = t
              /\ r.id[1] = "frame"
              /\ r.id = FrameId(t, IF r.kind = "start" THEN 0 ELSE 1)
        /\ OneRecord(frame) /\ FrameId(t, 1) \in Ids(frame)
    BY FrameOwned
  <2>3. KnownIds' = KnownIds \cup Ids(frame)
    BY <2>1, FoldEffect DEF CloseStep, Ingest, Remembers
  <2>4. ASSUME NEW r \in frame, r.id \notin KnownIds
        PROVE  /\ \A l \in live : l.kind = "lean" => l.task # r.task
               /\ pc = "lean" => \A n \in new : n.task # r.task
    <3>1. FrameId(t, 1) \notin KnownIds
      BY <1>2, <1>4, <2>2, <2>4 DEF Backed
    <3>2. PICK s \in live : s.kind = "start" /\ s.task = Parent[t]
      BY <1>2, <1>4, <3>1 DEF Backed
    <3>3. \A l \in live : l.kind = "lean" => l.task # Parent[t]
      BY <3>2 DEF Accounts, Alone
    <3>4. pc = "lean" => \A n \in new : n.task # Parent[t]
      BY <1>0, <3>1 DEF Accounts, Pending
    <3> QED BY <2>2, <3>3, <3>4
  <2>5. \A i \in Ids(frame) : i[1] = "frame"
    BY <2>2 DEF Ids
  <2>6. Id("close", t, 1, 0) \in KnownIds' => Id("close", t, 0, 0) \in KnownIds'
    <3>1. Id("close", t, 1, 0)[1] = "close"
      BY IdParts
    <3> QED BY <1>2, <2>3, <2>5, <3>1
  <2>7. \A r \in frame :
           /\ r.kind \in {"start", "result", "recap", "finish"} /\ r.left = {}
           /\ r.kind \in {"recap", "finish"} => r.task = t
           /\ r.kind = "result" => r.id = Id("frame", Parent[r.child], r.child, 1)
           /\ r.id[1] # "report"
           /\ r.id[1] = "close" => r.id[2] = t /\ r.kind \in {"recap", "finish"}
    BY <2>2 DEF FrameId
  <2>8. \A r \in frame : IsClosing(r) /\ r.task = t => Id("close", t, 1, 0) \in KnownIds'
    BY <2>2 DEF IsClosing
  <2> QED BY <2>1, <2>2, <2>3, <2>4, <2>6, <2>7, <2>8, CloseAccounts
<1> QED BY <1>3, <1>4

\* A slot is new only where its task has no closing slot that could be reduced.
LEMMA CloseSlotAccounts ==
  ASSUME Remembers, Accounts, NEW t \in Tasks, CloseRecap(t) \/ CloseFinish(t)
  PROVE  Accounts'
<1> DEFINE slots == Slots("close", t, FactsOf(Below(t)))
<1>1. /\ \A r \in slots :
           /\ r.left = {} /\ r.task = t /\ r.id[1] = "close" /\ r.id[2] = t
           /\ \/ r.kind = "recap" /\ r.id = Id("close", t, 0, 0)
              \/ r.kind = "finish" /\ r.id = Id("close", t, 1, 0)
      /\ OneRecord(slots)
      /\ \E r \in slots : r.id = Id("close", t, 0, 0)
      /\ \E r \in slots : r.id = Id("close", t, 1, 0)
  BY SlotsOwned, SlotsShaped
<1>2. \A n : SlotOf(t, n) = {s \in slots : s.id[3] = n}
  BY DEF SlotOf
<1>3. obs[t].kind = "close" /\ obs[t].pc \in {"recapping", "finishing"}
  BY DEF CloseRecap, CloseFinish, CloseStep
<1>4. /\ Id("close", t, 1, 0) \in KnownIds => Id("close", t, 0, 0) \in KnownIds
      /\ \A r \in live : IsClosing(r) /\ r.task = t => Id("close", t, 1, 0) \in KnownIds
      /\ Parent[t] # 0 => FrameId(t, 1) \in KnownIds
      /\ obs[t].pc = "finishing" => Id("close", t, 0, 0) \in KnownIds
  BY <1>3 DEF Accounts, Closed
<1>5. t \notin held
  BY <1>3 DEF Guarded, Accounts, Holding
<1>6. pc = "lean" => \A n \in new : n.task # t
  BY <1>5 DEF Accounts, Pending
<1> HIDE DEF slots
<1>7. ASSUME NEW records, records \subseteq slots,
             \A r \in records : r.id \notin KnownIds => Id("close", t, 1, 0) \notin KnownIds
      PROVE  \A r \in records : r.id \notin KnownIds =>
               /\ \A l \in live : l.kind = "lean" => l.task # r.task
               /\ pc = "lean" => \A n \in new : n.task # r.task
  BY <1>1, <1>4, <1>6, <1>7 DEF IsClosing
<1>8. \A records : records \subseteq slots =>
        /\ OneRecord(records)
        /\ \A r \in records :
           /\ r.kind \in {"start", "result", "recap", "finish"} /\ r.left = {}
           /\ r.kind \in {"recap", "finish"} => r.task = t
           /\ r.kind = "result" => r.id = Id("frame", Parent[r.child], r.child, 1)
           /\ r.id[1] # "report"
           /\ r.id[1] = "close" => r.id[2] = t /\ r.kind \in {"recap", "finish"}
  BY <1>1 DEF OneRecord
<1>9. CASE CloseRecap(t)
  <2> PICK records : records = SlotOf(t, 0)
    OBVIOUS
  <2>1. CloseStep(t, "recapping", records, "finishing")
    BY <1>9 DEF CloseRecap
  <2>2. KnownIds' = KnownIds \cup Ids(records)
    BY <2>1, FoldEffect DEF CloseStep, Ingest, Remembers
  <2>3. records \subseteq slots /\ \A r \in records :
          r.kind = "recap" /\ r.id = Id("close", t, 0, 0)
    BY <1>1, <1>2, IdParts
  <2>4. Id("close", t, 0, 0) \in KnownIds'
    <3>1. PICK r \in slots : r.id = Id("close", t, 0, 0)
      BY <1>1
    <3>2. r \in records
      BY <1>2, <3>1, IdParts
    <3> QED BY <2>2, <3>1, <3>2 DEF Ids
  <2>5. \A r \in records : r.id \notin KnownIds =>
               /\ \A l \in live : l.kind = "lean" => l.task # r.task
               /\ pc = "lean" => \A n \in new : n.task # r.task
    BY <1>4, <1>7, <2>3
  <2>6. \A r \in records : IsClosing(r) /\ r.task = t => Id("close", t, 1, 0) \in KnownIds'
    BY <2>3 DEF IsClosing
  <2> QED BY <1>4, <1>8, <2>1, <2>2, <2>3, <2>4, <2>5, <2>6, CloseAccounts
<1>10. CASE CloseFinish(t)
  <2> PICK records : records = SlotOf(t, 1)
    OBVIOUS
  <2>1. CloseStep(t, "finishing", records, "shedding") /\ obs[t].pc = "finishing"
    BY <1>10 DEF CloseFinish, CloseStep
  <2>2. KnownIds' = KnownIds \cup Ids(records)
    BY <2>1, FoldEffect DEF CloseStep, Ingest, Remembers
  <2>3. records \subseteq slots /\ \A r \in records :
          r.kind = "finish" /\ r.id = Id("close", t, 1, 0)
    BY <1>1, <1>2, IdParts
  <2>4. Id("close", t, 1, 0) \in KnownIds' /\ Id("close", t, 0, 0) \in KnownIds'
    <3>1. PICK r \in slots : r.id = Id("close", t, 1, 0)
      BY <1>1
    <3>2. r \in records
      BY <1>2, <3>1, IdParts
    <3> QED BY <1>4, <2>1, <2>2, <3>1, <3>2 DEF Ids
  <2>5. \A r \in records : r.id \notin KnownIds =>
               /\ \A l \in live : l.kind = "lean" => l.task # r.task
               /\ pc = "lean" => \A n \in new : n.task # r.task
    BY <1>7, <2>3
  <2> QED BY <1>4, <1>8, <2>1, <2>2, <2>3, <2>4, <2>5, CloseAccounts
<1> QED BY <1>9, <1>10

\* A report that is due meets no reduced capsule, and takes the place of slots.
LEMMA WriteReportAccounts ==
  ASSUME Remembers, Accounts, NEW t \in Tasks, WriteReport(t)
  PROVE  Accounts'
<1>0. PICK slots : slots = Slots("report", t, FactsOf(Below(t)))
  OBVIOUS
<1>1. /\ obs[t].kind = "report" /\ obs[t].pc = "writing" /\ UNCHANGED compaction
      /\ IF Id("report", t, 0, 0) \in Ids(live) \cap obs[t].ids
           THEN UNCHANGED store ELSE FoldIn(obs[t].ids, Report(t))
  BY DEF WriteReport
<1>2. PICK o \in Observers :
           /\ obs' = [obs EXCEPT ![t] = o] /\ obs'[t] = o
           /\ o.pc = "shedding" /\ o.kind = obs[t].kind /\ o.ids = obs[t].ids
  BY ObserverAt DEF WriteReport
<1>3. Due(t) /\ ~Due(t)'
  BY <1>1, <1>2 DEF Due
<1>4. Id("report", t, 0, 0) \notin KnownIds
  BY <1>3 DEF Remembers, Observed
<1>5. \A l \in live : l.kind = "lean" => l.task # t
  BY <1>3 DEF Accounts, Alone
<1>6. \A r \in live : r.id \in obs[t].ids => r.task = t /\ r.kind \in {"recap", "finish", "lean"}
  BY DEF Accounts, Closed
<1>7. Report(t) = slots
  BY <1>5, <1>6, <1>0 DEF Report, Read
<1>8. FoldIn(obs[t].ids, slots)
  BY <1>1, <1>4, <1>7 DEF KnownIds
<1>9. /\ \A r \in slots :
           /\ r.left = {} /\ r.task = t /\ r.id[1] = "report" /\ r.id[2] = t
           /\ r.kind \in {"recap", "finish"}
      /\ OneRecord(slots)
      /\ \E r \in slots : r.id = Id("report", t, 0, 0)
  BY <1>0, SlotsOwned
<1>10. \E s \in live' : IsTurn(s) /\ s.task = t
  <2>1. PICK r \in slots : r.id = Id("report", t, 0, 0)
    BY <1>9
  <2>2. r \in live'
    BY <1>4, <1>8, <2>1, FoldEffect DEF Remembers
  <2> QED BY <1>9, <2>1, <2>2 DEF IsTurn
<1>11. pc = "lean" => \A n \in new : n.task # t
  BY <1>3 DEF Remembers, FoldTells
<1>12. t \notin held /\ t # Current
  BY <1>1 DEF Guarded, Accounts, Holding, Owned
<1>13. Closed(t)'
  <2>1. sel' = sel /\ \A r \in live : r.kind = "start" => r.id \notin obs[t].ids
    BY <1>1, <1>6 DEF compaction
  <2>2. \A r \in slots : r.id # Id("close", t, 1, 0)
    BY <1>9, IdParts
  <2>3. obs[t].kind \notin {"judge", "close"}
    BY <1>1
  <2> QED BY <1>2, <1>8, <2>1, <2>2, <2>3, ClosedAfter
<1>14. /\ \A r \in live : r.id \in obs[t].ids =>
            /\ r.task = t /\ r.kind \in {"raw", "recap", "finish", "lean"}
            /\ IsTurn(r) => \E s \in live' : IsTurn(s) /\ s.task = t
  BY <1>6, <1>10
<1>15. \A r \in slots :
         /\ r.kind \in {"segment", "start", "result", "recap", "finish"} /\ r.left = {}
         /\ r.kind \notin {"start", "result"} => r.task = t
         /\ r.kind = "result" => r.id = Id("frame", Parent[r.child], r.child, 1)
         /\ r.kind \in {"recap", "finish"} => t # Current
         /\ r.id[1] \in {"close", "report"} => r.id[2] = t /\ IsTurn(r) /\ r.task = t
  BY <1>9, <1>12 DEF IsTurn
<1>16. \A r \in slots : r.id \notin KnownIds =>
         /\ \A l \in live : l.kind = "lean" => l.task # r.task
         /\ pc = "lean" => \A n \in new : n.task # r.task
         /\ IsBody(r) => t \notin held
         /\ IsBody(r) => \E s \in live :
              IsBody(s) /\ s.task = t /\ (pc = "fold" => s.id \notin Ids(sel))
  BY <1>5, <1>9, <1>11 DEF IsBody
<1>17. PICK ids : ids = obs[t].ids
  OBVIOUS
<1>18. /\ \A r \in live : r.id \in ids =>
            /\ r.task = t /\ r.kind \in {"raw", "recap", "finish", "lean"}
            /\ IsTurn(r) => \E s \in live' : IsTurn(s) /\ s.task = t
       /\ FoldIn(ids, slots) /\ OneRecord(slots) /\ UNCHANGED compaction
  BY <1>1, <1>8, <1>9, <1>14, <1>17
<1>19. /\ Due(t)' => Due(t)
       /\ Guarded(t)' => t \notin held
       /\ o.kind \in {"judge", "close"} => obs[t].kind \in {"judge", "close"}
       /\ obs[t].kind = "segment" => o.kind = "segment"
  BY <1>2, <1>3, <1>12
<1> QED BY <1>2, <1>13, <1>15, <1>16, <1>18, <1>19, ObserverAccounts

\* Turns are shed, and nothing else.
LEMMA ShedAccounts ==
  ASSUME Remembers, Accounts, NEW t \in Tasks, Shed(t)
  PROVE  Accounts'
<1> DEFINE turns == Ids({r \in BodyOf(live, t) : r.kind = "raw" /\ ~IsPrompt(r)})
<1> PICK none : none = {}
  OBVIOUS
<1>0. obs[t].pc = "shedding" /\ UNCHANGED compaction
  BY DEF Shed
<1>1. PICK o \in Observers :
           /\ obs' = [obs EXCEPT ![t] = o] /\ obs'[t] = o
           /\ o.pc = "done" /\ o.kind = obs[t].kind /\ o.ids = obs[t].ids
  BY ObserverAt DEF Shed
<1>2. FoldIn(none, none) \/ FoldIn(turns, none)
  BY QuietFold DEF Shed
<1>3. PICK ids : (ids = none \/ ids = turns) /\ FoldIn(ids, none)
  BY <1>2
<1>4. ASSUME NEW s \in live, s.id \in ids
      PROVE  s.kind = "raw" /\ s.task = t
  <2>1. PICK r \in live : r.id = s.id /\ r.kind = "raw" /\ r.task = t
    BY <1>3, <1>4 DEF Ids, BodyOf
  <2>2. r = s
    BY <2>1 DEF Accounts, RecordsApart, OneRecord
  <2> QED BY <2>1, <2>2
<1>5. KnownIds' = KnownIds
  <2>1. KnownIds' = KnownIds \cup Ids(none)
    BY <1>3, FoldEffect DEF Remembers
  <2> QED BY <2>1 DEF Ids
<1>6. Closed(t)'
  <2>1. Closed(t)
    BY DEF Accounts
  <2>2. sel' = sel /\ \A r \in live : r.kind = "start" => r.id \notin ids
    BY <1>0, <1>4 DEF compaction
  <2>3. Id("report", t, 1, 0) \in KnownIds' => obs[t].kind \notin {"judge", "close"}
    BY <1>5, <2>1 DEF Closed
  <2>4. /\ \A r \in none : r.id = Id("close", t, 1, 0) => obs[t].kind = "close"
        /\ \A r \in none : IsClosing(r) /\ r.task = t => Id("close", t, 1, 0) \in KnownIds'
    OBVIOUS
  <2>5. obs[t].kind \in {"judge", "close"} =>
          (Id("close", t, 1, 0) \in KnownIds' => Id("close", t, 0, 0) \in KnownIds')
    BY <1>5, <2>1 DEF Closed
  <2>6. obs[t].kind = "close" =>
           /\ obs'[t].pc = "finishing" => Id("close", t, 0, 0) \in KnownIds'
           /\ Parent[t] # 0 /\ (\/ obs'[t].pc \in {"recapping", "finishing", "shedding"}
                                \/ Id("close", t, 1, 0) \in KnownIds')
                => FrameId(t, 1) \in KnownIds'
    BY <1>1, <1>5, <2>1 DEF Closed
  <2> QED BY <1>1, <1>3, <2>2, <2>3, <2>4, <2>5, <2>6, ClosedAfter
<1>7. /\ \A r \in live : r.id \in ids =>
           /\ r.task = t /\ r.kind \in {"raw", "recap", "finish", "lean"}
           /\ IsTurn(r) => \E s \in live' : IsTurn(s) /\ s.task = t
  BY <1>4 DEF IsTurn
<1>8. OneRecord(none)
  BY DEF OneRecord
<1>9. \A r \in none :
         /\ r.kind \in {"segment", "start", "result", "recap", "finish"} /\ r.left = {}
         /\ r.kind \notin {"start", "result"} => r.task = t
         /\ r.kind = "result" => r.id = Id("frame", Parent[r.child], r.child, 1)
         /\ r.kind \in {"recap", "finish"} => t # Current
         /\ r.id[1] \in {"close", "report"} => r.id[2] = t /\ IsTurn(r) /\ r.task = t
  OBVIOUS
<1>10. \A r \in none : r.id \notin KnownIds =>
         /\ \A l \in live : l.kind = "lean" => l.task # r.task
         /\ pc = "lean" => \A n \in new : n.task # r.task
         /\ IsBody(r) => t \notin held
         /\ IsBody(r) => \E s \in live :
              IsBody(s) /\ s.task = t /\ (pc = "fold" => s.id \notin Ids(sel))
  OBVIOUS
<1>11. /\ Due(t)' => Due(t)
       /\ Guarded(t)' => t \notin held
       /\ o.kind \in {"judge", "close"} => obs[t].kind \in {"judge", "close"}
       /\ obs[t].kind = "segment" => o.kind = "segment"
  BY <1>1 DEF Due, Guarded
<1>12. FoldIn(ids, none) /\ UNCHANGED compaction
  BY <1>0, <1>3
<1> QED BY <1>1, <1>6, <1>7, <1>8, <1>9, <1>10, <1>11, <1>12, ObserverAccounts

\* A parent waits for a child that may still be closed.
LEMMA WaitsForChild ==
  ASSUME Remembers, Accounts, NEW u \in Tasks, obs[u].kind \in {"judge", "close"},
         Parent[u] # 0, FrameId(u, 1) \notin KnownIds,
         NEW s \in live, s.kind = "start", s.child = u
  PROVE  s.task \in Waiting(live)
<1>1. Closed(u) /\ Observed(u) /\ Owned
  BY DEF Remembers, Accounts
<1>2. u \notin ClosedIn(live)
  <2> SUFFICES ASSUME NEW r \in live, IsClosing(r), r.task = u PROVE FALSE
    BY DEF ClosedIn
  <2>1. Id("close", u, 1, 0) \in KnownIds
    BY <1>1 DEF Closed
  <2>2. CASE obs[u].kind = "judge"
    BY <1>1, <2>1, <2>2 DEF Observed
  <2>3. CASE obs[u].kind = "close"
    BY <1>1, <2>1, <2>3 DEF Closed
  <2> QED BY <2>2, <2>3
<1>3. u \notin ChildrenBack(live)
  <2> SUFFICES ASSUME NEW r \in live, r.kind = "result", r.child = u PROVE FALSE
    BY DEF ChildrenBack
  <2>1. r.id = FrameId(u, 1)
    BY <1>1 DEF Owned, FrameId
  <2> QED BY <2>1 DEF KnownIds, Ids
<1> QED BY <1>2, <1>3 DEF Waiting

\* What descends from more tasks descends from one of them.
LEMMA DescendantsSplit ==
  ASSUME NEW P, NEW ts, NEW v \in Descendants(P, ts)
  PROVE  \E t \in ts : v \in Descendants(P, {t})
<1> DEFINE S == {w \in ts \cup DOMAIN P : \E t \in ts : w \in Descendants(P, {t})}
<1>1. \A t : t \in Descendants(P, {t})
  BY DEF Descendants
<1>2. ts \subseteq S
  BY <1>1
<1>3. ASSUME NEW w \in DOMAIN P, P[w] \in S PROVE w \in S
  <2>1. PICK t \in ts : P[w] \in Descendants(P, {t})
    BY <1>3
  <2>2. w \in Descendants(P, {t})
    BY <2>1 DEF Descendants
  <2> QED BY <2>1, <2>2
<1>4. S \in SUBSET (ts \cup DOMAIN P)
  OBVIOUS
<1> HIDE DEF S
<1>5. v \in S
  BY <1>2, <1>3, <1>4 DEF Descendants
<1> QED BY <1>5 DEF S

\* Nobody who waits is selected, and what is selected of the current task is its body.
LEMMA ChosenIsDone ==
  ASSUME Remembers
  PROVE  /\ Chosen \subseteq live
         /\ \A r \in Chosen : r.kind = "start" => r.task \notin Waiting(live)
         /\ level = "current" => \A r \in Chosen : IsBody(r) /\ r.task = Current
<1>1. Chosen \subseteq live
  BY ChosenIsThere DEF Remembers
<1>2. CASE level = "current"
  <2>1. \A r \in Chosen : r \in BodyOf(live, Current)
    BY <1>2 DEF Chosen, Collapsing
  <2>2. \A r \in Chosen : IsBody(r) /\ r.task = Current
    BY <2>1 DEF BodyOf
  <2> QED BY <1>1, <2>2 DEF IsBody
<1>3. CASE level # "current"
  <2> SUFFICES ASSUME NEW r \in Selection(live, Keep), r.kind = "start", r.task \in Waiting(live)
               PROVE  FALSE
    BY <1>1, <1>3 DEF Chosen
  <2> PICK P : P = Parents(live)
    OBVIOUS
  <2> PICK folding : folding = Roots(live) \ Newest(Roots(live), Keep)
    OBVIOUS
  <2>1. r.task \in Descendants(P, folding)
    BY DEF Selection
  <2>2. PICK t \in folding : r.task \in Descendants(P, {t})
    BY <2>1, DescendantsSplit
  <2>3. t \in Roots(live)
    OBVIOUS
  <2>4. Descendants(P, {t}) \cap Waiting(live) = {}
    BY <2>3 DEF Roots
  <2> QED BY <2>2, <2>4
<1> QED BY <1>2, <1>3

\* A step of the compaction that writes nothing chooses among what there is, and
\* leaves who waits.
LEMMA QuietCompactionAccounts ==
  ASSUME Remembers, Accounts, UNCHANGED <<store, obs>>,
         sel' \subseteq live \cup sel, todo' \subseteq {r \in live : Pictured(r)} \cup todo,
         \A r \in sel' : r \in sel \/ (r.kind = "start" => r.task \notin Waiting(live)),
         pc' \notin {"pictures", "rewrite"} => todo' = {},
         Holding', Pending'
  PROVE  Accounts'
<1> USE DEF Accounts
<1>1. live' = live /\ gone' = gone /\ KnownIds' = KnownIds /\ obs' = obs
  BY DEF store, KnownIds, Ids
<1>2. RecordsApart'
  <2>1. live' \cup sel' \subseteq live \cup sel
    BY <1>1
  <2> QED BY <2>1 DEF RecordsApart, OneRecord
<1>3. Owned' /\ Residue'
  BY <1>1 DEF Owned, Residue, Reached, Residuals, WasClosed, BodyOf
<1>4. ASSUME NEW r \in todo'
      PROVE  /\ \A l \in live : l.kind = "lean" => l.task # r.task
             /\ r.task \in Past /\ WasClosed(r.task) => Reached(r.task)
  <2>1. CASE r \in todo
    BY <2>1 DEF Alone, Marked
  <2>2. CASE r \in live /\ Pictured(r)
    BY <2>2 DEF Pictured, Alone, Residue, BodyOf, IsBody
  <2> QED BY <2>1, <2>2
<1>5. Alone'
  BY <1>1, <1>4 DEF Alone, Due
<1>6. Marked'
  BY <1>1, <1>4 DEF Marked, WasClosed, Reached, Residuals, Past
<1>7. ASSUME NEW u \in Tasks PROVE Closed(u)'
  <2>1. Closed(u)
    OBVIOUS
  <2>2. ASSUME obs[u].kind \in {"judge", "close"}, Parent[u] # 0 PROVE Backed(u)'
    <3>1. Backed(u)
      BY <2>1, <2>2 DEF Closed
    <3>2. CASE FrameId(u, 1) \in KnownIds
      BY <1>1, <3>1, <3>2 DEF Backed, FrameId
    <3>3. CASE FrameId(u, 1) \notin KnownIds
      <4>1. PICK s \in live : /\ s.id = FrameId(u, 0) /\ s.kind = "start" /\ s.task = Parent[u]
                              /\ s.child = u /\ s.id \notin Ids(sel)
        BY <3>1, <3>3 DEF Backed
      <4>2. s.task \in Waiting(live)
        BY <2>2, <3>3, <4>1, WaitsForChild
      <4>3. s.id \notin Ids(sel')
        <5> SUFFICES ASSUME NEW r \in sel', r.id = s.id PROVE FALSE
          BY DEF Ids
        <5>1. r = s
          BY DEF RecordsApart, OneRecord
        <5>2. r \notin sel
          BY <4>1 DEF Ids
        <5> QED BY <4>1, <4>2, <5>1, <5>2
      <4> QED BY <1>1, <3>1, <4>1, <4>3 DEF Backed, FrameId
    <3> QED BY <3>2, <3>3
  <2> QED BY <1>1, <2>1, <2>2 DEF Closed, FrameId
<1> QED BY <1>2, <1>3, <1>5, <1>6, <1>7

\* Where nothing is about to be folded nobody is held and nothing is pending.
LEMMA NothingPending ==
  ASSUME Accounts, pc \notin {"fold", "lean"}, held' = held,
         pc' \notin {"summarise", "fold", "lean"}
  PROVE  held = {} /\ Holding' /\ Pending'
<1>1. held = {}
  BY DEF Accounts, Holding
<1> QED BY <1>1 DEF Holding, Pending

\* The steps that only look and go on.
LEMMA LookingAccounts ==
  ASSUME Remembers, Accounts, Begin \/ EnterHistory \/ Outage \/ EnterCapsules \/ EnterCurrent
  PROVE  Accounts'
<1>1. UNCHANGED <<store, obs>> /\ held' = held
  BY DEF Begin, EnterHistory, Outage, EnterCapsules, EnterCurrent
<1>2. sel' \subseteq sel
  BY DEF Begin, EnterHistory, Outage, EnterCapsules, EnterCurrent
<1>3. todo' \subseteq {r \in live : Pictured(r)} \cup todo
  BY DEF Begin, EnterHistory, Outage, EnterCapsules, EnterCurrent
<1>4. /\ pc' \in {"pictures", "select", "capsules", "idle", "capsule"}
      /\ pc \in {"idle", "history", "summarise", "capsules", "capsule", "check"}
  BY DEF Begin, MayCompact, EnterHistory, Outage, EnterCapsules, EnterCurrent, Go
<1>5. pc' # "pictures" => todo' = todo
  BY DEF Begin, EnterHistory, Outage, EnterCapsules, EnterCurrent, Go
<1>6. pc' \notin {"pictures", "rewrite"} => todo' = {}
  BY <1>4, <1>5 DEF Accounts, Marked
<1>7. Holding' /\ Pending'
  BY <1>1, <1>4, NothingPending
<1> QED BY <1>1, <1>2, <1>3, <1>6, <1>7, QuietCompactionAccounts

\* Selecting writes nothing, and knows of every digest it selects.
LEMMA SelectAccounts ==
  ASSUME Remembers, Accounts, Select \/ Reselect
  PROVE  Accounts'
<1>0. UNCHANGED <<store, level, obs>> /\ held' = held /\ pc \in {"select", "reselect"}
  BY DEF Select, Reselect
<1>1. \/ AfterLevel(FALSE) /\ UNCHANGED <<sel, todo>>
      \/ Digest
      \/ todo' = {r \in Chosen : Pictured(r)} /\ Go("rewrite") /\ UNCHANGED sel
  BY DEF Select, Reselect
<1>2. /\ Chosen \subseteq live
      /\ \A r \in Chosen : r.kind = "start" => r.task \notin Waiting(live)
      /\ level = "current" => \A r \in Chosen : IsBody(r) /\ r.task = Current
  BY ChosenIsDone
<1>3. todo = {}
  BY <1>0 DEF Accounts, Marked
<1>4. CASE AfterLevel(FALSE) /\ UNCHANGED <<sel, todo>>
  <2>1. pc' \in {"idle", "capsules", "check"}
    BY <1>4, AfterLevelGoes
  <2>2. Holding' /\ Pending'
    BY <1>0, <2>1, NothingPending
  <2> QED BY <1>0, <1>3, <1>4, <2>2, QuietCompactionAccounts
<1>5. CASE Digest
  <2>1. sel' = Chosen /\ todo' = {} /\ pc' = "summarise" /\ level' = level
          /\ prior' = Residuals(live)
    BY <1>0, <1>5 DEF Digest, Go
  <2>2. held = {}
    BY <1>0 DEF Accounts, Holding
  <2>3. Holding'
    BY <1>0, <2>2 DEF Holding
  <2>4. \A r \in sel' : r.left \subseteq prior'
    BY <1>2, <2>1 DEF Residuals
  <2>5. Pending'
    BY <1>2, <2>1, <2>4 DEF Pending
  <2> QED BY <1>0, <1>2, <2>1, <2>3, <2>5, QuietCompactionAccounts
<1>6. CASE todo' = {r \in Chosen : Pictured(r)} /\ Go("rewrite") /\ UNCHANGED sel
  <2>1. Holding' /\ Pending'
    BY <1>0, <1>6, NothingPending DEF Go
  <2>2. todo' \subseteq {r \in live : Pictured(r)} \cup todo /\ pc' = "rewrite"
    BY <1>2, <1>6 DEF Go
  <2> QED BY <1>0, <1>6, <2>1, <2>2, QuietCompactionAccounts
<1> QED BY <1>1, <1>4, <1>5, <1>6

\* The digest names every task of which something is left behind.
LEMMA TakeGuardsAccounts ==
  ASSUME Remembers, Accounts, TakeGuards
  PROVE  Accounts'
<1>0. /\ UNCHANGED <<store, obs>> /\ pc' = "fold" /\ sel' = sel /\ todo' = todo /\ prior' = prior
      /\ new' = {DigestRecord} /\ held' = SelOrigins /\ pc = "summarise"
      /\ \A t \in SelOrigins : ~Guarded(t)
  BY DEF TakeGuards, Go, HeldFor
<1>1. DigestRecord.left = LeftBehind
  BY DEF DigestRecord, Record
<1>2. todo' = {}
  BY <1>0 DEF Accounts, Marked
<1>3. Holding'
  BY <1>0 DEF Holding, Guarded, SelOrigins
<1>4. ASSUME NEW s \in live, IsBody(s), s.id \notin Ids(sel), s.task \in SelOrigins \cup prior
      PROVE  s.task \in LeftBehind
  BY <1>4 DEF LeftBehind, Ids
<1>5. live' = live /\ SelOrigins' = SelOrigins
  BY <1>0 DEF store, SelOrigins
<1>6. \A r \in sel : r.left \subseteq prior
  BY <1>0 DEF Accounts, Pending
<1>7. Pending'
  BY <1>0, <1>1, <1>4, <1>5, <1>6 DEF Pending
<1> QED BY <1>0, <1>2, <1>3, <1>7, QuietCompactionAccounts

\* A capsule is taken with one closing slot, when nobody below it waits.
LEMMA TakeCapsuleAccounts ==
  ASSUME Remembers, Accounts, TakeCapsule
  PROVE  Accounts'
<1>1. PICK t : t = Min(queue)
  OBVIOUS
<1>2. PICK tree : tree = Descendants(Parents(live), {t})
  OBVIOUS
<1>3. PICK closing : closing = ReportIn(live, t)
  OBVIOUS
<1>0. UNCHANGED <<store, obs>> /\ todo' = todo /\ pc = "capsule"
  BY DEF TakeCapsule
<1>4. \/ GoOrStop("capsule") /\ UNCHANGED <<sel, new, held>>
      \/ /\ closing # {} /\ Waiting(live) \cap tree = {}
         /\ sel' = {r \in live : r.task \in tree}
         /\ new' = {Record(Id("demote", t, r.id[3], IF r.id[1] = "report" THEN 1 ELSE 0),
                           "lean", t, r.tells) : r \in closing}
         /\ held' = tree /\ (\A u \in tree : ~Guarded(u)) /\ pc' = "lean"
  BY <1>1, <1>2, <1>3 DEF TakeCapsule, Go, HeldFor
<1>5. \A r \in closing : r \in live /\ r.task = t /\ r.kind = "finish" /\ r.tells # {}
  BY <1>3 DEF ReportIn
<1>6. t \in tree
  BY <1>2 DEF Descendants
<1>7. todo' = {}
  BY <1>0 DEF Accounts, Marked
<1>8. CASE GoOrStop("capsule") /\ UNCHANGED <<sel, new, held>>
  <2>1. pc' \in {"idle", "capsule"}
    BY <1>8 DEF GoOrStop, Go
  <2>2. Holding' /\ Pending'
    BY <1>0, <1>8, <2>1, NothingPending
  <2> QED BY <1>0, <1>7, <1>8, <2>2, QuietCompactionAccounts
<1>9. CASE /\ closing # {} /\ Waiting(live) \cap tree = {}
           /\ sel' = {r \in live : r.task \in tree}
           /\ new' = {Record(Id("demote", t, r.id[3], IF r.id[1] = "report" THEN 1 ELSE 0),
                             "lean", t, r.tells) : r \in closing}
           /\ held' = tree /\ (\A u \in tree : ~Guarded(u)) /\ pc' = "lean"
  <2>0. RecordsShaped
    BY DEF Remembers
  <2>1. PICK c \in closing : c \in live /\ c.task = t /\ c.kind = "finish" /\ c.tells # {}
    BY <1>5, <1>9
  <2>2. t \in Tasks /\ t # Current
    BY <2>0, <2>1 DEF RecordsShaped, Shaped, Accounts, Owned
  <2>3. tree \subseteq Tasks
    <3>1. \A r \in live : r.kind \in {"recap", "finish", "lean"} => r.task \in Tasks
      BY <2>0 DEF RecordsShaped, Shaped
    <3> QED BY <1>2, <2>2, <3>1, TreeIsBelow, BelowFacts
  <2>4. \A r \in closing : r = c
    <3> SUFFICES ASSUME NEW r \in closing PROVE r.id = c.id
      BY <1>5, <2>1 DEF Accounts, RecordsApart, OneRecord
    <3>1. /\ r \in live /\ r.task = t /\ r.tells # {}
          /\ \E name \in {"close", "report"} : r.id = Id(name, t, 1, 0)
          /\ \E name \in {"close", "report"} : c.id = Id(name, t, 1, 0)
      BY <1>5, <2>0, <2>1 DEF RecordsShaped, Shaped
    <3>2. Closed(t)
      BY <2>2 DEF Accounts
    <3>3. ~(Id("close", t, 1, 0) \in {r.id, c.id} /\ Id("report", t, 1, 0) \in {r.id, c.id})
      BY <2>1, <3>1, <3>2 DEF Closed, KnownIds, Ids
    <3> QED BY <3>1, <3>3
  <2>5. PICK n : new' = {n} /\ n.task = t
    <3> DEFINE n == Record(Id("demote", t, c.id[3], IF c.id[1] = "report" THEN 1 ELSE 0),
                           "lean", t, c.tells)
    <3>1. new' = {n}
      BY <1>9, <2>1, <2>4
    <3>2. n.task = t
      BY DEF Record
    <3> QED BY <3>1, <3>2
  <2>6. Holding'
    BY <1>0, <1>9, <2>3, MemoryAssumption DEF Holding, Guarded
  <2>7. ASSUME NEW u \in Tasks, Parent[u] = t, obs[u].kind \in {"judge", "close"}
        PROVE  FrameId(u, 1) \in KnownIds
    <3> SUFFICES ASSUME FrameId(u, 1) \notin KnownIds PROVE FALSE
      OBVIOUS
    <3>0. Parent[u] # 0
      BY <2>2, <2>7, MemoryAssumption
    <3>1. Backed(u)
      BY <2>7, <3>0 DEF Accounts, Closed
    <3>2. PICK s \in live : s.kind = "start" /\ s.task = Parent[u] /\ s.child = u
      BY <3>1 DEF Backed
    <3>3. s.task \in Waiting(live)
      BY <2>7, <3>0, <3>2, WaitsForChild
    <3> QED BY <1>6, <1>9, <2>7, <3>2, <3>3
  <2>8. live' = live /\ KnownIds' = KnownIds /\ obs' = obs
    BY <1>0 DEF store, KnownIds, Ids
  <2>9. /\ \A r \in sel' : r.task \in held'
        /\ \A s \in live : s.task \in tree => s.id \in Ids(sel')
    BY <1>9 DEF Ids
  <2>10. Pending'
    BY <1>6, <1>9, <2>2, <2>5, <2>7, <2>8, <2>9 DEF Pending, FrameId
  <2>11. \A r \in sel' : r \in sel \/ (r.kind = "start" => r.task \notin Waiting(live))
    BY <1>9
  <2> QED BY <1>0, <1>7, <1>9, <2>6, <2>10, <2>11, QuietCompactionAccounts
<1> QED BY <1>4, <1>8, <1>9

\* What a fold of the compaction has to account for: it leaves reduced capsules alone
\* and what is left of closed tasks within reach.
LEMMA CompactionAccounts ==
  ASSUME Remembers, Accounts, UNCHANGED obs,
         NEW ids, NEW records, FoldIn(ids, records), OneRecord(records),
         sel' \subseteq sel, todo' = {}, held' = {}, pc' \notin {"summarise", "fold", "lean"},
         \A r \in live : r.kind = "start" /\ r.id \in ids => r.id \in Ids(sel),
         \A r \in records :
           /\ r.id[1] \notin {"report", "close"}
           /\ r.kind \notin {"start", "result", "recap", "finish"}
           /\ r.kind # "digest" => r.left = {}
           /\ r.kind = "lean" => r.task # Current
           /\ IsClosing(r) /\ obs[r.task].kind \in {"judge", "close"}
                => Id("close", r.task, 1, 0) \in KnownIds,
         Alone', Residue'
  PROVE  Accounts'
<1> USE DEF Accounts
<1>1. /\ live' = {r \in live : r.id \notin ids} \cup {r \in records : r.id \notin KnownIds}
      /\ KnownIds' = KnownIds \cup Ids(records)
  BY FoldEffect DEF Remembers
<1>2. RecordsApart'
  <2>1. OneRecord(live' \cup sel)
    BY FoldApart DEF Remembers
  <2> QED BY <2>1 DEF RecordsApart, OneRecord
<1>3. Owned'
  BY <1>1 DEF Owned
<1>4. Marked' /\ Holding' /\ Pending'
  BY DEF Marked, Holding, Pending
<1>5. ASSUME NEW u \in Tasks PROVE Closed(u)'
  <2>1. obs'[u] = obs[u] /\ Ids(sel') \subseteq Ids(sel)
    BY DEF Ids
  <2>2. /\ \A r \in records : r.id[1] \in {"report", "close"} => r.id[2] # u
        /\ \A r \in records : r.id \notin KnownIds /\ IsClosing(r) /\ r.task = u
             /\ obs[u].kind \in {"judge", "close"} => Id("close", u, 1, 0) \in KnownIds
    OBVIOUS
  <2> QED BY <2>1, <2>2, ClosedKept
<1> QED BY <1>2, <1>3, <1>4, <1>5

\* Only the slots of a task show that it was closed.
LEMMA StaysUnclosed ==
  ASSUME NEW ids, NEW records, FoldIn(ids, records), IdsAccounted, NEW t, WasClosed(t)',
         \A r \in records : r.id[1] \notin {"report", "close"}
  PROVE  WasClosed(t)
<1>1. KnownIds' = KnownIds \cup Ids(records)
  BY FoldEffect
<1>2. PICK i \in KnownIds' : i[2] = t /\ i[1] \in {"close", "report"} /\ i[3] = 1
  BY DEF WasClosed
<1>3. i \in KnownIds
  BY <1>1, <1>2 DEF Ids
<1> QED BY <1>2, <1>3 DEF WasClosed

\* A picture that is rewritten stays the record of its task.
LEMMA PlainKeeps ==
  ASSUME NEW r, Shaped(r), r.kind = "raw", r.id[4] = 0
  PROVE  /\ Plain(r).kind = "raw" /\ Plain(r).task = r.task /\ Plain(r).left = {} /\ r.left = {}
         /\ Plain(r).id[1] = "raw"
         /\ Plain(r) = Record(Plain(r).id, "raw", Plain(r).id[2],
                              {<<Plain(r).id[2], Plain(r).id[3]>>})
<1> PICK p : p = Plain(r)
  OBVIOUS
<1>1. /\ Shaped(p) /\ p.id[1] = "raw"
      /\ \E t \in Tasks : \E n \in 1 .. Turns[t] :
           r.id = Id("raw", t, n, 0) /\ p.id = Id("raw", t, n, 1)
  BY PlainIs
<1>2. PICK t \in Tasks : \E n \in 1 .. Turns[t] :
             r.id = Id("raw", t, n, 0) /\ p.id = Id("raw", t, n, 1)
  BY <1>1
<1>3. PICK n \in 1 .. Turns[t] : r.id = Id("raw", t, n, 0) /\ p.id = Id("raw", t, n, 1)
  BY <1>2
<1>4. r.id[1] = "raw" /\ r.id[2] = t /\ p.id[2] = t /\ p.id[3] = n /\ p.id[4] = 1
  BY <1>3, IdParts
<1>5. /\ r.task = t /\ r = Record(Id("raw", t, r.id[3], r.id[4]), "raw", t, r.tells)
  BY <1>4, RawTells
<1>6. /\ p.kind = "raw" /\ p.task = t /\ p.tells = {<<t, n>>}
      /\ p = Record(Id("raw", t, n, 1), "raw", t, p.tells)
  BY <1>1, <1>4, RawTells
<1>7. r.left = {} /\ p.left = {}
  BY <1>5, <1>6 DEF Record
<1> QED BY <1>1, <1>3, <1>4, <1>5, <1>6, <1>7

\* Pictures are rewritten only where they are in nobody's way.
LEMMA PicturesAccounts ==
  ASSUME Remembers, Accounts, DemotePictures \/ Rewrite
  PROVE  Accounts'
<1> PICK records : records = {Plain(r) : r \in todo}
  OBVIOUS
<1> PICK ids : ids = Ids(todo)
  OBVIOUS
<1>0. /\ FoldIn(ids, records) /\ UNCHANGED <<sel, obs>> /\ todo' = {} /\ held' = held
      /\ pc \in {"pictures", "rewrite"} /\ pc' \in {"idle", "history", "reselect"}
  BY DEF DemotePictures, Rewrite, RewritePictures, GoOrStop, Go
<1>1. IdsAccounted /\ RecordsShaped
  BY DEF Remembers
<1>2. ASSUME NEW r \in todo
      PROVE  /\ Plain(r).kind = "raw" /\ Plain(r).task = r.task /\ Plain(r).left = {} /\ r.left = {}
             /\ Plain(r).id[1] = "raw"
             /\ Plain(r) = Record(Plain(r).id, "raw", Plain(r).id[2],
                                  {<<Plain(r).id[2], Plain(r).id[3]>>})
  BY <1>1, PlainKeeps DEF RecordsShaped
<1>3. \A p \in records : \E r \in todo : p.task = r.task
  BY <1>2
<1>4. \A p \in records : p.kind = "raw" /\ p.left = {} /\ p.id[1] = "raw"
  BY <1>2
<1>5. OneRecord(records)
  <2>1. \A p \in records : p = Record(p.id, "raw", p.id[2], {<<p.id[2], p.id[3]>>})
    BY <1>2
  <2> QED BY <2>1 DEF OneRecord
<1>6. ASSUME NEW s \in live, s.id \in ids PROVE s.kind = "raw"
  <2>1. PICK r \in todo : r.id = s.id
    BY <1>6 DEF Ids
  <2>2. r.id[1] = "raw"
    BY <1>1, <2>1, RawIds DEF RecordsShaped
  <2> QED BY <1>1, <2>1, <2>2, RawTells DEF RecordsShaped
<1>7. live' = {r \in live : r.id \notin ids} \cup {r \in records : r.id \notin KnownIds}
  BY <1>0, <1>1, FoldEffect
<1>8. Alone'
  <2> SUFFICES ASSUME NEW l \in live', l.kind = "lean"
               PROVE  ~Due(l.task)' /\ \A s \in live' : s.task = l.task => s = l
    BY <1>0 DEF Alone
  <2>1. l \in live
    BY <1>4, <1>7
  <2>2. /\ ~Due(l.task) /\ (\A s \in live : s.task = l.task => s = l)
        /\ \A r \in todo : r.task # l.task
    BY <2>1 DEF Accounts, Alone
  <2>3. ~Due(l.task)'
    BY <1>0, <2>2 DEF Due
  <2> QED BY <1>3, <1>7, <2>2, <2>3
<1>9. Residue'
  <2> SUFFICES ASSUME NEW t \in Past, WasClosed(t)', NEW s \in live', IsBody(s), s.task = t
               PROVE  Reached(t)'
    BY DEF Residue, BodyOf, Past
  <2>1. WasClosed(t)
    <3>1. \A r \in records : r.id[1] \notin {"report", "close"}
      BY <1>4
    <3> QED BY <1>0, <1>1, <3>1, StaysUnclosed
  <2>2. Reached(t)
    <3>1. CASE s \in live
      BY <2>1, <3>1 DEF Accounts, Residue, BodyOf
    <3>2. CASE s \in records
      <4>1. PICK r \in todo : s.task = r.task
        BY <1>3, <3>2
      <4> QED BY <2>1, <4>1 DEF Accounts, Marked
    <3> QED BY <1>7, <3>1, <3>2
  <2>3. \A r \in live : r.id \in ids => (IsTurn(r) => r.task # t) /\ r.left = {}
    BY <1>6 DEF IsTurn, Accounts, Owned
  <2> QED BY <1>0, <1>1, <2>2, <2>3, StaysReached
<1>10. held' = {} /\ sel' \subseteq sel /\ pc' \notin {"summarise", "fold", "lean"}
  BY <1>0 DEF Accounts, Holding
<1>11. /\ \A r \in live : r.kind = "start" /\ r.id \in ids => r.id \in Ids(sel)
       /\ \A r \in records :
           /\ r.id[1] \notin {"report", "close"}
           /\ r.kind \notin {"start", "result", "recap", "finish"}
           /\ r.kind # "digest" => r.left = {}
           /\ r.kind = "lean" => r.task # Current
           /\ IsClosing(r) /\ obs[r.task].kind \in {"judge", "close"}
                => Id("close", r.task, 1, 0) \in KnownIds
  BY <1>4, <1>6 DEF IsClosing
<1>12. UNCHANGED obs /\ todo' = {}
  BY <1>0
<1>13. FoldIn(ids, records)
  BY <1>0
<1> QED BY <1>5, <1>8, <1>9, <1>10, <1>11, <1>12, <1>13, CompactionAccounts

\* What is selected is there, or is gone.
LEMMA SelectedIs ==
  ASSUME Accounts, NEW s \in live, s.id \in Ids(sel)
  PROVE  s \in sel
  BY DEF Accounts, RecordsApart, OneRecord, Ids

\* The current task is collapsed, which is nobody's but its own.
LEMMA CollapseAccounts ==
  ASSUME Remembers, Accounts, Collapse
  PROVE  Accounts'
<1>1. PICK k : k = Cardinality(Named("collapsed"))
  OBVIOUS
<1>2. PICK c : c = Record(Id("collapsed", Current, 0, k), "collapsed", Current, Told(sel))
  OBVIOUS
<1>3. PICK ids : ids = Ids(sel)
  OBVIOUS
<1>4. PICK records : records = {c}
  OBVIOUS
<1>0. /\ FoldIn(ids, records) /\ UNCHANGED obs /\ todo' = todo /\ sel' = {} /\ pc' = "idle"
      /\ held' = {} /\ pc = "summarise" /\ level = "current"
  BY <1>1, <1>2, <1>3, <1>4 DEF Collapse, Finish, Go, Named
<1>5. IdsAccounted /\ RecordsShaped
  BY DEF Remembers
<1>6. c.kind = "collapsed" /\ c.left = {} /\ c.task = Current /\ c.id[1] = "collapsed"
  BY <1>2, IdParts DEF Record
<1>7. live' = {r \in live : r.id \notin ids} \cup {r \in records : r.id \notin KnownIds}
  BY <1>0, <1>5, FoldEffect
<1>8. ASSUME NEW s \in live, s.id \in ids PROVE IsBody(s) /\ s.task = Current
  BY <1>0, <1>3, <1>8, SelectedIs DEF Accounts, Pending
<1>9. todo' = {}
  BY <1>0 DEF Accounts, Marked
<1>10. Alone'
  <2> SUFFICES ASSUME NEW l \in live', l.kind = "lean"
               PROVE  ~Due(l.task)' /\ \A s \in live' : s.task = l.task => s = l
    BY <1>9 DEF Alone
  <2>1. l \in live
    BY <1>4, <1>6, <1>7
  <2>2. ~Due(l.task) /\ (\A s \in live : s.task = l.task => s = l) /\ l.task # Current
    BY <2>1 DEF Accounts, Alone, Owned
  <2>3. ~Due(l.task)'
    BY <1>0, <2>2 DEF Due
  <2> QED BY <1>4, <1>6, <1>7, <2>2, <2>3
<1>11. Residue'
  <2> SUFFICES ASSUME NEW t \in Past, WasClosed(t)', NEW s \in live', IsBody(s), s.task = t
               PROVE  Reached(t)'
    BY DEF Residue, BodyOf, Past
  <2>1. WasClosed(t)
    <3>1. \A r \in records : r.id[1] \notin {"report", "close"}
      BY <1>4, <1>6
    <3> QED BY <1>0, <1>5, <3>1, StaysUnclosed
  <2>2. s \in live
    BY <1>4, <1>6, <1>7 DEF Past
  <2>3. Reached(t)
    BY <2>1, <2>2 DEF Accounts, Residue, BodyOf
  <2>4. \A r \in live : r.id \in ids => (IsTurn(r) => r.task # t) /\ r.left = {}
    BY <1>8 DEF IsTurn, IsBody, Accounts, Owned
  <2> QED BY <1>0, <1>5, <2>3, <2>4, StaysReached
<1>12. /\ \A r \in live : r.kind = "start" /\ r.id \in ids => r.id \in Ids(sel)
       /\ \A r \in records :
           /\ r.id[1] \notin {"report", "close"}
           /\ r.kind \notin {"start", "result", "recap", "finish"}
           /\ r.kind # "digest" => r.left = {}
           /\ r.kind = "lean" => r.task # Current
           /\ IsClosing(r) /\ obs[r.task].kind \in {"judge", "close"}
                => Id("close", r.task, 1, 0) \in KnownIds
  BY <1>3, <1>4, <1>6 DEF IsClosing
<1>13. OneRecord(records) /\ sel' \subseteq sel /\ pc' \notin {"summarise", "fold", "lean"}
  BY <1>0, <1>4 DEF OneRecord
<1>14. FoldIn(ids, records) /\ UNCHANGED obs /\ held' = {}
  BY <1>0
<1> QED BY <1>9, <1>10, <1>11, <1>12, <1>13, <1>14, CompactionAccounts

\* The digest names the tasks whose turns it takes away and of which something is left.
LEMMA FoldHistoryAccounts ==
  ASSUME Remembers, Accounts, FoldHistory
  PROVE  Accounts'
<1>1. PICK ids : ids = Ids(sel)
  OBVIOUS
<1>0. /\ FoldIn(ids, new) /\ UNCHANGED obs /\ todo' = todo /\ sel' = {} /\ held' = {} /\ pc = "fold"
      /\ pc' \in {"idle", "capsules", "check"}
  BY <1>1, AfterLevelGoes DEF FoldHistory, Go
<1>2. IdsAccounted /\ RecordsShaped
  BY DEF Remembers
<1>3. PICK n \in new : new = {n}
  BY <1>0 DEF Accounts, Pending
<1>4. /\ n.kind = "digest" /\ n.task = 0
      /\ n.id = Id("digest", 0, Cardinality(Named("digest")), 0)
  BY <1>0 DEF Remembers, FoldTells
<1>5. n.id[1] = "digest" /\ n.id \notin KnownIds
  BY <1>4, IdParts, NextDigestNew DEF Remembers
<1>6. live' = {r \in live : r.id \notin ids} \cup {n}
  BY <1>0, <1>2, <1>3, <1>5, FoldEffect
<1>7. todo' = {}
  BY <1>0 DEF Accounts, Marked
<1>8. Alone'
  <2> SUFFICES ASSUME NEW l \in live', l.kind = "lean"
               PROVE  ~Due(l.task)' /\ \A s \in live' : s.task = l.task => s = l
    BY <1>7 DEF Alone
  <2>1. l \in live
    BY <1>4, <1>6
  <2>2. ~Due(l.task) /\ (\A s \in live : s.task = l.task => s = l)
    BY <2>1 DEF Accounts, Alone
  <2>3. ~Due(l.task)'
    BY <1>0, <2>2 DEF Due
  <2>4. l.task # 0
    BY <1>2, <2>1, MemoryAssumption DEF RecordsShaped, Shaped
  <2> QED BY <1>4, <1>6, <2>2, <2>3, <2>4
<1>9. Residue'
  <2> SUFFICES ASSUME NEW t \in Past, WasClosed(t)', NEW s \in live', IsBody(s), s.task = t
               PROVE  Reached(t)'
    BY DEF Residue, BodyOf, Past
  <2>1. WasClosed(t)
    <3>1. \A r \in new : r.id[1] \notin {"report", "close"}
      BY <1>3, <1>5
    <3> QED BY <1>0, <1>2, <3>1, StaysUnclosed
  <2>2. s \in live /\ s.id \notin ids
    BY <1>4, <1>6 DEF IsBody
  <2>3. Reached(t)
    BY <2>1, <2>2 DEF Accounts, Residue, BodyOf
  <2>4. t # 0
    BY MemoryAssumption DEF Past
  <2>5. t \in SelOrigins \cup prior => t \in n.left
    BY <1>0, <1>1, <2>2 DEF Accounts, Pending
  <2>6. t \in n.left => Reached(t)'
    BY <1>6 DEF Reached, Residuals
  <2>7. CASE \E r \in live : IsTurn(r) /\ r.task = t
    <3>1. PICK r \in live : IsTurn(r) /\ r.task = t
      BY <2>7
    <3>2. CASE r.id \in ids
      <4>1. r \in sel
        BY <1>1, <3>2, SelectedIs
      <4>2. t \in SelOrigins
        BY <2>4, <3>1, <4>1 DEF SelOrigins
      <4> QED BY <2>5, <2>6, <4>2
    <3>3. CASE r.id \notin ids
      BY <1>6, <3>1, <3>3 DEF Reached
    <3> QED BY <3>2, <3>3
  <2>8. CASE t \in Residuals(live)
    <3>1. PICK r \in live : t \in r.left
      BY <2>8 DEF Residuals
    <3>2. CASE r.id \in ids
      <4>1. r \in sel
        BY <1>1, <3>2, SelectedIs
      <4>2. t \in prior
        BY <1>0, <3>1, <4>1 DEF Accounts, Pending
      <4> QED BY <2>5, <2>6, <4>2
    <3>3. CASE r.id \notin ids
      BY <1>6, <3>1, <3>3 DEF Reached, Residuals
    <3> QED BY <3>2, <3>3
  <2> QED BY <2>3, <2>7, <2>8 DEF Reached
<1>10. /\ \A r \in live : r.kind = "start" /\ r.id \in ids => r.id \in Ids(sel)
       /\ \A r \in new :
           /\ r.id[1] \notin {"report", "close"}
           /\ r.kind \notin {"start", "result", "recap", "finish"}
           /\ r.kind # "digest" => r.left = {}
           /\ r.kind = "lean" => r.task # Current
           /\ IsClosing(r) /\ obs[r.task].kind \in {"judge", "close"}
                => Id("close", r.task, 1, 0) \in KnownIds
  BY <1>1, <1>3, <1>4, <1>5 DEF IsClosing
<1>11. OneRecord(new) /\ sel' \subseteq sel /\ pc' \notin {"summarise", "fold", "lean"}
  BY <1>0, <1>3 DEF OneRecord
<1>12. FoldIn(ids, new) /\ UNCHANGED obs /\ held' = {}
  BY <1>0
<1> QED BY <1>7, <1>8, <1>9, <1>10, <1>11, <1>12, CompactionAccounts

\* A reduced capsule is alone, since all of its task was taken with it.
LEMMA MakeLeanAccounts ==
  ASSUME Remembers, Accounts, MakeLean
  PROVE  Accounts'
<1>1. PICK ids : ids = Ids(sel)
  OBVIOUS
<1>0. /\ FoldIn(ids, new) /\ UNCHANGED obs /\ todo' = todo /\ sel' = {} /\ held' = {} /\ pc = "lean"
      /\ pc' \in {"idle", "capsule"}
  BY <1>1 DEF MakeLean, GoOrStop, Go
<1>2. IdsAccounted /\ RecordsShaped
  BY DEF Remembers
<1>3. PICK n \in new : new = {n}
  BY <1>0 DEF Accounts, Pending
<1>4. n.task \in Tasks /\ ~Due(n.task) /\ n.id \notin KnownIds
  BY <1>0 DEF Remembers, FoldTells
<1>5. PICK origin \in {"close", "report"} :
        /\ n = Record(Id("demote", n.task, 1, IF origin = "report" THEN 1 ELSE 0), "lean",
                      n.task, FactsOf(Below(n.task)))
        /\ Id(origin, n.task, 1, 0) \in Ids(sel)
  BY <1>0 DEF Remembers, FoldTells
<1>6. n.kind = "lean" /\ n.left = {} /\ n.id[1] = "demote"
  <2>1. PICK v : v = IF origin = "report" THEN 1 ELSE 0
    OBVIOUS
  <2>2. PICK t : t = n.task
    OBVIOUS
  <2>3. n = Record(Id("demote", t, 1, v), "lean", t, FactsOf(Below(t)))
    BY <1>5, <2>1, <2>2
  <2>4. n.kind = "lean" /\ n.left = {} /\ n.id = Id("demote", t, 1, v)
    BY <2>3 DEF Record
  <2> QED BY <2>4, IdParts
<1>7. live' = {r \in live : r.id \notin ids} \cup {n}
  BY <1>0, <1>2, <1>3, <1>4, FoldEffect
<1>8. todo' = {}
  BY <1>0 DEF Accounts, Marked
<1>9. /\ n.task # Current
      /\ \A s \in live : s.task = n.task \/ (IsBody(s) /\ s.task \in held) => s.id \in ids
      /\ \A r \in sel : r.task \in held
      /\ 0 \notin held
  BY <1>0, <1>1 DEF Accounts, Pending, Holding
<1>10. Alone'
  <2> SUFFICES ASSUME NEW l \in live', l.kind = "lean"
               PROVE  ~Due(l.task)' /\ \A s \in live' : s.task = l.task => s = l
    BY <1>8 DEF Alone
  <2>1. CASE l = n
    BY <1>0, <1>4, <1>7, <1>9, <2>1 DEF Due
  <2>2. CASE l \in live /\ l.id \notin ids
    <3>1. ~Due(l.task) /\ (\A s \in live : s.task = l.task => s = l) /\ l.task # n.task
      BY <1>9, <2>2 DEF Accounts, Alone
    <3> QED BY <1>0, <1>7, <3>1 DEF Due
  <2> QED BY <1>7, <2>1, <2>2
<1>11. Residue'
  <2> SUFFICES ASSUME NEW t \in Past, WasClosed(t)', NEW s \in live', IsBody(s), s.task = t
               PROVE  Reached(t)'
    BY DEF Residue, BodyOf, Past
  <2>1. WasClosed(t)
    <3>1. \A r \in new : r.id[1] \notin {"report", "close"}
      BY <1>3, <1>6
    <3> QED BY <1>0, <1>2, <3>1, StaysUnclosed
  <2>2. s \in live /\ s.id \notin ids
    BY <1>6, <1>7 DEF IsBody
  <2>3. Reached(t) /\ t \notin held
    BY <1>9, <2>1, <2>2 DEF Accounts, Residue, BodyOf
  <2>4. ASSUME NEW r \in live, r.id \in ids PROVE (IsTurn(r) => r.task # t) /\ r.left = {}
    <3>1. r.task \in held
      BY <1>1, <1>9, <2>4, SelectedIs
    <3>2. r.kind # "digest"
      BY <1>2, <1>9, <3>1 DEF RecordsShaped, Shaped
    <3> QED BY <2>3, <3>1, <3>2 DEF Accounts, Owned
  <2> QED BY <1>0, <1>2, <2>3, <2>4, StaysReached
<1>12. obs[n.task].kind \in {"judge", "close"} => Id("close", n.task, 1, 0) \in KnownIds
  BY <1>2, <1>4, <1>5 DEF IdsAccounted, Accounts, Closed
<1>13. /\ \A r \in live : r.kind = "start" /\ r.id \in ids => r.id \in Ids(sel)
       /\ \A r \in new :
           /\ r.id[1] \notin {"report", "close"}
           /\ r.kind \notin {"start", "result", "recap", "finish"}
           /\ r.kind # "digest" => r.left = {}
           /\ r.kind = "lean" => r.task # Current
           /\ IsClosing(r) /\ obs[r.task].kind \in {"judge", "close"}
                => Id("close", r.task, 1, 0) \in KnownIds
  BY <1>1, <1>3, <1>6, <1>9, <1>12
<1>14. OneRecord(new) /\ sel' \subseteq sel /\ pc' \notin {"summarise", "fold", "lean"}
  BY <1>0, <1>3 DEF OneRecord
<1>15. FoldIn(ids, new) /\ UNCHANGED obs /\ held' = {}
  BY <1>0
<1> QED BY <1>8, <1>10, <1>11, <1>13, <1>14, <1>15, CompactionAccounts

\* After a crash the compaction is over, and observers that were asked for start again.
LEMMA CrashAccounts ==
  ASSUME Remembers, Accounts, Crash, ~Reapplied
  PROVE  Accounts'
<1> USE DEF Accounts
<1>0. /\ UNCHANGED store /\ pc' = "idle" /\ sel' = {} /\ todo' = {} /\ held' = {}
      /\ obs' = [t \in Tasks |-> IF obs[t].pc = "done" THEN obs[t]
                                 ELSE [obs[t] EXCEPT !.pc = "due", !.ids = {}]]
      /\ \A t \in Tasks : ~(obs[t].kind = "report" /\ obs[t].pc = "shedding")
  BY DEF Crash
<1>1. live' = live /\ KnownIds' = KnownIds
  BY <1>0 DEF store, KnownIds, Ids
<1>2. ASSUME NEW t \in Tasks
      PROVE  /\ obs'[t].kind = obs[t].kind /\ obs'[t].pc \in {"due", "done"}
             /\ obs'[t].ids \subseteq obs[t].ids
             /\ obs[t].pc = "done" => obs'[t].pc = "done"
  <2>1. obs[t] \in Observers
    BY DEF Remembers, ObserversTyped
  <2>2. CASE obs[t].pc = "done"
    <3>1. obs'[t] = obs[t]
      BY <1>0, <2>2
    <3> QED BY <2>2, <3>1
  <2>3. CASE obs[t].pc # "done"
    <3>1. obs'[t] = [obs[t] EXCEPT !.pc = "due", !.ids = {}]
      BY <1>0, <2>3
    <3> QED BY <2>1, <2>3, <3>1 DEF Observers
  <2> QED BY <2>2, <2>3
<1>3. \A t \in Tasks : Due(t)' => Due(t)
  BY <1>0, <1>2 DEF Due
<1>4. RecordsApart'
  BY <1>0, <1>1 DEF RecordsApart, OneRecord
<1>5. Owned'
  BY <1>1, <1>2, MemoryAssumption DEF Owned
<1>6. Alone'
  <2>1. \A l \in live : l.kind = "lean" => l.task \in Tasks
    BY DEF Remembers, RecordsShaped, Shaped
  <2> QED BY <1>0, <1>1, <1>3, <2>1 DEF Alone
<1>7. Marked' /\ Holding' /\ Pending'
  BY <1>0 DEF Marked, Holding, Pending
<1>8. Residue'
  BY <1>1 DEF Residue, Reached, Residuals, WasClosed, BodyOf
<1>9. ASSUME NEW t \in Tasks PROVE Closed(t)'
  <2>1. Closed(t)
    OBVIOUS
  <2>2. Backed(t) => Backed(t)'
    BY <1>0, <1>1 DEF Backed, FrameId, Ids
  <2> QED BY <1>1, <1>2, <2>1, <2>2 DEF Closed, FrameId
<1> QED BY <1>4, <1>5, <1>6, <1>7, <1>8, <1>9

\* What a record of the start is, by its id.
FirstRecord(i) ==
  IF i[1] = "raw" THEN Record(i, "raw", i[2], {<<i[2], i[3]>>})
  ELSE IF i[1] \in {"report", "close"}
    THEN Record(i, IF i[3] = 0 THEN "recap" ELSE "finish", i[2], FirstText(i))
  ELSE [Record(i, IF i[4] = 0 THEN "start" ELSE "result", i[2], {}) EXCEPT !.child = i[3]]

\* What is found of a task is what its id says.
LEMMA FoundFirst ==
  ASSUME NEW t \in Tasks, NEW how \in {"settled", "lagging", "closed", "parked", "open"},
         NEW r \in Found(t, how)
  PROVE  /\ r = FirstRecord(r.id)
         /\ r.id[1] \in {"raw", "report", "close", "frame"}
         /\ r.id[1] # "frame" => r.id[2] = t
         /\ r.id[1] = "report" => how \in {"settled", "lagging"} /\ r.id[3] \in {0, 1}
         /\ r.id[1] = "close" => how = "closed" /\ r.id[3] \in {0, 1}
         /\ r.id[1] = "frame" =>
              r.id[2] = Parent[t] /\ r.id[3] = t /\ \E n \in {0, 1} : r.id = FrameId(t, n)
<1>1. CASE \E n \in 1 .. Turns[t] : r = RawOf(t, n)
  <2>1. PICK n \in 1 .. Turns[t] : r = Record(Id("raw", t, n, 0), "raw", t, {<<t, n>>})
    BY <1>1 DEF RawOf
  <2>2. r.id = Id("raw", t, n, 0)
    BY <2>1 DEF Record
  <2>3. r.id[1] = "raw" /\ r.id[2] = t /\ r.id[3] = n
    BY <2>2, IdParts
  <2>4. r = FirstRecord(r.id)
    BY <2>1, <2>2, <2>3 DEF FirstRecord
  <2> QED BY <2>3, <2>4
<1>2. ASSUME NEW name \in {"report", "close"}, NEW tells, r \in Slots(name, t, tells),
             name = "report" => tells = FactsOf(Below(t)), name = "close" => tells = {}
      PROVE  /\ r = FirstRecord(r.id) /\ r.id[1] = name /\ r.id[2] = t /\ r.id[3] \in {0, 1}
  <2>1. CASE r = Record(Id(name, t, 0, 0), "recap", t, {})
    <3>1. r.id = Id(name, t, 0, 0)
      BY <2>1 DEF Record
    <3>2. r.id[1] = name /\ r.id[2] = t /\ r.id[3] = 0
      BY <3>1, IdParts
    <3>3. FirstText(r.id) = {}
      BY <1>2, <3>2 DEF FirstText
    <3>4. r = FirstRecord(r.id)
      BY <1>2, <2>1, <3>1, <3>2, <3>3 DEF FirstRecord
    <3> QED BY <3>2, <3>4
  <2>2. CASE r = Record(Id(name, t, 1, 0), "finish", t, tells)
    <3>1. r.id = Id(name, t, 1, 0)
      BY <2>2 DEF Record
    <3>2. r.id[1] = name /\ r.id[2] = t /\ r.id[3] = 1
      BY <3>1, IdParts
    <3>3. FirstText(r.id) = tells
      BY <1>2, <3>2 DEF FirstText
    <3>4. r = FirstRecord(r.id)
      BY <1>2, <2>2, <3>1, <3>2, <3>3 DEF FirstRecord
    <3> QED BY <3>2, <3>4
  <2> QED BY <1>2, <2>1, <2>2 DEF Slots
<1>3. ASSUME NEW closed \in BOOLEAN, r \in Frame(t, closed)
      PROVE  /\ r = FirstRecord(r.id) /\ r.id[1] = "frame" /\ r.id[2] = Parent[t] /\ r.id[3] = t
             /\ \E n \in {0, 1} : r.id = FrameId(t, n)
  <2>1. PICK n \in {0, 1} :
          r = [Record(Id("frame", Parent[t], t, n), IF n = 0 THEN "start" ELSE "result",
                      Parent[t], {}) EXCEPT !.child = t]
    BY <1>3 DEF Frame
  <2>2. r.id = Id("frame", Parent[t], t, n)
    BY <2>1 DEF Record
  <2>3. r.id[1] = "frame" /\ r.id[2] = Parent[t] /\ r.id[3] = t /\ r.id[4] = n
    BY <2>2, IdParts
  <2>4. r = FirstRecord(r.id)
    BY <2>1, <2>2, <2>3 DEF FirstRecord
  <2> QED BY <2>2, <2>3, <2>4 DEF FrameId
<1>4. \/ \E n \in 1 .. Turns[t] : r = RawOf(t, n)
      \/ r \in Slots("report", t, FactsOf(Below(t))) /\ how \in {"settled", "lagging"}
      \/ r \in Slots("close", t, {}) /\ how = "closed"
      \/ \E closed \in BOOLEAN : r \in Frame(t, closed) /\ Parent[t] # 0
  BY FoundCases
<1>5. CASE r \in Slots("report", t, FactsOf(Below(t))) /\ how \in {"settled", "lagging"}
  BY <1>2, <1>5
<1>6. CASE r \in Slots("close", t, {}) /\ how = "closed"
  BY <1>2, <1>6
<1>7. CASE \E closed \in BOOLEAN : r \in Frame(t, closed) /\ Parent[t] # 0
  BY <1>3, <1>7
<1> QED BY <1>1, <1>4, <1>5, <1>6, <1>7

\* At the start no task is compacted, and the parent of a parked task waits for it.
LEMMA InitAccounts == Init => Accounts
<1> SUFFICES ASSUME Init PROVE Accounts
  OBVIOUS
<1>1. PICK past \in Histories :
       /\ live = (UNION {Found(t, past[t]) : t \in Past})
                 \cup {RawOf(Current, n) : n \in 1 .. Turns[Current]}
       /\ obs = [t \in Tasks |-> Observer(
            IF t = Current \/ past[t] = "lagging" THEN "segment"
            ELSE IF past[t] = "closed" THEN "report"
            ELSE IF past[t] = "parked" THEN "judge" ELSE "none")]
  BY DEF Init
<1>2. gone = {} /\ pc = "idle" /\ todo = {} /\ sel = {} /\ held = {}
  BY DEF Init
<1>3. /\ Past = Tasks \ {Current} /\ Current \in Tasks /\ 0 \notin Tasks
      /\ \A t \in Past : past[t] \in {"settled", "lagging", "closed", "parked", "open"}
  BY MemoryAssumption DEF Past
<1>4. ASSUME NEW r \in live
      PROVE  \/ \E t \in Past : r \in Found(t, past[t])
             \/ \E n \in 1 .. Turns[Current] : r = RawOf(Current, n)
  BY <1>1, UnionCases
<1>5. KnownIds = Ids(live)
  BY <1>2 DEF KnownIds
<1>6. ASSUME NEW r \in live
      PROVE  /\ r = FirstRecord(r.id)
             /\ r.id[1] \in {"raw", "report", "close", "frame"}
             /\ r.id[1] = "report" =>
                  r.id[2] \in Past /\ past[r.id[2]] \in {"settled", "lagging"} /\ r.id[3] \in {0, 1}
             /\ r.id[1] = "close" =>
                  r.id[2] \in Past /\ past[r.id[2]] = "closed" /\ r.id[3] \in {0, 1}
             /\ r.id[1] = "frame" => \E t \in Past : \E n \in {0, 1} : r.id = FrameId(t, n)
  <2>1. CASE \E t \in Past : r \in Found(t, past[t])
    <3>1. PICK t \in Past : r \in Found(t, past[t])
      BY <2>1
    <3>2. t \in Tasks /\ past[t] \in {"settled", "lagging", "closed", "parked", "open"}
      BY <1>3
    <3> QED BY <3>1, <3>2, FoundFirst
  <2>2. CASE \E n \in 1 .. Turns[Current] : r = RawOf(Current, n)
    <3>1. PICK n \in 1 .. Turns[Current] :
                 r = Record(Id("raw", Current, n, 0), "raw", Current, {<<Current, n>>})
      BY <2>2 DEF RawOf
    <3>2. r.id = Id("raw", Current, n, 0)
      BY <3>1 DEF Record
    <3>3. r.id[1] = "raw" /\ r.id[2] = Current /\ r.id[3] = n
      BY <3>2, IdParts
    <3>4. r = FirstRecord(r.id)
      BY <3>1, <3>2, <3>3 DEF FirstRecord
    <3> QED BY <3>3, <3>4
  <2> QED BY <1>4, <2>1, <2>2
<1>7. ASSUME NEW r \in live
      PROVE  /\ r.left = {} /\ r.kind \in {"raw", "recap", "finish", "start", "result"}
             /\ r.kind \in {"recap", "finish"}
                  => r.id[1] \in {"report", "close"} /\ r.task = r.id[2]
             /\ r.id[1] \in {"report", "close"}
                  => r.kind \in {"recap", "finish"} /\ r.task = r.id[2]
             /\ r.id[1] = "close" => r.tells = {}
             /\ r.kind \in {"start", "result"} => r.id[1] = "frame"
             /\ r.id[1] = "frame" =>
                  /\ r.child = r.id[3] /\ r.task = r.id[2]
                  /\ r.kind = IF r.id[4] = 0 THEN "start" ELSE "result"
  <2>1. PICK i : i = r.id
    OBVIOUS
  <2>2. r = FirstRecord(i) /\ i[1] \in {"raw", "report", "close", "frame"}
    BY <1>6, <2>1
  <2>3. CASE i[1] = "raw"
    <3>1. r = Record(i, "raw", i[2], {<<i[2], i[3]>>})
      BY <2>2, <2>3 DEF FirstRecord
    <3>2. r.left = {} /\ r.kind = "raw"
      BY <3>1 DEF Record
    <3> QED BY <2>1, <2>3, <3>2
  <2>4. CASE i[1] \in {"report", "close"}
    <3>1. PICK kind : kind = IF i[3] = 0 THEN "recap" ELSE "finish"
      OBVIOUS
    <3>2. r = Record(i, kind, i[2], FirstText(i))
      BY <2>2, <2>4, <3>1 DEF FirstRecord
    <3>3. r.left = {} /\ r.kind = kind /\ r.task = i[2] /\ r.tells = FirstText(i)
      BY <3>2 DEF Record
    <3>4. i[1] = "close" => r.tells = {}
      BY <3>3 DEF FirstText
    <3> QED BY <2>1, <2>4, <3>1, <3>3, <3>4
  <2>5. CASE i[1] = "frame"
    <3>1. PICK kind : kind = IF i[4] = 0 THEN "start" ELSE "result"
      OBVIOUS
    <3>2. r = [Record(i, kind, i[2], {}) EXCEPT !.child = i[3]]
      BY <2>2, <2>5, <3>1 DEF FirstRecord
    <3>3. r.left = {} /\ r.kind = kind /\ r.task = i[2] /\ r.child = i[3]
      BY <3>2 DEF Record
    <3> QED BY <2>1, <2>5, <3>1, <3>3
  <2> QED BY <2>2, <2>3, <2>4, <2>5
<1>8. ASSUME NEW t \in Tasks
      PROVE  /\ obs[t].pc \in {"due", "done"} /\ obs[t].ids = {}
             /\ obs[t].kind \in {"none", "segment", "report", "judge"}
             /\ obs[t].kind = "judge" => t \in Past /\ past[t] = "parked"
             /\ t = Current => obs[t].kind = "segment"
  <2>1. obs[t] = Observer(
            IF t = Current \/ past[t] = "lagging" THEN "segment"
            ELSE IF past[t] = "closed" THEN "report"
            ELSE IF past[t] = "parked" THEN "judge" ELSE "none")
    BY <1>1
  <2>2. PICK kind \in {"none", "segment", "report", "judge"} :
          /\ obs[t] = Observer(kind)
          /\ kind = "judge" => t \in Past /\ past[t] = "parked"
          /\ t = Current => kind = "segment"
    BY <1>3, <2>1
  <2>3. obs[t].kind = kind
    BY <2>2 DEF Observer
  <2> QED BY <2>2, <2>3 DEF Observer
<1>9. RecordsApart
  BY <1>2, <1>6 DEF RecordsApart, OneRecord
<1>10. Owned
  <2>1. obs[Current].kind = "segment"
    BY <1>3, <1>8
  <2>2. ASSUME NEW r \in live, r.kind = "result"
        PROVE r.id = Id("frame", Parent[r.child], r.child, 1)
    <3>1. r.id[1] = "frame" /\ r.id[4] # 0 /\ r.child = r.id[3]
      BY <1>7, <2>2
    <3>2. PICK t \in Past : \E n \in {0, 1} : r.id = FrameId(t, n)
      BY <1>6, <3>1
    <3>3. PICK n \in {0, 1} : r.id = FrameId(t, n)
      BY <3>2
    <3>4. r.id[3] = t /\ r.id[4] = n
      BY <3>3, IdParts DEF FrameId
    <3> QED BY <3>1, <3>3, <3>4 DEF FrameId
  <2>3. ASSUME NEW r \in live, r.kind \in {"recap", "finish", "lean"} PROVE r.task # Current
    BY <1>3, <1>6, <1>7, <2>3
  <2>4. \A r \in live : r.left = {}
    BY <1>7
  <2> QED BY <2>1, <2>2, <2>3, <2>4 DEF Owned
<1>11. Alone
  BY <1>7 DEF Alone
<1>12. Marked /\ Holding /\ Pending
  BY <1>2 DEF Marked, Holding, Pending
<1>13. Residue
  <2> SUFFICES ASSUME NEW t \in Past, WasClosed(t) PROVE Reached(t)
    BY DEF Residue
  <2>1. PICK i \in KnownIds : i[2] = t /\ i[1] \in {"close", "report"}
    BY DEF WasClosed
  <2>2. PICK r \in live : r.id = i
    BY <1>5, <2>1 DEF Ids
  <2>3. IsTurn(r) /\ r.task = t
    BY <1>7, <2>1, <2>2 DEF IsTurn
  <2> QED BY <2>3 DEF Reached
<1>14. ASSUME NEW t \in Tasks PROVE Closed(t)
  <2>1. ASSUME obs[t].kind = "judge", NEW r \in live, r.id[1] \in {"report", "close"}
        PROVE  r.id[2] # t
    BY <1>6, <1>8, <2>1
  <2>2. ASSUME obs[t].kind = "judge", NEW i \in KnownIds, i[1] \in {"report", "close"}
        PROVE  i[2] # t
    BY <1>5, <2>1, <2>2 DEF Ids
  <2>3. obs[t].kind = "judge" => \A n : /\ Id("report", t, n, 0) \notin KnownIds
                                        /\ Id("close", t, n, 0) \notin KnownIds
    BY <2>2, IdParts
  <2>4. \A r \in live : r.id = Id("close", t, 1, 0) => r.tells = {}
    BY <1>7, IdParts
  <2>5. obs[t].kind = "judge" => \A r \in live : ~(IsClosing(r) /\ r.task = t)
    BY <1>7, <2>1 DEF IsClosing
  <2>6. ASSUME obs[t].kind = "judge", Parent[t] # 0 PROVE Backed(t)
    <3>1. t \in Past /\ past[t] = "parked"
      BY <1>8, <2>6
    <3>2. PICK s : s = [Record(FrameId(t, 0), "start", Parent[t], {}) EXCEPT !.child = t]
      OBVIOUS
    <3>3. s.id = FrameId(t, 0) /\ s.kind = "start" /\ s.task = Parent[t] /\ s.child = t
      BY <3>2 DEF Record
    <3>4. s \in Frame(t, FALSE)
      BY <3>2 DEF Frame, FrameId
    <3>5. Frame(t, FALSE) \subseteq Found(t, "parked")
      <4>1. ("parked" \in {"settled", "lagging", "closed"}) = FALSE
        OBVIOUS
      <4> QED BY <2>6, <4>1 DEF Found
    <3>6. s \in live
      BY <1>1, <3>1, <3>4, <3>5
    <3> QED BY <1>2, <1>5, <3>3, <3>6 DEF Backed, Ids
  <2> QED BY <1>8, <2>3, <2>4, <2>5, <2>6 DEF Closed
<1> QED BY <1>9, <1>10, <1>11, <1>12, <1>13, <1>14 DEF Accounts

(* ------------------------ theorems about the details ------------------------- *)

\* Every step of an observer or of the compaction keeps account of the details.
LEMMA NextAccounts ==
  ASSUME ~Reapplied, Remembers, Accounts, [Next]_vars
  PROVE  Accounts'
<1>1. CASE Begin \/ EnterHistory \/ Outage \/ EnterCapsules \/ EnterCurrent
  BY <1>1, LookingAccounts
<1>2. CASE DemotePictures \/ Rewrite
  BY <1>2, PicturesAccounts
<1>3. CASE Select \/ Reselect
  BY <1>3, SelectAccounts
<1>4. CASE TakeGuards
  BY <1>4, TakeGuardsAccounts
<1>5. CASE Collapse
  BY <1>5, CollapseAccounts
<1>6. CASE FoldHistory
  BY <1>6, FoldHistoryAccounts
<1>7. CASE TakeCapsule
  BY <1>7, TakeCapsuleAccounts
<1>8. CASE MakeLean
  BY <1>8, MakeLeanAccounts
<1>9. CASE Crash
  BY <1>9, CrashAccounts
<1>10. ASSUME NEW t \in Tasks, Observe(t) PROVE Accounts'
  BY <1>10, JudgeAccounts, JudgedAccounts, FoldSegmentAccounts, CloseResultAccounts,
     CloseSlotAccounts, FindTargetAccounts, WriteReportAccounts, ShedAccounts DEF Observe
<1>11. CASE UNCHANGED vars
  <2>1. /\ UNCHANGED <<store, obs>> /\ sel' = sel /\ todo' = todo /\ held' = held
        /\ pc' = pc /\ level' = level /\ new' = new /\ prior' = prior
    BY <1>11 DEF vars, store
  <2>2. live' = live /\ KnownIds' = KnownIds
    BY <2>1 DEF store, KnownIds, Ids
  <2>3. Holding' /\ Pending'
    BY <2>1, <2>2 DEF Accounts, Holding, Pending, Guarded, SelOrigins, FrameId
  <2>4. pc' \notin {"pictures", "rewrite"} => todo' = {}
    BY <2>1 DEF Accounts, Marked
  <2> QED BY <2>1, <2>3, <2>4, QuietCompactionAccounts
<1> QED BY <1>1, <1>2, <1>3, <1>4, <1>5, <1>6, <1>7, <1>8, <1>9, <1>10, <1>11 DEF Next, Compact

\* What is left of a task and what is about to be done with it agree, always
\* (Alone, Pending, Residue and the rest), where no crash comes between a report's
\* write and its mark.
THEOREM DetailsAgree ==
  ASSUME ~Reapplied PROVE Spec => []Accounts
<1>1. Init => Remembers /\ Accounts
  BY InitRemembers, InitAccounts
<1>2. (Remembers /\ Accounts) /\ [Next]_vars => (Remembers /\ Accounts)'
  BY NextRemembers, NextAccounts
<1> QED BY <1>1, <1>2, PTL DEF Spec

\* What is left of a closed task can be found by the next compaction, and a reduced
\* capsule stays the only record of its task, for any tree of tasks, history and
\* number of turns, compactions and crashes.
THEOREM DetailsStayAccounted ==
  ASSUME ~Reapplied PROVE Spec => []DetailsAccounted
<1>1. Accounts => DetailsAccounted
  BY DEF Accounts, Residue, Reached, Alone, DetailsAccounted, Known
<1> QED BY <1>1, DetailsAgree, PTL
=============================================================================
