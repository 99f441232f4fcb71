----------------------------- MODULE Compaction -----------------------------
(* What an agent remembers, compacted level by level while observers still      *)
(* write to it (core/loop/steps/compact.py, core/loop/task_memory_fold.py,      *)
(* steps/observe.py, steps/finalize.py, core/media, providers/memory).          *)
(*                                                                              *)
(* The memory of one agent holds the records of the task it works on and of     *)
(* the tasks it is done with: what was said, segment summaries, and the slots   *)
(* that close a task.  Compaction rewrites pictures, digests the oldest         *)
(* finished tasks, reduces the others to their closing report, and collapses    *)
(* the current task last; it stops as soon as enough is freed.  Observers of    *)
(* finished and of parked tasks meanwhile deliver reports and fold segments.    *)
(* A record is an id and the facts its text tells; the digest of some records   *)
(* tells what they told.  How many tokens a level frees is left open.           *)
EXTENDS Naturals, FiniteSets, FiniteSetsExt

CONSTANTS
  Tasks,          \* the tasks of the agent, by age
  Current,        \* the one it works on
  Parent,         \* the task that delegated each, 0 for none
  Turns,          \* turns of each task; the first is the user's prompt
  Pictures,       \* the facts that are pictures
  Short,          \* tasks short enough to keep their turns when they close
  Histories,      \* what became of the other tasks before, see Init
  KeepLast, CollapseKeep,  \* compact_keep_last, collapse_keep_last
  MaxCrashes,     \* bound of the model
  Reapplied       \* may a crash come between a report's write and its mark?

Past == Tasks \ {Current}

ASSUME MemoryAssumption ==
  /\ Tasks \subseteq Nat \ {0} /\ Current \in Tasks /\ Short \subseteq Tasks
  /\ Parent \in [Tasks -> Tasks \cup {0}] /\ Turns \in [Tasks -> Nat \ {0}]
  /\ \A t \in Tasks : Parent[t] < t
  /\ KeepLast \in Nat /\ CollapseKeep \in Nat /\ Reapplied \in BOOLEAN
  /\ Histories \subseteq [Past -> {"settled", "lagging", "closed", "parked", "open"}]

VARIABLES
  live,      \* the records of the view
  gone,      \* the ids that were superseded
  pc, level, \* the compaction: place and level
  todo,      \* the pictures it is about to rewrite
  sel,       \* the records its digest is made from
  prior,     \* the tasks with residuals it knew of when it selected
  new,       \* the record it is about to fold them into
  deferred,  \* _DEFERRED_HISTORY_KEY: something was written meanwhile
  queue,     \* the capsules still to be reduced
  held,      \* the tasks whose guards it holds
  obs,       \* the observers: kind, place, is the result recorded, its targets
  crashes    \* so far

store      == <<live, gone>>
compaction == <<pc, level, todo, sel, prior, new, deferred, queue, held>>
vars == <<live, gone, pc, level, todo, sel, prior, new, deferred, queue, held, obs, crashes>>

(* ------------------------------- the records -------------------------------- *)

Id(name, t, n, v) == <<name, t, n, v>>
Ids(records) == {r.id : r \in records}
Record(id, kind, t, tells) ==
  [id |-> id, kind |-> kind, task |-> t, tells |-> tells, left |-> {}, child |-> 0]

IsBody(r)    == r.kind \in {"raw", "segment", "collapsed"}
IsTurn(r)    == r.kind \in {"start", "result", "recap", "finish", "lean"}
IsClosing(r) == r.kind \in {"finish", "lean"}
IsPrompt(r)  == r.kind = "collapsed" \/ (r.kind = "raw" /\ r.id[3] = 1)
Pictured(r)  == r.kind = "raw" /\ r.id[4] = 0 /\ r.tells \subseteq Pictures
BodyOf(records, t) == {r \in records : IsBody(r) /\ r.task = t}

(* Tasks and all that descends from them, by the parents given.                   *)
Descendants(parents, ts) ==
  {u \in ts \cup DOMAIN parents :
     \A S \in SUBSET (ts \cup DOMAIN parents) :
       ts \subseteq S /\ (\A v \in DOMAIN parents : parents[v] \in S => v \in S) => u \in S}
Below(t) == Descendants(Parent, {t})
FactsOf(ts) == UNION {{t} \X (1 .. Turns[t]) : t \in ts}
Told(records) == UNION {r.tells : r \in records}

(* fold: supersede and replace at once.  What was superseded before stays so, and  *)
(* an id that was ever written is never written again.                            *)
KnownIds == gone \cup Ids(live)
Unseen(records)  == {r \in records : r.id \notin KnownIds}
Supersede(ids)   == gone' = gone \cup (ids \cap Ids(live))

FoldIn(ids, records) ==
  /\ live' = {r \in live : r.id \notin ids} \cup Unseen(records)
  /\ Supersede(ids)

Ingest(records) == FoldIn({}, records)

(* The tasks as they are found: closed with a report, the same with an earlier     *)
(* segment still to be folded, closed with a placeholder whose report is due,      *)
(* parked with an observer to judge it, or running for another agent.  The records  *)
(* of a child in its parent's name tell nothing.                                  *)
RawOf(t, n) == Record(Id("raw", t, n, 0), "raw", t, {<<t, n>>})
Slots(name, t, tells) ==
  {Record(Id(name, t, 0, 0), "recap", t, {}), Record(Id(name, t, 1, 0), "finish", t, tells)}
Frame(t, closed) ==
  {[Record(Id("frame", Parent[t], t, k), IF k = 0 THEN "start" ELSE "result", Parent[t], {})
      EXCEPT !.child = t] : k \in IF closed THEN {0, 1} ELSE {0}}

Found(t, how) ==
  (IF how = "open" THEN {} ELSE
     {RawOf(t, n) : n \in IF how = "settled" /\ t \notin Short THEN {1} ELSE 1 .. Turns[t]})
  \cup (IF how \in {"settled", "lagging"} THEN Slots("report", t, FactsOf(Below(t)))
        ELSE IF how = "closed" THEN Slots("close", t, {}) ELSE {})
  \cup (IF Parent[t] = 0 THEN {} ELSE Frame(t, how \in {"settled", "lagging", "closed"}))

(* What a task still has an observer for, asked for before the compaction.         *)
Observer(kind) == [kind |-> kind, pc |-> IF kind = "none" THEN "done" ELSE "due",
                   known |-> FALSE, ids |-> {}]

Init ==
  /\ \E past \in Histories :
       /\ live = (UNION {Found(t, past[t]) : t \in Past})
                 \cup {RawOf(Current, n) : n \in 1 .. Turns[Current]}
       /\ obs = [t \in Tasks |-> Observer(
            IF t = Current \/ past[t] = "lagging" THEN "segment"
            ELSE IF past[t] = "closed" THEN "report"
            ELSE IF past[t] = "parked" THEN "judge" ELSE "none")]
  /\ gone = {} /\ pc = "idle" /\ level = "none" /\ todo = {} /\ sel = {} /\ prior = {}
  /\ new = {} /\ deferred = FALSE /\ queue = {} /\ held = {}
  /\ crashes = 0

(* ------------------------------ the observers ------------------------------- *)

Set(t, o) == obs' = [obs EXCEPT ![t] = o]
At(t, place) == Set(t, [obs[t] EXCEPT !.pc = place])

(* An observer judges under the guard of its task.                               *)
Judge(t) ==
  /\ obs[t].pc = "due" /\ t \notin held
  /\ At(t, "judging")
  /\ UNCHANGED <<store, compaction, crashes>>

(* The segment of a task: its turns, not the user's prompt.  It was pinned when    *)
(* the observer was asked for.                                                    *)
SegmentEnd(t) == IF t = Current THEN Turns[t] - 1 ELSE Turns[t]
SegmentOf(t) == {Id("raw", t, n, 0) : n \in 2 .. SegmentEnd(t)}

(* The result is recorded before it is applied, or there is none and nothing is    *)
(* touched.  A task that is over gets its report; one that was parked is closed or  *)
(* has its segment folded; both under the guards already held.                     *)
Judged(t) ==
  /\ obs[t].pc = "judging"
  /\ \/ ~obs[t].known /\ At(t, "done")
     \/ \E kind \in IF obs[t].kind = "judge" THEN {"segment", "close"} ELSE {obs[t].kind} :
          Set(t, [obs[t] EXCEPT !.known = TRUE, !.kind = kind,
                    !.pc = IF kind = "report" THEN "reported" ELSE "writing"])
  /\ UNCHANGED <<store, compaction, crashes>>

(* A fold that comes late finds its segment taken and leaves it.                  *)
FoldSegment(t) ==
  /\ obs[t].kind = "segment" /\ obs[t].pc = "writing"
  /\ IF SegmentOf(t) # {} /\ SegmentOf(t) \subseteq Ids(live)
       THEN FoldIn(SegmentOf(t), {Record(Id("segment", t, SegmentEnd(t), 0), "segment", t,
                                         {t} \X (2 .. SegmentEnd(t)))})
       ELSE UNCHANGED store
  /\ At(t, "done")
  /\ UNCHANGED <<compaction, crashes>>

(* A parked task closed by its observer: its parent is told first, then one slot    *)
(* is written after the other.                                                    *)
CloseStep(t, from, records, to) ==
  /\ obs[t].kind = "close" /\ obs[t].pc = from
  /\ Ingest(records)
  /\ At(t, to)
  /\ UNCHANGED <<compaction, crashes>>

SlotOf(t, n) == {s \in Slots("close", t, FactsOf(Below(t))) : s.id[3] = n}

CloseResult(t) == CloseStep(t, "writing", IF Parent[t] = 0 THEN {} ELSE Frame(t, TRUE), "recapping")
CloseRecap(t)  == CloseStep(t, "recapping", SlotOf(t, 0), "finishing")
CloseFinish(t) == CloseStep(t, "finishing", SlotOf(t, 1), "shedding")

(* find_finish_target: the closing slots of the task, if they are all there.      *)
ClosingOf(t) == {r \in live : r.task = t /\ r.kind \in {"recap", "finish", "lean"}}
Target(t) ==
  LET slots == ClosingOf(t) IN
  IF \/ \E r \in slots : r.kind = "lean"
     \/ Cardinality(slots) = 2 /\ \E r \in slots : r.kind = "finish"
    THEN slots ELSE {}

FindTarget(t) ==
  /\ obs[t].pc = "reported" /\ t \notin held
  /\ Set(t, [obs[t] EXCEPT !.ids = Ids(Target(t)),
               !.pc = IF Target(t) = {} THEN "done" ELSE "writing"])
  /\ UNCHANGED <<store, compaction, crashes>>

(* replace_finish_report: the slots become the report, a lean capsule stays lean.  *)
(* The new records are numbered from 0 under the observer's id.                    *)
Read(ids) == {r \in live : r.id \in ids}

Report(t) ==
  IF \E r \in Read(obs[t].ids) : r.kind = "lean"
    THEN {Record(Id("report", t, 0, 0), "lean", t, FactsOf(Below(t)))}
    ELSE Slots("report", t, FactsOf(Below(t)))

WriteReport(t) ==
  /\ obs[t].kind = "report" /\ obs[t].pc = "writing"
  /\ IF Id("report", t, 0, 0) \in Ids(live) \cap obs[t].ids
       THEN UNCHANGED store
       ELSE FoldIn(obs[t].ids, Report(t))
  /\ At(t, "shedding")
  /\ UNCHANGED <<compaction, crashes>>

(* With a report in place the turns it is about may go.                          *)
Shed(t) ==
  /\ obs[t].pc = "shedding"
  /\ IF t \in Short THEN UNCHANGED store
     ELSE FoldIn(Ids({r \in BodyOf(live, t) : r.kind = "raw" /\ ~IsPrompt(r)}), {})
  /\ At(t, "done")
  /\ UNCHANGED <<compaction, crashes>>

Guarded(t) == obs[t].pc \in {"judging", "writing", "recapping", "finishing", "shedding"}

(* ---------------------------- the finished tasks ---------------------------- *)

ClosedIn(view) == {r.task : r \in {s \in view : IsClosing(s)}}
Residuals(view) == UNION {r.left : r \in view}

(* The tasks compaction can see: those with a turn of their own among the agent's *)
(* records, and those a digest names as not folded whole.                        *)
Known(view) ==
  {r.task : r \in {s \in view : IsTurn(s)}}
  \cup {t \in Residuals(view) : BodyOf(view, t) # {}}

(* The parent a task names in its own slots; a task that is only named by the       *)
(* frame of a child, or by a digest, counts as one without.                        *)
Parents(view) ==
  LET closed == {r.task : r \in {s \in view : s.kind \in {"recap", "finish", "lean"}}}
  IN [t \in Known(view) |-> IF t \in closed THEN Parent[t] ELSE 0]


ChildrenBack(view) == {r.child : r \in {s \in view : s.kind = "result"}}

(* A task that waits for a child of its own is not finished.                      *)
Waiting(view) ==
  LET back == ClosedIn(view) \cup ChildrenBack(view)
  IN {r.task : r \in {s \in view : s.kind = "start" /\ s.child \notin back}}

Roots(view) ==
  LET parents == Parents(view)
      busy == Waiting(view) \cup {Current}
  IN {t \in DOMAIN parents :
        parents[t] \notin DOMAIN parents /\ Descendants(parents, {t}) \cap busy = {}}

Newest(ts, k) == {t \in ts : Cardinality({u \in ts : u > t}) < k}

(* The details of the oldest finished tasks and every earlier digest.             *)
Selection(view, keep) ==
  LET roots == Roots(view)
      folding == roots \ Newest(roots, keep)
      origins == Descendants(Parents(view), folding)
  IN IF folding = {} THEN {} ELSE {r \in view : r.kind = "digest" \/ r.task \in origins}

(* Finished tasks that still have more than a summary.                            *)
OldDetails(view) ==
  LET origins == Descendants(Parents(view), Roots(view))
  IN {r \in view : r.task \in origins /\ (IsBody(r) \/ r.kind = "recap")}

(* The records of the current task but the latest, when they are worth it.        *)
Place(r) == r.id[3]
Collapsing(view) ==
  LET own == BodyOf(view, Current)
      old == {r \in own : Cardinality({s \in own : Place(s) > Place(r)}) >= CollapseKeep}
      first == {r \in old : IsPrompt(r) /\ \A s \in old : IsPrompt(s) => Place(r) <= Place(s)}
  IN IF old \subseteq first THEN {} ELSE old

Keep == IF level = "history" THEN KeepLast ELSE 0
Chosen == IF level = "current" THEN Collapsing(live) ELSE Selection(live, Keep)

(* ------------------------------ the compaction ------------------------------ *)

Go(place) == pc' = place
Finish == Go("idle") /\ held' = {}

(* Enough is freed, or not yet.                                                  *)
GoOrStop(place) == Go("idle") \/ Go(place)

(* Rewriting a picture replaces its record by one with another id.                *)
Plain(r) == [r EXCEPT !.id[4] = 1]
RewritePictures == FoldIn(Ids(todo), {Plain(r) : r \in todo})

(* One compaction of an agent at a time: a run compacts between its own steps, and *)
(* one asked for by hand is refused while the session has anything under way.      *)
MayCompact == pc = "idle"

Begin ==
  /\ MayCompact
  /\ deferred' = FALSE
  /\ \E plan \in SUBSET {r \in live : Pictured(r)} : todo' = plan
  /\ Go("pictures")
  /\ UNCHANGED <<store, level, sel, prior, new, queue, held, obs, crashes>>

DemotePictures ==
  /\ pc = "pictures"
  /\ RewritePictures /\ todo' = {}
  /\ GoOrStop("history")
  /\ UNCHANGED <<level, sel, prior, new, deferred, queue, held, obs, crashes>>

(* First level: more finished tasks than are to be kept.                          *)
EnterHistory ==
  /\ pc = "history"
  /\ IF Cardinality(Roots(live)) > KeepLast
       THEN level' = "history" /\ Go("select")
       ELSE Go("capsules") /\ UNCHANGED level
  /\ UNCHANGED <<store, todo, sel, prior, new, deferred, queue, held, obs, crashes>>

(* Where a level leads to when there is nothing for it to fold, and when there was. *)
AfterLevel(stopping) ==
  CASE level = "history" -> IF stopping THEN Go("idle") ELSE Go("capsules")
    [] level = "rest" -> IF stopping THEN Go("idle") ELSE Go("check")
    [] OTHER -> Go("idle")

Digest == sel' = Chosen /\ prior' = Residuals(live) /\ todo' = {} /\ Go("summarise")

(* Pictures in the selection are rewritten first, and since that changes ids the    *)
(* selection is then made again; the model is asked for a digest of just this       *)
(* selection.                                                                     *)
Select ==
  /\ pc = "select"
  /\ LET pictured == {r \in Chosen : Pictured(r)} IN
       CASE Chosen = {} -> AfterLevel(FALSE) /\ UNCHANGED <<sel, prior, todo>>
         [] Chosen # {} /\ pictured = {} -> Digest
         [] OTHER -> todo' = pictured /\ Go("rewrite") /\ UNCHANGED <<sel, prior>>
  /\ UNCHANGED <<store, level, new, deferred, queue, held, obs, crashes>>

Rewrite ==
  /\ pc = "rewrite"
  /\ RewritePictures /\ todo' = {}
  /\ Go("reselect")
  /\ UNCHANGED <<level, sel, prior, new, deferred, queue, held, obs, crashes>>

Reselect ==
  /\ pc = "reselect"
  /\ IF Chosen = {} THEN AfterLevel(FALSE) /\ UNCHANGED <<sel, prior, todo>> ELSE Digest
  /\ UNCHANGED <<store, level, new, deferred, queue, held, obs, crashes>>

SelOrigins == {r.task : r \in sel} \ {0}

(* The digest has come: take the guards of the tasks it is about, see what was      *)
(* written meanwhile, and leave that alone; what is left of a task is noted in the  *)
(* digest, for no other record may name the task.                                  *)
HeldForNone(ts) == {}
HeldFor(ts) == ts

LeftBehind == {r.task : r \in {s \in live \ sel : IsBody(s) /\ s.task \in SelOrigins \cup prior}}
Late == \E r \in live \ sel : IsTurn(r) /\ r.task \in SelOrigins

DigestRecord ==
  [Record(Id("digest", 0, Cardinality({i \in KnownIds : i[1] = "digest"}), 0),
          "digest", 0, Told(sel)) EXCEPT !.left = LeftBehind]

TakeGuards ==
  /\ pc = "summarise" /\ level # "current"
  /\ \A t \in HeldFor(SelOrigins) : ~Guarded(t)
  /\ held' = HeldFor(SelOrigins)
  /\ new' = {DigestRecord}
  /\ deferred' = (deferred \/ Late \/ LeftBehind # {})
  /\ Go("fold")
  /\ UNCHANGED <<store, level, todo, sel, prior, queue, obs, crashes>>

(* The current task is collapsed into a new prompt, under no guard.               *)
Collapse ==
  /\ pc = "summarise" /\ level = "current"
  /\ LET n == Cardinality({i \in KnownIds : i[1] = "collapsed"}) IN
     FoldIn(Ids(sel), {Record(Id("collapsed", Current, 0, n), "collapsed", Current, Told(sel))})
  /\ sel' = {}
  /\ Finish
  /\ UNCHANGED <<level, todo, prior, new, deferred, queue, obs, crashes>>

FoldHistory ==
  /\ pc = "fold"
  /\ FoldIn(Ids(sel), new)
  /\ sel' = {} /\ new' = {} /\ prior' = {} /\ held' = {}
  /\ IF level = "history" /\ deferred THEN Go("idle")
     ELSE \E stopping \in BOOLEAN : AfterLevel(stopping)
  /\ UNCHANGED <<level, todo, deferred, queue, obs, crashes>>

(* The model cannot be reached: the compaction is given up with its run.           *)
Outage ==
  /\ pc = "summarise"
  /\ sel' = {} /\ prior' = {}
  /\ Go("idle")
  /\ UNCHANGED <<store, level, todo, new, deferred, queue, held, obs, crashes>>

(* Second level: the capsules that were kept, the oldest first.                    *)
EnterCapsules ==
  /\ pc = "capsules"
  /\ queue' = Newest(Roots(live), KeepLast)
  /\ Go("capsule")
  /\ UNCHANGED <<store, level, todo, sel, prior, new, deferred, held, obs, crashes>>

(* Only a capsule with a report of its own may stand for its task and what the     *)
(* task delegated, and only when all of that is over.                             *)
ReportInAny(view, t) == {r \in view : r.task = t /\ r.kind = "finish"}
ReportIn(view, t) == {r \in view : r.task = t /\ r.kind = "finish" /\ r.tells # {}}

TakeCapsule ==
  /\ pc = "capsule" /\ queue # {}
  /\ LET t == Min(queue)
         tree == Descendants(Parents(live), {t})
         closing == ReportIn(live, t)
     IN /\ \A u \in HeldFor(tree) : ~Guarded(u)
        /\ queue' = queue \ {t}
        /\ IF closing = {} \/ Waiting(live) \cap tree # {}
             THEN GoOrStop("capsule") /\ UNCHANGED <<sel, new, held>>
             ELSE /\ sel' = {r \in live : r.task \in tree}
                  /\ new' = {Record(Id("demote", t, r.id[3], IF r.id[1] = "report" THEN 1 ELSE 0),
                                    "lean", t, r.tells) : r \in closing}
                  /\ held' = HeldFor(tree)
                  /\ Go("lean")
  /\ UNCHANGED <<store, level, todo, prior, deferred, obs, crashes>>

MakeLean ==
  /\ pc = "lean"
  /\ FoldIn(Ids(sel), new)
  /\ sel' = {} /\ new' = {} /\ held' = {}
  /\ GoOrStop("capsule")
  /\ UNCHANGED <<level, todo, prior, deferred, queue, obs, crashes>>

(* Third level: the current task, and only when nothing of the finished ones is    *)
(* left but summaries.                                                            *)
EnterCurrent ==
  /\ \/ pc = "capsule" /\ queue = {}
     \/ pc = "check"
  /\ IF Cardinality(BodyOf(live, Current)) <= CollapseKeep THEN Go("idle") /\ UNCHANGED level
     ELSE IF OldDetails(live) = {} THEN level' = "current" /\ Go("select")
     ELSE IF pc = "check" THEN Go("idle") /\ UNCHANGED level
     ELSE level' = "rest" /\ Go("select")
  /\ UNCHANGED <<store, todo, sel, prior, new, deferred, queue, held, obs, crashes>>

(* --------------------------------- crashes ---------------------------------- *)

(* Memory is kept; the compaction is over, and an observer that was asked for      *)
(* starts again, with its result if it was recorded.                              *)
Crash ==
  /\ crashes < MaxCrashes
  /\ Reapplied \/ \A t \in Tasks : ~(obs[t].kind = "report" /\ obs[t].pc = "shedding")
  /\ crashes' = crashes + 1
  /\ pc' = "idle" /\ todo' = {} /\ sel' = {} /\ prior' = {} /\ new' = {} /\ queue' = {}
  /\ held' = {} /\ deferred' = FALSE /\ level' = "none"
  /\ obs' = [t \in Tasks |-> IF obs[t].pc = "done" THEN obs[t]
                             ELSE [obs[t] EXCEPT !.pc = "due", !.ids = {}]]
  /\ UNCHANGED store

Observe(t) ==
  \/ Judge(t) \/ Judged(t) \/ FoldSegment(t) \/ CloseResult(t) \/ CloseRecap(t) \/ CloseFinish(t)
  \/ FindTarget(t) \/ WriteReport(t) \/ Shed(t)

Compact ==
  \/ DemotePictures \/ EnterHistory \/ Select \/ Rewrite \/ Reselect \/ TakeGuards \/ Collapse
  \/ FoldHistory \/ Outage \/ EnterCapsules \/ TakeCapsule \/ MakeLean \/ EnterCurrent

Next == Begin \/ Compact \/ Crash \/ \E t \in Tasks : Observe(t)

Spec == Init /\ [][Next]_vars

(* ------------------------------- properties --------------------------------- *)

(* Whatever the agent was told or did is told by a record it still has, however     *)
(* reports, folds, digests and restarts interleave: a digest stands only for what  *)
(* its author read, and a report that is not there yet for nothing.                *)
Written == {<<i[2], i[3]>> : i \in {j \in KnownIds : j[1] = "raw"}}
NothingLost == Written \subseteq Told(live)

(* Details are accounted for: what is left of a task that was closed can be found   *)
(* by the next compaction, although the slots that closed it may be gone; and a     *)
(* capsule that was reduced stays the only record of its task, although observers   *)
(* of the task and of its children write late.                                    *)
WasClosed(t) == \E i \in KnownIds : i[2] = t /\ i[1] \in {"close", "report"} /\ i[3] = 1
DetailsAccounted ==
  /\ \A t \in Past : WasClosed(t) /\ BodyOf(live, t) # {} => t \in Known(live)
  /\ \A r \in live : r.kind = "lean" => \A s \in live : s.task = r.task => s = r
=============================================================================
