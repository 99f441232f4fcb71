---------------------------- MODULE ToolCallsProofs ----------------------------
(***************************************************************************)
(* The tool calls of a turn of any length, with any policies, crashes,     *)
(* pauses and failed writes: the model is not asked again before every     *)
(* call has its result, a decision is neither asked for again nor used     *)
(* twice, and nothing with an effect runs without the decision it needs.   *)
(*                                                                         *)
(* What carries the invariant is that the calls are taken in the order of  *)
(* the turn: at most one of them has been touched and has no result yet,   *)
(* so an open round belongs to the one ask_user whose answer it holds, and *)
(* a crash, a pause or a new run finds every other question either closed  *)
(* or never asked.  Around it the invariant says how the registry agrees   *)
(* with the log question by question, what an open round may hold back,    *)
(* and how many questions each invocation has paid for.                    *)
(***************************************************************************)
EXTENDS ToolCalls, WellFoundedInduction, TLAPS

\* OperationFacts.
Facts == [starts : Nat, result : Result]

TypeOK ==
  /\ ops \in [Call -> Facts]
  /\ asks \in [Question -> Said \cup {"open"}]
  /\ memory \in [Call -> Result]
  /\ round \in {"none", "open", "committing"}
  /\ ahead \in [ops : [Call -> Facts], memory : [Call -> Result]]
  /\ desk \in [Question -> [at : {"none", "open", "claimed", "final"}, said : Said]]
  /\ unsure \in [Question -> Said]
  /\ pc \in PC /\ mode \in {"act", "reconcile"} /\ todo \subseteq Call
  /\ stage \in Stage /\ result \in Result
  /\ ran \in [Call -> Nat] /\ opened \in [Question -> Nat]
  /\ budget \in [stops : Nat, fails : Nat, crashes : Nat]

\* The questions there can be.
Askable ==
  (Asks \X {"tool"}) \cup (Gated \X {"authz"}) \cup ((Rerunnable \ Idempotent) \X {"rerun"})

\* The registry and the log agree on every question.
DeskAt(c, s) ==
  LET q == <<c, s>> IN
  /\ desk[q].said = "none" <=> desk[q].at \in {"none", "open"}
  /\ desk[q].at = "none" => asks[q] = "none" /\ unsure[q] = "none"
  /\ desk[q].at = "open" => asks[q] = "open" \/ (asks[q] = unsure[q] /\ unsure[q] # "none")
  /\ desk[q].at = "claimed" =>
       /\ asks[q] = (IF round = "committing" THEN desk[q].said ELSE "open")
       /\ s = "tool" /\ round # "none"
  /\ desk[q].at = "final" => asks[q] \in {"none", desk[q].said}
  /\ s = "tool" => unsure[q] = "none"
  /\ q \notin Askable => desk[q].at = "none" /\ opened[q] = 0
  /\ desk[q].at \in {"open", "claimed"} => memory[c] = "none"
DeskOK == \A c \in Call, s \in Stage : DeskAt(c, s)

\* Where the run can be while a round is open.
RoundOK ==
  /\ round = "committing" => pc \in {"enter", "open", "call"}
  /\ pc \in {"off", "attach", "wait"} => ahead = Snapshot
  /\ pc = "wait" => round = "none"

\* What a round holds back.
HeldOK ==
  /\ round = "none" => ahead = Snapshot
  /\ round = "committing" => ahead.ops = ops
  /\ round # "none" => \E k \in Asks : Claimed(<<k, "tool">>)
  /\ \A c \in Call :
       /\ memory[c] # "none" => ahead.memory[c] = memory[c]
       /\ ahead.ops[c].starts >= ops[c].starts
       /\ c \notin Asks => ahead.ops[c] = ops[c]
       /\ c \in Asks /\ ahead.ops[c].result # ops[c].result => Claimed(<<c, "tool">>)
       /\ round = "committing" /\ Claimed(<<c, "tool">>) => ahead.memory[c] # "none"

\* The calls are taken in order: none is touched before the ones before it have their
\* result, but for an ask_user that was invoked in a round and has asked nothing yet.
Before(d, c) == Place(d) < Place(c)
Unused(c, facts) == facts.result = "none" /\ (c \notin Asks => facts.starts = 0)
Untried(c) ==
  /\ Unused(c, ops[c]) /\ ran[c] = 0 /\ memory[c] = "none"
  /\ \A s \in Stage : desk[<<c, s>>].at = "none" /\ opened[<<c, s>>] = 0
FrontierOK ==
  \A c, d \in Call : Before(d, c) =>
    /\ memory[d] = "none" => Untried(c)
    /\ ahead.memory[d] = "none" => ahead.memory[c] = "none" /\ Unused(c, ahead.ops[c])

\* What the run still has to do.
TodoOK ==
  /\ pc \notin {"off", "close"} => todo = {c \in Call : ahead.memory[c] = "none"}
  /\ pc = "close" =>
       todo # {} /\ ahead.memory[Here] # "none"
       /\ todo \ {Here} = {c \in Call : ahead.memory[c] = "none"}
  /\ pc \notin {"off", "call"} => todo # {}
  /\ mode = "act" /\ pc # "off" =>
       \A c \in todo : c # Here \/ pc = "call" => ops[c] = Fresh /\ ahead.ops[c] = Fresh

\* A run goes on with open questions only while it waits for that one.
OpenOK ==
  /\ pc \notin {"off", "attach", "wait"} => \A c \in Call, s \in Stage : desk[<<c, s>>].at # "open"
  /\ pc \in {"attach", "wait"} =>
       \A c \in Call, s \in Stage : desk[<<c, s>>].at = "open" => c = Here /\ s = stage
  /\ pc = "open" => desk[<<Here, stage>>].at = "none"
  /\ pc \in {"open", "attach", "wait"} => <<Here, stage>> \in Askable

\* A final decision is closed with the invocation it was for, or with the result.
ClosedOK ==
  \A c \in Call, s \in Stage :
    desk[<<c, s>>].at = "final" /\ asks[<<c, s>>] = "none" /\ memory[c] = "none" =>
      c = Here /\ pc \in {"run", "finish", "record"} /\ s # "tool"

Asking(s) == pc \in {"open", "attach", "wait"} /\ stage = s
Trusted(c) == c \in Truncated /\ ops[c].result # "none"

\* How far the call at hand has come.
CurrentOK ==
  /\ pc = "review" \/ Asking("rerun") =>
       Here \notin Idempotent /\ ops[Here].starts > 0
  /\ pc \in {"authorize", "enter"} \/ Asking("authz") =>
       \/ Here \in Idempotent \/ ops[Here].starts = 0 \/ Trusted(Here)
       \/ asks[<<Here, "rerun">>] = "yes" /\ desk[<<Here, "rerun">>].said = "yes"
  /\ pc = "enter" /\ Here \in Gated => asks[<<Here, "authz">>] = "yes"
  /\ pc \in {"spent", "run", "finish"} /\ Here \notin Asks => round = "none"
  /\ pc = "run" => asks[<<Here, "rerun">>] = "none"
  /\ pc \in {"spent", "run"} /\ Here \notin Idempotent =>
       /\ ops[Here].starts > 0
       /\ ran[Here] = 0 \/ desk[<<Here, "rerun">>].said = "yes" \/ Trusted(Here)
       /\ Here \in Truncated \/ ran[Here] <= opened[<<Here, "rerun">>]
  /\ pc = "spent" =>
       /\ opened[<<Here, "authz">>] <= ahead.ops[Here].starts
       /\ opened[<<Here, "rerun">>] < ahead.ops[Here].starts
  /\ pc \in {"finish", "record"} =>
       /\ result # "none"
       /\ Here \in Asks => result = desk[<<Here, "tool">>].said
       /\ pc = "record" => ahead.ops[Here].result = result

\* How often was asked, and how often run.
CountsOK ==
  \A c \in Call :
    /\ c \notin Idempotent /\ ops[c].starts = 0 => ran[c] = 0
    /\ memory[c] = "none" =>
         /\ desk[<<c, "tool">>].at = "none" => opened[<<c, "tool">>] = 0
         /\ asks[<<c, "authz">>] = "none" => opened[<<c, "authz">>] <= ops[c].starts
         /\ asks[<<c, "rerun">>] = "none" /\ ops[c].starts > 0 =>
              opened[<<c, "rerun">>] < ops[c].starts
    /\ c \notin Idempotent \cup Truncated /\ asks[<<c, "rerun">>] # "none" =>
         ran[c] <= opened[<<c, "rerun">>]

\* What the log says of a result that comes into the conversation.
LoggedOK ==
  \A c \in Call :
    /\ c \in Asks /\ ops[c].result # "none" /\ memory[c] = "none" =>
         asks[<<c, "tool">>] \in {"yes", "no"}
    /\ ahead.memory[c] # memory[c]
         /\ ahead.memory[c] \notin {"refused", "interrupted", "cancelled"} =>
         /\ ahead.ops[c].result = ahead.memory[c]
         /\ c \in Asks => Claimed(<<c, "tool">>) /\ desk[<<c, "tool">>].said = ahead.memory[c]

Working ==
  /\ DeskOK /\ HeldOK /\ FrontierOK /\ CountsOK /\ LoggedOK
  /\ RoundOK /\ TodoOK /\ OpenOK /\ ClosedOK /\ CurrentOK

Inductive ==
  /\ TypeOK /\ DecisionsSpentOnce /\ NoDangling
  /\ IF pc = "over" THEN round = "none" ELSE Working
-------------------------------------------------------------------------------
(***************************************************************************)
(* The order of the calls                                                  *)
(***************************************************************************)
\* A set of natural numbers has a least element.
LEMMA Least ==
  ASSUME NEW S, S \subseteq Nat, S # {}
  PROVE  \E n \in S : \A m \in S : n <= m
<1> DEFINE R == OpToRel(<, Nat)
<1>1. IsWellFoundedOn(R, Nat)
  BY NatLessThanWellFounded
<1>2. \A x, y \in Nat : x < y => <<x, y>> \in R
  BY DEF OpToRel
<1> HIDE DEF R
<1>3. \E x \in S : \A y \in S : ~ (<<y, x>> \in R)
  BY <1>1, WFMin
<1>4. PICK n \in S : \A m \in S : ~ (<<m, n>> \in R)
  BY <1>3
<1>5. \A m \in S : m \in Nat /\ n \in Nat /\ ~(m < n)
  BY <1>2, <1>4
<1>6. \A m \in S : n <= m
  BY <1>5
<1> QED
  BY <1>6

\* Each call has a place of its own in the turn.
LEMMA PlaceFacts ==
  ASSUME NEW c \in Call
  PROVE  /\ Place(c) \in Nat
         /\ \A d \in Call : Place(c) = Place(d) => c = d
<1>1. DOMAIN Order = 1..Len(Order) /\ Len(Order) \in Nat
  BY ToolCallsAssumption
<1>2. ASSUME NEW d \in Call PROVE Place(d) \in DOMAIN Order /\ Order[Place(d)] = d
  <2>1. \E i \in DOMAIN Order : Order[i] = d
    BY DEF Call
  <2> QED
    BY <2>1 DEF Place
<1> QED
  BY <1>1, <1>2

\* The call at hand is one of those to do, and before all the others.
LEMMA HereFacts ==
  ASSUME TypeOK, todo # {}
  PROVE  /\ Here \in todo /\ Here \in Call
         /\ \A d \in todo : d # Here => Before(Here, d)
<1>1. todo \subseteq Call
  BY DEF TypeOK
<1> DEFINE S == {Place(c) : c \in todo}
<1>2. S \subseteq Nat /\ S # {}
  BY <1>1, PlaceFacts
<1>3. PICK n \in S : \A m \in S : n <= m
  BY <1>2, Least
<1>4. \E c \in todo : \A d \in todo : Place(c) <= Place(d)
  BY <1>3
<1>5. Here \in todo /\ \A d \in todo : Place(Here) <= Place(d)
  BY <1>4 DEF Here
<1>6. PICK h \in todo : h = Here
  BY <1>5
<1>7. \A d \in todo : d # h => Place(h) < Place(d)
  BY <1>1, <1>5, <1>6, PlaceFacts
<1> QED
  BY <1>1, <1>5, <1>6, <1>7 DEF Before

\* At most one call has been touched and has no result yet.
LEMMA OneAtATime ==
  ASSUME FrontierOK, NEW c \in Call, NEW d \in Call,
         memory[c] = "none", memory[d] = "none", ~Untried(c), ~Untried(d)
  PROVE  c = d
<1>1. Place(c) < Place(d) \/ Place(d) < Place(c) \/ Place(c) = Place(d)
  BY PlaceFacts
<1> QED
  BY <1>1, PlaceFacts DEF FrontierOK, Before

\* The sets of calls.
LEMMA Sets ==
  /\ Asks \subseteq Call /\ Asks \subseteq Idempotent /\ Gated \subseteq Call
  /\ Asks \cap Gated = {} /\ Asks \cap Malformed = {} /\ Asks \cap Truncated = {}
BY ToolCallsAssumption

\* The calls before the one at hand have their result.
LEMMA EarlierDone ==
  ASSUME TypeOK, Working, pc # "off", todo # {}, NEW d \in Call, Before(d, Here)
  PROVE  ahead.memory[d] # "none" /\ (round = "none" => memory[d] # "none")
<1>1. PICK h \in Call : h = Here /\ h \in todo /\ \A e \in todo : e # h => Before(h, e)
  BY HereFacts
<1>2. Place(d) < Place(h) /\ Place(d) \in Nat /\ Place(h) \in Nat
  BY <1>1, PlaceFacts DEF Before
<1>3. d # h /\ d \notin todo
  BY <1>1, <1>2 DEF Before
<1>4. ahead.memory[d] # "none"
  BY <1>1, <1>3 DEF Working, TodoOK
<1> QED
  BY <1>4 DEF Working, HeldOK, Snapshot

\* A round belongs to the one call that is touched and has no result.
LEMMA RoundOwner ==
  ASSUME Working, round # "none", NEW h \in Call, memory[h] = "none", ~Untried(h)
  PROVE  h \in Asks /\ Claimed(<<h, "tool">>)
<1>1. PICK k \in Asks : Claimed(<<k, "tool">>)
  BY DEF Working, HeldOK
<1>2. DeskAt(k, "tool") /\ k \in Call
  BY <1>1, Sets DEF Working, DeskOK, Stage
<1>3. memory[k] = "none" /\ ~Untried(k)
  BY <1>1, <1>2 DEF DeskAt, Claimed, Untried, Stage
<1> QED
  BY <1>1, <1>2, <1>3, OneAtATime DEF Working

\* ask_user is asked about in no other way.
LEMMA AsksOnly ==
  ASSUME Working, NEW k \in Asks
  PROVE  desk[<<k, "authz">>].at = "none" /\ desk[<<k, "rerun">>].at = "none"
<1>1. DeskAt(k, "authz") /\ DeskAt(k, "rerun")
  BY Sets DEF Working, DeskOK, Stage
<1> QED
  BY <1>1, Sets DEF DeskAt, Askable
-------------------------------------------------------------------------------
(***************************************************************************)
(* Steps that change only where the run is                                 *)
(***************************************************************************)
\* The parts of the invariant that do not look at the run.
LEMMA StillOK ==
  ASSUME Working, UNCHANGED <<log, memory, round, ahead, desk, unsure, history>>
  PROVE  DeskOK' /\ HeldOK' /\ FrontierOK' /\ CountsOK' /\ LoggedOK'
<1>0. asks' = asks /\ memory' = memory /\ round' = round /\ desk' = desk /\ unsure' = unsure
    /\ opened' = opened
  BY DEF log, history
<1>1. DeskOK'
  <2>1. ASSUME NEW c \in Call, NEW s \in Stage PROVE DeskAt(c, s)'
    <3>1. DeskAt(c, s)
      BY DEF Working, DeskOK
    <3> QED
      BY <1>0, <3>1 DEF DeskAt, Askable
  <2> QED
    BY <2>1 DEF DeskOK
<1>2. HeldOK'
  BY DEF Working, HeldOK, Snapshot, Claimed, log, history
<1>3. FrontierOK'
  BY DEF Working, FrontierOK, Untried, log, history
<1>4. CountsOK'
  BY DEF Working, CountsOK, log, history
<1>5. LoggedOK'
  BY DEF Working, LoggedOK, Claimed, log, history
<1> QED
  BY <1>1, <1>2, <1>3, <1>4, <1>5

\* The gateway takes the next call.
LEMMA EnterStep ==
  ASSUME TypeOK, Working, Enter
  PROVE  Working'
<1>1. PICK h \in Call : h = Here /\ h \in todo
  BY HereFacts DEF Enter
<1>2. /\ pc = "call" /\ round # "committing"
           /\ UNCHANGED <<log, memory, round, ahead, desk, unsure, history>>
      /\ UNCHANGED <<mode, todo, stage, result>>
           /\ pc' = (IF InDoubt THEN "review" ELSE "authorize")
      /\ ~EventDone /\ todo # {}
  BY DEF Enter, At, Goto
<1>3. Here' = h
  BY <1>1, <1>2 DEF Here
<1>4. memory[h] = "none"
  BY <1>1, <1>2 DEF Working, TodoOK, HeldOK
<1>5. RoundOK'
  BY <1>2 DEF RoundOK
<1>6. TodoOK'
  BY <1>1, <1>2, <1>3 DEF Working, TodoOK, log
<1>7. OpenOK'
  BY <1>2 DEF Working, OpenOK
<1>8. ClosedOK'
  BY <1>1, <1>2 DEF Working, ClosedOK, log
<1>9. CurrentOK'
  <2>1. pc' = "review" => h \notin Idempotent /\ ops[h].starts > 0
    BY <1>1, <1>2 DEF InDoubt, TypeOK, Facts
  <2>2. desk[<<h, "tool">>].at # "none" => h \in Idempotent
    BY Sets DEF Working, DeskOK, DeskAt, Askable, Stage
  <2>3. mode = "act" => ops[h].starts = 0
    BY <1>1, <1>2 DEF Working, TodoOK, Fresh
  <2>4. pc' = "authorize" => h \in Idempotent \/ ops[h].starts = 0 \/ Trusted(h)
    BY <1>1, <1>2, <2>2, <2>3 DEF InDoubt, EventDone, TypeOK, Facts, Trusted, Found
  <2> QED
    BY <1>2, <1>3, <2>1, <2>4 DEF CurrentOK, Trusted, Asking, log
<1> QED
  BY <1>2, <1>5, <1>6, <1>7, <1>8, <1>9, StillOK DEF Working

\* It is asked for, or given, the leave to run the call again.
LEMMA ReviewStep ==
  ASSUME TypeOK, Working, Review
  PROVE  Working'
<1>1. PICK h \in Call : h = Here /\ h \in todo
  BY HereFacts DEF Review, At, Working, TodoOK
<1>2. /\ pc = "review" /\ round # "committing"
      /\ UNCHANGED <<log, memory, round, ahead, desk, unsure, history, mode, todo>>
      /\ \/ pc' = "finish" /\ result' = "unverified" /\ stage' = stage
         \/ pc' = "authorize" /\ result' = result /\ stage' = stage
              /\ desk[<<h, "rerun">>].said = "yes"
         \/ /\ pc' = "open" /\ result' = result /\ stage' = "rerun" /\ h \in Rerunnable
            /\ desk[<<h, "rerun">>].said = "none"
  BY <1>1 DEF Review, At, Goto, ComeTo, AskAt, Cached, Found
<1>3. Here' = h
  BY <1>1, <1>2 DEF Here
<1>4. memory[h] = "none" /\ h \notin Idempotent /\ ops[h].starts > 0 /\ h \notin Asks
  BY <1>1, <1>2, Sets DEF Working, TodoOK, HeldOK, CurrentOK
<1>10. DeskAt(h, "rerun")
  BY DEF Working, DeskOK, Stage
<1>5. RoundOK'
  BY <1>2 DEF RoundOK
<1>6. TodoOK'
  BY <1>1, <1>2, <1>3 DEF Working, TodoOK, log
<1>7. OpenOK'
  <2>1. pc' = "open" => desk[<<h, "rerun">>].at = "none"
    BY <1>2, <1>10 DEF Working, OpenOK, DeskAt, Stage
  <2>2. pc' = "open" => <<h, "rerun">> \in Askable
    BY <1>2, <1>4 DEF Askable
  <2>3. \A c \in Call, s \in Stage : desk[<<c, s>>].at # "open"
    BY <1>2 DEF Working, OpenOK
  <2> QED
    BY <1>2, <1>3, <2>1, <2>2, <2>3 DEF OpenOK
<1>8. ClosedOK'
  BY <1>1, <1>2 DEF Working, ClosedOK, log
<1>9. CurrentOK'
  <2>1. pc' = "authorize" => asks[<<h, "rerun">>] = "yes"
    <3>1. ~(desk[<<h, "rerun">>].at = "final" /\ asks[<<h, "rerun">>] = "none")
      BY <1>2, <1>4 DEF Working, ClosedOK, Stage
    <3>2. desk[<<h, "rerun">>].at \in {"none", "open", "claimed", "final"}
      BY DEF TypeOK, Question, Stage
    <3> QED
      BY <1>2, <1>10, <3>1, <3>2 DEF DeskAt
  <2>2. h \notin Asks => round = "none"
    <3>1. memory[h] = "none" /\ ops[h].starts > 0
      BY <1>1, <1>2, <1>4 DEF Working, TodoOK, HeldOK
    <3>2. h \notin Asks => ~Untried(h)
      BY <3>1 DEF Untried, Unused
    <3> QED
      BY <3>1, <3>2, RoundOwner
  <2> QED
    BY <1>2, <1>3, <1>4, <2>1, <2>2 DEF CurrentOK, Trusted, Asking, log
<1> QED
  BY <1>2, <1>5, <1>6, <1>7, <1>8, <1>9, StillOK DEF Working

\* It is asked for, or given, the leave to run the call.
LEMMA AuthorizeStep ==
  ASSUME TypeOK, Working, Authorize
  PROVE  Working'
<1>1. PICK h \in Call : h = Here /\ h \in todo
  BY HereFacts DEF Authorize, At, Working, TodoOK
<1>2. /\ pc = "authorize" /\ round # "committing"
      /\ UNCHANGED <<log, memory, round, ahead, desk, unsure, history, mode, todo, result>>
      /\ \/ /\ pc' \in {"enter", "refuse"} /\ stage' = stage
            /\ pc' = "enter" /\ h \in Gated => desk[<<h, "authz">>].said = "yes"
         \/ /\ pc' = "open" /\ stage' = "authz" /\ h \in Gated
            /\ desk[<<h, "authz">>].said = "none"
  BY <1>1 DEF Authorize, At, Goto, AskAt, Cached, Found
<1>3. Here' = h
  BY <1>1, <1>2 DEF Here
<1>4. memory[h] = "none"
  BY <1>1, <1>2, Sets DEF Working, TodoOK, HeldOK
<1>10. DeskAt(h, "authz")
  BY DEF Working, DeskOK, Stage
<1>5. RoundOK'
  BY <1>2 DEF RoundOK
<1>6. TodoOK'
  BY <1>1, <1>2, <1>3 DEF Working, TodoOK, log
<1>7. OpenOK'
  <2>1. pc' = "open" => desk[<<h, "authz">>].at = "none"
    BY <1>2, <1>10 DEF Working, OpenOK, DeskAt, Stage
  <2>2. pc' = "open" => <<h, "authz">> \in Askable
    BY <1>2, <1>4 DEF Askable
  <2>3. \A c \in Call, s \in Stage : desk[<<c, s>>].at # "open"
    BY <1>2 DEF Working, OpenOK
  <2> QED
    BY <1>2, <1>3, <2>1, <2>2, <2>3 DEF OpenOK
<1>8. ClosedOK'
  BY <1>1, <1>2 DEF Working, ClosedOK, log
<1>9. CurrentOK'
  <2>1. pc' = "enter" /\ h \in Gated => asks[<<h, "authz">>] = "yes"
    <3>1. ~(desk[<<h, "authz">>].at = "final" /\ asks[<<h, "authz">>] = "none")
      BY <1>2, <1>4 DEF Working, ClosedOK, Stage
    <3>2. desk[<<h, "authz">>].at \in {"none", "open", "claimed", "final"}
      BY DEF TypeOK, Question, Stage
    <3> QED
      BY <1>2, <1>10, <3>1, <3>2 DEF DeskAt
  <2> QED
    BY <1>1, <1>2, <1>3, <1>4, <2>1 DEF Working, CurrentOK, Trusted, Asking, log
<1> QED
  BY <1>2, <1>5, <1>6, <1>7, <1>8, <1>9, StillOK DEF Working

\* ask_user has its answer, or asks for it.
LEMMA ExecuteAskStep ==
  ASSUME TypeOK, Working, ExecuteAsk
  PROVE  Working'
<1>1. PICK h \in Call : h = Here /\ h \in todo
  BY HereFacts DEF ExecuteAsk, At, Working, TodoOK
<1>2. /\ pc = "run" /\ round # "committing" /\ h \in Asks
      /\ UNCHANGED <<log, memory, round, ahead, desk, unsure, history, mode, todo>>
      /\ \/ /\ pc' = "finish" /\ result' = desk[<<h, "tool">>].said /\ result' # "none"
         \/ pc' = "open" /\ result' = result /\ stage' = "tool" /\ desk[<<h, "tool">>].said = "none"
  BY <1>1 DEF ExecuteAsk, At, ComeTo, AskAt, HumanReply, Cached, Found
<1>3. Here' = h
  BY <1>1, <1>2 DEF Here
<1>4. DeskAt(h, "tool")
  BY DEF Working, DeskOK, Stage
<1>5. RoundOK'
  BY <1>2 DEF RoundOK
<1>6. TodoOK'
  BY <1>1, <1>2, <1>3 DEF Working, TodoOK, log
<1>7. OpenOK'
  <2>1. pc' = "open" => desk[<<h, "tool">>].at = "none"
    BY <1>2, <1>4 DEF Working, OpenOK, DeskAt, Stage
  <2>2. pc' = "open" => <<h, "tool">> \in Askable
    BY <1>2 DEF Askable
  <2>3. \A c \in Call, s \in Stage : desk[<<c, s>>].at # "open"
    BY <1>2 DEF Working, OpenOK
  <2> QED
    BY <1>2, <1>3, <2>1, <2>2, <2>3 DEF OpenOK
<1>8. ClosedOK'
  <2>1. DeskAt(h, "authz") /\ DeskAt(h, "rerun")
    BY DEF Working, DeskOK, Stage
  <2>2. desk[<<h, "authz">>].at = "none" /\ desk[<<h, "rerun">>].at = "none"
    BY <1>2, <2>1, Sets DEF DeskAt, Askable
  <2> QED
    BY <1>1, <1>2, <2>2 DEF Working, ClosedOK, log, Stage
<1>9. CurrentOK'
  BY <1>2, <1>3, Sets DEF CurrentOK, Trusted, Asking, log
<1> QED
  BY <1>2, <1>5, <1>6, <1>7, <1>8, <1>9, StillOK DEF Working

\* Whoever asked waits for the answer, or has gone.
LEMMA AttachStep ==
  ASSUME TypeOK, Working, Attach
  PROVE  Working'
<1>1. PICK h \in Call : h = Here /\ h \in todo
  BY HereFacts DEF Attach, At, Working, TodoOK
<1>2. /\ pc = "attach" /\ round # "committing"
      /\ UNCHANGED <<log, memory, round, ahead, desk, unsure, history, mode, todo, stage, result>>
      /\ pc' = (IF Listening THEN "wait" ELSE "off")
  BY <1>1 DEF Attach, At, Goto
<1>3. Here' = h
  BY <1>1, <1>2 DEF Here
<1>4. Listening => round = "none"
  <2>1. SUFFICES ASSUME desk[<<h, stage>>].at = "open", round # "none" PROVE FALSE
    BY <1>1 DEF Listening, Found
  <2>2. PICK k \in Asks : Claimed(<<k, "tool">>)
    BY <2>1 DEF Working, HeldOK
  <2>3. DeskAt(k, "tool") /\ DeskAt(h, stage) /\ k \in Call /\ stage \in Stage
    BY Sets DEF Working, DeskOK, Stage, TypeOK
  <2>4. memory[k] = "none" /\ memory[h] = "none"
    BY <2>1, <2>2, <2>3 DEF DeskAt, Claimed
  <2>5. ~Untried(k) /\ ~Untried(h)
    BY <2>1, <2>2, <2>3 DEF Untried, Claimed, Stage
  <2>6. h = k
    BY <2>3, <2>4, <2>5, OneAtATime DEF Working
  <2>7. DeskAt(h, "authz") /\ DeskAt(h, "rerun")
    BY DEF Working, DeskOK, Stage
  <2>8. desk[<<h, "authz">>].at = "none" /\ desk[<<h, "rerun">>].at = "none"
    BY <2>6, <2>7, Sets DEF DeskAt, Askable
  <2> QED
    BY <2>1, <2>2, <2>3, <2>6, <2>8 DEF Claimed, Stage
<1>5. RoundOK'
  BY <1>2, <1>4 DEF Working, RoundOK, Snapshot, log
<1>6. TodoOK'
  BY <1>1, <1>2, <1>3 DEF Working, TodoOK, log
<1>7. OpenOK'
  BY <1>1, <1>2, <1>3 DEF Working, OpenOK
<1>8. ClosedOK'
  BY <1>1, <1>2 DEF Working, ClosedOK, log
<1>9. CurrentOK'
  BY <1>1, <1>2, <1>3 DEF Working, CurrentOK, Trusted, Asking, log, history
<1> QED
  BY <1>2, <1>5, <1>6, <1>7, <1>8, <1>9, StillOK DEF Working

\* The hot window closes.
LEMMA EvictStep ==
  ASSUME TypeOK, Working, Evict
  PROVE  Working'
<1>1. /\ pc = "wait" /\ pc' = "off"
      /\ UNCHANGED <<log, memory, round, ahead, desk, unsure, history, mode, todo, stage, result>>
  BY DEF Evict, At, Goto
<1>2. RoundOK' /\ TodoOK' /\ OpenOK' /\ CurrentOK'
  BY <1>1 DEF Working, RoundOK, Snapshot, TodoOK, OpenOK, CurrentOK, Asking, log
<1>3. ClosedOK'
  BY <1>1 DEF Working, ClosedOK, log
<1> QED
  BY <1>1, <1>2, <1>3, StillOK DEF Working

\* A new run reconciles the turn.
LEMMA StartStep ==
  ASSUME TypeOK, Working, Start
  PROVE  Working'
<1>1. /\ pc = "off" /\ pc' = "call" /\ mode' = "reconcile" /\ round # "committing"
      /\ todo' = {c \in Call : memory[c] = "none"}
      /\ UNCHANGED <<log, memory, round, ahead, desk, unsure, history, stage, result>>
      /\ \A c \in Call, s \in Stage : desk[<<c, s>>].at # "open"
  BY DEF Start, Dangling, Question
<1>2. RoundOK' /\ CurrentOK'
  BY <1>1 DEF RoundOK, CurrentOK, Asking
<1>3. TodoOK'
  BY <1>1 DEF Working, TodoOK, RoundOK, Snapshot
<1>4. OpenOK'
  BY <1>1 DEF OpenOK
<1>5. ClosedOK'
  BY <1>1 DEF Working, ClosedOK, log
<1> QED
  BY <1>1, <1>2, <1>3, <1>4, <1>5, StillOK DEF Working
-------------------------------------------------------------------------------
(***************************************************************************)
(* Steps that write the log and the conversation                           *)
(***************************************************************************)
\* What a result in the conversation keeps.
LEMMA IngestStep ==
  ASSUME TypeOK, Working, NEW h \in Call, h = Here, h \in todo, ahead.memory[h] = "none",
         pc \notin {"off", "attach", "wait", "close"}, round # "committing",
         NEW r \in Result \ {"none"}, Ingest(h, r),
         r # "refused" => /\ ahead.ops[h].result = r
                          /\ h \in Asks /\ round = "open" =>
                               Claimed(<<h, "tool">>) /\ desk[<<h, "tool">>].said = r,
         UNCHANGED <<log, round, desk, unsure, history>>
  PROVE  /\ DeskOK' /\ HeldOK' /\ FrontierOK' /\ CountsOK' /\ LoggedOK'
         /\ ahead'.memory = [ahead.memory EXCEPT ![h] = r]
         /\ ahead'.ops = ahead.ops
         /\ \A c \in Call : memory[c] # "none" => memory'[c] # "none"
<1>1. memory[h] = "none"
  BY DEF Working, HeldOK
<1>2. /\ ahead' = [ahead EXCEPT !.memory = [ahead.memory EXCEPT ![h] = r]]
      /\ round = "open" => memory' = memory
      /\ round # "open" => memory' = [memory EXCEPT ![h] = r]
  BY <1>1 DEF Ingest, Recorded, HeldBack
<1>3. /\ ops' = ops /\ asks' = asks /\ round' = round /\ desk' = desk /\ unsure' = unsure
      /\ ran' = ran /\ opened' = opened
  BY DEF log, history
<1>4. /\ ahead \in [ops : [Call -> Facts], memory : [Call -> Result]]
      /\ memory \in [Call -> Result] /\ round \in {"none", "open"}
  BY DEF TypeOK
<1>5. ahead'.memory = [ahead.memory EXCEPT ![h] = r] /\ ahead'.ops = ahead.ops
      /\ ahead' = [ops |-> ahead'.ops, memory |-> ahead'.memory]
  BY <1>2, <1>4
<1>6. /\ \A c \in Call : c # h => memory'[c] = memory[c] /\ ahead'.memory[c] = ahead.memory[c]
      /\ ahead'.memory[h] = r /\ (round = "open" => memory'[h] = "none")
      /\ (round = "none" => memory'[h] = r)
  BY <1>1, <1>2, <1>4, <1>5
<1>7. DeskOK'
  <2>1. ASSUME NEW c \in Call, NEW s \in Stage PROVE DeskAt(c, s)'
    <3>1. DeskAt(c, s) /\ desk[<<c, s>>].at # "open"
      BY DEF Working, DeskOK, OpenOK
    <3>2. desk[<<c, s>>].at = "claimed" => memory'[c] = "none"
      BY <1>4, <1>6, <3>1 DEF DeskAt
    <3> QED
      BY <1>3, <3>1, <3>2 DEF DeskAt, Askable
  <2> QED
    BY <2>1 DEF DeskOK
<1>8. HeldOK'
  <2>1. round = "none" => ahead' = Snapshot'
    <3>1. round = "none" => ahead.ops = ops /\ ahead.memory = memory
      BY DEF Working, HeldOK, Snapshot
    <3>2. round = "none" => ahead'.ops = ops' /\ ahead'.memory = memory'
      BY <1>2, <1>3, <1>5, <3>1
    <3> QED
      BY <1>5, <3>2 DEF Snapshot
  <2>2. \A c \in Call : Claimed(<<c, "tool">>)' <=> Claimed(<<c, "tool">>)
    BY <1>3 DEF Claimed
  <2>3. \A c \in Call : memory'[c] # "none" => ahead'.memory[c] = memory'[c]
    BY <1>4, <1>6 DEF Working, HeldOK
  <2> QED
    BY <1>3, <1>4, <1>5, <2>1, <2>2, <2>3, Sets DEF Working, HeldOK
<1>9. FrontierOK'
  <2>1. ASSUME NEW c \in Call, NEW d \in Call, Before(d, c)
        PROVE  /\ memory'[d] = "none" => Untried(c)'
               /\ ahead'.memory[d] = "none" => ahead'.memory[c] = "none" /\ Unused(c, ahead'.ops[c])
    <3>1. CASE c = h
      <4>1. ahead.memory[d] # "none" /\ (round = "none" => memory[d] # "none") /\ d # h
        BY <2>1, <3>1, EarlierDone, PlaceFacts DEF Before
      <4> QED
        BY <1>3, <1>4, <1>5, <1>6, <2>1, <3>1, <4>1 DEF Working, FrontierOK, Untried, Unused
    <3>2. CASE c # h
      BY <1>1, <1>3, <1>4, <1>5, <1>6, <2>1, <3>2 DEF Working, FrontierOK, Untried, Unused
    <3> QED
      BY <3>1, <3>2
  <2> QED
    BY <2>1 DEF FrontierOK, Before, Place, Unused
<1>10. CountsOK'
  BY <1>1, <1>3, <1>4, <1>6 DEF Working, CountsOK
<1>11. LoggedOK'
  <2>1. ASSUME NEW c \in Call
        PROVE  /\ c \in Asks /\ ops'[c].result # "none" /\ memory'[c] = "none" =>
                    asks'[<<c, "tool">>] \in {"yes", "no"}
               /\ ahead'.memory[c] # memory'[c]
                    /\ ahead'.memory[c] \notin {"refused", "interrupted", "cancelled"} =>
                    /\ ahead'.ops[c].result = ahead'.memory[c]
                    /\ c \in Asks => Claimed(<<c, "tool">>)'
                         /\ desk'[<<c, "tool">>].said = ahead'.memory[c]
    BY <1>1, <1>3, <1>4, <1>5, <1>6 DEF Working, LoggedOK, Claimed
  <2> QED
    BY <2>1 DEF LoggedOK
<1>12. \A c \in Call : memory[c] # "none" => memory'[c] # "none"
  BY <1>1, <1>6
<1> QED
  BY <1>5, <1>7, <1>8, <1>9, <1>10, <1>11, <1>12

\* A refused call, or one that cannot be made, has its result.
LEMMA RefuseStep ==
  ASSUME TypeOK, Working, Refuse
  PROVE  Working'
<1>1. PICK h \in Call : h = Here /\ h \in todo
  BY HereFacts DEF Refuse, At, Working, TodoOK
<1>2. /\ pc = "refuse" /\ pc' = "close" /\ round # "committing" /\ Ingest(h, "refused")
      /\ UNCHANGED <<log, round, desk, unsure, history, mode, todo, stage, result>>
  BY <1>1 DEF Refuse, At, Goto
<1>3. Here' = h
  BY <1>1, <1>2 DEF Here
<1>4. ahead.memory[h] = "none"
  BY <1>1, <1>2 DEF Working, TodoOK
<1>5. /\ DeskOK' /\ HeldOK' /\ FrontierOK' /\ CountsOK' /\ LoggedOK'
      /\ ahead'.memory = [ahead.memory EXCEPT ![h] = "refused"] /\ ahead'.ops = ahead.ops
      /\ \A c \in Call : memory[c] # "none" => memory'[c] # "none"
  BY <1>1, <1>2, <1>4, IngestStep DEF Result
<1>6. \A c \in Call : ahead'.memory[c] = IF c = h THEN "refused" ELSE ahead.memory[c]
  BY <1>5 DEF TypeOK
<1>7. RoundOK' /\ CurrentOK'
  BY <1>2 DEF RoundOK, CurrentOK, Asking
<1>8. TodoOK'
  <2>1. todo = {c \in Call : ahead.memory[c] = "none"}
    BY <1>2 DEF Working, TodoOK
  <2>2. todo \ {h} = {c \in Call : ahead'.memory[c] = "none"}
    BY <1>6, <2>1
  <2>3. mode = "act" => \A c \in todo : c # h => ops[c] = Fresh /\ ahead'.ops[c] = Fresh
    BY <1>1, <1>2, <1>5 DEF Working, TodoOK
  <2> QED
    BY <1>1, <1>2, <1>3, <1>6, <2>2, <2>3 DEF TodoOK, log
<1>9. OpenOK'
  BY <1>2 DEF Working, OpenOK
<1>10. ClosedOK'
  BY <1>1, <1>2, <1>5 DEF Working, ClosedOK, log
<1> QED
  BY <1>5, <1>7, <1>8, <1>9, <1>10 DEF Working

\* The result is in the conversation.
LEMMA RecordStep ==
  ASSUME TypeOK, Working, Record
  PROVE  Working'
<1>1. PICK h \in Call : h = Here /\ h \in todo
  BY HereFacts DEF Record, At, Working, TodoOK
<1>2. /\ pc = "record" /\ pc' = "close" /\ round # "committing" /\ Ingest(h, result)
      /\ UNCHANGED <<log, round, desk, unsure, history, mode, todo, stage, result>>
  BY <1>1 DEF Record, At, Goto
<1>3. Here' = h
  BY <1>1, <1>2 DEF Here
<1>4. ahead.memory[h] = "none" /\ memory[h] = "none"
  BY <1>1, <1>2 DEF Working, TodoOK, HeldOK
<1>5. /\ result \in Result \ {"none"} /\ ahead.ops[h].result = result
      /\ h \in Asks => result = desk[<<h, "tool">>].said
  BY <1>1, <1>2 DEF Working, CurrentOK, TypeOK
<1>6. h \in Asks /\ round = "open" => Claimed(<<h, "tool">>)
  <2>1. SUFFICES ASSUME h \in Asks, round = "open" PROVE Claimed(<<h, "tool">>)
    OBVIOUS
  <2>2. DeskAt(h, "tool")
    BY DEF Working, DeskOK, Stage
  <2>3. ~Untried(h)
    BY <1>5, <2>1, <2>2 DEF DeskAt, Untried, Stage
  <2> QED
    BY <1>4, <2>1, <2>3, RoundOwner
<1>7. /\ DeskOK' /\ HeldOK' /\ FrontierOK' /\ CountsOK' /\ LoggedOK'
      /\ ahead'.memory = [ahead.memory EXCEPT ![h] = result] /\ ahead'.ops = ahead.ops
      /\ \A c \in Call : memory[c] # "none" => memory'[c] # "none"
  BY <1>1, <1>2, <1>4, <1>5, <1>6, IngestStep
<1>8. \A c \in Call : ahead'.memory[c] = IF c = h THEN result ELSE ahead.memory[c]
  BY <1>7 DEF TypeOK
<1>9. RoundOK' /\ CurrentOK'
  BY <1>2 DEF RoundOK, CurrentOK, Asking
<1>10. TodoOK'
  <2>1. todo = {c \in Call : ahead.memory[c] = "none"}
    BY <1>2 DEF Working, TodoOK
  <2>2. todo \ {h} = {c \in Call : ahead'.memory[c] = "none"}
    BY <1>5, <1>8, <2>1
  <2>3. mode = "act" => \A c \in todo : c # h => ops[c] = Fresh /\ ahead'.ops[c] = Fresh
    BY <1>1, <1>2, <1>7 DEF Working, TodoOK
  <2> QED
    BY <1>1, <1>2, <1>3, <1>5, <1>8, <2>2, <2>3 DEF TodoOK, log
<1>11. OpenOK'
  BY <1>2 DEF Working, OpenOK
<1>12. ClosedOK'
  <2>1. memory'[h] # "none" \/ round = "open"
    BY <1>2, <1>4, <1>5 DEF Ingest, HeldBack, Recorded, TypeOK
  <2>2. ASSUME NEW c \in Call, NEW s \in Stage, desk[<<c, s>>].at = "final",
               asks[<<c, s>>] = "none", memory'[c] = "none"
        PROVE  FALSE
    <3>1. memory[c] = "none"
      BY <1>7, <2>2
    <3>2. c = h /\ s # "tool"
      BY <1>1, <2>2, <3>1 DEF Working, ClosedOK
    <3>3. round = "open"
      BY <2>1, <2>2, <3>2
    <3>4. ~Untried(h)
      BY <2>2, <3>2 DEF Untried
    <3>5. h \in Asks
      BY <1>4, <3>3, <3>4, RoundOwner
    <3> QED
      BY <2>2, <3>2, <3>5, AsksOnly DEF Stage
  <2> QED
    BY <1>2, <2>2 DEF ClosedOK, log
<1> QED
  BY <1>7, <1>9, <1>10, <1>11, <1>12 DEF Working

\* The log has the result: it is only put into the conversation.
LEMMA BackfillStep ==
  ASSUME TypeOK, Working, Backfill
  PROVE  Working'
<1>1. PICK h \in Call : h = Here /\ h \in todo
  BY HereFacts DEF Backfill, At, Working, TodoOK
<1>2. /\ pc = "call" /\ pc' = "call" /\ round # "committing" /\ Ingest(h, ops[h].result)
      /\ todo' = todo \ {h} /\ mode = "reconcile"
      /\ ops[h].result # "none" /\ desk[<<h, "tool">>].at = "none"
      /\ UNCHANGED <<log, round, desk, unsure, history, mode, stage, result>>
  BY <1>1 DEF Backfill, At, EventDone, Found
<1>4. ahead.memory[h] = "none" /\ memory[h] = "none"
  BY <1>1, <1>2 DEF Working, TodoOK, HeldOK
<1>5. ops[h].result \in Result \ {"none"} /\ ~Untried(h) /\ round \in {"none", "open"}
  BY <1>2 DEF TypeOK, Facts, Untried, Unused
<1>6. round = "none"
  BY <1>2, <1>4, <1>5, RoundOwner DEF Claimed
<1>7. ahead.ops[h].result = ops[h].result
  BY <1>6 DEF Working, HeldOK, Snapshot
<1>8. /\ DeskOK' /\ HeldOK' /\ FrontierOK' /\ CountsOK' /\ LoggedOK'
      /\ ahead'.memory = [ahead.memory EXCEPT ![h] = ops[h].result]
      /\ \A c \in Call : memory[c] # "none" => memory'[c] # "none"
  BY <1>1, <1>2, <1>4, <1>5, <1>6, <1>7, IngestStep
<1>9. \A c \in Call : ahead'.memory[c] = IF c = h THEN ops[h].result ELSE ahead.memory[c]
  BY <1>8 DEF TypeOK
<1>10. RoundOK' /\ CurrentOK'
  BY <1>2, <1>6 DEF RoundOK, CurrentOK, Asking
<1>11. TodoOK'
  <2>1. todo = {c \in Call : ahead.memory[c] = "none"}
    BY <1>2 DEF Working, TodoOK
  <2>2. todo \ {h} = {c \in Call : ahead'.memory[c] = "none"}
    BY <1>5, <1>9, <2>1
  <2> QED
    BY <1>2, <2>2 DEF TodoOK
<1>12. OpenOK'
  BY <1>2 DEF Working, OpenOK
<1>13. ClosedOK'
  BY <1>2, <1>8 DEF Working, ClosedOK, log
<1> QED
  BY <1>8, <1>10, <1>11, <1>12, <1>13 DEF Working

\* What the log keeps when it is told something of the call at hand.
LEMMA EmitStep ==
  ASSUME TypeOK, Working, AskedOnce, NEW h \in Call, h = Here, h \in todo,
         pc \in {"enter", "finish"}, round # "committing",
         NEW o \in Facts, Emit(h, o),
         pc = "enter" => /\ o = AfterInvoked(ahead.ops[h]) /\ (h \in Asks \/ round = "none"),
         pc = "finish" => o = AfterFinished(ahead.ops[h], result),
         UNCHANGED <<asks, memory, round, desk, unsure, history>>
  PROVE  /\ DeskOK' /\ HeldOK' /\ FrontierOK' /\ CountsOK' /\ LoggedOK'
         /\ ahead'.memory = ahead.memory /\ ahead'.ops = [ahead.ops EXCEPT ![h] = o]
         /\ \A c \in Call : c # h => ops'[c] = ops[c]
<1>1. memory[h] = "none" /\ ahead.memory[h] = "none"
  BY DEF Working, HeldOK, TodoOK
<1>2. /\ ahead' = [ahead EXCEPT !.ops[h] = o]
      /\ round = "open" => ops' = ops
      /\ round # "open" => ops' = [ops EXCEPT ![h] = o]
  BY DEF Emit, HeldBack
<1>3. /\ memory' = memory /\ asks' = asks /\ round' = round /\ desk' = desk /\ unsure' = unsure
      /\ ran' = ran /\ opened' = opened
  BY DEF history
<1>4. /\ ahead \in [ops : [Call -> Facts], memory : [Call -> Result]]
      /\ ops \in [Call -> Facts] /\ round \in {"none", "open"}
  BY DEF TypeOK
<1>5. ahead'.memory = ahead.memory /\ ahead'.ops = [ahead.ops EXCEPT ![h] = o]
      /\ ahead' = [ops |-> ahead'.ops, memory |-> ahead'.memory]
  BY <1>2, <1>4
<1>6. /\ \A c \in Call : c # h => ops'[c] = ops[c] /\ ahead'.ops[c] = ahead.ops[c]
      /\ ahead'.ops[h] = o /\ (round = "open" => ops'[h] = ops[h])
      /\ (round = "none" => ops'[h] = o /\ ahead.ops[h] = ops[h])
  BY <1>2, <1>4, <1>5 DEF Working, HeldOK, Snapshot
<1>7. /\ ahead.ops[h].starts \in Nat /\ ops[h].starts \in Nat
      /\ pc = "enter" => o.starts = ahead.ops[h].starts + 1 /\ o.result = ahead.ops[h].result
      /\ pc = "finish" => o.starts = ahead.ops[h].starts /\ o.result = result
  BY <1>4 DEF Facts, AfterInvoked, AfterFinished
<1>8. DeskOK'
  <2>1. ASSUME NEW c \in Call, NEW s \in Stage PROVE DeskAt(c, s)'
    <3>1. DeskAt(c, s)
      BY DEF Working, DeskOK
    <3> QED
      BY <1>3, <3>1 DEF DeskAt, Askable
  <2> QED
    BY <2>1 DEF DeskOK
<1>9. h \in Asks /\ pc = "finish" =>
        asks[<<h, "tool">>] \in {"yes", "no"} \/ Claimed(<<h, "tool">>)
  <2>1. SUFFICES ASSUME h \in Asks, pc = "finish"
                 PROVE  asks[<<h, "tool">>] \in {"yes", "no"} \/ Claimed(<<h, "tool">>)
    OBVIOUS
  <2>2. DeskAt(h, "tool")
    BY DEF Working, DeskOK, Stage
  <2>3. result # "none" /\ result = desk[<<h, "tool">>].said
    BY <2>1 DEF Working, CurrentOK
  <2>4. desk[<<h, "tool">>] \in [at : {"none", "open", "claimed", "final"}, said : Said]
    BY DEF TypeOK, Question, Stage
  <2>5. desk[<<h, "tool">>].at \in {"claimed", "final"}
      /\ desk[<<h, "tool">>].said \in {"yes", "no"}
    BY <2>2, <2>3, <2>4 DEF DeskAt, Said
  <2>6. desk[<<h, "tool">>].at = "final" => asks[<<h, "tool">>] # "none"
    BY <1>1 DEF Working, ClosedOK, Stage
  <2> QED
    BY <2>2, <2>5, <2>6 DEF DeskAt, Claimed
<1>10. h \in Asks /\ pc = "finish" /\ round = "open" => Claimed(<<h, "tool">>)
  <2>1. SUFFICES ASSUME h \in Asks, pc = "finish", round = "open" PROVE Claimed(<<h, "tool">>)
    OBVIOUS
  <2>2. DeskAt(h, "tool")
    BY DEF Working, DeskOK, Stage
  <2>3. ~Untried(h)
    BY <2>1, <2>2 DEF Working, CurrentOK, DeskAt, Untried, Stage
  <2> QED
    BY <1>1, <2>1, <2>3, RoundOwner
<1>11. HeldOK'
  <2>1. round = "none" => ahead' = Snapshot'
    <3>1. round = "none" => ahead.ops = ops /\ ahead.memory = memory
      BY DEF Working, HeldOK, Snapshot
    <3>2. round = "none" => ahead'.ops = ops' /\ ahead'.memory = memory'
      BY <1>2, <1>3, <1>5, <3>1
    <3> QED
      BY <1>5, <3>2 DEF Snapshot
  <2>2. ASSUME NEW c \in Call
        PROVE  /\ memory'[c] # "none" => ahead'.memory[c] = memory'[c]
               /\ ahead'.ops[c].starts >= ops'[c].starts
               /\ c \notin Asks => ahead'.ops[c] = ops'[c]
               /\ c \in Asks /\ ahead'.ops[c].result # ops'[c].result => Claimed(<<c, "tool">>)
    <3>1. CASE c = h
      <4>1. h \notin Asks => round = "none"
        BY DEF Working, CurrentOK
      <4> QED
        BY <1>1, <1>3, <1>4, <1>5, <1>6, <1>7, <1>10, <3>1, <4>1 DEF Working, HeldOK
    <3>2. CASE c # h
      BY <1>3, <1>5, <1>6, <3>2 DEF Working, HeldOK
    <3> QED
      BY <3>1, <3>2
  <2>3. round # "none" => \E k \in Asks : Claimed(<<k, "tool">>)
    BY DEF Working, HeldOK
  <2> QED
    BY <1>3, <1>4, <2>1, <2>2, <2>3 DEF HeldOK, Claimed
<1>12. FrontierOK'
  <2>1. ASSUME NEW c \in Call, NEW d \in Call, Before(d, c)
        PROVE  /\ memory'[d] = "none" => Untried(c)'
               /\ ahead'.memory[d] = "none" => ahead'.memory[c] = "none" /\ Unused(c, ahead'.ops[c])
    <3>1. CASE c = h
      <4>1. ahead.memory[d] # "none" /\ (round = "none" => memory[d] # "none")
        BY <2>1, <3>1, EarlierDone
      <4>2. memory[d] = "none" => Untried(c)
        BY <2>1 DEF Working, FrontierOK
      <4> QED
        BY <1>3, <1>4, <1>5, <1>6, <3>1, <4>1, <4>2 DEF Untried, Unused
    <3>2. CASE c # h
      BY <1>3, <1>5, <1>6, <2>1, <3>2 DEF Working, FrontierOK, Untried, Unused
    <3> QED
      BY <3>1, <3>2
  <2> QED
    BY <2>1 DEF FrontierOK, Before, Place, Unused
<1>13. CountsOK'
  <2>1. ops'[h].starts \in Nat /\ ops'[h].starts >= ops[h].starts
    BY <1>4, <1>6, <1>7
  <2>2. opened[<<h, "rerun">>] \in Nat /\ opened[<<h, "authz">>] \in Nat
    BY DEF TypeOK, Question, Stage
  <2>3. /\ opened[<<h, "rerun">>] <= ops[h].starts
        /\ opened[<<h, "authz">>] <= 1 + ops[h].starts
    BY DEF AskedOnce
  <2>4. ops'[h].starts > ops[h].starts \/ ops'[h].starts = ops[h].starts
    BY <1>7, <2>1
  <2>5. ASSUME NEW c \in Call
        PROVE  /\ c \notin Idempotent /\ ops'[c].starts = 0 => ran[c] = 0
               /\ memory[c] = "none" =>
                    /\ desk[<<c, "tool">>].at = "none" => opened[<<c, "tool">>] = 0
                    /\ asks[<<c, "authz">>] = "none" => opened[<<c, "authz">>] <= ops'[c].starts
                    /\ asks[<<c, "rerun">>] = "none" /\ ops'[c].starts > 0 =>
                         opened[<<c, "rerun">>] < ops'[c].starts
               /\ c \notin Idempotent \cup Truncated /\ asks[<<c, "rerun">>] # "none" =>
                    ran[c] <= opened[<<c, "rerun">>]
    <3>1. CASE c # h
      BY <1>6, <3>1 DEF Working, CountsOK
    <3>2. CASE c = h /\ ops'[h].starts = ops[h].starts
      BY <3>2 DEF Working, CountsOK
    <3>3. CASE c = h /\ ops'[h].starts > ops[h].starts
      <4>1. /\ opened[<<h, "rerun">>] < ops'[h].starts /\ opened[<<h, "authz">>] <= ops'[h].starts
            /\ ops'[h].starts # 0
        BY <1>7, <2>1, <2>2, <2>3, <3>3
      <4> QED
        BY <3>3, <4>1 DEF Working, CountsOK
    <3> QED
      BY <2>4, <3>1, <3>2, <3>3
  <2> QED
    BY <1>3, <2>5 DEF CountsOK
<1>14. LoggedOK'
  <2>1. ASSUME NEW c \in Call
        PROVE  /\ c \in Asks /\ ops'[c].result # "none" /\ memory'[c] = "none" =>
                    asks'[<<c, "tool">>] \in {"yes", "no"}
               /\ ahead'.memory[c] # memory'[c]
                    /\ ahead'.memory[c] \notin {"refused", "interrupted", "cancelled"} =>
                    /\ ahead'.ops[c].result = ahead'.memory[c]
                    /\ c \in Asks => Claimed(<<c, "tool">>)
                         /\ desk'[<<c, "tool">>].said = ahead'.memory[c]
    <3>1. CASE c = h
      <4>1. pc = "enter" => ops'[h].result = ops[h].result
        BY <1>4, <1>6, <1>7
      <4>2. h \in Asks /\ ops[h].result # "none" =>
              asks[<<h, "tool">>] \in {"yes", "no"}
        BY <1>1 DEF Working, LoggedOK
      <4>4. Claimed(<<h, "tool">>) => round # "none"
        <5>1. DeskAt(h, "tool")
          BY DEF Working, DeskOK, Stage
        <5> QED
          BY <5>1 DEF DeskAt, Claimed
      <4>5. h \in Asks /\ ops'[h].result # "none" => asks[<<h, "tool">>] \in {"yes", "no"}
        <5>1. CASE round = "open"
          BY <1>6, <4>2, <5>1
        <5>2. CASE round = "none"
          BY <1>9, <4>1, <4>2, <4>4, <5>2
        <5> QED
          BY <1>4, <5>1, <5>2
      <4>3. ahead'.memory[h] = memory'[h]
        BY <1>1, <1>3, <1>5
      <4> QED
        BY <1>3, <3>1, <4>3, <4>5
    <3>2. CASE c # h
      BY <1>3, <1>5, <1>6, <3>2 DEF Working, LoggedOK
    <3> QED
      BY <3>1, <3>2
  <2> QED
    BY <1>3, <2>1 DEF LoggedOK, Claimed
<1> QED
  BY <1>5, <1>6, <1>8, <1>11, <1>12, <1>13, <1>14

\* What the log says of a call is of its type.
LEMMA FactsType ==
  ASSUME NEW f \in Facts, NEW r \in Result
  PROVE  AfterInvoked(f) \in Facts /\ AfterFinished(f, r) \in Facts
BY DEF AfterInvoked, AfterFinished, Facts

\* The invocation is announced.
LEMMA InvokeStep ==
  ASSUME TypeOK, Working, AskedOnce, Invoke
  PROVE  Working'
<1>1. PICK h \in Call : h = Here /\ h \in todo
  BY HereFacts DEF Invoke, At, Working, TodoOK
<1>2. /\ pc = "enter" /\ pc' = "spent" /\ round # "committing"
      /\ h \in Asks \/ round = "none"
      /\ Emit(h, AfterInvoked(ahead.ops[h]))
      /\ UNCHANGED <<asks, memory, round, desk, unsure, history, mode, todo, stage, result>>
  BY <1>1 DEF Invoke, At, Goto
<1>3. Here' = h
  BY <1>1, <1>2 DEF Here
<1>4. PICK o \in Facts : o = AfterInvoked(ahead.ops[h])
  BY FactsType DEF TypeOK
<1>5. /\ DeskOK' /\ HeldOK' /\ FrontierOK' /\ CountsOK' /\ LoggedOK'
      /\ ahead'.memory = ahead.memory /\ ahead'.ops = [ahead.ops EXCEPT ![h] = o]
      /\ \A c \in Call : c # h => ops'[c] = ops[c]
  BY <1>1, <1>2, <1>4, EmitStep
<1>6. /\ ahead.ops[h].starts \in Nat /\ ahead'.ops[h].starts = ahead.ops[h].starts + 1
      /\ ahead'.ops[h].result = ahead.ops[h].result
      /\ round = "none" => ops'[h] = ahead'.ops[h] /\ ahead.ops[h] = ops[h]
      /\ ops[h].starts \in Nat
  <2>1. ahead.ops \in [Call -> Facts] /\ ops \in [Call -> Facts]
    BY DEF TypeOK
  <2>2. ahead'.ops[h] = o
    BY <1>5, <2>1
  <2>3. round = "none" => ops'[h] = o
    BY <1>2, <1>4, <2>1 DEF Emit, HeldBack
  <2>4. round = "none" => ahead.ops = ops
    BY DEF Working, HeldOK, Snapshot
  <2> QED
    BY <1>4, <2>1, <2>2, <2>3, <2>4 DEF AfterInvoked, Facts
<1>7. RoundOK'
  BY <1>2 DEF RoundOK
<1>8. TodoOK'
  BY <1>1, <1>2, <1>3, <1>5 DEF Working, TodoOK
<1>9. OpenOK'
  BY <1>2 DEF Working, OpenOK
<1>10. ClosedOK'
  BY <1>1, <1>2 DEF Working, ClosedOK
<1>11. CurrentOK'
  <2>1. h \notin Asks => round = "none"
    BY <1>2
  <2>2. h \notin Idempotent =>
          /\ ops'[h].starts > 0
          /\ ran[h] = 0 \/ desk[<<h, "rerun">>].said = "yes"
               \/ (Trusted(h) /\ ops'[h].result # "none")
          /\ h \in Truncated \/ ran[h] <= opened[<<h, "rerun">>]
    <3>1. SUFFICES ASSUME h \notin Idempotent
                   PROVE  /\ ops'[h].starts > 0
                          /\ ran[h] = 0 \/ desk[<<h, "rerun">>].said = "yes"
                               \/ (Trusted(h) /\ ops'[h].result # "none")
                          /\ h \in Truncated \/ ran[h] <= opened[<<h, "rerun">>]
      OBVIOUS
    <3>2. round = "none"
      BY <2>1, <3>1, Sets
    <3>3. \/ ran[h] = 0 \/ Trusted(h)
          \/ asks[<<h, "rerun">>] = "yes" /\ desk[<<h, "rerun">>].said = "yes"
      BY <1>1, <1>2, <3>1 DEF Working, CurrentOK, CountsOK
    <3>4. opened[<<h, "rerun">>] \in Nat
      BY DEF TypeOK, Question, Stage
    <3>5. h \in Truncated \/ ran[h] <= opened[<<h, "rerun">>]
      <4>1. h \notin Truncated /\ asks[<<h, "rerun">>] = "yes" => ran[h] <= opened[<<h, "rerun">>]
        BY <3>1 DEF Working, CountsOK
      <4> QED
        BY <3>3, <3>4, <4>1 DEF Trusted
    <3> QED
      BY <1>6, <3>2, <3>3, <3>5 DEF Trusted
  <2>3. /\ opened[<<h, "authz">>] <= ahead'.ops[h].starts
        /\ opened[<<h, "rerun">>] < ahead'.ops[h].starts
    <3>1. /\ opened[<<h, "rerun">>] <= ops[h].starts
          /\ opened[<<h, "authz">>] <= 1 + ops[h].starts
          /\ opened[<<h, "rerun">>] \in Nat /\ opened[<<h, "authz">>] \in Nat
      BY DEF AskedOnce, TypeOK, Question, Stage
    <3>2. ahead.ops[h].starts >= ops[h].starts
      BY DEF Working, HeldOK
    <3> QED
      BY <1>6, <3>1, <3>2
  <2> QED
    BY <1>2, <1>3, <2>1, <2>2, <2>3 DEF CurrentOK, Trusted, Asking, history
<1> QED
  BY <1>5, <1>7, <1>8, <1>9, <1>10, <1>11 DEF Working

\* What the call has come to is announced.
LEMMA FinishStep ==
  ASSUME TypeOK, Working, AskedOnce, Finish
  PROVE  Working'
<1>1. PICK h \in Call : h = Here /\ h \in todo
  BY HereFacts DEF Finish, At, Working, TodoOK
<1>2. /\ pc = "finish" /\ pc' = "record" /\ round # "committing"
      /\ Emit(h, AfterFinished(ahead.ops[h], result))
      /\ UNCHANGED <<asks, memory, round, desk, unsure, history, mode, todo, stage, result>>
  BY <1>1 DEF Finish, At, Goto
<1>3. Here' = h
  BY <1>1, <1>2 DEF Here
<1>4. PICK o \in Facts : o = AfterFinished(ahead.ops[h], result)
  BY FactsType DEF TypeOK
<1>5. /\ DeskOK' /\ HeldOK' /\ FrontierOK' /\ CountsOK' /\ LoggedOK'
      /\ ahead'.memory = ahead.memory /\ ahead'.ops = [ahead.ops EXCEPT ![h] = o]
      /\ \A c \in Call : c # h => ops'[c] = ops[c]
  BY <1>1, <1>2, <1>4, EmitStep
<1>6. ahead'.ops[h].result = result
  <2>1. ahead.ops \in [Call -> Facts]
    BY DEF TypeOK
  <2>2. ahead'.ops[h] = o
    BY <1>5, <2>1
  <2> QED
    BY <1>4, <2>1, <2>2 DEF AfterFinished, Facts
<1>7. RoundOK'
  BY <1>2 DEF RoundOK
<1>8. TodoOK'
  BY <1>1, <1>2, <1>3, <1>5 DEF Working, TodoOK
<1>9. OpenOK'
  BY <1>2 DEF Working, OpenOK
<1>10. ClosedOK'
  BY <1>1, <1>2, <1>3 DEF Working, ClosedOK
<1>11. CurrentOK'
  BY <1>1, <1>2, <1>3, <1>6 DEF Working, CurrentOK, Asking, history
<1> QED
  BY <1>5, <1>7, <1>8, <1>9, <1>10, <1>11 DEF Working

\* The provider runs the call.
LEMMA ExecuteStep ==
  ASSUME TypeOK, Working, Execute
  PROVE  Working'
<1>1. PICK h \in Call : h = Here /\ h \in todo
  BY HereFacts DEF Execute, At, Working, TodoOK
<1>2. /\ pc = "run" /\ pc' = "finish" /\ round # "committing" /\ h \notin Asks
      /\ ran' = [ran EXCEPT ![h] = @ + 1] /\ result' = "real"
      /\ UNCHANGED <<log, memory, round, ahead, desk, unsure, opened, mode, todo, stage>>
  BY <1>1 DEF Execute, At, ComeTo
<1>3. Here' = h
  BY <1>1, <1>2 DEF Here
<1>4. round = "none" /\ memory[h] = "none"
  BY <1>1, <1>2 DEF Working, CurrentOK, TodoOK, HeldOK
<1>5. /\ ops' = ops /\ asks' = asks /\ memory' = memory /\ round' = round /\ desk' = desk
      /\ unsure' = unsure /\ opened' = opened /\ ahead' = ahead
      /\ \A c \in Call : c # h => ran'[c] = ran[c]
      /\ ran'[h] = ran[h] + 1 /\ ran[h] \in Nat
  BY <1>2 DEF log, TypeOK
<1>6. DeskOK'
  <2>1. ASSUME NEW c \in Call, NEW s \in Stage PROVE DeskAt(c, s)'
    <3>1. DeskAt(c, s)
      BY DEF Working, DeskOK
    <3> QED
      BY <1>5, <3>1 DEF DeskAt, Askable
  <2> QED
    BY <2>1 DEF DeskOK
<1>7. HeldOK'
  BY <1>5 DEF Working, HeldOK, Snapshot, Claimed
<1>8. FrontierOK'
  <2>1. \A d \in Call : Before(d, h) => memory[d] # "none"
    BY <1>1, <1>2, <1>4, EarlierDone
  <2> QED
    BY <1>5, <2>1 DEF Working, FrontierOK, Untried, Before, Place
<1>9. CountsOK'
  <2>1. h \in Idempotent \/ ops[h].starts > 0
    BY <1>1, <1>2 DEF Working, CurrentOK
  <2>2. asks[<<h, "rerun">>] = "none"
    BY <1>1, <1>2 DEF Working, CurrentOK
  <2>3. ASSUME NEW c \in Call
        PROVE  /\ c \notin Idempotent /\ ops[c].starts = 0 => ran'[c] = 0
               /\ c \notin Idempotent \cup Truncated /\ asks[<<c, "rerun">>] # "none" =>
                    ran'[c] <= opened[<<c, "rerun">>]
    <3>1. CASE c = h
      BY <2>1, <2>2, <3>1
    <3>2. CASE c # h
      BY <1>5, <3>2 DEF Working, CountsOK
    <3> QED
      BY <3>1, <3>2
  <2> QED
    BY <1>5, <2>3 DEF Working, CountsOK
<1>10. LoggedOK'
  BY <1>5 DEF Working, LoggedOK, Claimed
<1>11. RoundOK'
  BY <1>2 DEF RoundOK
<1>12. TodoOK'
  BY <1>1, <1>2, <1>3, <1>5 DEF Working, TodoOK
<1>13. OpenOK'
  BY <1>2 DEF Working, OpenOK
<1>14. ClosedOK'
  BY <1>1, <1>2, <1>3, <1>5 DEF Working, ClosedOK
<1>15. CurrentOK'
  BY <1>1, <1>2, <1>3, <1>5 DEF Working, CurrentOK, Asking
<1> QED
  BY <1>6, <1>7, <1>8, <1>9, <1>10, <1>11, <1>12, <1>13, <1>14, <1>15 DEF Working
-------------------------------------------------------------------------------
(***************************************************************************)
(* Steps that close, ask and answer questions                              *)
(***************************************************************************)
\* The approval and the verdict are spent, before the provider runs.
LEMMA SpendStep ==
  ASSUME TypeOK, Working, Spend
  PROVE  Working'
<1>1. PICK h \in Call : h = Here /\ h \in todo
  BY HereFacts DEF Spend, At, Working, TodoOK
<1>2. /\ pc = "spent" /\ pc' = "run" /\ round # "committing"
      /\ asks' = [q \in Question |->
                    IF q[1] = h /\ q[2] \in SpentHere /\ desk[q].at = "final"
                      THEN "none" ELSE asks[q]]
      /\ UNCHANGED <<ops, memory, round, ahead, desk, unsure, history, mode, todo, stage, result>>
  BY <1>1 DEF Spend, At, Goto, CloseAt
<1>3. Here' = h
  BY <1>1, <1>2 DEF Here
<1>4. memory[h] = "none"
  BY <1>1, <1>2 DEF Working, TodoOK, HeldOK
<1>5. /\ ops' = ops /\ memory' = memory /\ round' = round /\ desk' = desk
      /\ unsure' = unsure /\ opened' = opened /\ ahead' = ahead /\ ran' = ran
  BY <1>2 DEF history
<1>6. \A c \in Call, s \in Stage :
        \/ asks'[<<c, s>>] = asks[<<c, s>>]
        \/ c = h /\ s \in {"authz", "rerun"} /\ desk[<<c, s>>].at = "final"
             /\ asks'[<<c, s>>] = "none"
  BY <1>2 DEF Question, SpentHere
<1>7. asks'[<<h, "rerun">>] = "none"
  <2>1. DeskAt(h, "rerun") /\ desk[<<h, "rerun">>].at # "open"
    BY <1>2 DEF Working, DeskOK, OpenOK, Stage
  <2>2. desk[<<h, "rerun">>].at \in {"none", "open", "claimed", "final"}
    BY DEF TypeOK, Question, Stage
  <2>3. desk[<<h, "rerun">>].at = "final" => asks'[<<h, "rerun">>] = "none"
    BY <1>2 DEF Question, Stage, SpentHere
  <2>4. desk[<<h, "rerun">>].at = "none" => asks'[<<h, "rerun">>] = "none"
    BY <1>6, <2>1 DEF DeskAt, Stage
  <2> QED
    BY <2>1, <2>2, <2>3, <2>4 DEF DeskAt
<1>8. DeskOK'
  <2>1. ASSUME NEW c \in Call, NEW s \in Stage PROVE DeskAt(c, s)'
    <3>1. DeskAt(c, s)
      BY DEF Working, DeskOK
    <3> QED
      BY <1>5, <1>6, <3>1 DEF DeskAt, Askable
  <2> QED
    BY <2>1 DEF DeskOK
<1>9. HeldOK' /\ FrontierOK'
  <2>1. HeldOK'
    BY <1>5 DEF Working, HeldOK, Snapshot, Claimed
  <2>2. FrontierOK'
    BY <1>5 DEF Working, FrontierOK, Untried
  <2> QED
    BY <2>1, <2>2
<1>10. CountsOK'
  <2>1. h \in Asks \/ ahead.ops[h].starts = ops[h].starts
    BY DEF Working, HeldOK
  <2>2. h \in Asks => desk[<<h, "authz">>].at = "none" /\ desk[<<h, "rerun">>].at = "none"
    BY AsksOnly
  <2>3. h \notin Asks => /\ opened[<<h, "authz">>] <= ops[h].starts
                         /\ opened[<<h, "rerun">>] < ops[h].starts
    BY <1>1, <1>2, <2>1 DEF Working, CurrentOK
  <2>4. ASSUME NEW c \in Call, memory[c] = "none"
        PROVE  /\ asks'[<<c, "authz">>] = "none" => opened[<<c, "authz">>] <= ops[c].starts
               /\ asks'[<<c, "rerun">>] = "none" /\ ops[c].starts > 0 =>
                    opened[<<c, "rerun">>] < ops[c].starts
    BY <1>6, <2>2, <2>3, <2>4 DEF Working, CountsOK, Stage
  <2>5. ASSUME NEW c \in Call
        PROVE  c \notin Idempotent \cup Truncated /\ asks'[<<c, "rerun">>] # "none" =>
                 ran[c] <= opened[<<c, "rerun">>]
    BY <1>6 DEF Working, CountsOK, Stage
  <2> QED
    BY <1>5, <2>4, <2>5 DEF Working, CountsOK
<1>11. LoggedOK'
  BY <1>5, <1>6 DEF Working, LoggedOK, Claimed, Stage
<1>12. RoundOK'
  BY <1>2 DEF RoundOK
<1>13. TodoOK'
  BY <1>1, <1>2, <1>3, <1>5 DEF Working, TodoOK
<1>14. OpenOK'
  BY <1>2 DEF Working, OpenOK
<1>15. ClosedOK'
  BY <1>1, <1>2, <1>3, <1>5, <1>6 DEF Working, ClosedOK
<1>16. CurrentOK'
  BY <1>1, <1>2, <1>3, <1>5, <1>7 DEF Working, CurrentOK, Asking, Trusted
<1> QED
  BY <1>8, <1>9, <1>10, <1>11, <1>12, <1>13, <1>14, <1>15, <1>16 DEF Working

\* The call is done with, and so are its questions.
LEMMA CloseStep ==
  ASSUME TypeOK, Working, Close
  PROVE  Working'
<1>1. PICK h \in Call : h = Here /\ h \in todo
  BY HereFacts DEF Close, At, Working, TodoOK
<1>2. /\ pc = "close" /\ pc' = "call" /\ round # "committing" /\ todo' = todo \ {h}
      /\ asks' = [q \in Question |->
                    IF q[1] = h /\ q[2] \in Stage /\ desk[q].at = "final" THEN "none" ELSE asks[q]]
      /\ UNCHANGED <<ops, memory, round, ahead, desk, unsure, history, mode, stage, result>>
  BY <1>1 DEF Close, At, CloseAt
<1>3. memory[h] = "none" => \A s \in Stage : desk[<<h, s>>].at # "final"
  <2>1. SUFFICES ASSUME memory[h] = "none", NEW s \in Stage, desk[<<h, s>>].at = "final" PROVE FALSE
    OBVIOUS
  <2>2. round # "none"
    BY <1>1, <1>2, <2>1 DEF Working, TodoOK, HeldOK, Snapshot
  <2>3. ~Untried(h)
    BY <2>1 DEF Untried
  <2>4. h \in Asks /\ desk[<<h, "tool">>].at = "claimed"
    BY <2>1, <2>2, <2>3, RoundOwner DEF Claimed
  <2> QED
    BY <2>1, <2>4, AsksOnly DEF Stage
<1>5. /\ ops' = ops /\ memory' = memory /\ round' = round /\ desk' = desk
      /\ unsure' = unsure /\ opened' = opened /\ ahead' = ahead /\ ran' = ran
  BY <1>2 DEF history
<1>6. \A c \in Call, s \in Stage :
        \/ asks'[<<c, s>>] = asks[<<c, s>>]
        \/ c = h /\ memory[h] # "none" /\ desk[<<c, s>>].at = "final" /\ asks'[<<c, s>>] = "none"
  BY <1>2, <1>3 DEF Question
<1>7. \A c \in Call, s \in Stage : memory[c] = "none" => asks'[<<c, s>>] = asks[<<c, s>>]
  BY <1>6
<1>8. DeskOK'
  <2>1. ASSUME NEW c \in Call, NEW s \in Stage PROVE DeskAt(c, s)'
    <3>1. DeskAt(c, s)
      BY DEF Working, DeskOK
    <3> QED
      BY <1>5, <1>6, <3>1 DEF DeskAt, Askable
  <2> QED
    BY <2>1 DEF DeskOK
<1>9. HeldOK' /\ FrontierOK'
  <2>1. HeldOK'
    BY <1>5 DEF Working, HeldOK, Snapshot, Claimed
  <2>2. FrontierOK'
    BY <1>5 DEF Working, FrontierOK, Untried
  <2> QED
    BY <2>1, <2>2
<1>10. CountsOK'
  <2>1. ASSUME NEW c \in Call
        PROVE  c \notin Idempotent \cup Truncated /\ asks'[<<c, "rerun">>] # "none" =>
                 ran[c] <= opened[<<c, "rerun">>]
    BY <1>6 DEF Working, CountsOK, Stage
  <2>2. \A c \in Call : memory[c] = "none" => /\ asks'[<<c, "authz">>] = asks[<<c, "authz">>]
                                               /\ asks'[<<c, "rerun">>] = asks[<<c, "rerun">>]
    BY <1>7 DEF Stage
  <2> QED
    BY <1>5, <2>1, <2>2 DEF Working, CountsOK
<1>11. LoggedOK'
  BY <1>5, <1>7 DEF Working, LoggedOK, Claimed, Stage
<1>12. RoundOK' /\ CurrentOK'
  BY <1>2 DEF RoundOK, CurrentOK, Asking
<1>13. TodoOK'
  BY <1>1, <1>2, <1>5 DEF Working, TodoOK
<1>14. OpenOK'
  BY <1>2 DEF Working, OpenOK
<1>15. ClosedOK'
  BY <1>2, <1>5, <1>7 DEF Working, ClosedOK
<1> QED
  BY <1>8, <1>9, <1>10, <1>11, <1>12, <1>13, <1>14, <1>15 DEF Working

\* A question is asked.
LEMMA OpenQuestionStep ==
  ASSUME TypeOK, Working, VerdictIsSpent, OpenQuestion
  PROVE  Working'
<1>1. PICK h \in Call : h = Here /\ h \in todo
  BY HereFacts DEF OpenQuestion, At, Working, TodoOK
<1>2. PICK z \in Stage : z = stage
  BY DEF TypeOK
<1>3. /\ pc = "open" /\ pc' = "attach" /\ round = "none"
      /\ asks' = [asks EXCEPT ![<<h, z>>] = "open"]
      /\ desk' = [desk EXCEPT ![<<h, z>>] = Shown]
      /\ opened' = [opened EXCEPT ![<<h, z>>] = @ + 1]
      /\ UNCHANGED <<ops, memory, round, ahead, unsure, ran, mode, todo, stage, result>>
  BY <1>1, <1>2 DEF OpenQuestion, At, Goto
<1>4. Here' = h
  BY <1>1, <1>3 DEF Here
<1>5. /\ desk[<<h, z>>].at = "none" /\ <<h, z>> \in Askable /\ asks[<<h, z>>] = "none"
      /\ memory[h] = "none" /\ ahead = Snapshot /\ unsure[<<h, z>>] = "none"
      /\ \A c \in Call, s \in Stage : desk[<<c, s>>].at # "open"
  <2>1. DeskAt(h, z)
    BY DEF Working, DeskOK
  <2> QED
    BY <1>1, <1>2, <1>3, <2>1 DEF Working, OpenOK, DeskAt, HeldOK, TodoOK
<1>6. \A c \in Call, s \in Stage : ~(c = h /\ s = z) =>
        /\ asks'[<<c, s>>] = asks[<<c, s>>] /\ desk'[<<c, s>>] = desk[<<c, s>>]
        /\ opened'[<<c, s>>] = opened[<<c, s>>]
  BY <1>3 DEF TypeOK, Question
<1>7. /\ asks'[<<h, z>>] = "open" /\ desk'[<<h, z>>].at = "open" /\ desk'[<<h, z>>].said = "none"
      /\ opened'[<<h, z>>] = opened[<<h, z>>] + 1 /\ opened[<<h, z>>] \in Nat
  BY <1>3 DEF TypeOK, Question, Shown
<1>8. DeskOK'
  <2>1. ASSUME NEW c \in Call, NEW s \in Stage PROVE DeskAt(c, s)'
    <3>1. DeskAt(c, s)
      BY DEF Working, DeskOK
    <3>2. CASE c = h /\ s = z
      BY <1>3, <1>5, <1>7, <3>1, <3>2 DEF DeskAt, Askable
    <3>3. CASE ~(c = h /\ s = z)
      BY <1>3, <1>6, <3>1, <3>3 DEF DeskAt, Askable
    <3> QED
      BY <3>2, <3>3
  <2> QED
    BY <2>1 DEF DeskOK
<1>9. HeldOK'
  <2>1. \A c \in Call : Claimed(<<c, "tool">>)' <=> Claimed(<<c, "tool">>)
    BY <1>5, <1>6, <1>7 DEF Claimed, Stage
  <2>2. Snapshot' = Snapshot /\ memory' = memory /\ ops' = ops /\ ahead' = ahead /\ round' = round
    BY <1>3 DEF Snapshot
  <2> QED
    BY <1>3, <1>5, <2>1, <2>2 DEF Working, HeldOK
<1>10. FrontierOK'
  <2>1. \A d \in Call : Before(d, h) => memory[d] # "none"
    BY <1>1, <1>3, EarlierDone
  <2>2. \A c \in Call : c # h => (Untried(c) => Untried(c)')
    BY <1>3, <1>6 DEF Untried
  <2> QED
    BY <1>3, <2>1, <2>2 DEF Working, FrontierOK, Before, Place
<1>11. CountsOK'
  <2>1. z = "rerun" => /\ ops[h].starts > 0 /\ h \notin Idempotent
                       /\ h \notin Truncated => ran[h] <= 1 + opened[<<h, "rerun">>]
    BY <1>1, <1>2, <1>3 DEF Working, CurrentOK, Asking, VerdictIsSpent
  <2>2. ASSUME NEW c \in Call
        PROVE  /\ desk'[<<c, "tool">>].at = "none" => opened'[<<c, "tool">>] = opened[<<c, "tool">>]
                                                     /\ desk[<<c, "tool">>].at = "none"
               /\ asks'[<<c, "authz">>] = "none" => opened'[<<c, "authz">>] = opened[<<c, "authz">>]
                                                    /\ asks[<<c, "authz">>] = "none"
               /\ asks'[<<c, "rerun">>] = "none" => opened'[<<c, "rerun">>] = opened[<<c, "rerun">>]
                                                    /\ asks[<<c, "rerun">>] = "none"
    BY <1>6, <1>7 DEF Stage
  <2>3. ASSUME NEW c \in Call, c \notin Idempotent \cup Truncated, asks'[<<c, "rerun">>] # "none"
        PROVE  ran[c] <= opened'[<<c, "rerun">>]
    <3>1. CASE c = h /\ z = "rerun"
      BY <1>7, <2>1, <2>3, <3>1
    <3>2. CASE ~(c = h /\ z = "rerun")
      BY <1>6, <2>3, <3>2 DEF Working, CountsOK, Stage
    <3> QED
      BY <3>1, <3>2
  <2>4. ops' = ops /\ memory' = memory /\ ran' = ran
    BY <1>3
  <2> QED
    BY <2>2, <2>3, <2>4 DEF Working, CountsOK
<1>12. LoggedOK'
  <2>1. /\ ops' = ops /\ memory' = memory /\ ahead' = ahead
        /\ \A c \in Call : ahead.memory[c] = memory[c]
    BY <1>3, <1>5 DEF Snapshot
  <2>2. ASSUME NEW c \in Call, c \in Asks, ops[c].result # "none", memory[c] = "none"
        PROVE  asks'[<<c, "tool">>] \in {"yes", "no"}
    <3>1. asks[<<c, "tool">>] \in {"yes", "no"} \/ Claimed(<<c, "tool">>)
      BY <2>2 DEF Working, LoggedOK
    <3>2. DeskAt(c, "tool") /\ DeskAt(h, z)
      BY DEF Working, DeskOK, Stage
    <3>3. asks[<<c, "tool">>] \in {"yes", "no"}
      BY <1>3, <3>1, <3>2 DEF DeskAt, Claimed
    <3> QED
      BY <1>5, <1>6, <3>3 DEF Stage
  <2> QED
    BY <2>1, <2>2 DEF LoggedOK
<1>13. RoundOK'
  BY <1>3, <1>5 DEF RoundOK, Snapshot
<1>14. TodoOK'
  BY <1>1, <1>3, <1>4 DEF Working, TodoOK
<1>15. OpenOK'
  BY <1>2, <1>3, <1>4, <1>5, <1>6, <1>7 DEF OpenOK
<1>16. ClosedOK'
  BY <1>1, <1>3, <1>4, <1>6, <1>7 DEF Working, ClosedOK
<1>17. CurrentOK'
  <2>1. z # "rerun" => /\ asks'[<<h, "rerun">>] = asks[<<h, "rerun">>]
                       /\ desk'[<<h, "rerun">>] = desk[<<h, "rerun">>]
    BY <1>6 DEF Stage
  <2> QED
    BY <1>1, <1>2, <1>3, <1>4, <2>1 DEF Working, CurrentOK, Asking, Trusted
<1> QED
  BY <1>8, <1>9, <1>10, <1>11, <1>12, <1>13, <1>14, <1>15, <1>16, <1>17 DEF Working

\* A verdict may have been written, and nobody knows.
LEMMA UnconfirmedStep ==
  ASSUME TypeOK, Working, NEW q \in Question, NEW v \in {"yes", "no"}, NEW written \in BOOLEAN,
         DecideUnconfirmed(q, v, written)
  PROVE  Working'
<1>1. PICK d \in Call, z \in Stage : q = <<d, z>>
  BY DEF Question
<1>2. PICK w \in {"yes", "no"} : w = Verdict(q, v)
  BY DEF Verdict, TypeOK, Said
<1>3. /\ z # "tool" /\ desk[<<d, z>>].at = "open"
      /\ unsure' = [unsure EXCEPT ![<<d, z>>] = w]
      /\ asks' = IF written /\ asks[<<d, z>>] = "open" THEN [asks EXCEPT ![<<d, z>>] = w] ELSE asks
      /\ UNCHANGED <<ops, memory, round, ahead, desk, ran, opened, pc, mode, todo, stage, result>>
  BY <1>1, <1>2 DEF DecideUnconfirmed, run, history
<1>4. unsure[<<d, z>>] # "none" => w = unsure[<<d, z>>]
  BY <1>1, <1>2 DEF Verdict
<1>5. DeskAt(d, z)
  BY DEF Working, DeskOK
<1>6. \A c \in Call, s \in Stage : ~(c = d /\ s = z) =>
        asks'[<<c, s>>] = asks[<<c, s>>] /\ unsure'[<<c, s>>] = unsure[<<c, s>>]
  BY <1>3 DEF TypeOK, Question
<1>7. /\ unsure'[<<d, z>>] = w /\ asks'[<<d, z>>] \in {w, "open"}
      /\ asks[<<d, z>>] # "none"
  <2>1. asks[<<d, z>>] \in {w, "open"} /\ asks[<<d, z>>] # "none"
    BY <1>3, <1>4, <1>5 DEF DeskAt
  <2> QED
    BY <1>3, <2>1 DEF TypeOK, Question
<1>8. /\ ops' = ops /\ memory' = memory /\ round' = round /\ desk' = desk
      /\ opened' = opened /\ ahead' = ahead /\ ran' = ran
  BY <1>3
<1>9. Here' = Here
  BY <1>3 DEF Here
<1>10. DeskOK'
  <2>1. ASSUME NEW c \in Call, NEW s \in Stage PROVE DeskAt(c, s)'
    <3>1. DeskAt(c, s)
      BY DEF Working, DeskOK
    <3>2. CASE c = d /\ s = z
      BY <1>3, <1>7, <1>8, <3>1, <3>2 DEF DeskAt, Askable
    <3>3. CASE ~(c = d /\ s = z)
      BY <1>6, <1>8, <3>1, <3>3 DEF DeskAt, Askable
    <3> QED
      BY <3>2, <3>3
  <2> QED
    BY <2>1 DEF DeskOK
<1>11. HeldOK'
  BY <1>8 DEF Working, HeldOK, Snapshot, Claimed
<1>12. FrontierOK'
  BY <1>8 DEF Working, FrontierOK, Untried
<1>13. CountsOK'
  BY <1>6, <1>7, <1>8 DEF Working, CountsOK, Stage
<1>14. LoggedOK'
  <2>1. \A c \in Call : asks'[<<c, "tool">>] = asks[<<c, "tool">>]
    BY <1>3, <1>6 DEF Stage
  <2> QED
    BY <1>8, <2>1 DEF Working, LoggedOK, Claimed
<1>15. RoundOK'
  BY <1>3 DEF Working, RoundOK, Snapshot
<1>16. TodoOK'
  BY <1>3, <1>9 DEF Working, TodoOK
<1>17. OpenOK'
  BY <1>3, <1>9 DEF Working, OpenOK
<1>18. ClosedOK'
  BY <1>3, <1>6, <1>8, <1>9 DEF Working, ClosedOK
<1>19. CurrentOK'
  <2>1. pc \notin {"off", "attach", "wait"} => asks' = asks /\ FALSE
    BY <1>3 DEF Working, OpenOK
  <2>2. pc = "wait" \/ pc = "attach" => d = Here /\ z = stage
    BY <1>3 DEF Working, OpenOK
  <2>3. stage = "authz" /\ pc \in {"attach", "wait"} =>
      asks'[<<Here, "rerun">>] = asks[<<Here, "rerun">>]
    BY <1>6, <2>2, HereFacts DEF Working, TodoOK, Stage
  <2> QED
    BY <1>3, <1>8, <1>9, <2>1, <2>3 DEF Working, CurrentOK, Asking, Trusted
<1> QED
  BY <1>10, <1>11, <1>12, <1>13, <1>14, <1>15, <1>16, <1>17, <1>18, <1>19 DEF Working

\* A verdict is final, and the run that waits for it goes on.
LEMMA DecideStep ==
  ASSUME TypeOK, Working, NEW q \in Question, NEW v \in {"yes", "no"}, Decide(q, v)
  PROVE  Working'
<1>1. PICK d \in Call, z \in Stage : q = <<d, z>>
  BY DEF Question
<1>2. PICK w \in {"yes", "no"} : w = Verdict(q, v)
  BY DEF Verdict, TypeOK, Said
<1>3. /\ z # "tool" /\ desk[<<d, z>>].at = "open"
      /\ unsure' = [unsure EXCEPT ![<<d, z>>] = "none"]
      /\ asks' = [asks EXCEPT ![<<d, z>>] = IF asks[<<d, z>>] = "open" THEN w ELSE asks[<<d, z>>]]
      /\ desk' = [desk EXCEPT ![<<d, z>>] = [at |-> "final", said |-> w]]
      /\ UNCHANGED <<ops, memory, round, ahead, ran, opened>>
  BY <1>1, <1>2 DEF Decide, history
<1>4. unsure[<<d, z>>] # "none" => w = unsure[<<d, z>>]
  BY <1>1, <1>2 DEF Verdict
<1>5. DeskAt(d, z)
  BY DEF Working, DeskOK
<1>6. \A c \in Call, s \in Stage : ~(c = d /\ s = z) =>
        /\ asks'[<<c, s>>] = asks[<<c, s>>] /\ unsure'[<<c, s>>] = unsure[<<c, s>>]
        /\ desk'[<<c, s>>] = desk[<<c, s>>]
  BY <1>3 DEF TypeOK, Question
<1>7. /\ unsure'[<<d, z>>] = "none" /\ asks'[<<d, z>>] = w /\ asks[<<d, z>>] # "none"
      /\ desk'[<<d, z>>] = [at |-> "final", said |-> w]
  BY <1>3, <1>4, <1>5 DEF DeskAt, TypeOK, Question
<1>8. /\ ops' = ops /\ memory' = memory /\ round' = round
      /\ opened' = opened /\ ahead' = ahead /\ ran' = ran
  BY <1>3
<1>9. /\ mode' = mode /\ todo' = todo /\ stage' = stage /\ result' = result
      /\ pc \in {"off", "attach"} => pc' = pc
      /\ pc \in {"attach", "wait"} => d = Here /\ z = stage
      /\ pc = "wait" => \/ stage = "rerun" /\ pc' = "review"
                        \/ stage = "authz" /\ pc' = "authorize"
      /\ pc \in {"off", "attach", "wait"}
  <2>1. pc \in {"off", "attach", "wait"} /\ (pc \in {"attach", "wait"} => d = Here /\ z = stage)
    BY <1>3 DEF Working, OpenOK
  <2>2. Deliver(q)
    BY DEF Decide
  <2>3. CASE pc = "wait"
    <3>1. q = <<Here, stage>> /\ stage \in {"rerun", "authz"}
      BY <1>1, <1>3, <2>1, <2>3 DEF Stage
    <3>2. CASE stage = "rerun"
      <4>1. Goto("review")
        BY <2>2, <2>3, <3>1, <3>2 DEF Deliver
      <4> QED
        BY <2>1, <2>3, <3>2, <4>1 DEF Goto
    <3>3. CASE stage = "authz"
      <4>1. Goto("authorize")
        BY <2>2, <2>3, <3>1, <3>3 DEF Deliver
      <4> QED
        BY <2>1, <2>3, <3>3, <4>1 DEF Goto
    <3> QED
      BY <3>1, <3>2, <3>3
  <2>4. CASE pc # "wait"
    BY <2>1, <2>2, <2>4 DEF Deliver, run
  <2> QED
    BY <2>3, <2>4
<1>10. Here' = Here
  BY <1>9 DEF Here
<1>11. DeskOK'
  <2>1. ASSUME NEW c \in Call, NEW s \in Stage PROVE DeskAt(c, s)'
    <3>1. DeskAt(c, s)
      BY DEF Working, DeskOK
    <3>2. CASE c = d /\ s = z
      BY <1>3, <1>7, <1>8, <3>1, <3>2 DEF DeskAt, Askable
    <3>3. CASE ~(c = d /\ s = z)
      BY <1>6, <1>8, <3>1, <3>3 DEF DeskAt, Askable
    <3> QED
      BY <3>2, <3>3
  <2> QED
    BY <2>1 DEF DeskOK
<1>12. \A c \in Call : desk'[<<c, "tool">>] = desk[<<c, "tool">>]
                       /\ asks'[<<c, "tool">>] = asks[<<c, "tool">>]
  BY <1>3, <1>6 DEF Stage
<1>13. HeldOK'
  <2>1. \A c \in Call : Claimed(<<c, "tool">>)' <=> Claimed(<<c, "tool">>)
    BY <1>12 DEF Claimed
  <2>2. Snapshot' = Snapshot
    BY <1>8 DEF Snapshot
  <2> QED
    BY <1>8, <2>1, <2>2, Sets DEF Working, HeldOK
<1>14. FrontierOK'
  <2>1. \A c \in Call : Untried(c) => Untried(c)'
    BY <1>3, <1>6, <1>8 DEF Untried
  <2> QED
    BY <1>8, <2>1 DEF Working, FrontierOK, Before, Place
<1>15. CountsOK'
  <2>1. \A c \in Call, s \in Stage : asks'[<<c, s>>] = "none" <=> asks[<<c, s>>] = "none"
    BY <1>6, <1>7
  <2> QED
    BY <1>8, <1>12, <2>1 DEF Working, CountsOK, Stage
<1>16. LoggedOK'
  BY <1>8, <1>12 DEF Working, LoggedOK, Claimed
<1>17. RoundOK'
  BY <1>8, <1>9 DEF Working, RoundOK, Snapshot
<1>18. TodoOK'
  BY <1>8, <1>9, <1>10 DEF Working, TodoOK
<1>19. OpenOK'
  <2>1. ASSUME pc # "off", NEW c \in Call, NEW s \in Stage PROVE desk'[<<c, s>>].at # "open"
    <3>1. CASE c = d /\ s = z
      BY <1>7, <3>1
    <3>2. CASE ~(c = d /\ s = z)
      BY <1>6, <1>9, <2>1, <3>2 DEF Working, OpenOK
    <3> QED
      BY <3>1, <3>2
  <2> QED
    BY <1>9, <1>10, <2>1 DEF Working, OpenOK
<1>20. ClosedOK'
  BY <1>6, <1>7, <1>8, <1>9, <1>10 DEF Working, ClosedOK
<1>21. CurrentOK'
  <2>1. pc \in {"attach", "wait"} /\ stage = "authz" =>
          /\ asks'[<<Here, "rerun">>] = asks[<<Here, "rerun">>]
          /\ desk'[<<Here, "rerun">>] = desk[<<Here, "rerun">>]
    BY <1>6, <1>9, HereFacts DEF Working, TodoOK, Stage
  <2> QED
    BY <1>8, <1>9, <1>10, <2>1 DEF Working, CurrentOK, Asking, Trusted
<1> QED
  BY <1>11, <1>13, <1>14, <1>15, <1>16, <1>17, <1>18, <1>19, <1>20, <1>21 DEF Working

\* An answer is claimed by a round, and the run that waits for it goes on.
LEMMA AnswerStep ==
  ASSUME TypeOK, Working, NEW q \in Question, NEW v \in {"yes", "no"}, Answer(q, v)
  PROVE  Working'
<1>1. PICK d \in Call : q = <<d, "tool">>
  BY DEF Question, Answer
<1>2. /\ desk[<<d, "tool">>].at = "open" /\ round' = "open"
      /\ desk' = [desk EXCEPT ![<<d, "tool">>] = [at |-> "claimed", said |-> v]]
      /\ UNCHANGED <<ops, asks, memory, ahead, unsure, ran, opened>>
  BY <1>1 DEF Answer, history, log
<1>3. DeskAt(d, "tool")
  BY DEF Working, DeskOK, Stage
<1>4. /\ asks[<<d, "tool">>] = "open" /\ unsure[<<d, "tool">>] = "none" /\ memory[d] = "none"
      /\ d \in Asks /\ <<d, "tool">> \in Askable
  BY <1>2, <1>3 DEF DeskAt, Askable
<1>5. \A c \in Call, s \in Stage : ~(c = d /\ s = "tool") => desk'[<<c, s>>] = desk[<<c, s>>]
  BY <1>2 DEF TypeOK, Question
<1>6. desk'[<<d, "tool">>] = [at |-> "claimed", said |-> v]
  BY <1>2 DEF TypeOK, Question, Stage
<1>7. /\ ops' = ops /\ memory' = memory /\ asks' = asks /\ unsure' = unsure
      /\ opened' = opened /\ ahead' = ahead /\ ran' = ran
  BY <1>2
<1>8. /\ mode' = mode /\ todo' = todo /\ stage' = stage /\ result' = result
      /\ pc \in {"off", "attach"} => pc' = pc
      /\ pc \in {"attach", "wait"} => d = Here /\ stage = "tool"
      /\ pc = "wait" => pc' = "run"
      /\ pc \in {"off", "attach", "wait"}
  <2>1. pc \in {"off", "attach", "wait"}
      /\ (pc \in {"attach", "wait"} => d = Here /\ stage = "tool")
    BY <1>2 DEF Working, OpenOK, Stage
  <2>2. Deliver(q)
    BY DEF Answer
  <2>3. CASE pc = "wait"
    <3>1. q = <<Here, stage>>
      BY <1>1, <2>1, <2>3
    <3> QED
      BY <2>1, <2>2, <2>3, <3>1 DEF Deliver, Goto
  <2>4. CASE pc # "wait"
    BY <2>1, <2>2, <2>4 DEF Deliver, run
  <2> QED
    BY <2>3, <2>4
<1>9. Here' = Here
  BY <1>8 DEF Here
<1>10. ahead = Snapshot /\ round # "committing"
  BY <1>8 DEF Working, RoundOK
<1>11. DeskOK'
  <2>1. ASSUME NEW c \in Call, NEW s \in Stage PROVE DeskAt(c, s)'
    <3>1. DeskAt(c, s)
      BY DEF Working, DeskOK
    <3>2. CASE c = d /\ s = "tool"
      BY <1>2, <1>4, <1>6, <1>7, <3>1, <3>2 DEF DeskAt, Askable
    <3>3. CASE ~(c = d /\ s = "tool")
      BY <1>2, <1>5, <1>7, <1>10, <3>1, <3>3 DEF DeskAt, Askable
    <3> QED
      BY <3>2, <3>3
  <2> QED
    BY <2>1 DEF DeskOK
<1>12. \A c \in Call : /\ \/ desk'[<<c, "tool">>] = desk[<<c, "tool">>]
                          \/ desk'[<<c, "tool">>].at = "claimed"
                       /\ Claimed(<<c, "tool">>) => Claimed(<<c, "tool">>)'
  <2>1. ASSUME NEW c \in Call
        PROVE desk'[<<c, "tool">>] = desk[<<c, "tool">>] \/ desk'[<<c, "tool">>].at = "claimed"
    <3>1. CASE c = d
      BY <1>6, <3>1
    <3>2. CASE c # d
      BY <1>5, <3>2 DEF Stage
    <3> QED
      BY <3>1, <3>2
  <2> QED
    BY <2>1 DEF Claimed
<1>13. HeldOK'
  <2>1. Claimed(<<d, "tool">>)'
    BY <1>6 DEF Claimed
  <2>2. Snapshot' = Snapshot /\ round' = "open"
    BY <1>2, <1>7 DEF Snapshot
  <2> QED
    BY <1>4, <1>7, <1>10, <1>12, <2>1, <2>2 DEF Working, HeldOK
<1>14. FrontierOK'
  <2>1. \A c \in Call : Untried(c) => Untried(c)'
    BY <1>2, <1>5, <1>7 DEF Untried, Stage
  <2> QED
    BY <1>7, <2>1 DEF Working, FrontierOK, Before, Place
<1>15. CountsOK'
  <2>1. \A c \in Call : desk'[<<c, "tool">>].at = "none" => desk[<<c, "tool">>].at = "none"
    BY <1>12
  <2> QED
    BY <1>7, <2>1 DEF Working, CountsOK
<1>16. LoggedOK'
  <2>1. \A c \in Call : ahead.memory[c] = memory[c]
    BY <1>10 DEF Snapshot
  <2> QED
    BY <1>7, <1>12, <2>1 DEF Working, LoggedOK
<1>17. RoundOK'
  BY <1>2, <1>7, <1>8, <1>10 DEF RoundOK, Snapshot
<1>18. TodoOK'
  BY <1>7, <1>8, <1>9 DEF Working, TodoOK
<1>19. OpenOK'
  <2>1. ASSUME pc # "off", NEW c \in Call, NEW s \in Stage PROVE desk'[<<c, s>>].at # "open"
    <3>1. CASE c = d /\ s = "tool"
      BY <1>6, <3>1
    <3>2. CASE ~(c = d /\ s = "tool")
      BY <1>5, <1>8, <2>1, <3>2 DEF Working, OpenOK
    <3> QED
      BY <3>1, <3>2
  <2> QED
    BY <1>8, <1>9, <2>1 DEF Working, OpenOK
<1>20. ClosedOK'
  BY <1>5, <1>6, <1>7, <1>8, <1>9 DEF Working, ClosedOK
<1>21. CurrentOK'
  <2>1. pc = "wait" => asks[<<d, "rerun">>] = "none"
    <3>1. DeskAt(d, "rerun") /\ desk[<<d, "rerun">>].at = "none"
      BY <1>4, AsksOnly DEF Working, DeskOK, Stage
    <3> QED
      BY <3>1 DEF DeskAt
  <2> QED
    BY <1>4, <1>7, <1>8, <1>9, <2>1, ToolCallsAssumption DEF Working, CurrentOK, Asking, Trusted
<1> QED
  BY <1>11, <1>13, <1>14, <1>15, <1>16, <1>17, <1>18, <1>19, <1>20, <1>21 DEF Working
-------------------------------------------------------------------------------
(***************************************************************************)
(* Steps of the round, pauses and crashes                                  *)
(***************************************************************************)
\* When a round must be committed, the calls it answers have their result in it.
LEMMA AnsweredIsDone ==
  ASSUME TypeOK, Working, MustCommit, NEW k \in Call, Claimed(<<k, "tool">>)
  PROVE  ahead.memory[k] # "none"
<1>1. DeskAt(k, "tool") /\ memory[k] = "none" /\ k \in Asks /\ ~Untried(k)
  <2>1. DeskAt(k, "tool")
    BY DEF Working, DeskOK, Stage
  <2> QED
    BY <2>1 DEF DeskAt, Claimed, Askable, Untried, Stage
<1>2. SUFFICES ASSUME ahead.memory[k] = "none" PROVE FALSE
  OBVIOUS
<1>3. k \in todo /\ pc \in {"enter", "open", "call"}
  BY <1>2 DEF MustCommit, Working, TodoOK
<1>4. PICK h \in Call : h = Here /\ h \in todo /\ \A e \in todo : e # h => Before(h, e)
  BY <1>3, HereFacts
<1>5. memory[h] = "none"
  BY <1>3, <1>4 DEF Working, TodoOK, HeldOK
<1>6. k # h => FALSE
  BY <1>1, <1>3, <1>4, <1>5 DEF Working, FrontierOK
<1>7. ASSUME k = h PROVE FALSE
  <2>1. pc = "open"
    BY <1>1, <1>3, <1>4, <1>7 DEF MustCommit
  <2>2. desk[<<h, stage>>].at = "none" /\ <<h, stage>> \in Askable /\ h \in Asks
    BY <1>1, <1>4, <1>7, <2>1 DEF Working, OpenOK
  <2>3. stage = "tool"
    BY <2>2, Sets DEF Askable
  <2> QED
    BY <1>1, <1>7, <2>2, <2>3 DEF DeskAt, Claimed
<1> QED
  BY <1>6, <1>7

\* The events of the round are out, its answers resolved.
LEMMA CommitEventsStep ==
  ASSUME TypeOK, Working, CommitEvents
  PROVE  Working'
<1>1. /\ round = "open" /\ round' = "committing" /\ ops' = ahead.ops
      /\ asks' = [q \in Question |-> IF Claimed(q) THEN desk[q].said ELSE asks[q]]
      /\ UNCHANGED <<memory, ahead, desk, unsure, ran, opened, pc, mode, todo, stage, result>>
  BY DEF CommitEvents, run, history
<1>2. /\ memory' = memory /\ desk' = desk /\ unsure' = unsure /\ ran' = ran /\ opened' = opened
      /\ ahead' = ahead /\ Here' = Here
  BY <1>1 DEF Here
<1>3. pc \in {"enter", "open", "call"} /\ (pc = "enter" => Here \notin Asks)
  BY DEF CommitEvents, MustCommit
<1>4. \A c \in Call, s \in Stage :
        /\ desk[<<c, s>>].at = "claimed" =>
             asks'[<<c, s>>] = desk[<<c, s>>].said /\ s = "tool"
                 /\ desk[<<c, s>>].said \in {"yes", "no"}
        /\ desk[<<c, s>>].at # "claimed" => asks'[<<c, s>>] = asks[<<c, s>>]
  <2>1. ASSUME NEW c \in Call, NEW s \in Stage, desk[<<c, s>>].at = "claimed"
        PROVE  asks'[<<c, s>>] = desk[<<c, s>>].said /\ s = "tool"
            /\ desk[<<c, s>>].said \in {"yes", "no"}
    <3>1. DeskAt(c, s) /\ desk[<<c, s>>].said \in Said
      BY DEF Working, DeskOK, TypeOK, Question
    <3> QED
      BY <1>1, <2>1, <3>1 DEF DeskAt, Claimed, Said, Question
  <2>2. ASSUME NEW c \in Call, NEW s \in Stage, desk[<<c, s>>].at # "claimed"
        PROVE  asks'[<<c, s>>] = asks[<<c, s>>]
    BY <1>1, <2>2 DEF Claimed, Question
  <2> QED
    BY <2>1, <2>2
<1>5. \A c \in Call : Claimed(<<c, "tool">>) => ahead.memory[c] # "none"
  BY AnsweredIsDone DEF CommitEvents
<1>6. \A c \in Call : Claimed(<<c, "tool">>)' <=> Claimed(<<c, "tool">>)
  BY <1>2 DEF Claimed
<1>7. DeskOK'
  <2>1. ASSUME NEW c \in Call, NEW s \in Stage PROVE DeskAt(c, s)'
    <3>1. DeskAt(c, s)
      BY DEF Working, DeskOK
    <3> QED
      BY <1>1, <1>2, <1>4, <3>1 DEF DeskAt, Askable
  <2> QED
    BY <2>1 DEF DeskOK
<1>8. HeldOK'
  <2>1. \A c \in Call : ahead.ops[c].starts \in Nat
    BY DEF TypeOK, Facts
  <2> QED
    BY <1>1, <1>2, <1>5, <1>6, <2>1, Sets DEF Working, HeldOK
<1>9. FrontierOK'
  <2>1. ASSUME NEW c \in Call, NEW d \in Call, Before(d, c), memory[d] = "none"
        PROVE  Unused(c, ahead.ops[c])
    <3>1. Unused(c, ops[c]) /\ \A s \in Stage : desk[<<c, s>>].at = "none"
      BY <2>1 DEF Working, FrontierOK, Untried
    <3>2. c \notin Asks => Unused(c, ahead.ops[c])
      BY <3>1 DEF Working, HeldOK
    <3>3. c \in Asks => ahead.ops[c].result = ops[c].result
      BY <3>1 DEF Working, HeldOK, Claimed, Stage
    <3> QED
      BY <3>1, <3>2, <3>3 DEF Unused
  <2> QED
    BY <1>1, <1>2, <2>1 DEF Working, FrontierOK, Untried, Before, Place, Unused
<1>10. CountsOK'
  <2>1. \A c \in Call : /\ asks'[<<c, "authz">>] = asks[<<c, "authz">>]
                        /\ asks'[<<c, "rerun">>] = asks[<<c, "rerun">>]
    <3>1. ASSUME NEW c \in Call, NEW s \in {"authz", "rerun"} PROVE asks'[<<c, s>>] = asks[<<c, s>>]
      BY <1>4 DEF Stage
    <3> QED
      BY <3>1
  <2>2. ASSUME NEW c \in Call
        PROVE  /\ ahead.ops[c].starts \in Nat /\ ops[c].starts \in Nat
               /\ ahead.ops[c].starts >= ops[c].starts
               /\ c \notin Idempotent => ahead.ops[c] = ops[c]
               /\ ahead.ops[c].starts > 0 /\ ops[c].starts = 0 => c \in Asks
    <3>1. ahead.ops[c].starts \in Nat /\ ops[c].starts \in Nat
      BY DEF TypeOK, Facts
    <3>2. /\ ahead.ops[c].starts >= ops[c].starts
          /\ c \notin Asks => ahead.ops[c] = ops[c]
      BY DEF Working, HeldOK
    <3> QED
      BY <3>1, <3>2, Sets
  <2>3. ASSUME NEW c \in Asks, memory[c] = "none", asks[<<c, "rerun">>] = "none"
        PROVE  opened[<<c, "rerun">>] = 0
    <3>1. DeskAt(c, "rerun")
      BY Sets DEF Working, DeskOK, Stage
    <3> QED
      BY <3>1, Sets DEF DeskAt, Askable
  <2>4. ASSUME NEW c \in Call, memory[c] = "none"
        PROVE  /\ asks[<<c, "authz">>] = "none" => opened[<<c, "authz">>] <= ahead.ops[c].starts
               /\ asks[<<c, "rerun">>] = "none" /\ ahead.ops[c].starts > 0 =>
                    opened[<<c, "rerun">>] < ahead.ops[c].starts
    <3>1. opened[<<c, "authz">>] \in Nat /\ opened[<<c, "rerun">>] \in Nat
      BY DEF TypeOK, Question, Stage
    <3>2. /\ asks[<<c, "authz">>] = "none" => opened[<<c, "authz">>] <= ops[c].starts
          /\ asks[<<c, "rerun">>] = "none" /\ ops[c].starts > 0 =>
               opened[<<c, "rerun">>] < ops[c].starts
      BY <2>4 DEF Working, CountsOK
    <3>3. CASE ops[c].starts > 0
      BY <2>2, <3>1, <3>2, <3>3
    <3>4. CASE ops[c].starts = 0
      <4>1. ahead.ops[c].starts > 0 /\ asks[<<c, "rerun">>] = "none" => opened[<<c, "rerun">>] = 0
        BY <2>2, <2>3, <2>4, <3>4
      <4> QED
        BY <2>2, <3>1, <3>2, <3>4, <4>1
    <3> QED
      BY <2>2, <3>3, <3>4
  <2> QED
    BY <1>1, <1>2, <2>1, <2>2, <2>4 DEF Working, CountsOK
<1>11. LoggedOK'
  <2>1. ASSUME NEW c \in Asks, ahead.ops[c].result # "none", memory[c] = "none"
        PROVE  asks'[<<c, "tool">>] \in {"yes", "no"}
    <3>1. CASE Claimed(<<c, "tool">>)
      BY <1>4, <3>1, Sets DEF Claimed, Stage
    <3>2. CASE ~Claimed(<<c, "tool">>)
      BY <1>4, <2>1, <3>2, Sets DEF Working, HeldOK, LoggedOK, Claimed, Stage
    <3> QED
      BY <3>1, <3>2
  <2> QED
    BY <1>1, <1>2, <1>6, <2>1 DEF Working, LoggedOK
<1>12. RoundOK'
  BY <1>1, <1>2, <1>3 DEF RoundOK
<1>13. TodoOK'
  BY <1>1, <1>2, <1>3 DEF Working, TodoOK
<1>14. OpenOK'
  BY <1>1, <1>2 DEF Working, OpenOK
<1>15. ClosedOK'
  BY <1>1, <1>2, <1>4 DEF Working, ClosedOK
<1>16. CurrentOK'
  <2>1. Asking("rerun") => Here \in Call /\ Here \notin Idempotent /\ ops[Here].starts > 0
    BY HereFacts DEF Asking, Working, CurrentOK, TodoOK
  <2>2. pc = "enter" \/ Asking("authz") => todo # {}
    BY DEF Asking, Working, TodoOK
  <2>3. pc = "enter" \/ Asking("authz") =>
          /\ Here \in Call /\ (Here \in Idempotent \/ ahead.ops[Here] = ops[Here])
          /\ \A s \in {"authz", "rerun"} : asks'[<<Here, s>>] = asks[<<Here, s>>]
    <3>1. pc = "enter" \/ Asking("authz") => Here \in Call
      BY <2>2, HereFacts
    <3>2. \A c \in Call : c \in Idempotent \/ ahead.ops[c] = ops[c]
      BY Sets DEF Working, HeldOK
    <3>3. \A c \in Call, s \in {"authz", "rerun"} : asks'[<<c, s>>] = asks[<<c, s>>]
      BY <1>4 DEF Stage
    <3> QED
      BY <3>1, <3>2, <3>3
  <2>4. Asking("rerun") => ahead.ops[Here] = ops[Here]
    BY <2>1, Sets DEF Working, HeldOK
  <2>5. /\ Asking("rerun")' <=> Asking("rerun")
        /\ Asking("authz")' <=> Asking("authz")
    BY <1>1 DEF Asking
  <2> QED
    BY <1>1, <1>2, <1>3, <2>1, <2>3, <2>4, <2>5 DEF Working, CurrentOK, Trusted
<1> QED
  BY <1>7, <1>8, <1>9, <1>10, <1>11, <1>12, <1>13, <1>14, <1>15, <1>16 DEF Working

\* The records of the round are out, its answers closed.
LEMMA CommitMemoryStep ==
  ASSUME TypeOK, Working, CommitMemory
  PROVE  Working'
<1>1. /\ round = "committing" /\ round' = "none" /\ memory' = ahead.memory
      /\ desk' = [q \in Question |->
                    IF Claimed(q) THEN [desk[q] EXCEPT !.at = "final"] ELSE desk[q]]
      /\ asks' = [q \in Question |-> IF Claimed(q) THEN "none" ELSE asks[q]]
      /\ UNCHANGED <<ops, ahead, unsure, ran, opened, pc, mode, todo, stage, result>>
  BY DEF CommitMemory, run, history
<1>2. /\ ops' = ops /\ unsure' = unsure /\ ran' = ran /\ opened' = opened
      /\ ahead' = ahead /\ Here' = Here
  BY <1>1 DEF Here
<1>3. pc \in {"enter", "open", "call"} /\ ahead.ops = ops
  BY <1>1 DEF Working, RoundOK, HeldOK
<1>4. ASSUME NEW c \in Call, NEW s \in Stage, desk[<<c, s>>].at = "claimed"
      PROVE  /\ s = "tool" /\ ahead.memory[c] # "none" /\ asks'[<<c, s>>] = "none"
             /\ desk'[<<c, s>>].at = "final" /\ desk'[<<c, s>>].said = desk[<<c, s>>].said
  <2>1. DeskAt(c, s) /\ desk[<<c, s>>] \in [at : {"none", "open", "claimed", "final"}, said : Said]
    BY DEF Working, DeskOK, TypeOK, Question
  <2>2. s = "tool"
    BY <1>4, <2>1 DEF DeskAt
  <2>3. ahead.memory[c] # "none"
    BY <1>1, <1>4, <2>2 DEF Working, HeldOK, Claimed
  <2> QED
    BY <1>1, <1>4, <2>1, <2>2, <2>3 DEF Claimed, Question
<1>17. \A c \in Call, s \in Stage : desk[<<c, s>>].at # "claimed" =>
         asks'[<<c, s>>] = asks[<<c, s>>] /\ desk'[<<c, s>>] = desk[<<c, s>>]
  BY <1>1 DEF Claimed, Question
<1>5. \A c \in Call : memory[c] # "none" => memory'[c] = memory[c]
  BY <1>1 DEF Working, HeldOK
<1>6. \A c \in Call, s \in Stage : memory'[c] = "none" =>
        /\ memory[c] = "none" /\ desk[<<c, s>>].at # "claimed"
        /\ asks'[<<c, s>>] = asks[<<c, s>>] /\ desk'[<<c, s>>] = desk[<<c, s>>]
  <2>1. ASSUME NEW c \in Call, NEW s \in Stage, memory'[c] = "none"
        PROVE  memory[c] = "none" /\ desk[<<c, s>>].at # "claimed"
    <3>1. memory[c] = "none"
      BY <1>5, <2>1
    <3>2. ahead.memory[c] = "none"
      BY <1>1, <2>1
    <3>3. desk[<<c, s>>].at # "claimed"
      BY <1>4, <3>2
    <3> QED
      BY <3>1, <3>3
  <2> QED
    BY <1>17, <2>1
<1>7. DeskOK'
  <2>1. ASSUME NEW c \in Call, NEW s \in Stage PROVE DeskAt(c, s)'
    <3>1. DeskAt(c, s) /\ desk[<<c, s>>].at # "open"
      BY <1>3 DEF Working, DeskOK, OpenOK
    <3>2. CASE desk[<<c, s>>].at = "claimed"
      BY <1>1, <1>2, <1>4, <3>1, <3>2 DEF DeskAt, Askable
    <3>3. CASE desk[<<c, s>>].at # "claimed"
      <4>1. asks'[<<c, s>>] = asks[<<c, s>>] /\ desk'[<<c, s>>] = desk[<<c, s>>]
        BY <1>17, <3>3
      <4> QED
        BY <1>1, <1>2, <3>1, <3>3, <4>1 DEF DeskAt, Askable
    <3> QED
      BY <3>2, <3>3
  <2> QED
    BY <2>1 DEF DeskOK
<1>8. HeldOK'
  <2>1. ahead' = Snapshot' /\ ahead'.ops = ops' /\ ahead'.memory = memory'
    BY <1>1, <1>2, <1>3 DEF Snapshot, TypeOK
  <2>2. \A c \in Call : ops'[c].starts \in Nat
    BY <1>2 DEF TypeOK, Facts
  <2> QED
    BY <1>1, <2>1, <2>2 DEF HeldOK
<1>9. FrontierOK'
  <2>1. ASSUME NEW c \in Call, NEW d \in Call, Before(d, c), memory'[d] = "none"
        PROVE  Untried(c)' /\ memory'[c] = "none"
    <3>1. memory[d] = "none" /\ memory'[c] = "none" /\ Untried(c)
      BY <1>1, <1>5, <2>1 DEF Working, FrontierOK
    <3> QED
      BY <1>2, <1>6, <3>1 DEF Untried
  <2>2. ASSUME NEW c \in Call, NEW d \in Call, Before(d, c), ahead'.memory[d] = "none"
        PROVE  ahead'.memory[c] = "none" /\ Unused(c, ahead'.ops[c])
    BY <1>2, <2>2 DEF Working, FrontierOK
  <2> QED
    BY <2>1, <2>2 DEF FrontierOK, Before, Place, Unused
<1>10. CountsOK'
  <2>1. \A c \in Call : asks'[<<c, "rerun">>] = asks[<<c, "rerun">>]
    BY <1>4, <1>17 DEF Stage
  <2>2. \A c \in Call : memory'[c] = "none" =>
          /\ memory[c] = "none" /\ asks'[<<c, "authz">>] = asks[<<c, "authz">>]
          /\ desk'[<<c, "tool">>] = desk[<<c, "tool">>]
    BY <1>6 DEF Stage
  <2> QED
    BY <1>2, <2>1, <2>2 DEF Working, CountsOK
<1>11. LoggedOK'
  <2>1. \A c \in Call : memory'[c] = "none" =>
          memory[c] = "none" /\ asks'[<<c, "tool">>] = asks[<<c, "tool">>]
    BY <1>6 DEF Stage
  <2> QED
    BY <1>1, <1>2, <2>1 DEF Working, LoggedOK
<1>12. RoundOK'
  BY <1>1, <1>3 DEF RoundOK
<1>13. TodoOK'
  BY <1>1, <1>2 DEF Working, TodoOK
<1>14. OpenOK'
  <2>1. ASSUME NEW c \in Call, NEW s \in Stage
        PROVE  /\ desk'[<<c, s>>].at # "open"
               /\ desk[<<c, s>>].at = "none" => desk'[<<c, s>>].at = "none"
    <3>1. desk[<<c, s>>].at # "open"
      BY <1>3 DEF Working, OpenOK
    <3>2. CASE desk[<<c, s>>].at = "claimed"
      BY <1>4, <3>2
    <3>3. CASE desk[<<c, s>>].at # "claimed"
      BY <1>17, <3>1, <3>3
    <3> QED
      BY <3>2, <3>3
  <2>2. pc = "open" => Here \in Call /\ stage \in Stage
    BY HereFacts DEF TypeOK, Working, TodoOK
  <2> QED
    BY <1>1, <1>2, <1>3, <2>1, <2>2 DEF Working, OpenOK
<1>15. ClosedOK'
  <2>1. ASSUME NEW c \in Call, NEW s \in Stage, desk'[<<c, s>>].at = "final",
               asks'[<<c, s>>] = "none", memory'[c] = "none"
        PROVE  FALSE
    BY <1>3, <1>6, <2>1 DEF Working, ClosedOK
  <2> QED
    BY <2>1 DEF ClosedOK
<1>16. CurrentOK'
  <2>1. pc = "enter" \/ pc = "open" => Here \in Call
    BY HereFacts DEF Working, TodoOK
  <2>2. \A c \in Call, s \in {"authz", "rerun"} :
          asks'[<<c, s>>] = asks[<<c, s>>] /\ desk'[<<c, s>>] = desk[<<c, s>>]
    <3>1. ASSUME NEW c \in Call, NEW s \in {"authz", "rerun"} PROVE desk[<<c, s>>].at # "claimed"
      BY <1>4 DEF Stage
    <3> QED
      BY <1>17, <3>1 DEF Stage
  <2>3. /\ Asking("rerun")' <=> Asking("rerun")
        /\ Asking("authz")' <=> Asking("authz")
        /\ Asking("rerun") \/ Asking("authz") => pc = "open"
    BY <1>1, <1>3 DEF Asking
  <2> QED
    BY <1>1, <1>2, <1>3, <2>1, <2>2, <2>3 DEF Working, CurrentOK, Trusted
<1> QED
  BY <1>7, <1>8, <1>9, <1>10, <1>11, <1>12, <1>13, <1>14, <1>15, <1>16 DEF Working

\* A pause takes the answers back, and forgets what the round held back.
LEMMA RetractStep ==
  ASSUME TypeOK, Working, Retract
  PROVE  Working'
<1>1. /\ round = "open" /\ round' = "none" /\ pc \notin {"off", "attach", "over"}
      /\ ahead' = Snapshot /\ pc' = "off"
      /\ desk' = [q \in Question |-> IF Claimed(q) THEN Shown ELSE desk[q]]
      /\ UNCHANGED <<ops, asks, memory, unsure, ran, opened, mode, todo, stage, result>>
  BY DEF Retract, Forget, Goto, history, log
<1>2. /\ ops' = ops /\ asks' = asks /\ memory' = memory /\ unsure' = unsure
      /\ ran' = ran /\ opened' = opened
  BY <1>1
<1>3. \A c \in Call, s \in Stage : desk[<<c, s>>].at = "claimed" => desk'[<<c, s>>] = Shown
  BY <1>1 DEF Claimed, Question
<1>4. \A c \in Call, s \in Stage : desk[<<c, s>>].at # "claimed" => desk'[<<c, s>>] = desk[<<c, s>>]
  BY <1>1 DEF Claimed, Question
<1>5. ASSUME NEW c \in Call, NEW s \in Stage
      PROVE  desk'[<<c, s>>].at \notin {"claimed"}
          /\ (desk'[<<c, s>>].at = "none" => desk[<<c, s>>].at = "none")
  <2>1. CASE desk[<<c, s>>].at = "claimed"
    <3>1. desk'[<<c, s>>] = Shown
      BY <1>3, <2>1
    <3> QED
      BY <3>1 DEF Shown
  <2>2. CASE desk[<<c, s>>].at # "claimed"
    <3>1. desk'[<<c, s>>] = desk[<<c, s>>]
      BY <1>4, <2>2
    <3> QED
      BY <2>2, <3>1
  <2> QED
    BY <2>1, <2>2
<1>6. ahead' = Snapshot' /\ ahead'.ops = ops /\ ahead'.memory = memory
  BY <1>1, <1>2 DEF Snapshot
<1>7. DeskOK'
  <2>1. ASSUME NEW c \in Call, NEW s \in Stage PROVE DeskAt(c, s)'
    <3>1. DeskAt(c, s)
      BY DEF Working, DeskOK
    <3>2. CASE desk[<<c, s>>].at = "claimed"
      <4>1. desk'[<<c, s>>] = Shown
        BY <1>3, <3>2
      <4> QED
        BY <1>1, <1>2, <3>1, <3>2, <4>1 DEF DeskAt, Askable, Shown
    <3>3. CASE desk[<<c, s>>].at # "claimed"
      <4>1. desk'[<<c, s>>] = desk[<<c, s>>]
        BY <1>4, <3>3
      <4> QED
        BY <1>1, <1>2, <3>1, <3>3, <4>1 DEF DeskAt, Askable
    <3> QED
      BY <3>2, <3>3
  <2> QED
    BY <2>1 DEF DeskOK
<1>8. HeldOK'
  <2>1. \A c \in Call : ops[c].starts \in Nat
    BY DEF TypeOK, Facts
  <2> QED
    BY <1>1, <1>2, <1>6, <2>1 DEF HeldOK
<1>9. FrontierOK'
  <2>1. ASSUME NEW c \in Call, NEW d \in Call, Before(d, c), memory[d] = "none"
        PROVE  Untried(c)'
    <3>1. Untried(c)
      BY <2>1 DEF Working, FrontierOK
    <3> QED
      BY <1>2, <1>4, <3>1 DEF Untried
  <2> QED
    BY <1>2, <1>6, <2>1 DEF FrontierOK, Before, Place, Untried, Unused
<1>10. CountsOK'
  <2>1. \A c \in Call : desk'[<<c, "tool">>].at = "none" => desk[<<c, "tool">>].at = "none"
    BY <1>5 DEF Stage
  <2> QED
    BY <1>2, <2>1 DEF Working, CountsOK
<1>11. LoggedOK'
  BY <1>2, <1>6 DEF Working, LoggedOK
<1>12. RoundOK' /\ TodoOK' /\ OpenOK' /\ CurrentOK'
  BY <1>1, <1>6 DEF RoundOK, TodoOK, OpenOK, CurrentOK, Asking
<1>13. ClosedOK'
  <2>1. ASSUME NEW c \in Call, NEW s \in Stage, desk'[<<c, s>>].at = "final",
               asks[<<c, s>>] = "none", memory[c] = "none"
        PROVE  FALSE
    <3>1. desk[<<c, s>>].at = "final"
      BY <1>3, <1>4, <2>1 DEF Shown
    <3>2. c = Here /\ s # "tool" /\ pc \in {"run", "finish", "record"}
      BY <2>1, <3>1 DEF Working, ClosedOK
    <3>3. c \in Asks
      BY <1>1, <2>1, <3>1, RoundOwner DEF Untried
    <3> QED
      BY <3>1, <3>2, <3>3, AsksOnly DEF Stage
  <2> QED
    BY <1>2, <2>1 DEF ClosedOK
<1> QED
  BY <1>7, <1>8, <1>9, <1>10, <1>11, <1>12, <1>13 DEF Working

\* After a restart the registry is what the log says, and no round is open.
LEMMA CrashStep ==
  ASSUME TypeOK, Working, Crash
  PROVE  Working'
<1>1. /\ round' = "none" /\ ahead' = Snapshot /\ pc' = "off"
      /\ desk' = [q \in Question |-> Reloaded(q)]
      /\ unsure' = [q \in Question |-> "none"]
      /\ UNCHANGED <<ops, asks, memory, ran, opened, mode, todo, stage, result>>
  BY DEF Crash, Goto, history, log
<1>2. ops' = ops /\ asks' = asks /\ memory' = memory /\ ran' = ran /\ opened' = opened
  BY <1>1
<1>3. ahead' = Snapshot' /\ ahead'.ops = ops /\ ahead'.memory = memory
  BY <1>1, <1>2 DEF Snapshot
<1>4. \A c \in Call, s \in Stage :
        /\ unsure'[<<c, s>>] = "none"
        /\ asks[<<c, s>>] = "none" => desk'[<<c, s>>] = Untouched
        /\ asks[<<c, s>>] = "open" => desk'[<<c, s>>] = Shown
        /\ asks[<<c, s>>] \notin {"none", "open"} =>
             desk'[<<c, s>>] = [at |-> "final", said |-> asks[<<c, s>>]]
  BY <1>1 DEF Reloaded, Question
<1>5. \A c \in Call, s \in Stage : asks[<<c, s>>] \in {"none", "open", "yes", "no"}
  BY DEF TypeOK, Question, Said
<1>6. ASSUME NEW c \in Call, NEW s \in Stage
      PROVE  /\ desk'[<<c, s>>].at = "none" <=> asks[<<c, s>>] = "none"
             /\ desk'[<<c, s>>].at = "open" <=> asks[<<c, s>>] = "open"
             /\ desk'[<<c, s>>].at = "final" <=> asks[<<c, s>>] \in {"yes", "no"}
             /\ desk'[<<c, s>>].said = (IF asks[<<c, s>>] = "open" THEN "none" ELSE asks[<<c, s>>])
             /\ desk'[<<c, s>>].at # "claimed"
  <2>1. CASE asks[<<c, s>>] = "none"
    <3>1. desk'[<<c, s>>] = Untouched
      BY <1>4, <2>1
    <3> QED
      BY <2>1, <3>1 DEF Untouched
  <2>2. CASE asks[<<c, s>>] = "open"
    <3>1. desk'[<<c, s>>] = Shown
      BY <1>4, <2>2
    <3> QED
      BY <2>2, <3>1 DEF Shown
  <2>3. CASE asks[<<c, s>>] \in {"yes", "no"}
    <3>1. desk'[<<c, s>>] = [at |-> "final", said |-> asks[<<c, s>>]]
      BY <1>4, <2>3
    <3> QED
      BY <2>3, <3>1
  <2> QED
    BY <1>5, <2>1, <2>2, <2>3
<1>7. DeskOK'
  <2>1. ASSUME NEW c \in Call, NEW s \in Stage PROVE DeskAt(c, s)'
    <3>1. DeskAt(c, s)
        /\ desk[<<c, s>>] \in [at : {"none", "open", "claimed", "final"}, said : Said]
      BY DEF Working, DeskOK, TypeOK, Question
    <3>2. <<c, s>> \notin Askable => asks[<<c, s>>] = "none" /\ opened[<<c, s>>] = 0
      BY <3>1 DEF DeskAt
    <3>3. asks[<<c, s>>] = "open" => memory[c] = "none"
      BY <3>1 DEF DeskAt, Said
    <3>4. unsure'[<<c, s>>] = "none" /\ asks[<<c, s>>] \in {"none", "open", "yes", "no"}
      BY <1>4, <1>5
    <3> QED
      BY <1>1, <1>2, <1>6, <3>2, <3>3, <3>4 DEF DeskAt, Askable
  <2> QED
    BY <2>1 DEF DeskOK
<1>8. HeldOK'
  <2>1. \A c \in Call : ops[c].starts \in Nat
    BY DEF TypeOK, Facts
  <2> QED
    BY <1>1, <1>2, <1>3, <2>1 DEF HeldOK
<1>9. FrontierOK'
  <2>1. ASSUME NEW c \in Call, NEW d \in Call, Before(d, c), memory[d] = "none"
        PROVE  Untried(c)'
    <3>1. Untried(c)
      BY <2>1 DEF Working, FrontierOK
    <3>2. \A s \in Stage : asks[<<c, s>>] = "none"
      BY <3>1 DEF Working, DeskOK, DeskAt, Untried
    <3> QED
      BY <1>2, <1>6, <3>1, <3>2 DEF Untried
  <2> QED
    BY <1>2, <1>3, <2>1 DEF FrontierOK, Before, Place, Untried, Unused
<1>10. CountsOK'
  <2>1. ASSUME NEW c \in Call, memory[c] = "none", asks[<<c, "tool">>] = "none"
        PROVE  opened[<<c, "tool">>] = 0
    <3>1. DeskAt(c, "tool")
        /\ desk[<<c, "tool">>] \in [at : {"none", "open", "claimed", "final"}, said : Said]
      BY DEF Working, DeskOK, TypeOK, Question, Stage
    <3>2. desk[<<c, "tool">>].at # "final"
      BY <2>1 DEF Working, ClosedOK, Stage
    <3>3. desk[<<c, "tool">>].at = "none"
      BY <2>1, <3>1, <3>2 DEF DeskAt, Said
    <3> QED
      BY <2>1, <3>3 DEF Working, CountsOK
  <2>2. \A c \in Call : desk'[<<c, "tool">>].at = "none" => asks[<<c, "tool">>] = "none"
    BY <1>6 DEF Stage
  <2> QED
    BY <1>2, <2>1, <2>2 DEF Working, CountsOK
<1>11. LoggedOK'
  BY <1>2, <1>3 DEF Working, LoggedOK
<1>12. RoundOK' /\ TodoOK' /\ OpenOK' /\ CurrentOK'
  BY <1>1, <1>3 DEF RoundOK, TodoOK, OpenOK, CurrentOK, Asking
<1>13. ClosedOK'
  BY <1>2, <1>6 DEF ClosedOK
<1> QED
  BY <1>7, <1>8, <1>9, <1>10, <1>11, <1>12, <1>13 DEF Working
-------------------------------------------------------------------------------
(***************************************************************************)
(* Types, and what no step may do                                          *)
(***************************************************************************)
\* What is there at the start.
LEMMA InitHolds == Init => Inductive
<1> SUFFICES ASSUME Init PROVE Inductive
  OBVIOUS
<1>1. \A c \in Call, s \in Stage : <<c, s>> \in Question
  BY DEF Question
<1>2. TypeOK
  <2>1. Fresh \in Facts /\ Untouched \in [at : {"none", "open", "claimed", "final"}, said : Said]
    BY DEF Fresh, Facts, Untouched, Result, Said
  <2>2. budget \in [stops : Nat, fails : Nat, crashes : Nat]
    BY ToolCallsAssumption DEF Init
  <2>3. ops \in [Call -> Facts] /\ memory \in [Call -> Result] /\ ahead = Snapshot
    BY <2>1 DEF Init, Result, Said
  <2>4. ahead \in [ops : [Call -> Facts], memory : [Call -> Result]]
    BY <2>3 DEF Snapshot
  <2>5. /\ asks \in [Question -> Said \cup {"open"}]
        /\ desk \in [Question -> [at : {"none", "open", "claimed", "final"}, said : Said]]
        /\ unsure \in [Question -> Said] /\ ran \in [Call -> Nat] /\ opened \in [Question -> Nat]
    BY <2>1 DEF Init, Said
  <2>6. /\ round = "none" /\ pc \in PC /\ mode = "act" /\ todo \subseteq Call
        /\ stage \in Stage /\ result \in Result
    BY DEF Init, PC, Stage, Result, Said
  <2> QED
    BY <2>2, <2>3, <2>4, <2>5, <2>6 DEF TypeOK
<1>3. /\ pc = "call" /\ mode = "act" /\ todo = Call /\ round = "none" /\ ahead = Snapshot
      /\ \A c \in Call : ops[c] = Fresh /\ memory[c] = "none" /\ ran[c] = 0
      /\ \A c \in Call, s \in Stage :
           /\ desk[<<c, s>>].at = "none" /\ desk[<<c, s>>].said = "none"
           /\ asks[<<c, s>>] = "none" /\ unsure[<<c, s>>] = "none" /\ opened[<<c, s>>] = 0
  BY <1>1 DEF Init, Untouched
<1>4. DeskOK
  BY <1>3 DEF DeskOK, DeskAt
<1>5. HeldOK /\ FrontierOK /\ CountsOK /\ LoggedOK
  <2>1. \A c \in Call : /\ ahead.ops[c] = ops[c] /\ ahead.memory[c] = memory[c]
                        /\ ops[c].starts = 0 /\ ops[c].result = "none"
    BY <1>3 DEF Snapshot, Fresh
  <2>2. HeldOK /\ LoggedOK
    BY <1>3, <2>1 DEF HeldOK, LoggedOK
  <2>3. FrontierOK
    BY <1>3, <2>1 DEF FrontierOK, Untried, Unused
  <2>4. CountsOK
    <3>1. ASSUME NEW c \in Call
          PROVE  /\ opened[<<c, "tool">>] = 0 /\ asks[<<c, "rerun">>] = "none" /\ ran[c] = 0
                 /\ ops[c].starts = 0 /\ opened[<<c, "authz">>] <= ops[c].starts
      <4>1. /\ opened[<<c, "tool">>] = 0 /\ opened[<<c, "authz">>] = 0
            /\ asks[<<c, "rerun">>] = "none" /\ ran[c] = 0 /\ ops[c].starts = 0
        BY <1>3, <2>1 DEF Stage
      <4> QED
        BY <4>1
    <3>2. ASSUME NEW c \in Call PROVE ~(ops[c].starts > 0)
      <4>1. ops[c].starts = 0
        BY <3>1
      <4> QED
        BY <4>1
    <3> QED
      BY <3>1, <3>2 DEF CountsOK
  <2> QED
    BY <2>2, <2>3, <2>4
<1>6. RoundOK /\ OpenOK /\ ClosedOK /\ CurrentOK
  BY <1>3 DEF RoundOK, OpenOK, ClosedOK, CurrentOK, Asking
<1>7. TodoOK
  BY <1>3 DEF TodoOK, Snapshot
<1>8. DecisionsSpentOnce /\ NoDangling
  <2>1. \A c \in Call : ops[c].starts = 0 /\ ran[c] = 0
    BY <1>3 DEF Fresh
  <2>2. \A c \in Call :
          opened[<<c, "tool">>] = 0 /\ opened[<<c, "authz">>] = 0 /\ opened[<<c, "rerun">>] = 0
    BY <1>3 DEF Stage
  <2>3. ASSUME NEW c \in Call
        PROVE  /\ opened[<<c, "tool">>] <= 1 /\ opened[<<c, "authz">>] <= 1 + ops[c].starts
               /\ opened[<<c, "rerun">>] <= ops[c].starts /\ ran[c] <= 1 + opened[<<c, "rerun">>]
    <3>1. /\ opened[<<c, "tool">>] = 0 /\ opened[<<c, "authz">>] = 0 /\ opened[<<c, "rerun">>] = 0
          /\ ops[c].starts = 0 /\ ran[c] = 0
      BY <2>1, <2>2
    <3> QED
      BY <3>1
  <2> QED
    BY <1>3, <2>3 DEF DecisionsSpentOnce, AskedOnce, VerdictIsSpent, NoDangling
<1> QED
  BY <1>2, <1>3, <1>4, <1>5, <1>6, <1>7, <1>8 DEF Inductive, Working

\* A result or an event that is held back or written keeps the types.
LEMMA WriteTypes ==
  ASSUME TypeOK, NEW h \in Call
  PROVE  /\ \A r \in Result : Ingest(h, r) =>
              /\ memory' \in [Call -> Result]
              /\ ahead' \in [ops : [Call -> Facts], memory : [Call -> Result]]
         /\ \A o \in Facts : Emit(h, o) =>
              /\ ops' \in [Call -> Facts]
              /\ ahead' \in [ops : [Call -> Facts], memory : [Call -> Result]]
<1>1. /\ ahead \in [ops : [Call -> Facts], memory : [Call -> Result]]
      /\ memory \in [Call -> Result] /\ ops \in [Call -> Facts]
  BY DEF TypeOK
<1>2. ASSUME NEW r \in Result, Ingest(h, r)
      PROVE  /\ memory' \in [Call -> Result]
             /\ ahead' \in [ops : [Call -> Facts], memory : [Call -> Result]]
  <2>1. Recorded(memory, h, r) \in [Call -> Result]
      /\ Recorded(ahead.memory, h, r) \in [Call -> Result]
    BY <1>1 DEF Recorded
  <2> QED
    BY <1>1, <1>2, <2>1 DEF Ingest, HeldBack
<1>3. ASSUME NEW o \in Facts, Emit(h, o)
      PROVE  /\ ops' \in [Call -> Facts]
             /\ ahead' \in [ops : [Call -> Facts], memory : [Call -> Result]]
  BY <1>1, <1>3 DEF Emit, HeldBack
<1> QED
  BY <1>2, <1>3

\* Every step keeps the types.
LEMMA TypeStep ==
  ASSUME TypeOK, Working, Next, pc # "over"
  PROVE  TypeOK'
<1>1. pc \notin {"off", "call"} => Here \in Call /\ Here \in todo
  BY HereFacts DEF Working, TodoOK
<1>2. CASE Backfill
  <2>1. Here \in Call /\ ops[Here].result \in Result
    BY <1>2, HereFacts DEF Backfill, TypeOK, Facts
  <2>2. /\ memory' \in [Call -> Result]
        /\ ahead' \in [ops : [Call -> Facts], memory : [Call -> Result]]
    BY <1>2, <2>1, WriteTypes DEF Backfill
  <2> QED
    BY <1>2, <2>2 DEF TypeOK, Backfill, log, history
<1>3. CASE Refuse \/ Record
  <2>1. Here \in Call /\ "refused" \in Result /\ result \in Result
    BY <1>1, <1>3 DEF Refuse, Record, At, Result, TypeOK
  <2>2. /\ memory' \in [Call -> Result] /\ pc' \in PC
        /\ ahead' \in [ops : [Call -> Facts], memory : [Call -> Result]]
    BY <1>3, <2>1, WriteTypes DEF Refuse, Record, Goto, PC
  <2> QED
    BY <1>3, <2>2 DEF TypeOK, Refuse, Record, Goto, log, history
<1>4. CASE Invoke \/ Finish
  <2>1. Here \in Call /\ result \in Result /\ ahead.ops[Here] \in Facts
    BY <1>1, <1>4 DEF Invoke, Finish, At, TypeOK
  <2>2. AfterInvoked(ahead.ops[Here]) \in Facts /\ AfterFinished(ahead.ops[Here], result) \in Facts
    BY <2>1 DEF AfterInvoked, AfterFinished, Facts
  <2>3. /\ ops' \in [Call -> Facts] /\ pc' \in PC
        /\ ahead' \in [ops : [Call -> Facts], memory : [Call -> Result]]
    BY <1>4, <2>1, <2>2, WriteTypes DEF Invoke, Finish, Goto, PC
  <2> QED
    BY <1>4, <2>3 DEF TypeOK, Invoke, Finish, Goto, history
<1>5. CASE Enter \/ Authorize \/ Attach \/ Evict \/ Speak
  <2>1. /\ pc' \in PC /\ stage' \in Stage
        /\ UNCHANGED <<log, memory, round, ahead, desk, unsure, history, budget, mode, todo, result>>
    BY <1>5 DEF TypeOK, Enter, Authorize, Attach, Evict, Speak, Goto, AskAt, PC, Stage
  <2> QED
    BY <2>1 DEF TypeOK, log, history
<1>6. CASE Review \/ ExecuteAsk
  <2>1. <<Here, "tool">> \in Question => Cached("tool") \in Result
    BY DEF Cached, Found, TypeOK, Result
  <2>2. ExecuteAsk => <<Here, "tool">> \in Question
    BY <1>1 DEF ExecuteAsk, At, Question, Stage
  <2>3. /\ pc' \in PC /\ stage' \in Stage /\ result' \in Result
        /\ UNCHANGED <<log, memory, round, ahead, desk, unsure, history, budget, mode, todo>>
    BY <1>6, <2>1, <2>2
       DEF TypeOK, Review, ExecuteAsk, HumanReply, Goto, AskAt, ComeTo, PC, Stage, Result
  <2> QED
    BY <2>3 DEF TypeOK, log, history
<1>7. CASE Spend \/ Close
  <2>1. asks' \in [Question -> Said \cup {"open"}]
    BY <1>7 DEF Spend, Close, CloseAt, TypeOK, Said
  <2> QED
    BY <1>7, <2>1 DEF TypeOK, Spend, Close, Goto, PC, history
<1>8. CASE Execute
  <2>1. ran' \in [Call -> Nat] /\ "real" \in Result /\ "finish" \in PC
    BY <1>1, <1>8 DEF Execute, At, TypeOK, Result, PC
  <2> QED
    BY <1>8, <2>1 DEF TypeOK, Execute, ComeTo, log
<1>9. CASE OpenQuestion
  <2>1. <<Here, stage>> \in Question
    BY <1>1, <1>9 DEF OpenQuestion, At, Question, TypeOK
  <2>2. /\ asks' \in [Question -> Said \cup {"open"}] /\ opened' \in [Question -> Nat]
        /\ desk' \in [Question -> [at : {"none", "open", "claimed", "final"}, said : Said]]
    BY <1>9, <2>1 DEF OpenQuestion, TypeOK, Shown, Said
  <2> QED
    BY <1>9, <2>2 DEF TypeOK, OpenQuestion, Goto, PC
<1>10. ASSUME NEW q \in Question, NEW v \in {"yes", "no"}, Decide(q, v) \/ Answer(q, v)
    PROVE TypeOK'
  <2>1. Verdict(q, v) \in Said /\ v \in Said
    BY DEF Verdict, TypeOK, Said
  <2>2. /\ asks' \in [Question -> Said \cup {"open"}] /\ unsure' \in [Question -> Said]
        /\ desk' \in [Question -> [at : {"none", "open", "claimed", "final"}, said : Said]]
        /\ round' \in {"none", "open", "committing"}
    <3>1. CASE Decide(q, v)
      BY <2>1, <3>1 DEF Decide, TypeOK, Said
    <3>2. CASE Answer(q, v)
      BY <2>1, <3>2 DEF Answer, TypeOK, log
    <3> QED
      BY <1>10, <3>1, <3>2
  <2>3. pc' \in PC /\ mode' = mode /\ todo' = todo /\ stage' = stage /\ result' = result
    BY <1>10 DEF Decide, Answer, Deliver, Goto, run, PC, TypeOK
  <2> QED
    BY <1>10, <2>2, <2>3 DEF TypeOK, Decide, Answer, log, history
<1>11. ASSUME NEW q \in Question, NEW v \in {"yes", "no"}, NEW written \in BOOLEAN,
              DecideUnconfirmed(q, v, written)
       PROVE  TypeOK'
  <2>1. Verdict(q, v) \in Said
    BY DEF Verdict, TypeOK, Said
  <2>2. /\ asks' \in [Question -> Said \cup {"open"}] /\ unsure' \in [Question -> Said]
    BY <1>11, <2>1 DEF DecideUnconfirmed, TypeOK
  <2>3. budget' \in [stops : Nat, fails : Nat, crashes : Nat]
    BY <1>11 DEF DecideUnconfirmed, TypeOK
  <2> QED
    BY <1>11, <2>2, <2>3 DEF TypeOK, DecideUnconfirmed, run, history
<1>12. CASE CommitEvents
  <2>1. ops' \in [Call -> Facts] /\ asks' \in [Question -> Said \cup {"open"}]
    BY <1>12 DEF CommitEvents, TypeOK
  <2> QED
    BY <1>12, <2>1 DEF TypeOK, CommitEvents, run, history
<1>13. CASE CommitMemory
  <2>1. /\ memory' \in [Call -> Result] /\ asks' \in [Question -> Said \cup {"open"}]
        /\ desk' \in [Question -> [at : {"none", "open", "claimed", "final"}, said : Said]]
    BY <1>13 DEF CommitMemory, TypeOK, Said
  <2> QED
    BY <1>13, <2>1 DEF TypeOK, CommitMemory, run, history
<1>14. CASE Retract
  <2>1. /\ ahead' \in [ops : [Call -> Facts], memory : [Call -> Result]]
        /\ desk' \in [Question -> [at : {"none", "open", "claimed", "final"}, said : Said]]
    BY <1>14 DEF Retract, Forget, Snapshot, TypeOK, Shown, Said
  <2>2. budget' \in [stops : Nat, fails : Nat, crashes : Nat]
    BY <1>14 DEF Retract, TypeOK
  <2> QED
    BY <1>14, <2>1, <2>2 DEF TypeOK, Retract, Goto, PC, log, history
<1>15. CASE Interrupt
  <2>1. \A c \in Call : Cut(c) \in Result
    BY DEF Cut, Result
  <2>2. memory' \in [Call -> Result]
    BY <1>15, <2>1 DEF Interrupt, TypeOK
  <2>3. ahead' \in [ops : [Call -> Facts], memory : [Call -> Result]]
    BY <1>15, <2>2 DEF Interrupt, TypeOK
  <2>4. budget' \in [stops : Nat, fails : Nat, crashes : Nat]
    BY <1>15 DEF Interrupt, TypeOK
  <2> QED
    BY <1>15, <2>2, <2>3, <2>4 DEF TypeOK, Interrupt, Goto, PC, log, history
<1>16. CASE Start
  BY <1>16 DEF TypeOK, Start, Dangling, PC, log, history
<1>17. CASE Crash
  <2>1. \A q \in Question : Reloaded(q) \in [at : {"none", "open", "claimed", "final"}, said : Said]
    BY DEF Reloaded, TypeOK, Untouched, Shown, Said
  <2>2. /\ ahead' \in [ops : [Call -> Facts], memory : [Call -> Result]]
        /\ desk' \in [Question -> [at : {"none", "open", "claimed", "final"}, said : Said]]
        /\ unsure' \in [Question -> Said]
    BY <1>17, <2>1 DEF Crash, Snapshot, TypeOK, Said
  <2>3. budget' \in [stops : Nat, fails : Nat, crashes : Nat]
    BY <1>17 DEF Crash, TypeOK
  <2> QED
    BY <1>17, <2>2, <2>3 DEF TypeOK, Crash, Goto, PC, log, history
<1> QED
  BY <1>2, <1>3, <1>4, <1>5, <1>6, <1>7, <1>8, <1>9, <1>10, <1>11, <1>12, <1>13, <1>14,
     <1>15, <1>16, <1>17 DEF Next, Step, Human

\* Nobody does anything to a turn that is over.
LEMMA OverIsOver ==
  ASSUME TypeOK, pc = "over", round = "none", Next
  PROVE  FALSE
BY DEF Next, Step, Human, Backfill, Enter, Review, Authorize, Refuse, Invoke, Spend, Execute,
       ExecuteAsk, Finish, Record, Close, Speak, OpenQuestion, Attach, Evict, At, CommitEvents,
       CommitMemory, Retract, Interrupt, Start, Crash, Decide, Answer, DecideUnconfirmed

\* The turn is over when every call has its result.
LEMMA EndStep ==
  ASSUME TypeOK, Working, Next, pc # "over", pc' = "over"
  PROVE  round' = "none" /\ NoDangling'
<1>1. Speak \/ Interrupt
  BY DEF Next, Step, Human, Backfill, Enter, Review, Authorize, Refuse, Invoke, Spend, Execute,
         ExecuteAsk, Finish, Record, Close, OpenQuestion, Attach, Evict, CommitEvents,
         CommitMemory, Retract, Start, Crash, Decide, Answer, DecideUnconfirmed, Deliver, Goto,
         ComeTo, AskAt, run
<1>2. CASE Speak
  <2>1. pc = "call" /\ todo = {} /\ round = "none" /\ memory' = memory /\ round' = round
    BY <1>2 DEF Speak, At
  <2> QED
    BY <2>1 DEF Working, TodoOK, HeldOK, Snapshot, NoDangling
<1>3. CASE Interrupt
  <2>1. /\ round = "none" /\ round' = "none" /\ pc # "off" /\ todo # {}
        /\ memory' = [c \in Call |-> IF memory[c] = "none" /\ c \in todo THEN Cut(c) ELSE memory[c]]
    BY <1>3 DEF Interrupt
  <2>2. \A c \in Call : memory[c] = "none" => c \in todo
    BY <2>1 DEF Working, TodoOK, HeldOK, Snapshot
  <2>3. \A c \in Call : Cut(c) # "none"
    BY DEF Cut
  <2> QED
    BY <2>1, <2>2, <2>3 DEF NoDangling
<1> QED
  BY <1>1, <1>2, <1>3

\* What a human decided stays asked for and spent once.
LEMMA DecisionsStep ==
  ASSUME TypeOK, Working, DecisionsSpentOnce, Next
  PROVE  DecisionsSpentOnce'
<1>1. /\ ops \in [Call -> Facts] /\ ran \in [Call -> Nat] /\ opened \in [Question -> Nat]
      /\ ahead.ops \in [Call -> Facts]
      /\ \A c \in Call, s \in Stage : opened[<<c, s>>] \in Nat
  BY DEF TypeOK, Question
<1>2. CASE Execute
  <2>1. PICK h \in Call : h = Here /\ h \in todo
    BY <1>2, HereFacts DEF Execute, At, Working, TodoOK
  <2>2. pc = "run" /\ h \notin Asks /\ ran' = [ran EXCEPT ![h] = @ + 1] /\ ops' = ops
      /\ opened' = opened
    BY <1>2, <2>1 DEF Execute, At, log
  <2>3. h \notin Idempotent \cup Truncated => ran[h] <= opened[<<h, "rerun">>]
    BY <2>1, <2>2 DEF Working, CurrentOK
  <2>4. \A c \in Call : c # h => ran'[c] = ran[c]
    BY <1>1, <2>2
  <2>5. ran'[h] = ran[h] + 1 /\ ran[h] \in Nat
    BY <1>1, <2>2
  <2>6. VerdictIsSpent'
    <3>1. ASSUME NEW c \in Call \ (Idempotent \cup Truncated)
        PROVE ran'[c] <= 1 + opened[<<c, "rerun">>]
      <4>1. CASE c = h
        <5>1. ran[h] <= opened[<<h, "rerun">>] /\ opened[<<h, "rerun">>] \in Nat
          BY <1>1, <2>3, <4>1 DEF Stage
        <5> QED
          BY <2>5, <4>1, <5>1
      <4>2. CASE c # h
        BY <2>4, <4>2 DEF DecisionsSpentOnce, VerdictIsSpent
      <4> QED
        BY <4>1, <4>2
    <3> QED
      BY <2>2, <3>1 DEF VerdictIsSpent
  <2> QED
    BY <2>2, <2>6 DEF DecisionsSpentOnce, AskedOnce
<1>3. CASE OpenQuestion
  <2>1. PICK h \in Call : h = Here /\ h \in todo
    BY <1>3, HereFacts DEF OpenQuestion, At, Working, TodoOK
  <2>2. PICK z \in Stage : z = stage
    BY DEF TypeOK
  <2>3. /\ pc = "open" /\ round = "none" /\ ops' = ops /\ ran' = ran
        /\ opened' = [opened EXCEPT ![<<h, z>>] = @ + 1]
    BY <1>3, <2>1, <2>2 DEF OpenQuestion, At
  <2>4. /\ opened'[<<h, z>>] = opened[<<h, z>>] + 1
        /\ \A c \in Call, s \in Stage : ~(c = h /\ s = z) => opened'[<<c, s>>] = opened[<<c, s>>]
    BY <1>1, <2>3 DEF Question
  <2>5. desk[<<h, z>>].at = "none" /\ asks[<<h, z>>] = "none" /\ memory[h] = "none"
    <3>1. DeskAt(h, z)
      BY DEF Working, DeskOK
    <3> QED
      BY <2>1, <2>2, <2>3, <3>1 DEF Working, OpenOK, DeskAt, HeldOK, TodoOK
  <2>6. /\ z = "tool" => opened[<<h, z>>] = 0
        /\ z = "authz" => opened[<<h, z>>] <= ops[h].starts
        /\ z = "rerun" => opened[<<h, z>>] < ops[h].starts
    <3>1. z = "rerun" => ops[h].starts > 0
      BY <2>1, <2>2, <2>3 DEF Working, CurrentOK, Asking
    <3> QED
      BY <2>5, <3>1 DEF Working, CountsOK
  <2>7. ops[h].starts \in Nat
    BY <1>1 DEF Facts
  <2>8. ASSUME NEW c \in Call, NEW s \in Stage
        PROVE  /\ s = "tool" => opened'[<<c, s>>] <= 1
               /\ s = "authz" => opened'[<<c, s>>] <= 1 + ops[c].starts
               /\ s = "rerun" => opened'[<<c, s>>] <= ops[c].starts
               /\ opened'[<<c, s>>] >= opened[<<c, s>>] /\ opened'[<<c, s>>] \in Nat
    <3>1. CASE c = h /\ s = z
      BY <1>1, <2>4, <2>6, <2>7, <3>1
    <3>2. CASE ~(c = h /\ s = z)
      <4>1. opened'[<<c, s>>] = opened[<<c, s>>] /\ opened[<<c, s>>] \in Nat
        BY <1>1, <2>4, <3>2
      <4>2. /\ s = "tool" => opened[<<c, s>>] <= 1
            /\ s = "authz" => opened[<<c, s>>] <= 1 + ops[c].starts
            /\ s = "rerun" => opened[<<c, s>>] <= ops[c].starts
        BY DEF DecisionsSpentOnce, AskedOnce
      <4> QED
        BY <4>1, <4>2
    <3> QED
      BY <3>1, <3>2
  <2>9. AskedOnce'
    BY <2>3, <2>8 DEF AskedOnce, Stage
  <2>10. VerdictIsSpent'
    <3>1. ASSUME NEW c \in Call \ (Idempotent \cup Truncated)
        PROVE ran[c] <= 1 + opened'[<<c, "rerun">>]
      <4>1. ran[c] <= 1 + opened[<<c, "rerun">>]
        BY DEF VerdictIsSpent, DecisionsSpentOnce
      <4>2. /\ opened'[<<c, "rerun">>] >= opened[<<c, "rerun">>]
            /\ opened'[<<c, "rerun">>] \in Nat /\ opened[<<c, "rerun">>] \in Nat /\ ran[c] \in Nat
        BY <1>1, <2>8 DEF Stage
      <4> QED
        BY <4>1, <4>2
    <3> QED
      BY <2>3, <3>1 DEF VerdictIsSpent
  <2> QED
    BY <2>9, <2>10 DEF DecisionsSpentOnce
<1>4. CASE Invoke \/ Finish \/ CommitEvents
  <2>1. ran' = ran /\ opened' = opened
    BY <1>4 DEF Invoke, Finish, CommitEvents, history
  <2>2. ASSUME NEW c \in Call
        PROVE  ops'[c].starts >= ops[c].starts /\ ops[c].starts \in Nat /\ ops'[c].starts \in Nat
    <3>1. ops[c].starts \in Nat /\ ahead.ops[c].starts \in Nat
        /\ ahead.ops[c].starts >= ops[c].starts
      BY <1>1 DEF Working, HeldOK, Facts
    <3>2. CASE CommitEvents
      BY <3>1, <3>2 DEF CommitEvents
    <3>3. CASE Invoke
      BY <1>1, <3>1, <3>3 DEF Invoke, Emit, HeldBack, AfterInvoked, Facts
    <3>4. CASE Finish
      BY <1>1, <3>1, <3>4 DEF Finish, Emit, HeldBack, AfterFinished, Facts
    <3> QED
      BY <1>4, <3>2, <3>3, <3>4
  <2>3. AskedOnce'
    <3>1. ASSUME NEW c \in Call
          PROVE  /\ opened[<<c, "tool">>] <= 1
                 /\ opened[<<c, "authz">>] <= 1 + ops'[c].starts
                 /\ opened[<<c, "rerun">>] <= ops'[c].starts
      <4>1. opened[<<c, "authz">>] \in Nat /\ opened[<<c, "rerun">>] \in Nat
        BY <1>1 DEF Stage
      <4>2. /\ opened[<<c, "tool">>] <= 1
            /\ opened[<<c, "authz">>] <= 1 + ops[c].starts
            /\ opened[<<c, "rerun">>] <= ops[c].starts
        BY DEF DecisionsSpentOnce, AskedOnce
      <4> QED
        BY <2>2, <4>1, <4>2
    <3> QED
      BY <2>1, <3>1 DEF AskedOnce
  <2> QED
    BY <2>1, <2>3 DEF DecisionsSpentOnce, VerdictIsSpent
<1>5. CASE ops' = ops /\ ran' = ran /\ opened' = opened
  BY <1>5 DEF DecisionsSpentOnce, AskedOnce, VerdictIsSpent
<1> QED
  BY <1>2, <1>3, <1>4, <1>5
     DEF Next, Step, Human, Backfill, Enter, Review, Authorize, Refuse, Spend,
         ExecuteAsk, Record, Close, Speak, Attach, Evict,
         CommitMemory, Retract, Interrupt, Start, Crash, Decide, Answer, DecideUnconfirmed,
         log, history

\* Every step of a turn that is not over keeps what holds of it.
LEMMA WorkingStep ==
  ASSUME TypeOK, Working, DecisionsSpentOnce, Next, pc' # "over"
  PROVE  Working'
<1>1. AskedOnce /\ VerdictIsSpent
  BY DEF DecisionsSpentOnce
<1>2. ~Speak /\ ~Interrupt
  BY DEF Speak, Interrupt, Goto
<1>3. CASE Step
  BY <1>1, <1>2, <1>3, BackfillStep, EnterStep, ReviewStep, AuthorizeStep, RefuseStep, InvokeStep,
     SpendStep, ExecuteStep, ExecuteAskStep, FinishStep, RecordStep, CloseStep,
     OpenQuestionStep, AttachStep, CommitEventsStep, CommitMemoryStep, StartStep DEF Step
<1>4. CASE Human
  BY <1>4, DecideStep, AnswerStep DEF Human
<1> QED
  BY <1>2, <1>3, <1>4, EvictStep, RetractStep, CrashStep, UnconfirmedStep DEF Next
-------------------------------------------------------------------------------
(***************************************************************************)
(* The theorems                                                            *)
(***************************************************************************)
\* One step keeps the whole invariant.
LEMMA InductiveStep ==
  ASSUME Inductive, [Next]_vars
  PROVE  Inductive'
<1>1. CASE UNCHANGED vars
  <2>1. /\ TypeOK' /\ DecisionsSpentOnce' /\ NoDangling' /\ pc' = pc /\ round' = round
    BY <1>1 DEF Inductive, vars, log, run, history, TypeOK, DecisionsSpentOnce, AskedOnce,
                VerdictIsSpent, NoDangling
  <2>2. ASSUME Working PROVE Working'
    <3>1. /\ UNCHANGED <<log, memory, round, ahead, desk, unsure, history>>
          /\ UNCHANGED <<pc, mode, todo, stage, result>>
          /\ UNCHANGED <<ops, asks, memory, round, ahead, desk, ran, opened>>
          /\ Here' = Here
      BY <1>1 DEF vars, run, log, history, Here
    <3>2. RoundOK' /\ TodoOK' /\ OpenOK' /\ ClosedOK' /\ CurrentOK'
      BY <2>2, <3>1 DEF Working, RoundOK, Snapshot, TodoOK, OpenOK, ClosedOK, CurrentOK, Asking,
          Trusted
    <3> QED
      BY <2>2, <3>1, <3>2, StillOK DEF Working
  <2> QED
    BY <2>1, <2>2 DEF Inductive
<1>2. CASE Next
  <2>1. pc # "over" /\ Working /\ TypeOK /\ DecisionsSpentOnce
    BY <1>2, OverIsOver DEF Inductive
  <2>2. TypeOK' /\ DecisionsSpentOnce'
    BY <1>2, <2>1, TypeStep, DecisionsStep
  <2>3. CASE pc' = "over"
    BY <1>2, <2>1, <2>2, <2>3, EndStep DEF Inductive
  <2>4. CASE pc' # "over"
    BY <1>2, <2>1, <2>2, <2>4, WorkingStep DEF Inductive, NoDangling
  <2> QED
    BY <2>3, <2>4
<1> QED
  BY <1>1, <1>2

\* The invariant behind all that follows holds in every state.
THEOREM InductiveInvariant == Spec => []Inductive
<1>1. Init => Inductive
  BY InitHolds
<1>2. Inductive /\ [Next]_vars => Inductive'
  BY InductiveStep
<1> QED
  BY <1>1, <1>2, PTL DEF Spec

\* Every variable has its type.
THEOREM TypeCorrect == Spec => []TypeOK
<1>1. Inductive => TypeOK
  BY DEF Inductive
<1> QED
  BY <1>1, InductiveInvariant, PTL

\* Whatever crashes, pauses and failed writes: when the model is asked again, every
\* call of the turn has its result.
THEOREM NothingDangles == Spec => []NoDangling
<1>1. Inductive => NoDangling
  BY DEF Inductive
<1> QED
  BY <1>1, InductiveInvariant, PTL

\* What a human decided is neither asked for again nor used twice.
THEOREM DecisionsAreSpentOnce == Spec => []DecisionsSpentOnce
<1>1. Inductive => DecisionsSpentOnce
  BY DEF Inductive
<1> QED
  BY <1>1, InductiveInvariant, PTL

\* A call that needs an approval is invoked only while the approval is in the log.
LEMMA ApprovedStep ==
  ASSUME TypeOK, Working, Next, NEW c \in Gated, ops'[c].starts > ops[c].starts
  PROVE  asks[<<c, "authz">>] = "yes"
<1>1. c \in Call /\ c \notin Asks /\ ahead.ops[c] = ops[c] /\ ops[c] \in Facts
    /\ ops \in [Call -> Facts]
  BY Sets DEF TypeOK, Working, HeldOK
<1>2. ops' # ops
  BY <1>1 DEF Facts
<1>3. CASE Invoke
  <2>1. PICK h \in Call : h = Here /\ h \in todo
    BY <1>3, HereFacts DEF Invoke, At, Working, TodoOK
  <2>2. c = h
    BY <1>1, <1>3, <2>1 DEF Invoke, Emit, HeldBack, Facts
  <2> QED
    BY <1>3, <2>1, <2>2 DEF Invoke, At, Working, CurrentOK
<1>4. CASE Finish
  BY <1>1, <1>4 DEF Finish, Emit, HeldBack, AfterFinished, Facts
<1>5. CASE CommitEvents
  BY <1>1, <1>5 DEF CommitEvents, Facts
<1> QED
  BY <1>2, <1>3, <1>4, <1>5
     DEF Next, Step, Human, Backfill, Enter, Review, Authorize, Refuse, Spend, Execute,
         ExecuteAsk, Record, Close, Speak, Attach, Evict, OpenQuestion,
         CommitMemory, Retract, Interrupt, Start, Crash, Decide, Answer, DecideUnconfirmed,
         log, history

\* After a crash that may have cut it short, a call runs again only with a verdict.
LEMMA ReviewedStep ==
  ASSUME TypeOK, Working, Next, NEW c \in Call \ Idempotent, ran'[c] > ran[c], ran[c] > 0
  PROVE  \/ desk[<<c, "rerun">>].said = "yes"
         \/ c \in Truncated /\ ops[c].result # "none"
<1>1. ran \in [Call -> Nat]
  BY DEF TypeOK
<1>2. Execute
  BY <1>1
     DEF Next, Step, Human, Backfill, Enter, Review, Authorize, Refuse, Invoke, Spend, Finish,
         ExecuteAsk, Record, Close, Speak, Attach, Evict, OpenQuestion, CommitEvents,
         CommitMemory, Retract, Interrupt, Start, Crash, Decide, Answer, DecideUnconfirmed,
         log, history
<1>3. PICK h \in Call : h = Here /\ h \in todo
  BY <1>2, HereFacts DEF Execute, At, Working, TodoOK
<1>4. c = h /\ pc = "run"
  BY <1>1, <1>2, <1>3 DEF Execute, At
<1> QED
  BY <1>1, <1>3, <1>4 DEF Working, CurrentOK, Trusted

\* A result that comes into the conversation is in the log, with the decision it is.
LEMMA ResultStep ==
  ASSUME TypeOK, Working, Next, NEW c \in Call, memory'[c] # memory[c],
         memory'[c] \notin {"refused", "interrupted", "cancelled"}
  PROVE  /\ ops[c].result = memory'[c]
         /\ c \in Asks => asks[<<c, "tool">>] = memory'[c]
<1>1. memory \in [Call -> Result] /\ DeskAt(c, "tool")
  BY DEF TypeOK, Working, DeskOK, Stage
<1>2. CASE Backfill
  <2>1. PICK h \in Call : h = Here /\ h \in todo
    BY <1>2, HereFacts DEF Backfill
  <2>2. /\ c = h /\ memory'[c] = ops[h].result /\ memory[c] = "none"
        /\ ops[h].result # "none" /\ desk[<<h, "tool">>].at = "none"
    BY <1>1, <1>2, <2>1 DEF Backfill, Ingest, Recorded, HeldBack, EventDone, Found
  <2>3. c \in Asks => asks[<<c, "tool">>] \in {"yes", "no"} /\ asks[<<c, "tool">>] = "none"
    BY <1>1, <2>2 DEF Working, LoggedOK, DeskAt
  <2> QED
    BY <2>2, <2>3
<1>3. CASE Record
  <2>1. PICK h \in Call : h = Here /\ h \in todo
    BY <1>3, HereFacts DEF Record, At, Working, TodoOK
  <2>2. /\ pc = "record" /\ round = "none" /\ c = h /\ memory'[c] = result /\ memory[c] = "none"
    BY <1>1, <1>3, <2>1 DEF Record, At, Ingest, Recorded, HeldBack, TypeOK
  <2>3. ahead.ops = ops /\ ahead.ops[h].result = result
    BY <2>1, <2>2 DEF Working, HeldOK, Snapshot, CurrentOK
  <2>4. c \in Asks => result = desk[<<c, "tool">>].said /\ result # "none"
    BY <2>1, <2>2 DEF Working, CurrentOK
  <2>5. c \in Asks => desk[<<c, "tool">>].at = "final"
    <3>1. desk[<<c, "tool">>].at \in {"none", "open", "claimed", "final"}
      BY DEF TypeOK, Question, Stage
    <3> QED
      BY <1>1, <2>2, <2>4, <3>1 DEF DeskAt
  <2>6. c \in Asks => asks[<<c, "tool">>] # "none"
    BY <2>2, <2>5 DEF Working, ClosedOK, Stage
  <2> QED
    BY <1>1, <2>2, <2>3, <2>4, <2>5, <2>6 DEF DeskAt
<1>4. CASE CommitMemory
  <2>1. round = "committing" /\ memory'[c] = ahead.memory[c] /\ ahead.ops = ops
    BY <1>4 DEF CommitMemory, Working, HeldOK
  <2>2. ahead.ops[c].result = ahead.memory[c]
        /\ (c \in Asks => Claimed(<<c, "tool">>) /\ desk[<<c, "tool">>].said = ahead.memory[c])
    BY <2>1 DEF Working, LoggedOK
  <2> QED
    BY <1>1, <2>1, <2>2 DEF DeskAt, Claimed
<1>5. ~Refuse
  <2>1. SUFFICES ASSUME Refuse PROVE FALSE
    OBVIOUS
  <2>2. Here \in Call
    BY <2>1, HereFacts DEF Refuse, At, Working, TodoOK
  <2> QED
    BY <1>1, <2>1, <2>2 DEF Refuse, Ingest, Recorded, HeldBack
<1>6. ~Interrupt
  BY <1>1 DEF Interrupt, Cut
<1> QED
  BY <1>2, <1>3, <1>4, <1>5, <1>6
     DEF Next, Step, Human, Enter, Review, Authorize, Invoke, Spend, Execute, Finish,
         ExecuteAsk, Close, Speak, Attach, Evict, OpenQuestion, CommitEvents,
         Retract, Start, Crash, Decide, Answer, DecideUnconfirmed, log, history

\* Nothing with an effect runs without the decision it needs, and what came of it is
\* in the log before the conversation has it.
THEOREM ExecutionIsGuarded == Spec => GuardedExecution
<1>1. Inductive /\ [Next]_vars =>
        [\A c \in Gated : ops'[c].starts > ops[c].starts => asks[<<c, "authz">>] = "yes"]_vars
  BY ApprovedStep, OverIsOver DEF Inductive
<1>2. Inductive /\ [Next]_vars =>
        [\A c \in Call \ Idempotent :
           ran'[c] > ran[c] /\ ran[c] > 0 =>
             \/ desk[<<c, "rerun">>].said = "yes"
             \/ c \in Truncated /\ ops[c].result # "none"]_vars
  BY ReviewedStep, OverIsOver DEF Inductive
<1>3. Inductive /\ [Next]_vars =>
        [\A c \in Call :
           memory'[c] # memory[c] /\ memory'[c] \notin {"refused", "interrupted", "cancelled"} =>
             /\ ops[c].result = memory'[c]
             /\ c \in Asks => asks[<<c, "tool">>] = memory'[c]]_vars
  BY ResultStep, OverIsOver DEF Inductive
<1>4. Spec => InvokedUnderApproval
  BY <1>1, InductiveInvariant, PTL DEF Spec, InvokedUnderApproval
<1>5. Spec => NoUnreviewedRerun
  BY <1>2, InductiveInvariant, PTL DEF Spec, NoUnreviewedRerun
<1>6. Spec => ResultIsLogged
  BY <1>3, InductiveInvariant, PTL DEF Spec, ResultIsLogged
<1> QED
  BY <1>4, <1>5, <1>6 DEF GuardedExecution
================================================================================
