-------------------------- MODULE TurnLoopProofs --------------------------
(***************************************************************************)
(* What the turn loop promises, for every number of turns, calls,          *)
(* questions, executions, stops and failing writes: the safety properties  *)
(* of TurnLoop.  The invariant comes in four parts, each proved on top of  *)
(* the ones before it: the numbering of the questions in the journal, the  *)
(* delivery of late answers, the shape of the conversation, and what the   *)
(* conversation says of the calls that ran.                                *)
(***************************************************************************)
EXTENDS TurnLoop, InductionFacts, SequenceTheorems, FiniteSetTheorems

Ended == {"ending", "ended"}
Opening == {"settling", "settled", "starting", "folding", "folded", "loaded"}
InLoop == {"marking", "dispatching", "asking", "answered", "dispatched"}
BesideLoop == {"precall", "calling", "posting", "posted", "checking", "boundary", "steer",
               "parked", "collecting", "clearing"}
Talking == InLoop \cup BesideLoop
Polling == {"collecting", "clearing"}

Number == 0 .. MaxQuestion
RowSet == [type : {"start", "resume", "end", "prompt", "answer"}, id : Number,
           source : {"", "model", "agent6", "operator", "late"}]

-----------------------------------------------------------------------------
(* The numbering of the questions.                                         *)

\* Before its first execution a run has nothing.
Fresh ==
    /\ executions \in Nat
    /\ executions = 0 =>
          pc = "down" /\ events = <<>> /\ marker = NoMarker /\ ran = {} /\ snap = NoSnap

\* No execution is open at the end of the journal.
Outside == Between(Len(events) + 1)

\* Every question of the model was asked inside an execution, and no later prompt
\* took its number; a late answer is an answer to a question.
Journaled ==
    /\ events \in Seq(RowSet)
    /\ \A i \in PromptRows : events[i].source = "model" => i \in LastPrompts /\ ~Between(i)
    /\ LateRows \subseteq LateIds

Numbered ==
    /\ Journaled
    /\ pc \in {"down"} \cup Ended \cup Opening \cup Talking
    /\ next \in 1 .. (MaxQuestion + 1) /\ asking \in Number
    /\ pc \in Opening \cup Talking => \A q \in AskedIds : q < next
    /\ pc \in Talking \cup Ended => ~Outside
    /\ pending \subseteq AskedIds /\ poll.left \subseteq pending
    /\ poll \in [for : {"nobody", "opening", "steer", "parked", "finishing"},
                 left : SUBSET Number, took : SUBSET Number]
    /\ pc \in Polling => poll.for # "nobody"
    /\ pc \notin Polling => poll = NoPoll
    /\ undelivered \subseteq Number
    /\ pc = "clearing" => poll.left # {} /\ Peeked \in LateRows

-----------------------------------------------------------------------------
(* The delivery of late answers.                                           *)

AnswerIds(c) == {c[i].id : i \in Items(c, "answer")}
Once(c) == \A i, k \in Items(c, "answer") : c[i].id = c[k].id => i = k

\* The answer journaled whose file is still there.
Taking == IF pc = "clearing" THEN {Peeked} ELSE {}

Delivering ==
    /\ snap.delivered = AnswerIds(snap.conv) /\ Once(snap.conv) /\ snap.delivered \subseteq LateRows
    /\ pc \in {"down"} \cup Ended =>
          conv = <<>> /\ delivered = {} /\ undelivered = {} /\ pending = {}
    /\ pc \in Opening =>
          /\ conv = <<>> /\ delivered = {} /\ undelivered = LateRows \ snap.delivered
          /\ pending \cap LateRows = {}
    /\ pc = "starting" => snap = NoSnap
    /\ pc \in Talking =>
          /\ delivered = AnswerIds(conv) /\ Once(conv)
          /\ LateRows = delivered \cup poll.took \cup Taking
          /\ delivered \cap poll.took = {} /\ undelivered = {}
          /\ pending \cap LateRows = Taking /\ Taking \cap (delivered \cup poll.took) = {}

Hearing ==
    /\ pc \in {"calling", "posted", "checking"} \cup InLoop => LateRows \subseteq heard
    /\ pc = "posting" /\ calls # <<>> => LateRows \subseteq heard
    /\ pc \in Polling /\ poll.for = "finishing" => LateRows \subseteq heard \cup poll.took \cup Taking
    /\ pc \in Polling /\ poll.for = "parked" => calls = <<>>
    /\ pc \in {"parked", "calling"} => calls = <<>> 
    /\ FinishHearsAnswers

-----------------------------------------------------------------------------
(* The shape of the conversation.                                          *)

ItemSet == [kind : {"call", "result", "answer"}, id : Nat,
            word : {"asked", "late", "returned", "skipped", "interrupted"}]
Call == [id : Nat, kind : CallKind]
Outcome == {"returned", "skipped"}

Ids(c) == {c[i].id : i \in Items(c, "call")} \cup {c[i].id : i \in Items(c, "result")}
Distinct(cs) == \A i, k \in DOMAIN cs : cs[i].id = cs[k].id => i = k

Matched(c) ==
    /\ \A i \in Items(c, "call") : \E j \in Items(c, "result") :
          /\ c[j].id = c[i].id /\ i < j
          /\ \A k \in i .. j : c[k].kind \in {"call", "result"}
    /\ \A j, k \in Items(c, "result") : c[j].id = c[k].id => j = k
    /\ \A j \in Items(c, "result") : c[j].id \in {c[i].id : i \in Items(c, "call")}

Typed ==
    /\ conv \in Seq(ItemSet) /\ calls \in Seq(Call) /\ results \in Seq(Outcome)
    /\ snap \in [turn : Nat, conv : Seq(ItemSet), delivered : SUBSET Number]
    /\ marker \in [turn : Nat, calls : Seq(Call), results : Seq(Outcome)]
    /\ delivered \subseteq Number
    /\ turn \in Nat /\ minted \in Nat
    /\ Len(results) <= Len(calls) /\ Len(marker.results) <= Len(marker.calls)
    /\ pc \in {"dispatching", "asking", "answered"} => Len(results) < Len(calls)
    /\ pc = "dispatched" => Len(results) = Len(calls)
    /\ pc = "calling" => calls = <<>> /\ results = <<>>
    /\ pc \in {"down"} \cup Ended \cup Opening => conv = <<>> /\ calls = <<>> /\ results = <<>>
    /\ {stale, finish} \subseteq BOOLEAN

Turns ==
    /\ snap # NoSnap => snap.turn >= 1
    /\ pc \in {"folding", "folded", "loaded"} => snap # NoSnap
    /\ pc \in Opening /\ snap = NoSnap => marker = NoMarker
    /\ pc = "starting" => snap = NoSnap
    /\ pc = "loaded" => marker = NoMarker
    /\ pc \in Talking => turn >= 1 /\ marker.turn <= turn
    /\ pc \in {"precall", "calling"} => marker.turn < turn
    /\ pc \in Polling /\ poll.for = "opening" => marker.turn < turn

\* The conversation ends in the calls of this turn.
Hanging ==
    \E n \in 0 .. Len(conv) :
       LET base == SubSeq(conv, 1, n)
       IN  conv = base \o Asked(calls) /\ Matched(base) /\ Ids(base) \cap Turn = {}

Shaped ==
    /\ Ids(conv) \cup Ids(snap.conv) \cup Turn \cup CallIds(marker.calls) \subseteq 1 .. minted
    /\ Matched(snap.conv)
    /\ Distinct(calls) /\ Distinct(marker.calls)
    /\ marker.turn = snap.turn => CallIds(marker.calls) \cap Ids(snap.conv) = {}
    /\ pc \notin InLoop => Matched(conv)
    /\ pc \in InLoop => Hanging /\ Turn \cap Ids(snap.conv) = {}

-----------------------------------------------------------------------------
(* What the conversation says of the calls that ran.                       *)

ResultIds(c) == {c[i].id : i \in Items(c, "result")}
Counted == ran \ excused

\* What the next execution tells results of.
Recoverable == ResultIds(snap.conv) \cup (IF Interrupted THEN CallIds(marker.calls) ELSE {})

InTurn == pc \in InLoop \/ (pc = "posting" /\ calls # <<>>)
Marked == marker.turn = turn /\ marker.calls = calls

\* A word fits a call, by what was executed and what the marker had of it.
Fits(executed, recorded, id, word) ==
    /\ word = "skipped" => id \notin executed
    /\ word = "returned" => id \in executed
    /\ word = "interrupted" => id \notin recorded

HonestWord(id, word) == Fits(ran, noted, id, word)
Honest(c) == \A j \in Items(c, "result") : HonestWord(c[j].id, c[j].word)

Remembered ==
    /\ ran \cup noted \subseteq 1 .. minted
    /\ Counted \subseteq Recoverable
    /\ pc \in {"folded", "loaded"} \cup Ended => Counted \subseteq ResultIds(snap.conv)
    /\ pc \in BesideLoop => Counted \subseteq ResultIds(conv)
    /\ pc \in BesideLoop /\ ~InTurn => Counted \subseteq ResultIds(snap.conv)
    /\ InTurn =>
          /\ Counted \subseteq ResultIds(snap.conv) \cup Turn
          /\ Counted \cap Turn # {} => Marked /\ snap.turn = turn
    /\ pc \in InLoop => Counted \subseteq ResultIds(conv) \cup Turn
    /\ pc \in {"calling"} \cup InLoop /\ ~stale => snap.turn = turn
    /\ pc \in InLoop \ {"marking"} => Marked \/ Turn \subseteq excused

Spoken ==
    /\ Honest(conv) /\ Honest(snap.conv)
    /\ \A i \in DOMAIN results : HonestWord(calls[i].id, results[i])
    /\ \A i \in DOMAIN marker.results : HonestWord(marker.calls[i].id, marker.results[i])
    /\ \A i \in DOMAIN marker.calls : marker.calls[i].id \in noted => i \in DOMAIN marker.results
    /\ pc \in InLoop =>
          /\ \A i \in DOMAIN calls : calls[i].id \in noted => i \in DOMAIN results
          /\ \A i \in DOMAIN calls : calls[i].id \in ran =>
                i <= Len(results) + (IF pc \in {"asking", "answered"} THEN 1 ELSE 0)
          /\ \/ marker.calls = calls /\ Len(marker.results) <= Len(results)
             \/ CallIds(marker.calls) \cap Turn = {}
    /\ pc \in {"asking", "answered"} => calls[Len(results) + 1].id \in ran
-----------------------------------------------------------------------------
(* The journal, one row longer.                                            *)

\* The bounds are numbers.
LEMMA Bounds == MaxTurns \in Nat /\ MaxCalls \in Nat /\ MaxQuestion \in Nat /\ MaxExecutions \in Nat
BY BoundsAssumption

\* No question is a number, too.
LEMMA NoQuestionIsNumber == NoQuestion \in Number
BY Bounds DEF NoQuestion, Number

\* What is read off the journal changes only when the journal does.
LEMMA SameJournal ==
  ASSUME UNCHANGED events
  PROVE  /\ PromptRows' = PromptRows /\ LastPrompts' = LastPrompts /\ AskedIds' = AskedIds
         /\ LateIds' = LateIds /\ LateRows' = LateRows /\ Outside' = Outside
         /\ \A i : Between(i)' = Between(i)
BY DEF PromptRows, LastPrompts, AskedIds, LateIds, LateRows, Outside, Between, AnsweredBy

\* `Log` adds one row after the others.
LEMMA Logged ==
  ASSUME events \in Seq(RowSet), NEW row \in RowSet, Log(row)
  PROVE  /\ events' \in Seq(RowSet) /\ Len(events) \in Nat /\ Len(events') = Len(events) + 1
         /\ DOMAIN events = 1 .. Len(events) /\ DOMAIN events' = 1 .. (Len(events) + 1)
         /\ \A i \in DOMAIN events : events'[i] = events[i]
         /\ events'[Len(events) + 1] = row
BY DEF Log

\* The greatest of a set of positions is one of them, and no other is greater.
LEMMA MostIs ==
  ASSUME NEW n \in Nat, NEW S, S \subseteq 0 .. n, S # {}
  PROVE  Most(S) \in S /\ \A p \in S : p <= Most(S)
<1>1. \E q \in S : \A p \in S : p <= q
  BY GreatestElement
<1> QED BY <1>1 DEF Most

\* Whether an execution was open at a row does not depend on later rows.
LEMMA LoggedBetween ==
  ASSUME events \in Seq(RowSet), NEW row \in RowSet, Log(row), NEW n \in 1 .. (Len(events) + 1)
  PROVE  Between(n)' <=> Between(n)
<1> DEFINE B == {i \in 1 .. (n - 1) : events[i].type \in {"start", "resume", "end"}}
           C == {i \in 1 .. (n - 1) : events'[i].type \in {"start", "resume", "end"}}
<1>1. \A i \in 1 .. (n - 1) : events'[i] = events[i]
  BY Logged
<1>2. B = C
  BY <1>1
<1>3. B # {} => Most(B) \in 1 .. (n - 1)
  <2>1. n - 1 \in Nat /\ B \subseteq 0 .. (n - 1) /\ B \subseteq 1 .. (n - 1)
    BY Logged
  <2> HIDE DEF B
  <2> QED BY <2>1, MostIs
<1>4. Between(n) <=> B = {} \/ events[Most(B)].type = "end"
  BY DEF Between
<1>5. Between(n)' <=> C = {} \/ events'[Most(C)].type = "end"
  BY DEF Between
<1> HIDE DEF B, C
<1> QED BY <1>1, <1>2, <1>3, <1>4, <1>5

\* Opening an execution opens it, and what is neither start nor end leaves it so.
LEMMA LoggedOutside ==
  ASSUME events \in Seq(RowSet), NEW row \in RowSet, Log(row)
  PROVE  /\ row.type \in {"start", "resume"} => ~Outside'
         /\ row.type \in {"prompt", "answer"} => (Outside' <=> Outside)
<1> DEFINE n == Len(events)
           B == {i \in 1 .. n : events[i].type \in {"start", "resume", "end"}}
           C == {i \in 1 .. (n + 1) : events'[i].type \in {"start", "resume", "end"}}
<1>1. /\ n \in Nat /\ \A i \in 1 .. n : events'[i] = events[i]
      /\ events'[n + 1] = row /\ Len(events') = n + 1
  BY Logged
<1>2. Outside <=> B = {} \/ events[Most(B)].type = "end"
  <2>1. 1 .. ((n + 1) - 1) = 1 .. n
    BY <1>1
  <2> QED BY <2>1 DEF Outside, Between
<1>3. Outside' <=> C = {} \/ events'[Most(C)].type = "end"
  <2>1. 1 .. ((Len(events') + 1) - 1) = 1 .. (n + 1)
    BY <1>1
  <2> QED BY <2>1 DEF Outside, Between
<1>4. ASSUME row.type \in {"start", "resume"} PROVE ~Outside'
  <2>1. n + 1 \in C /\ C \subseteq 0 .. (n + 1) /\ n + 1 \in Nat
    BY <1>1, <1>4
  <2>2. Most(C) \in C /\ n + 1 <= Most(C)
    <3> HIDE DEF C
    <3> QED BY <2>1, MostIs
  <2>3. Most(C) = n + 1
    BY <1>1, <2>1, <2>2
  <2> QED BY <1>1, <1>3, <1>4, <2>1, <2>3
<1>5. ASSUME row.type \in {"prompt", "answer"} PROVE Outside' <=> Outside
  <2>1. B = C
    BY <1>1, <1>5
  <2>2. B # {} => Most(B) \in 1 .. n
    <3>1. B \subseteq 0 .. n /\ B \subseteq 1 .. n
      BY <1>1
    <3> HIDE DEF B
    <3> QED BY <1>1, <3>1, MostIs
  <2> HIDE DEF B, C
  <2> QED BY <1>1, <1>2, <1>3, <2>1, <2>2
<1> QED BY <1>4, <1>5

\* A row that is no prompt leaves the questions as they are; a late answer to one
\* of them is a late answer, any other row is none.
LEMMA LoggedOther ==
  ASSUME events \in Seq(RowSet), NEW row \in RowSet, Log(row), row.type # "prompt"
  PROVE  /\ PromptRows' = PromptRows /\ LastPrompts' = LastPrompts /\ AskedIds' = AskedIds
         /\ LateIds \subseteq LateIds'
         /\ LateRows' = LateRows \cup
               (IF row.type = "answer" /\ row.source = "late" THEN {row.id} ELSE {})
         /\ row.type = "answer" /\ row.source = "late" /\ row.id \in AskedIds => row.id \in LateIds'
<1>1. /\ Len(events) \in Nat /\ \A i \in DOMAIN events : events'[i] = events[i]
      /\ DOMAIN events = 1 .. Len(events) /\ DOMAIN events' = 1 .. (Len(events) + 1)
      /\ events'[Len(events) + 1] = row
  BY Logged
<1>2. PromptRows' = PromptRows
  BY <1>1 DEF PromptRows
<1>3. LastPrompts' = LastPrompts
  <2>1. \A i \in PromptRows : events'[i] = events[i]
    BY <1>1 DEF PromptRows
  <2> QED BY <1>2, <2>1 DEF LastPrompts
<1>4. \A i \in LastPrompts : i \in DOMAIN events /\ events'[i] = events[i] /\ (Between(i)' <=> Between(i))
  <2>1. \A i \in LastPrompts : i \in DOMAIN events
    BY DEF LastPrompts, PromptRows
  <2>2. \A i \in DOMAIN events : i \in 1 .. (Len(events) + 1)
    BY <1>1
  <2>3. \A i \in DOMAIN events : Between(i)' <=> Between(i)
    BY <2>2, LoggedBetween
  <2> QED BY <1>1, <2>1, <2>3
<1>5. AskedIds' = AskedIds
  BY <1>3, <1>4 DEF AskedIds
<1>6. LateIds \subseteq LateIds'
  <2> SUFFICES ASSUME NEW q \in LateIds PROVE q \in LateIds'
    OBVIOUS
  <2>1. PICK i \in LastPrompts, k \in DOMAIN events :
           /\ events[i].id = q /\ k > i
           /\ events[k].type = "answer" /\ events[k].id = q /\ events[k].source \in {"late"}
    BY DEF LateIds, AnsweredBy
  <2>2. q \in AskedIds'
    BY <1>5 DEF LateIds
  <2>3. i \in LastPrompts' /\ events'[i].id = q /\ k \in DOMAIN events' /\ events'[k] = events[k]
    BY <1>1, <1>3, <1>4, <2>1
  <2> QED BY <2>1, <2>2, <2>3 DEF LateIds, AnsweredBy
<1>7. LateRows' = LateRows \cup
               (IF row.type = "answer" /\ row.source = "late" THEN {row.id} ELSE {})
  BY <1>1 DEF LateRows
<1>8. ASSUME row.type = "answer", row.source = "late", row.id \in AskedIds PROVE row.id \in LateIds'
  <2>1. PICK i \in LastPrompts : events[i].id = row.id
    BY <1>8 DEF AskedIds
  <2>2. /\ i \in LastPrompts' /\ events'[i].id = row.id /\ Len(events) + 1 \in DOMAIN events'
        /\ Len(events) + 1 > i
    BY <1>1, <1>3, <1>4, <2>1
  <2> QED BY <1>1, <1>5, <1>8, <2>2 DEF LateIds, AnsweredBy
<1> QED BY <1>2, <1>3, <1>5, <1>6, <1>7, <1>8

\* The prompt of a number no question has: it is a question when an execution is
\* open, and the others stay as they are.
LEMMA LoggedPrompt ==
  ASSUME events \in Seq(RowSet), NEW row \in RowSet, Log(row), row.type = "prompt",
         row.id \notin AskedIds
  PROVE  /\ PromptRows' = PromptRows \cup {Len(events) + 1}
         /\ LastPrompts' = {i \in LastPrompts : events[i].id # row.id} \cup {Len(events) + 1}
         /\ AskedIds' = AskedIds \cup (IF Outside THEN {} ELSE {row.id})
         /\ LateIds \subseteq LateIds'
         /\ LateRows' = LateRows
<1>1. /\ Len(events) \in Nat /\ \A i \in DOMAIN events : events'[i] = events[i]
      /\ DOMAIN events = 1 .. Len(events) /\ DOMAIN events' = 1 .. (Len(events) + 1)
      /\ events'[Len(events) + 1] = row
  BY Logged
<1>2. PromptRows' = PromptRows \cup {Len(events) + 1}
  BY <1>1 DEF PromptRows
<1>3. LastPrompts' = {i \in LastPrompts : events[i].id # row.id} \cup {Len(events) + 1}
  <2>1. \A i \in PromptRows : i \in 1 .. Len(events) /\ events'[i] = events[i]
    BY <1>1 DEF PromptRows
  <2>2. LastPrompts' = {i \in PromptRows' : \A k \in PromptRows' : events'[k].id = events'[i].id => k <= i}
    BY DEF LastPrompts
  <2>3. Len(events) + 1 \in LastPrompts'
    BY <1>1, <1>2, <2>1, <2>2
  <2>4. \A i \in PromptRows : i \in LastPrompts' <=> i \in LastPrompts /\ events[i].id # row.id
    BY <1>1, <1>2, <2>1, <2>2 DEF LastPrompts
  <2>5. LastPrompts' \subseteq PromptRows' /\ LastPrompts \subseteq PromptRows
    BY <2>2 DEF LastPrompts
  <2> QED BY <1>2, <2>3, <2>4, <2>5
<1>4. \A i \in DOMAIN events : events'[i] = events[i] /\ (Between(i)' <=> Between(i))
  <2>1. \A i \in DOMAIN events : i \in 1 .. (Len(events) + 1)
    BY <1>1
  <2> QED BY <1>1, <2>1, LoggedBetween
<1> DEFINE n == Len(events) + 1
<1>5. LastPrompts \subseteq DOMAIN events /\ n \notin DOMAIN events
  BY <1>1 DEF LastPrompts, PromptRows
<1>6. \A i \in LastPrompts' : IF i = n THEN ~Between(i)' <=> ~Outside ELSE ~Between(i)' <=> ~Between(i)
  <2>1. ASSUME NEW i, i = n PROVE Between(i)' <=> Outside
    <3>1. i \in 1 .. (Len(events) + 1)
      BY <1>1, <2>1
    <3>2. Between(i)' <=> Between(i)
      BY <3>1, LoggedBetween
    <3> QED BY <2>1, <3>2 DEF Outside
  <2>2. \A i \in LastPrompts' : i # n => i \in DOMAIN events
    BY <1>3, <1>5
  <2> QED BY <1>4, <2>1, <2>2
<1>7. AskedIds' = {events'[i].id : i \in {k \in LastPrompts' : ~Between(k)'}}
  BY DEF AskedIds
<1>8. AskedIds' = AskedIds \cup (IF Outside THEN {} ELSE {row.id})
  <2>1. ASSUME NEW q \in AskedIds' PROVE q \in AskedIds \cup (IF Outside THEN {} ELSE {row.id})
    <3>1. PICK i \in LastPrompts' : ~Between(i)' /\ events'[i].id = q
      BY <1>7
    <3>2. CASE i = n
      BY <1>1, <1>6, <3>1, <3>2
    <3>3. CASE i # n
      <4>1. i \in LastPrompts /\ ~Between(i) /\ events[i].id = q
        BY <1>3, <1>4, <1>5, <1>6, <3>1, <3>3
      <4> QED BY <4>1 DEF AskedIds
    <3> QED BY <3>2, <3>3
  <2>2. ASSUME NEW q \in AskedIds PROVE q \in AskedIds'
    <3>1. PICK i \in LastPrompts : ~Between(i) /\ events[i].id = q
      BY DEF AskedIds
    <3>2. i \in LastPrompts' /\ i # n /\ events'[i].id = q
      BY <1>3, <1>4, <1>5, <3>1
    <3> QED BY <1>6, <1>7, <3>1, <3>2
  <2>3. ~Outside => row.id \in AskedIds'
    BY <1>1, <1>3, <1>6, <1>7
  <2> QED BY <2>1, <2>2, <2>3
<1>9. LateIds \subseteq LateIds'
  <2> SUFFICES ASSUME NEW q \in LateIds PROVE q \in LateIds'
    OBVIOUS
  <2>1. PICK i \in LastPrompts, k \in DOMAIN events :
           /\ events[i].id = q /\ k > i
           /\ events[k].type = "answer" /\ events[k].id = q /\ events[k].source \in {"late"}
    BY DEF LateIds, AnsweredBy
  <2>2. q \in AskedIds /\ q \in AskedIds' /\ q # row.id
    BY <1>8 DEF LateIds
  <2>3. i \in LastPrompts' /\ events'[i].id = q /\ k \in DOMAIN events' /\ events'[k] = events[k]
    BY <1>1, <1>3, <1>4, <1>5, <2>1, <2>2
  <2> QED BY <2>1, <2>2, <2>3 DEF LateIds, AnsweredBy
<1>10. LateRows' = LateRows
  BY <1>1 DEF LateRows
<1> QED BY <1>2, <1>3, <1>8, <1>9, <1>10

\* The questions have numbers the bound allows, and the next number is none of theirs.
LEMMA NextIsNew ==
  ASSUME events \in Seq(RowSet)
  PROVE  /\ AskedIds \subseteq Number /\ CarriedPending \subseteq AskedIds
         /\ LateIds \subseteq AskedIds /\ LateIds \subseteq LateRows /\ LateRows \subseteq Number
         /\ CarriedPending \cap LateIds = {}
         /\ NextNumber \in 1 .. (MaxQuestion + 1)
         /\ \A q \in AskedIds : q < NextNumber
<1>1. \A i \in DOMAIN events : events[i] \in RowSet
  OBVIOUS
<1>2. LastPrompts \subseteq DOMAIN events
  BY DEF LastPrompts, PromptRows
<1>3. AskedIds \subseteq Number
  BY <1>1, <1>2 DEF AskedIds, RowSet
<1>4. LateRows \subseteq Number
  BY <1>1 DEF LateRows, RowSet
<1>5. LateIds \subseteq LateRows
  BY DEF LateIds, AnsweredBy, LateRows
<1>6. Most(AskedIds \cup {0}) \in Number /\ \A q \in AskedIds : q <= Most(AskedIds \cup {0})
  <2>1. AskedIds \cup {0} \subseteq 0 .. MaxQuestion /\ AskedIds \cup {0} # {}
    BY <1>3, Bounds DEF Number
  <2>2. Most(AskedIds \cup {0}) \in AskedIds \cup {0} /\ \A q \in AskedIds \cup {0} : q <= Most(AskedIds \cup {0})
    BY <2>1, Bounds, MostIs
  <2> QED BY <2>1, <2>2 DEF Number
<1>7. NextNumber \in 1 .. (MaxQuestion + 1) /\ \A q \in AskedIds : q < NextNumber
  <2> DEFINE m == Most(AskedIds \cup {0})
  <2>1. NextNumber = 1 + m
    BY DEF NextNumber
  <2>2. m \in Number /\ \A q \in AskedIds : q <= m
    BY <1>6
  <2>3. \A q \in AskedIds : q \in Nat
    BY <1>3, Bounds DEF Number
  <2> HIDE DEF m
  <2> QED BY <2>1, <2>2, <2>3, Bounds DEF Number
<1>8. CarriedPending \cap LateIds = {}
  <2>1. ASSUME NEW q \in LateIds PROVE AnsweredBy(q, Source)
    <3>1. AnsweredBy(q, {"late"})
      BY DEF LateIds
    <3> QED BY <3>1 DEF AnsweredBy, Source
  <2> QED BY <2>1 DEF CarriedPending
<1> QED BY <1>3, <1>4, <1>5, <1>7, <1>8 DEF CarriedPending, LateIds

USE DEF files, talk, prompts, process, ghosts

\* A row that is no prompt, and answers late only what was asked.
LEMMA JournaledOther ==
  ASSUME Journaled, NEW row \in RowSet, Log(row), row.type # "prompt",
         row.type = "answer" /\ row.source = "late" => row.id \in AskedIds
  PROVE  Journaled'
<1>0. events \in Seq(RowSet)
  BY DEF Journaled
<1>1. /\ PromptRows' = PromptRows /\ LastPrompts' = LastPrompts /\ LateIds \subseteq LateIds'
      /\ LateRows' = LateRows \cup
            (IF row.type = "answer" /\ row.source = "late" THEN {row.id} ELSE {})
      /\ row.type = "answer" /\ row.source = "late" /\ row.id \in AskedIds => row.id \in LateIds'
  BY <1>0, LoggedOther
<1>2. LateRows' \subseteq LateIds'
  BY <1>1 DEF Journaled
<1>3. \A i \in DOMAIN events : events'[i] = events[i] /\ (Between(i)' <=> Between(i))
  <2>1. \A i \in DOMAIN events : i \in 1 .. (Len(events) + 1)
    BY <1>0
  <2>2. \A n \in 1 .. (Len(events) + 1) : Between(n)' <=> Between(n)
    BY <1>0, LoggedBetween
  <2> QED BY <1>0, <2>1, <2>2, Logged
<1>4. PromptRows \subseteq DOMAIN events
  BY DEF PromptRows
<1>5. \A i \in PromptRows' : events'[i].source = "model" => i \in LastPrompts' /\ ~Between(i)'
  BY <1>1, <1>3, <1>4 DEF Journaled
<1>6. events' \in Seq(RowSet)
  BY <1>0, Logged
<1> QED BY <1>2, <1>5, <1>6 DEF Journaled

\* A prompt under a number above all questions, the model's inside an execution.
LEMMA JournaledPrompt ==
  ASSUME Journaled, NEW row \in RowSet, Log(row), row.type = "prompt",
         row.id \notin AskedIds, row.source = "model" => ~Outside
  PROVE  Journaled'
<1>0. events \in Seq(RowSet)
  BY DEF Journaled
<1>1. /\ PromptRows' = PromptRows \cup {Len(events) + 1}
      /\ LastPrompts' = {i \in LastPrompts : events[i].id # row.id} \cup {Len(events) + 1}
      /\ LateIds \subseteq LateIds' /\ LateRows' = LateRows
  BY <1>0, LoggedPrompt
<1>2. LateRows' \subseteq LateIds'
  BY <1>1 DEF Journaled
<1>3. /\ \A i \in DOMAIN events : events'[i] = events[i]
      /\ \A i \in 1 .. (Len(events) + 1) : Between(i)' <=> Between(i)
      /\ events'[Len(events) + 1] = row /\ Len(events) \in Nat /\ DOMAIN events = 1 .. Len(events)
  BY <1>0, Logged, LoggedBetween
<1>4. ASSUME NEW i \in PromptRows', events'[i].source = "model"
      PROVE  i \in LastPrompts' /\ ~Between(i)'
  <2>1. CASE i = Len(events) + 1
    <3>1. i \in 1 .. (Len(events) + 1)
      BY <1>3, <2>1
    <3>2. ~Between(i)
      BY <1>3, <1>4, <2>1 DEF Outside
    <3>3. ~Between(i)'
      BY <1>3, <3>1, <3>2
    <3> QED BY <1>1, <2>1, <3>3
  <2>2. CASE i # Len(events) + 1
    <3>1. i \in PromptRows /\ i \in DOMAIN events
      BY <1>1, <2>2 DEF PromptRows
    <3>2. events[i].source = "model" /\ i \in 1 .. (Len(events) + 1)
      BY <1>3, <1>4, <3>1
    <3>3. i \in LastPrompts /\ ~Between(i)
      BY <3>1, <3>2 DEF Journaled
    <3>4. events[i].id \in AskedIds
      BY <3>3 DEF AskedIds
    <3> QED BY <1>1, <1>3, <3>2, <3>3, <3>4
  <2> QED BY <2>1, <2>2
<1>5. events' \in Seq(RowSet)
  BY <1>0, Logged
<1> QED BY <1>2, <1>4, <1>5 DEF Journaled

-----------------------------------------------------------------------------
(* The numbering holds.                                                    *)

\* Who is down only begins, resumes or has questions answered.
LEMMA Alive ==
  ASSUME Next
  PROVE  \/ Begin \/ Resume \/ \E q \in Question : Answer(q)
         \/ pc # "down" /\ UNCHANGED executions
<1>1. ASSUME Calling PROVE pc # "down" /\ UNCHANGED executions
  BY <1>1 DEF Calling, PreCall, EndMaxTurns, EndBeforeCall, RespondQuietly, EndQuietly, EndCall,
        CutCall, Respond, EndWith
<1>2. ASSUME Dispatch PROVE pc # "down" /\ UNCHANGED executions
  BY <1>2 DEF Dispatch, MarkTurn, Skip, Work, Finish, Queue, Ask, EndUnexecutable, ConsumeAnswer,
        TakeAnswer, GiveUpWaiting, EndWait, EndWith, Dispatching
<1>3. ASSUME Closing PROVE pc # "down" /\ UNCHANGED executions
  BY <1>3 DEF Closing, EndBeforeResults, JudgeTurn, PostTurn, ClearMarker, EndStopped, CheckStops,
        StopAt, OperatorBoundary, NextTurn, EndAtSteer, PollParked, DropMarker, EmitEnd, EndWith
<1>4. ASSUME Collecting PROVE pc # "down" /\ UNCHANGED executions
  BY <1>4 DEF Collecting, PeekNothing, JournalLateAnswer, ClearAnswer, Deliver, EndFinished, Polled,
        EndWith
<1>5. ASSUME Resuming \/ CancelSettle PROVE pc # "down" /\ UNCHANGED executions
  BY <1>5 DEF Resuming, Start, NothingToSettle, AnswerSettle, CancelSettle, CloseSettle,
        FoldInterruptedTurn, DropFolded, OpenResumed
<1>6. ASSUME RequestStop \/ LeaveUnanswered \/ Unpark \/ AskSettle \/ Crash
      PROVE  pc # "down" /\ UNCHANGED executions
  BY <1>6 DEF RequestStop, LeaveUnanswered, EndWait, Unpark, AskSettle, Crash
<1> QED BY <1>1, <1>2, <1>3, <1>4, <1>5, <1>6 DEF Next, Drive, Operator

\* Before its first execution a run has nothing.
LEMMA FreshInvariance == Spec => []Fresh
<1>1. Init => Fresh
  BY DEF Init, Fresh
<1>2. Fresh /\ [Next]_vars => Fresh'
  <2> SUFFICES ASSUME Fresh, [Next]_vars PROVE Fresh'
    OBVIOUS
  <2>1. CASE UNCHANGED vars
    BY <2>1 DEF Fresh, vars
  <2>2. CASE Begin
    BY <2>2 DEF Begin, Fresh
  <2>3. CASE Resume
    BY <2>3 DEF Resume, Fresh
  <2>4. ASSUME NEW q \in Question, Answer(q) PROVE Fresh'
    <3>1. events # <<>>
      BY <2>4 DEF Answer, PromptRows
    <3> QED BY <2>4, <3>1 DEF Answer, Fresh
  <2>5. CASE pc # "down" /\ UNCHANGED executions
    BY <2>5 DEF Fresh
  <2> QED BY <2>1, <2>2, <2>3, <2>4, <2>5, Alive
<1> QED BY <1>1, <1>2, PTL DEF Spec

\* A step that leaves the journal and the questions alone, and opens nothing.
LEMMA NumberedFrame ==
  ASSUME Numbered, UNCHANGED <<events, next, asking, pending, undelivered, poll>>,
         pc' \in Opening \cup Talking \cup Ended,
         pc' \in Opening \cup Talking => pc \in Opening \cup Talking,
         pc' \in Talking \cup Ended => pc \in Talking \cup Ended,
         pc' \in Polling => pc = pc', pc \in Polling => pc = pc'
  PROVE  Numbered'
<1>1. UNCHANGED <<AskedIds, LateRows, LateIds, Outside>> /\ Journaled' = Journaled
  BY SameJournal DEF Journaled
<1>2. Peeked' = Peeked
  BY DEF Peeked
<1> QED BY <1>1, <1>2 DEF Numbered, Polling

\* Forgetting keeps the journal.
LEMMA NumberedForget ==
  ASSUME Numbered, Forget, Journaled', pc' \in {"down"} \cup Ended, pc' \in Ended => ~Outside'
  PROVE  Numbered'
<1>1. pc' \notin Opening \cup Talking /\ pc' \notin Polling /\ pc' # "clearing"
  BY DEF Ended, Opening, Talking, InLoop, BesideLoop, Polling
<1>2. pc' \in Talking \cup Ended => ~Outside'
  BY <1>1
<1>3. NoPoll \in [for : {"nobody", "opening", "steer", "parked", "finishing"},
                 left : SUBSET Number, took : SUBSET Number] /\ NoPoll.left = {}
  BY DEF NoPoll
<1> QED BY <1>1, <1>2, <1>3, Bounds DEF Numbered, Forget, NoQuestion, Number

\* Starting to collect keeps the journal.
LEMMA NumberedCollect ==
  ASSUME Numbered, UNCHANGED <<next, asking, pending>>, NEW whose \in {"opening", "steer", "parked", "finishing"},
         StartCollecting(whose), Journaled', AskedIds' = AskedIds, ~Outside', pc \in Opening \cup Talking
  PROVE  Numbered'
<1>1. pc' = "collecting" /\ pc' \notin Opening /\ pc' # "clearing" /\ pc' \in Talking
  BY DEF StartCollecting, Goto, Opening, Talking, BesideLoop
<1>2. pending \subseteq Number /\ undelivered \subseteq Number
  BY NextIsNew DEF Numbered, Journaled
<1>3. pc' \in Polling /\ poll' = [for |-> whose, left |-> pending, took |-> undelivered] /\ whose # "nobody"
  BY <1>1 DEF StartCollecting, Polling
<1>4. Number' = Number /\ undelivered' = {}
  BY DEF StartCollecting, Number
<1> QED BY <1>1, <1>2, <1>3, <1>4 DEF Numbered, Ended

\* An answer in the operator's name, or the collector's to a question it holds.
LEMMA NumberedAnswer ==
  ASSUME Numbered, NEW q \in Number, NEW source \in {"operator", "late"}, Log(Row("answer", q, source)),
         source = "late" => q \in AskedIds
  PROVE  Journaled' /\ AskedIds' = AskedIds /\ (Outside' <=> Outside)
         /\ LateRows' = LateRows \cup (IF source = "late" THEN {q} ELSE {})
<1> DEFINE row == Row("answer", q, source)
<1>1. row \in RowSet /\ row.type = "answer" /\ row.source = source /\ row.id = q
  BY DEF RowSet, Row
<1>2. Log(row)
  OBVIOUS
<1>3. Journaled /\ events \in Seq(RowSet)
  BY DEF Numbered, Journaled
<1> HIDE DEF row
<1>4. Journaled'
  BY <1>1, <1>2, <1>3, JournaledOther
<1>5. AskedIds' = AskedIds /\ LateRows' = LateRows \cup (IF source = "late" THEN {q} ELSE {})
  BY <1>1, <1>2, <1>3, LoggedOther
<1>6. Outside' <=> Outside
  BY <1>1, <1>2, <1>3, LoggedOutside
<1> QED BY <1>4, <1>5, <1>6

\* The prompt of the next number.
LEMMA NumberedNext ==
  ASSUME Numbered, NEW by \in {"model", "agent6"}, Prompt(next, by), pc \in Opening \cup Talking,
         by = "model" => ~Outside
  PROVE  /\ Journaled' /\ AskedIds' = AskedIds \cup (IF Outside THEN {} ELSE {next})
         /\ (Outside' <=> Outside) /\ LateRows' = LateRows
         /\ next \in Number /\ next' \in 1 .. (MaxQuestion + 1)
         /\ \A q \in AskedIds' : q < next'
         /\ next \notin AskedIds
<1> DEFINE row == Row("prompt", next, by)
<1>0. /\ Journaled /\ events \in Seq(RowSet) /\ \A q \in AskedIds : q < next
      /\ next \in 1 .. (MaxQuestion + 1) /\ next <= MaxQuestion /\ next' = next + 1
  BY DEF Numbered, Journaled, Prompt
<1>1. next \in Number /\ next' \in 1 .. (MaxQuestion + 1) /\ next \notin AskedIds /\ AskedIds \subseteq Number
  BY <1>0, Bounds, NextIsNew DEF Number
<1>2. row \in RowSet /\ row.type = "prompt" /\ row.source = by /\ row.id = next
  BY <1>1 DEF RowSet, Row
<1>3. Log(row)
  BY DEF Prompt
<1> HIDE DEF row
<1>4. Journaled'
  BY <1>0, <1>1, <1>2, <1>3, JournaledPrompt
<1>5. AskedIds' = AskedIds \cup (IF Outside THEN {} ELSE {next}) /\ LateRows' = LateRows
  BY <1>0, <1>1, <1>2, <1>3, LoggedPrompt
<1>6. Outside' <=> Outside
  BY <1>0, <1>2, <1>3, LoggedOutside
<1>7. \A q \in AskedIds' : q < next'
  <2>1. \A q \in AskedIds : q < next + 1
    BY <1>0, <1>1, Bounds DEF Number
  <2>2. next < next + 1
    BY <1>0
  <2> QED BY <1>0, <1>5, <2>1, <2>2
<1> QED BY <1>0, <1>1, <1>4, <1>5, <1>6, <1>7

\* The first row of an execution.
LEMMA NumberedOpens ==
  ASSUME Numbered, NEW opens \in {"start", "resume"}, Log(Row(opens, NoQuestion, ""))
  PROVE  Journaled' /\ AskedIds' = AskedIds /\ ~Outside' /\ LateRows' = LateRows
<1> DEFINE row == Row(opens, NoQuestion, "")
<1>1. row \in RowSet /\ row.type = opens
  <2>1. NoQuestion \in Number
    BY NoQuestionIsNumber
  <2> QED BY <2>1 DEF RowSet, Row
<1>2. Log(row)
  OBVIOUS
<1>3. Journaled /\ events \in Seq(RowSet)
  BY DEF Numbered, Journaled
<1> HIDE DEF row
<1>4. Journaled'
  BY <1>1, <1>2, <1>3, JournaledOther
<1>5. AskedIds' = AskedIds /\ LateRows' = LateRows
  BY <1>1, <1>2, <1>3, LoggedOther
<1>6. ~Outside'
  BY <1>1, <1>2, <1>3, LoggedOutside
<1> QED BY <1>4, <1>5, <1>6

\* One step keeps the numbering.
LEMMA NumberedStep ==
  ASSUME Numbered, Fresh, [Next]_vars
  PROVE  Numbered'
<1> USE DEF Ended, Opening, Talking, InLoop, BesideLoop, Polling, Goto, NoQuestion
<1>1. CASE UNCHANGED vars
  <2>1. UNCHANGED <<AskedIds, LateRows, LateIds, Outside>> /\ Journaled' = Journaled
    BY <1>1, SameJournal DEF Journaled, vars
  <2>2. Peeked' = Peeked
    BY <1>1 DEF Peeked, vars
  <2> QED BY <1>1, <2>1, <2>2 DEF Numbered, vars
<1>2. ASSUME PreCall \/ RespondQuietly \/ CutCall \/ \E kinds \in Responses : Respond(kinds)
      PROVE  Numbered'
  <2> USE <1>2
  <2>1. CASE PreCall
    BY <2>1, NumberedFrame DEF PreCall
  <2>2. CASE RespondQuietly
    BY <2>2, NumberedFrame DEF RespondQuietly
  <2>3. CASE CutCall
    BY <2>3, NumberedFrame DEF CutCall
  <2>4. ASSUME NEW kinds \in Responses, Respond(kinds) PROVE Numbered'
    BY <2>4, NumberedFrame DEF Respond
  <2> QED BY <1>2, <2>1, <2>2, <2>3, <2>4
<1>3. ASSUME MarkTurn \/ Skip \/ Work \/ Finish \/ ConsumeAnswer PROVE Numbered'
  <2>1. CASE MarkTurn
    BY <2>1, NumberedFrame DEF MarkTurn
  <2>2. CASE Skip
    BY <2>2, NumberedFrame DEF Skip, Return
  <2>3. CASE Work
    BY <2>3, NumberedFrame DEF Work, Return, Dispatching
  <2>4. CASE Finish
    BY <2>4, NumberedFrame DEF Finish, Return, Dispatching
  <2>5. CASE ConsumeAnswer
    BY <2>5, NumberedFrame DEF ConsumeAnswer
  <2> QED BY <1>3, <2>1, <2>2, <2>3, <2>4, <2>5
<1>4. ASSUME JudgeTurn \/ PostTurn \/ ClearMarker \/ NextTurn \/ DropMarker \/ Unpark PROVE Numbered'
  <2>1. CASE JudgeTurn
    BY <2>1, NumberedFrame DEF JudgeTurn
  <2>2. CASE PostTurn
    BY <2>2, NumberedFrame DEF PostTurn
  <2>3. CASE ClearMarker
    BY <2>3, NumberedFrame DEF ClearMarker
  <2>4. CASE NextTurn
    BY <2>4, NumberedFrame DEF NextTurn
  <2>5. CASE DropMarker
    BY <2>5, NumberedFrame DEF DropMarker
  <2>6. CASE Unpark
    BY <2>6, NumberedFrame DEF Unpark
  <2> QED BY <1>4, <2>1, <2>2, <2>3, <2>4, <2>5, <2>6
<1>5. ASSUME NothingToSettle \/ FoldInterruptedTurn \/ DropFolded PROVE Numbered'
  <2>1. CASE NothingToSettle
    BY <2>1, NumberedFrame DEF NothingToSettle, AfterSettling
  <2>2. CASE FoldInterruptedTurn
    BY <2>2, NumberedFrame DEF FoldInterruptedTurn
  <2>3. CASE DropFolded
    BY <2>3, NumberedFrame DEF DropFolded
  <2> QED BY <1>5, <2>1, <2>2, <2>3
<1>6. ASSUME RequestStop \/ \E q \in Question : Answer(q) PROVE Numbered'
  <2>1. UNCHANGED <<events, process>>
    BY <1>6 DEF RequestStop, Answer
  <2>2. UNCHANGED <<AskedIds, LateRows, LateIds, Outside>> /\ Journaled' = Journaled
    BY <2>1, SameJournal DEF Journaled
  <2>3. Peeked' = Peeked
    BY <2>1 DEF Peeked
  <2> QED BY <2>1, <2>2, <2>3 DEF Numbered
<1>7. ASSUME NEW why, End(why), UNCHANGED events, pc \in Talking PROVE Numbered'
  <2>1. Journaled' = Journaled /\ Outside' = Outside
    BY <1>7, SameJournal DEF Journaled
  <2> QED BY <1>7, <2>1, NumberedForget DEF End, Numbered
<1>8. ASSUME EndMaxTurns \/ EndBeforeCall \/ EndQuietly \/ EndCall \/ EndUnexecutable
             \/ EndBeforeResults \/ EndStopped \/ StopAt("boundary") \/ StopAt("parked")
             \/ EndAtSteer \/ EndFinished
      PROVE  Numbered'
  BY <1>7, <1>8 DEF EndMaxTurns, EndBeforeCall, EndQuietly, EndCall, EndUnexecutable,
        EndBeforeResults, EndStopped, StopAt, EndAtSteer, EndFinished, EndWith, Polled
<1>9. ASSUME CheckStops \/ OperatorBoundary \/ PollParked PROVE Numbered'
  <2>1. pc \in Talking /\ UNCHANGED <<events, next, asking, pending>>
    BY <1>9 DEF CheckStops, OperatorBoundary, PollParked
  <2>2. Journaled' /\ AskedIds' = AskedIds /\ ~Outside'
    BY <2>1, SameJournal DEF Numbered, Journaled
  <2>3. ASSUME NEW whose \in {"opening", "steer", "parked", "finishing"}, StartCollecting(whose) PROVE Numbered'
    BY <2>1, <2>2, <2>3, NumberedCollect
  <2>4. ASSUME CheckStops, ~finish PROVE Numbered'
    BY <2>1, <2>4, NumberedFrame DEF CheckStops
  <2> QED BY <1>9, <2>3, <2>4 DEF CheckStops, OperatorBoundary, PollParked
<1>10. ASSUME PeekNothing \/ ClearAnswer \/ Deliver PROVE Numbered'
  <2>1. UNCHANGED <<AskedIds, LateRows, LateIds, Outside>> /\ Journaled' = Journaled
    BY <1>10, SameJournal DEF Journaled, PeekNothing, ClearAnswer, Deliver
  <2>2. CASE PeekNothing
    BY <2>1, <2>2 DEF PeekNothing, Numbered
  <2>3. CASE ClearAnswer
    <3>1. Peeked \in Number
      BY <2>3, NextIsNew DEF ClearAnswer, Numbered, Journaled
    <3> QED BY <2>1, <2>3, <3>1 DEF ClearAnswer, Numbered
  <2>4. CASE Deliver
    <3>1. poll' = NoPoll /\ pc \in Talking /\ pc' \in Talking /\ pc' \notin Polling
      BY <2>4 DEF Deliver, AfterPoll, Polled, Numbered
    <3> QED BY <2>1, <2>4, <3>1 DEF Deliver, Numbered, NoPoll
  <2> QED BY <1>10, <2>2, <2>3, <2>4
<1>11. CASE Start
  <2>1. Journaled' /\ AskedIds' = AskedIds /\ ~Outside'
    BY <1>11, NumberedOpens DEF Start
  <2> QED BY <1>11, <2>1, NumberedCollect DEF Start
<1>12. CASE OpenResumed
  <2>1. Journaled' /\ AskedIds' = AskedIds /\ ~Outside'
    BY <1>12, NumberedOpens DEF OpenResumed
  <2> QED BY <1>12, <2>1, NumberedCollect DEF OpenResumed
<1>13. ASSUME Queue \/ Ask PROVE Numbered'
  <2>1. Prompt(next, "model") /\ pc = "dispatching"
    BY <1>13 DEF Queue, Ask, Dispatching
  <2>2. ~Outside
    BY <2>1 DEF Numbered
  <2>3. /\ Journaled' /\ AskedIds' = AskedIds \cup {next} /\ ~Outside'
        /\ next \in Number /\ next' \in 1 .. (MaxQuestion + 1) /\ \A q \in AskedIds' : q < next'
    BY <2>1, <2>2, NumberedNext
  <2>4. UNCHANGED <<poll, undelivered>> /\ pc' \in InLoop /\ pc' \notin Polling /\ pending' \subseteq pending \cup {next}
        /\ pending \subseteq pending' /\ asking' \in {asking, next}
    BY <1>13 DEF Queue, Ask, Return
  <2> QED BY <2>1, <2>3, <2>4 DEF Numbered
<1>14. ASSUME EndWait, pc \in InLoop PROVE Numbered'
  <2>1. Journaled' /\ AskedIds' = AskedIds /\ (Outside' <=> Outside)
    BY <1>14, NumberedAnswer DEF EndWait, Numbered
  <2> QED BY <1>14, <2>1, Bounds DEF EndWait, Return, Numbered, Number
<1>15. ASSUME TakeAnswer \/ GiveUpWaiting \/ LeaveUnanswered PROVE Numbered'
  BY <1>14, <1>15 DEF TakeAnswer, GiveUpWaiting, LeaveUnanswered
<1>16. CASE JournalLateAnswer
  <2>0. Peeked \in poll.left
    <3>1. poll.left \subseteq 0 .. MaxQuestion /\ poll.left # {}
      BY <1>16 DEF JournalLateAnswer, Numbered, Number
    <3>2. \E q \in poll.left : \A p \in poll.left : q <= p
      BY <3>1, LeastElement, Bounds
    <3> QED BY <3>2 DEF Peeked, Least
  <2>1. Journaled' /\ AskedIds' = AskedIds /\ (Outside' <=> Outside) /\ LateRows' = LateRows \cup {Peeked}
    BY <1>16, <2>0, NumberedAnswer DEF JournalLateAnswer, Numbered
  <2>2. Peeked' = Peeked
    BY <1>16 DEF JournalLateAnswer, Peeked
  <2> QED BY <1>16, <2>1, <2>2 DEF JournalLateAnswer, Numbered
<1>17. CASE EmitEnd
  <2>1. Journaled'
    <3>1. CASE UNCHANGED events
      BY <3>1, SameJournal DEF Journaled, Numbered
    <3>2. CASE Log(Row("end", NoQuestion, ""))
      <4>1. Row("end", NoQuestion, "") \in RowSet
        BY Bounds DEF Row, RowSet, Number
      <4>2. Journaled
        BY DEF Numbered
      <4> QED BY <3>2, <4>1, <4>2, JournaledOther DEF Row
    <3> QED BY <1>17, <3>1, <3>2 DEF EmitEnd
  <2> QED BY <1>17, <2>1, NumberedForget DEF EmitEnd, Down
<1>18. CASE AskSettle
  <2>1. Prompt(next, "agent6") /\ pc = "settling"
    BY <1>18 DEF AskSettle
  <2>2. /\ Journaled' /\ AskedIds \subseteq AskedIds'
        /\ next \in Number /\ next' \in 1 .. (MaxQuestion + 1) /\ \A q \in AskedIds' : q < next'
    BY <2>1, NumberedNext
  <2> QED BY <1>18, <2>2 DEF AskSettle, Numbered
<1>19. CASE AnswerSettle
  <2>1. Journaled' /\ AskedIds' = AskedIds
    BY <1>19, NumberedAnswer DEF AnswerSettle, CloseSettle, Numbered
  <2> QED BY <1>19, <2>1, Bounds DEF AnswerSettle, AfterSettling, Numbered, Number
<1>20. CASE CancelSettle
  <2>1. Journaled'
    BY <1>20, NumberedAnswer DEF CancelSettle, CloseSettle, Numbered
  <2> QED BY <1>20, <2>1, NumberedForget DEF CancelSettle, Down
<1>21. CASE Crash
  <2>1. Journaled'
    BY <1>21, SameJournal DEF Crash, Journaled, Numbered
  <2> QED BY <1>21, <2>1, NumberedForget DEF Crash, Down
<1>22. CASE Begin
  <2>1. UNCHANGED <<AskedIds, LateRows, LateIds, Outside>> /\ Journaled' = Journaled
    BY <1>22, SameJournal DEF Begin, Journaled
  <2>2. AskedIds = {}
    BY <1>22 DEF Begin, Fresh, AskedIds, LastPrompts, PromptRows
  <2> QED BY <1>22, <2>1, <2>2 DEF Begin, Numbered
<1>23. CASE Resume
  <2>1. UNCHANGED <<AskedIds, LateRows, LateIds, Outside>> /\ Journaled' = Journaled
    BY <1>23, SameJournal DEF Resume, Journaled
  <2>2. /\ CarriedPending \subseteq AskedIds /\ NextNumber \in 1 .. (MaxQuestion + 1)
        /\ \A q \in AskedIds : q < NextNumber
    BY NextIsNew DEF Numbered, Journaled
  <2>3. Undelivered \subseteq Number
    <3>1. LateIds \subseteq Number
      BY NextIsNew DEF Numbered, Journaled
    <3> QED BY <3>1 DEF Undelivered
  <2>4. poll' = NoPoll /\ NoPoll.left = {}
    BY <1>23 DEF Resume, Numbered, NoPoll
  <2> QED BY <1>23, <2>1, <2>2, <2>3, <2>4 DEF Resume, Numbered
<1> QED
  BY <1>1, <1>2, <1>3, <1>4, <1>5, <1>6, <1>8, <1>9, <1>10, <1>11, <1>12, <1>13, <1>15, <1>16,
     <1>17, <1>18, <1>19, <1>20, <1>21, <1>22, <1>23
  DEF Next, Drive, Calling, Dispatch, Closing, Collecting, Resuming, Operator

\* The numbering holds in every state.
THEOREM NumberedInvariance == Spec => [](Fresh /\ Numbered)
<1>1. Init => Numbered
  <2> SUFFICES ASSUME Init PROVE Numbered
    OBVIOUS
  <2>1. PromptRows = {} /\ LateRows = {} /\ AskedIds = {} /\ events \in Seq(RowSet)
    BY DEF Init, PromptRows, LateRows, AskedIds, LastPrompts
  <2>2. pc = "down" /\ pc \notin Polling /\ pc \notin Opening \cup Talking \cup Ended /\ pc # "clearing"
    BY DEF Init, Ended, Opening, Talking, InLoop, BesideLoop, Polling
  <2> QED BY <2>1, <2>2, Bounds, NoQuestionIsNumber DEF Init, Numbered, Journaled, NoPoll
<1>2. Fresh /\ Numbered /\ [Next]_vars => Numbered'
  BY NumberedStep
<1> QED BY <1>1, <1>2, FreshInvariance, PTL DEF Spec

\* Over every resume, no two questions of the model share an id.
THEOREM IdsRunOnHolds == Spec => []IdsRunOn
<1>1. Numbered => IdsRunOn
  <2> SUFFICES ASSUME Numbered, NEW i \in PromptRows, NEW k \in PromptRows,
                      events[i].source = "model", events[k].source = "model",
                      events[i].id = events[k].id
               PROVE  i = k
    BY DEF IdsRunOn
  <2>1. i \in LastPrompts /\ k \in LastPrompts
    BY DEF Numbered, Journaled
  <2>2. k <= i /\ i <= k /\ i \in Nat /\ k \in Nat
    BY <2>1 DEF LastPrompts, PromptRows, Numbered, Journaled
  <2> QED BY <2>2
<1> QED BY <1>1, NumberedInvariance, PTL

\* An answer file goes only when its question is answered in the journal, waited
\* for, or was asked by agent6 outside an execution.
THEOREM AnswersKeptHolds == Spec => AnswersKept
<1> DEFINE Spared(q) == \/ \E k \in DOMAIN events : events[k].type = "answer" /\ events[k].id = q
                        \/ asking = q
                        \/ q \notin AskedIds
<1>1. ASSUME Numbered, [Next]_vars, NEW q \in answers \ answers' PROVE Spared(q)
  <2>1. CASE Queue \/ Ask \/ AskSettle
    <3>1. q = next
      BY <2>1, <1>1 DEF Queue, Ask, AskSettle, Prompt
    <3>2. next \notin AskedIds
      BY <2>1, <1>1 DEF Queue, Ask, AskSettle, Dispatching, Numbered, Opening, Talking, InLoop
    <3> QED BY <3>1, <3>2
  <2>2. CASE ConsumeAnswer
    BY <2>2, <1>1 DEF ConsumeAnswer
  <2>3. CASE ClearAnswer
    <3>1. q = Peeked /\ Peeked \in LateRows
      BY <2>3, <1>1 DEF ClearAnswer, Numbered
    <3> QED BY <3>1 DEF LateRows
  <2>4. CASE Resume
    <3>1. q \notin CarriedPending
      BY <2>4, <1>1 DEF Resume, Kept
    <3>2. q \notin AskedIds \/ AnsweredBy(q, Source)
      BY <3>1 DEF CarriedPending
    <3> QED BY <3>2 DEF AnsweredBy
  <2>5. ASSUME answers \subseteq answers' PROVE FALSE
    BY <1>1, <2>5
  <2>6. CASE UNCHANGED vars
    BY <2>5, <2>6 DEF vars
  <2>7. CASE Calling
    BY <2>5, <2>7 DEF Calling, PreCall, EndMaxTurns, EndBeforeCall, RespondQuietly, EndQuietly,
          EndCall, CutCall, Respond, EndWith
  <2>8. ASSUME MarkTurn \/ Skip \/ Work \/ Finish \/ EndUnexecutable \/ TakeAnswer \/ GiveUpWaiting
        PROVE  FALSE
    BY <2>5, <2>8 DEF MarkTurn, Skip, Work, Finish, EndUnexecutable, TakeAnswer, GiveUpWaiting,
          EndWait, EndWith
  <2>9. CASE Closing
    BY <2>5, <2>9 DEF Closing, EndBeforeResults, JudgeTurn, PostTurn, ClearMarker, EndStopped,
          CheckStops, StopAt, OperatorBoundary, NextTurn, EndAtSteer, PollParked, DropMarker, EmitEnd,
          EndWith
  <2>10. ASSUME PeekNothing \/ JournalLateAnswer \/ Deliver \/ EndFinished PROVE FALSE
    BY <2>5, <2>10 DEF PeekNothing, JournalLateAnswer, Deliver, EndFinished, EndWith
  <2>11. CASE Resuming \/ CancelSettle
    BY <2>5, <2>11 DEF Resuming, Start, NothingToSettle, AnswerSettle, CancelSettle, CloseSettle,
          FoldInterruptedTurn, DropFolded, OpenResumed
  <2>12. ASSUME RequestStop \/ LeaveUnanswered \/ Unpark \/ Crash \/ Begin PROVE FALSE
    BY <2>5, <2>12 DEF RequestStop, LeaveUnanswered, EndWait, Unpark, Crash, Begin
  <2>13. ASSUME NEW p \in Question, Answer(p) PROVE FALSE
    BY <2>5, <2>13 DEF Answer
  <2> QED BY <1>1, <2>1, <2>2, <2>3, <2>4, <2>6, <2>7, <2>8, <2>9, <2>10, <2>11, <2>12, <2>13
      DEF Next, Drive, Dispatch, Collecting, Operator
<1>2. Numbered /\ [Next]_vars => [\A q \in answers \ answers' : Spared(q)]_vars
  BY <1>1
<1> QED BY <1>2, NumberedInvariance, PTL DEF AnswersKept, Spec

-----------------------------------------------------------------------------
(* The conversation, some items longer.                                    *)

\* The items of a kind in a conversation that goes on in another.
ItemsJoin(c, d, e, kind) ==
    /\ Items(c, kind) \subseteq 1 .. Len(c) /\ Items(d, kind) \subseteq 1 .. Len(d)
    /\ Items(e, kind) = Items(c, kind) \cup {Len(c) + i : i \in Items(d, kind)}

Joins(c, d, e) ==
    /\ e \in Seq(ItemSet) /\ Len(e) = Len(c) + Len(d) /\ Len(c) \in Nat /\ Len(d) \in Nat
    /\ \A i \in 1 .. Len(c) : e[i] = c[i]
    /\ \A i \in 1 .. Len(d) : e[Len(c) + i] = d[i]
    /\ ItemsJoin(c, d, e, "call") /\ ItemsJoin(c, d, e, "result") /\ ItemsJoin(c, d, e, "answer")

\* The items of two joined conversations are theirs.
LEMMA Joined ==
  ASSUME NEW c \in Seq(ItemSet), NEW d \in Seq(ItemSet)
  PROVE  Joins(c, d, c \o d)
<1> DEFINE e == c \o d
<1>1. /\ e \in Seq(ItemSet) /\ Len(e) = Len(c) + Len(d)
      /\ Len(c) \in Nat /\ Len(d) \in Nat
      /\ \A i \in 1 .. Len(c) : e[i] = c[i]
      /\ \A i \in 1 .. Len(d) : e[Len(c) + i] = d[i]
  OBVIOUS
<1>2. DOMAIN c = 1 .. Len(c) /\ DOMAIN d = 1 .. Len(d) /\ DOMAIN e = 1 .. (Len(c) + Len(d))
  BY <1>1
<1> HIDE DEF e
<1>3. ASSUME NEW kind PROVE ItemsJoin(c, d, e, kind)
  <2>1. \A i \in 1 .. (Len(c) + Len(d)) : i \in 1 .. Len(c) \/ (i - Len(c) \in 1 .. Len(d) /\ i = Len(c) + (i - Len(c)))
    BY <1>1
  <2>2. \A i \in 1 .. Len(c) : i \in 1 .. (Len(c) + Len(d))
    BY <1>1
  <2>3. \A i \in 1 .. Len(d) : Len(c) + i \in 1 .. (Len(c) + Len(d))
    BY <1>1
  <2>4. DOMAIN e = 1 .. (Len(c) + Len(d)) /\ \A i \in 1 .. Len(c) : e[i] = c[i]
    BY <1>1, <1>2
  <2>5. \A i \in 1 .. Len(d) : e[Len(c) + i] = d[i]
    BY <1>1
  <2>6. Items(e, kind) = Items(c, kind) \cup {Len(c) + i : i \in Items(d, kind)}
    <3>1. ASSUME NEW i \in Items(e, kind)
          PROVE  i \in Items(c, kind) \/ \E j \in Items(d, kind) : i = Len(c) + j
      <4>1. i \in 1 .. (Len(c) + Len(d)) /\ e[i].kind = kind
        BY <2>4 DEF Items
      <4>2. CASE i \in 1 .. Len(c)
        BY <1>2, <2>4, <4>1, <4>2 DEF Items
      <4>3. CASE i - Len(c) \in 1 .. Len(d) /\ i = Len(c) + (i - Len(c))
        BY <1>2, <2>5, <4>1, <4>3 DEF Items
      <4> QED BY <2>1, <4>1, <4>2, <4>3
    <3>2. \A i \in Items(c, kind) : i \in Items(e, kind)
      BY <1>2, <2>2, <2>4 DEF Items
    <3>3. \A j \in Items(d, kind) : Len(c) + j \in Items(e, kind)
      BY <1>2, <2>3, <2>4, <2>5 DEF Items
    <3> QED BY <3>1, <3>2, <3>3
  <2> QED BY <1>2, <2>6 DEF Items, ItemsJoin
<1>4. Joins(c, d, e)
  BY <1>1, <1>3 DEF Joins
<1> QED BY <1>4 DEF e

\* `AnswersNotice` numbers the answers from the first to the last, each once.
LEMMA AscendingIs ==
  ASSUME NEW n \in Nat, NEW S, S \subseteq 0 .. n
  PROVE  /\ Cardinality(S) \in Nat
         /\ \A i \in 1 .. Cardinality(S) : Ascending(S)[i] \in S
         /\ \A q \in S : \E i \in 1 .. Cardinality(S) : Ascending(S)[i] = q
         /\ \A i, k \in 1 .. Cardinality(S) : Ascending(S)[i] = Ascending(S)[k] => i = k
<1> DEFINE m == Cardinality(S)
           Upto(q) == {p \in S : p <= q}
           rank == [q \in S |-> Cardinality(Upto(q))]
<1>1. IsFiniteSet(S) /\ m \in Nat
  <2>1. 0 \in Int /\ n \in Int
    OBVIOUS
  <2>2. IsFiniteSet(0 .. n)
    BY <2>1, FS_Interval
  <2>3. S \in SUBSET (0 .. n)
    OBVIOUS
  <2>4. IsFiniteSet(S)
    BY <2>2, <2>3, FS_Subset
  <2> QED BY <2>4, FS_CardinalityType
<1>2. \A q \in S : /\ Upto(q) \in SUBSET S /\ IsFiniteSet(Upto(q)) /\ q \in Upto(q)
                    /\ rank[q] = Cardinality(Upto(q)) /\ rank[q] \in Nat /\ rank[q] <= m
  <2> TAKE q \in S
  <2>1. Upto(q) \in SUBSET S /\ q \in Upto(q) /\ rank[q] = Cardinality(Upto(q))
    OBVIOUS
  <2> HIDE DEF Upto, rank
  <2>2. IsFiniteSet(Upto(q)) /\ Cardinality(Upto(q)) <= Cardinality(S)
    BY <1>1, <2>1, FS_Subset
  <2>3. Cardinality(Upto(q)) \in Nat
    BY <2>2, FS_CardinalityType
  <2> QED BY <2>1, <2>2, <2>3
<1>3. \A q \in S : rank[q] \in 1 .. m
  <2> TAKE q \in S
  <2> HIDE DEF rank, Upto
  <2>1. Cardinality(Upto(q)) # 0
    BY <1>2, FS_EmptySet
  <2> QED BY <1>1, <1>2, <2>1
<1>4. \A p, q \in S : p < q => rank[p] # rank[q]
  <2> SUFFICES ASSUME NEW p \in S, NEW q \in S, p < q, rank[p] = rank[q] PROVE FALSE
    OBVIOUS
  <2>1. Upto(p) \in SUBSET Upto(q) /\ q \notin Upto(p)
    <3>1. p \in Int /\ q \in Int /\ \A r \in S : r \in Int
      OBVIOUS
    <3>2. \A r \in S : r <= p => r <= q
      BY <3>1
    <3>3. ~(q <= p)
      BY <3>1
    <3> QED BY <3>2, <3>3
  <2> HIDE DEF rank, Upto
  <2>2. Upto(p) = Upto(q)
    BY <1>2, <2>1, FS_Subset
  <2> QED BY <1>2, <2>1, <2>2
<1>5. \A p, q \in S : rank[p] = rank[q] => p = q
  <2>1. \A p, q \in S : p \in Nat /\ q \in Nat
    OBVIOUS
  <2> HIDE DEF rank
  <2> QED BY <1>4, <2>1
<1>6. rank \in Injection(S, 1 .. m)
  <2>1. rank \in [S -> 1 .. m]
    <3>1. rank = [q \in S |-> rank[q]]
      OBVIOUS
    <3> HIDE DEF rank
    <3> QED BY <1>3, <3>1
  <2> HIDE DEF rank
  <2> QED BY <1>5, <2>1 DEF Injection, IsInjective
<1>7. \A i \in 1 .. m : \E q \in S : rank[q] = i
  <2>1. IsFiniteSet(1 .. m) /\ Cardinality(1 .. m) = m
    <3>1. 1 \in Int /\ m \in Int
      BY <1>1
    <3>2. IsFiniteSet(1 .. m) /\ Cardinality(1 .. m) = IF 1 > m THEN 0 ELSE m - 1 + 1
      BY <3>1, FS_Interval
    <3> QED BY <1>1, <3>2
  <2>2. rank \in Surjection(S, 1 .. m)
    <3> HIDE DEF rank
    <3> QED BY <1>6, <2>1, FS_Injection
  <2> HIDE DEF rank
  <2> QED BY <2>2 DEF Surjection
<1>8. \A i \in 1 .. m : Ascending(S)[i] \in S /\ rank[Ascending(S)[i]] = i
  <2> TAKE i \in 1 .. m
  <2>1. Ascending(S)[i] = CHOOSE q \in S : Cardinality({p \in S : p <= q}) = i
    BY DEF Ascending
  <2>2. \E q \in S : Cardinality({p \in S : p <= q}) = i
    BY <1>7
  <2>3. Ascending(S)[i] \in S /\ Cardinality({p \in S : p <= Ascending(S)[i]}) = i
    BY <2>1, <2>2
  <2> QED BY <2>3
<1> HIDE DEF rank
<1>9. \A q \in S : \E i \in 1 .. m : Ascending(S)[i] = q
  BY <1>3, <1>5, <1>8
<1> QED BY <1>1, <1>8, <1>9

\* Items of other kinds leave the answers as they are.
LEMMA SameAnswers ==
  ASSUME NEW c \in Seq(ItemSet), NEW d \in Seq(ItemSet), Items(d, "answer") = {}
  PROVE  AnswerIds(c \o d) = AnswerIds(c) /\ (Once(c) => Once(c \o d))
<1> DEFINE e == c \o d
<1>0. Joins(c, d, e)
  BY Joined
<1> HIDE DEF e
<1>1. /\ Items(e, "answer") = Items(c, "answer")
      /\ \A i \in Items(c, "answer") : e[i] = c[i]
  BY <1>0 DEF Joins, ItemsJoin
<1>2. AnswerIds(e) = AnswerIds(c) /\ (Once(c) => Once(e))
  BY <1>1 DEF AnswerIds, Once
<1> QED BY <1>2 DEF e

\* Items of other kinds leave the results as they are.
LEMMA SameResults ==
  ASSUME NEW c \in Seq(ItemSet), NEW d \in Seq(ItemSet), Items(d, "result") = {}
  PROVE  ResultIds(c \o d) = ResultIds(c) /\ (Honest(c) => Honest(c \o d))
<1> DEFINE e == c \o d
<1>0. Joins(c, d, e)
  BY Joined
<1> HIDE DEF e
<1>1. /\ Items(e, "result") = Items(c, "result")
      /\ \A i \in Items(c, "result") : e[i] = c[i]
  BY <1>0 DEF Joins, ItemsJoin
<1>2. ResultIds(e) = ResultIds(c) /\ (Honest(c) => Honest(e))
  BY <1>1 DEF ResultIds, Honest
<1> QED BY <1>2 DEF e

\* The notice of a set of answers tells each of them once, and nothing else.
LEMMA NoticeIs ==
  ASSUME NEW S, S \subseteq Number
  PROVE  /\ AnswersNotice(S) \in Seq(ItemSet)
         /\ Items(AnswersNotice(S), "call") = {} /\ Items(AnswersNotice(S), "result") = {}
         /\ AnswerIds(AnswersNotice(S)) = S /\ Once(AnswersNotice(S))
<1> DEFINE d == AnswersNotice(S)
           m == Cardinality(S)
           a == Ascending(S)
<1>1. /\ m \in Nat /\ \A i \in 1 .. m : a[i] \in S
      /\ \A q \in S : \E i \in 1 .. m : a[i] = q
      /\ \A i, k \in 1 .. m : a[i] = a[k] => i = k
  BY AscendingIs, Bounds DEF Number
<1>2. d = [i \in 1 .. m |-> Item("answer", a[i], "late")]
  BY DEF AnswersNotice
<1> HIDE DEF m, a, d
<1>3. \A i \in 1 .. m : a[i] \in Nat
  <2>1. \A i \in 1 .. m : a[i] \in S
    BY <1>1
  <2>2. S \subseteq Nat
    BY Bounds DEF Number
  <2> QED BY <2>1, <2>2, Zenon
<1>4. \A i \in 1 .. m : d[i] = Item("answer", a[i], "late") /\ d[i] \in ItemSet
  BY <1>2, <1>3 DEF Item, ItemSet
<1>5. d \in [1 .. m -> ItemSet] /\ DOMAIN d = 1 .. m
  BY <1>2, <1>4
<1>6. d \in Seq(ItemSet)
  BY <1>1, <1>5, SeqDef
<1>7. Items(d, "call") = {} /\ Items(d, "result") = {} /\ Items(d, "answer") = 1 .. m
  BY <1>4, <1>5 DEF Items, Item
<1>8. AnswerIds(d) = S /\ Once(d)
  <2>1. ASSUME NEW i \in 1 .. m PROVE d[i].id = a[i]
    <3>1. d[i] = Item("answer", a[i], "late")
      BY <1>4, Zenon
    <3> QED BY <3>1 DEF Item
  <2> QED BY <1>1, <1>7, <2>1 DEF AnswerIds, Once
<1> QED BY <1>6, <1>7, <1>8 DEF d

\* What a notice does to the conversation it joins.
LEMMA NoticeTells ==
  ASSUME NEW c \in Seq(ItemSet), NEW S, S \subseteq Number
  PROVE  LET e == c \o AnswersNotice(S)
         IN  /\ e \in Seq(ItemSet)
             /\ AnswerIds(e) = AnswerIds(c) \cup S
             /\ Once(c) /\ AnswerIds(c) \cap S = {} => Once(e)
             /\ Ids(e) = Ids(c) /\ ResultIds(e) = ResultIds(c)
             /\ Honest(c) => Honest(e)
             /\ Matched(c) => Matched(e)
<1> DEFINE d == AnswersNotice(S)
           e == c \o d
           n == Len(c)
<1>1. /\ d \in Seq(ItemSet) /\ Items(d, "call") = {} /\ Items(d, "result") = {}
      /\ AnswerIds(d) = S /\ Once(d)
  BY NoticeIs
<1> HIDE DEF d
<1>2. Joins(c, d, e)
  BY <1>1, Joined
<1>3. ResultIds(e) = ResultIds(c) /\ (Honest(c) => Honest(e))
  BY <1>1, SameResults
<1> HIDE DEF e
<1>4. /\ Items(e, "call") = Items(c, "call") /\ Items(e, "result") = Items(c, "result")
      /\ n \in Nat /\ e \in Seq(ItemSet)
  BY <1>1, <1>2 DEF Joins, ItemsJoin
<1>16. \A i \in Items(c, "call") \cup Items(c, "result") : i \in 1 .. n /\ e[i] = c[i]
  BY <1>2 DEF Joins, ItemsJoin
<1>5. Ids(e) = Ids(c)
  BY <1>4, <1>16 DEF Ids
<1>6. Items(e, "answer") = Items(c, "answer") \cup {n + i : i \in Items(d, "answer")}
  BY <1>2 DEF Joins, ItemsJoin
<1>7. /\ \A i \in Items(c, "answer") : i \in 1 .. n /\ e[i] = c[i]
      /\ \A i \in Items(d, "answer") : i \in Nat /\ e[n + i] = d[i]
  BY <1>2 DEF Joins, ItemsJoin
<1>8. AnswerIds(e) = AnswerIds(c) \cup S
  <2>1. AnswerIds(e) = AnswerIds(c) \cup AnswerIds(d)
    BY <1>6, <1>7 DEF AnswerIds
  <2> QED BY <1>1, <2>1
<1>9. ASSUME Once(c), AnswerIds(c) \cap S = {} PROVE Once(e)
  <2>1. \A i \in Items(c, "answer") : e[i].id \in AnswerIds(c)
    BY <1>7 DEF AnswerIds
  <2>2. \A i \in Items(d, "answer") : e[n + i].id \in S
    BY <1>1, <1>7 DEF AnswerIds
  <2>3. ASSUME NEW i \in Items(e, "answer"), NEW k \in Items(e, "answer"), e[i].id = e[k].id PROVE i = k
    <3>1. CASE i \in Items(c, "answer") /\ k \in Items(c, "answer")
      BY <1>7, <1>9, <2>3, <3>1 DEF Once
    <3>2. ASSUME NEW x \in Items(d, "answer"), NEW y \in Items(d, "answer"), i = n + x, k = n + y
          PROVE  i = k
      <4>1. d[x].id = d[y].id
        BY <1>7, <2>3, <3>2
      <4> QED BY <1>1, <3>2, <4>1 DEF Once
    <3> QED BY <1>6, <1>9, <2>1, <2>2, <2>3, <3>1, <3>2
  <2> QED BY <2>3 DEF Once
<1>10. ASSUME Matched(c) PROVE Matched(e)
  <2>1. ASSUME NEW i \in Items(e, "call")
        PROVE  \E j \in Items(e, "result") : /\ e[j].id = e[i].id /\ i < j
                                            /\ \A k \in i .. j : e[k].kind \in {"call", "result"}
    <3>1. PICK j \in Items(c, "result") : /\ c[j].id = c[i].id /\ i < j
                                         /\ \A k \in i .. j : c[k].kind \in {"call", "result"}
      BY <1>4, <1>10 DEF Matched
    <3>2. i \in 1 .. n /\ j \in 1 .. n /\ e[i] = c[i] /\ e[j] = c[j]
      BY <1>4, <1>16
    <3>3. \A k \in i .. j : k \in 1 .. n
      BY <1>4, <3>2
    <3>4. \A k \in i .. j : e[k] = c[k]
      BY <1>2, <3>3 DEF Joins
    <3> QED BY <1>4, <3>1, <3>2, <3>4
  <2>2. \A i \in Items(e, "call") \cup Items(e, "result") : e[i] = c[i]
    BY <1>4, <1>16
  <2> QED BY <1>4, <1>10, <2>1, <2>2 DEF Matched
<1> QED BY <1>3, <1>4, <1>5, <1>8, <1>9, <1>10 DEF e, d

\* The calls of a response, as the conversation holds them.
LEMMA AskedIs ==
  ASSUME NEW cs \in Seq(Call)
  PROVE  /\ Asked(cs) \in Seq(ItemSet) /\ Len(Asked(cs)) = Len(cs) /\ Len(cs) \in Nat
         /\ \A i \in 1 .. Len(cs) : Asked(cs)[i].kind = "call" /\ Asked(cs)[i].id = cs[i].id
         /\ Items(Asked(cs), "call") = 1 .. Len(cs)
         /\ Items(Asked(cs), "result") = {} /\ Items(Asked(cs), "answer") = {}
<1>1. Len(cs) \in Nat /\ DOMAIN cs = 1 .. Len(cs) /\ \A i \in 1 .. Len(cs) : cs[i].id \in Nat
  <2>1. Len(cs) \in Nat /\ DOMAIN cs = 1 .. Len(cs) /\ \A i \in 1 .. Len(cs) : cs[i] \in Call
    OBVIOUS
  <2>2. \A x \in Call : x.id \in Nat
    BY DEF Call
  <2> QED BY <2>1, <2>2
<1>2. Asked(cs) = [i \in 1 .. Len(cs) |-> Item("call", cs[i].id, "asked")]
  BY <1>1 DEF Asked
<1>3. \A i \in 1 .. Len(cs) : Asked(cs)[i] = Item("call", cs[i].id, "asked") /\ Asked(cs)[i] \in ItemSet
  BY <1>1, <1>2 DEF Item, ItemSet
<1>4. Asked(cs) \in [1 .. Len(cs) -> ItemSet] /\ DOMAIN Asked(cs) = 1 .. Len(cs)
  BY <1>2, <1>3
<1>5. Asked(cs) \in Seq(ItemSet)
  BY <1>1, <1>4, SeqDef
<1>6. Len(Asked(cs)) = Len(cs)
  BY <1>1, <1>4, <1>5
<1>7. ASSUME NEW i \in 1 .. Len(cs) PROVE Asked(cs)[i].kind = "call" /\ Asked(cs)[i].id = cs[i].id
  <2>1. Asked(cs)[i] = Item("call", cs[i].id, "asked")
    BY <1>3, Zenon
  <2> QED BY <2>1 DEF Item
<1> QED BY <1>1, <1>4, <1>5, <1>6, <1>7 DEF Items

\* Their results, one for each.
LEMMA ToldIs ==
  ASSUME NEW cs \in Seq(Call), NEW words,
         \A i \in 1 .. Len(cs) : words[i] \in {"returned", "skipped", "interrupted"}
  PROVE  /\ Told(cs, words) \in Seq(ItemSet) /\ Len(Told(cs, words)) = Len(cs) /\ Len(cs) \in Nat
         /\ \A i \in 1 .. Len(cs) :
               /\ Told(cs, words)[i].kind = "result" /\ Told(cs, words)[i].id = cs[i].id
               /\ Told(cs, words)[i].word = words[i]
         /\ Items(Told(cs, words), "result") = 1 .. Len(cs)
         /\ Items(Told(cs, words), "call") = {} /\ Items(Told(cs, words), "answer") = {}
<1> DEFINE d == Told(cs, words)
<1>1. Len(cs) \in Nat /\ DOMAIN cs = 1 .. Len(cs) /\ \A i \in 1 .. Len(cs) : cs[i].id \in Nat
  <2>1. Len(cs) \in Nat /\ DOMAIN cs = 1 .. Len(cs) /\ \A i \in 1 .. Len(cs) : cs[i] \in Call
    OBVIOUS
  <2>2. \A x \in Call : x.id \in Nat
    BY DEF Call
  <2> QED BY <2>1, <2>2
<1>2. d = [i \in 1 .. Len(cs) |-> Item("result", cs[i].id, words[i])]
  BY <1>1 DEF Told
<1> HIDE DEF d
<1>3. \A i \in 1 .. Len(cs) : d[i] = Item("result", cs[i].id, words[i]) /\ d[i] \in ItemSet
  BY <1>1, <1>2 DEF Item, ItemSet
<1>4. d \in [1 .. Len(cs) -> ItemSet] /\ DOMAIN d = 1 .. Len(cs)
  BY <1>2, <1>3
<1>5. d \in Seq(ItemSet)
  BY <1>1, <1>4, SeqDef
<1>6. Len(d) = Len(cs)
  BY <1>1, <1>4, <1>5
<1>7. ASSUME NEW i \in 1 .. Len(cs)
      PROVE  d[i].kind = "result" /\ d[i].id = cs[i].id /\ d[i].word = words[i]
  <2>1. d[i] = Item("result", cs[i].id, words[i])
    BY <1>3, Zenon
  <2> QED BY <2>1 DEF Item
<1>8. Items(d, "result") = 1 .. Len(cs) /\ Items(d, "call") = {} /\ Items(d, "answer") = {}
  BY <1>4, <1>7 DEF Items
<1> QED BY <1>1, <1>5, <1>6, <1>7, <1>8 DEF d

\* The ids of a response's calls.
LEMMA CallIdsAre ==
  ASSUME NEW cs \in Seq(Call)
  PROVE  DOMAIN cs = 1 .. Len(cs) /\ CallIds(cs) = {cs[i].id : i \in 1 .. Len(cs)}
BY DEF CallIds

\* What the calls of a response do to the conversation they join.
LEMMA AskedTells ==
  ASSUME NEW c \in Seq(ItemSet), NEW cs \in Seq(Call)
  PROVE  LET e == c \o Asked(cs)
         IN  /\ e \in Seq(ItemSet)
             /\ AnswerIds(e) = AnswerIds(c) /\ (Once(c) => Once(e))
             /\ Ids(e) = Ids(c) \cup CallIds(cs) /\ ResultIds(e) = ResultIds(c)
             /\ Honest(c) => Honest(e)
<1> DEFINE d == Asked(cs)
           e == c \o d
           n == Len(c)
<1>1. /\ d \in Seq(ItemSet) /\ Len(d) = Len(cs)
      /\ Items(d, "call") = 1 .. Len(cs) /\ Items(d, "result") = {} /\ Items(d, "answer") = {}
      /\ \A i \in 1 .. Len(cs) : d[i].id = cs[i].id
  BY AskedIs
<1> HIDE DEF d
<1>2. Joins(c, d, e)
  BY <1>1, Joined
<1>3. /\ ResultIds(e) = ResultIds(c) /\ (Honest(c) => Honest(e))
      /\ AnswerIds(e) = AnswerIds(c) /\ (Once(c) => Once(e))
  BY <1>1, SameResults, SameAnswers
<1> HIDE DEF e
<1>4. /\ Items(e, "result") = Items(c, "result")
      /\ Items(e, "call") = Items(c, "call") \cup {n + i : i \in 1 .. Len(cs)}
      /\ e \in Seq(ItemSet)
  BY <1>1, <1>2 DEF Joins, ItemsJoin
<1>5. /\ \A i \in Items(c, "call") \cup Items(c, "result") : e[i].id = c[i].id
      /\ \A i \in 1 .. Len(cs) : e[n + i].id = cs[i].id
  BY <1>1, <1>2 DEF Joins, ItemsJoin
<1>6. Ids(e) = Ids(c) \cup {cs[i].id : i \in 1 .. Len(cs)}
  <2>3. ASSUME NEW j \in Items(e, "call")
        PROVE  e[j].id \in {c[i].id : i \in Items(c, "call")} \cup {cs[i].id : i \in 1 .. Len(cs)}
    <3>1. CASE j \in Items(c, "call")
      BY <1>5, <3>1
    <3>2. ASSUME NEW i \in 1 .. Len(cs), j = n + i PROVE e[j].id \in {cs[k].id : k \in 1 .. Len(cs)}
      <4>1. e[j].id = cs[i].id
        BY <1>5, <3>2
      <4> QED BY <4>1
    <3> QED BY <1>4, <3>1, <3>2
  <2>4. ASSUME NEW i \in Items(c, "call") PROVE c[i].id \in {e[j].id : j \in Items(e, "call")}
    <3>1. i \in Items(e, "call") /\ e[i].id = c[i].id
      BY <1>4, <1>5
    <3> QED BY <3>1
  <2>5. ASSUME NEW i \in 1 .. Len(cs) PROVE cs[i].id \in {e[j].id : j \in Items(e, "call")}
    <3>1. n + i \in Items(e, "call") /\ e[n + i].id = cs[i].id
      BY <1>4, <1>5
    <3> QED BY <3>1
  <2>1. {e[i].id : i \in Items(e, "call")} = {c[i].id : i \in Items(c, "call")} \cup {cs[i].id : i \in 1 .. Len(cs)}
    BY <2>3, <2>4, <2>5
  <2>2. {e[i].id : i \in Items(e, "result")} = {c[i].id : i \in Items(c, "result")}
    BY <1>4, <1>5
  <2> QED BY <2>1, <2>2 DEF Ids
<1> QED BY <1>3, <1>4, <1>6, CallIdsAre DEF e, d

\* What their results do.
LEMMA ToldTells ==
  ASSUME NEW c \in Seq(ItemSet), NEW cs \in Seq(Call), NEW words,
         \A i \in 1 .. Len(cs) : words[i] \in {"returned", "skipped", "interrupted"}
  PROVE  LET e == c \o Told(cs, words)
         IN  /\ e \in Seq(ItemSet)
             /\ AnswerIds(e) = AnswerIds(c) /\ (Once(c) => Once(e))
             /\ Ids(e) = Ids(c) \cup CallIds(cs) /\ ResultIds(e) = ResultIds(c) \cup CallIds(cs)
             /\ Honest(c) /\ (\A i \in 1 .. Len(cs) : HonestWord(cs[i].id, words[i])) => Honest(e)
<1> DEFINE d == Told(cs, words)
           e == c \o d
           n == Len(c)
<1>1. /\ d \in Seq(ItemSet) /\ Len(d) = Len(cs)
      /\ Items(d, "result") = 1 .. Len(cs) /\ Items(d, "call") = {} /\ Items(d, "answer") = {}
      /\ \A i \in 1 .. Len(cs) : d[i].id = cs[i].id /\ d[i].word = words[i]
  BY ToldIs
<1> HIDE DEF d
<1>2. Joins(c, d, e)
  BY <1>1, Joined
<1>3. AnswerIds(e) = AnswerIds(c) /\ (Once(c) => Once(e))
  BY <1>1, SameAnswers
<1> HIDE DEF e
<1>4. /\ Items(e, "call") = Items(c, "call")
      /\ Items(e, "result") = Items(c, "result") \cup {n + i : i \in 1 .. Len(cs)}
      /\ e \in Seq(ItemSet)
  BY <1>1, <1>2 DEF Joins, ItemsJoin
<1>5. /\ \A i \in Items(c, "call") \cup Items(c, "result") : e[i] = c[i]
      /\ \A i \in 1 .. Len(cs) : e[n + i].id = cs[i].id /\ e[n + i].word = words[i]
  BY <1>1, <1>2 DEF Joins, ItemsJoin
<1>6. /\ Ids(e) = Ids(c) \cup {cs[i].id : i \in 1 .. Len(cs)}
      /\ ResultIds(e) = ResultIds(c) \cup {cs[i].id : i \in 1 .. Len(cs)}
  <2>3. ASSUME NEW j \in Items(e, "result")
        PROVE  e[j].id \in {c[i].id : i \in Items(c, "result")} \cup {cs[i].id : i \in 1 .. Len(cs)}
    <3>1. CASE j \in Items(c, "result")
      BY <1>5, <3>1
    <3>2. ASSUME NEW i \in 1 .. Len(cs), j = n + i PROVE e[j].id \in {cs[k].id : k \in 1 .. Len(cs)}
      <4>1. e[j].id = cs[i].id
        BY <1>5, <3>2
      <4> QED BY <4>1
    <3> QED BY <1>4, <3>1, <3>2
  <2>4. ASSUME NEW i \in Items(c, "result") PROVE c[i].id \in {e[j].id : j \in Items(e, "result")}
    <3>1. i \in Items(e, "result") /\ e[i].id = c[i].id
      BY <1>4, <1>5
    <3> QED BY <3>1
  <2>5. ASSUME NEW i \in 1 .. Len(cs) PROVE cs[i].id \in {e[j].id : j \in Items(e, "result")}
    <3>1. n + i \in Items(e, "result") /\ e[n + i].id = cs[i].id
      BY <1>4, <1>5
    <3> QED BY <3>1
  <2>1. {e[i].id : i \in Items(e, "result")} = {c[i].id : i \in Items(c, "result")} \cup {cs[i].id : i \in 1 .. Len(cs)}
    BY <2>3, <2>4, <2>5
  <2>2. {e[i].id : i \in Items(e, "call")} = {c[i].id : i \in Items(c, "call")}
    BY <1>4, <1>5
  <2> QED BY <2>1, <2>2 DEF Ids, ResultIds
<1>7. ASSUME Honest(c), \A i \in 1 .. Len(cs) : HonestWord(cs[i].id, words[i]) PROVE Honest(e)
  BY <1>4, <1>5, <1>7 DEF Honest
<1> QED BY <1>3, <1>4, <1>6, <1>7, CallIdsAre DEF e, d

\* A turn whose calls are new and all told is matched like those before it.
LEMMA TurnMatched ==
  ASSUME NEW c \in Seq(ItemSet), NEW cs \in Seq(Call), NEW words,
         \A i \in 1 .. Len(cs) : words[i] \in {"returned", "skipped", "interrupted"},
         Matched(c), Distinct(cs), Ids(c) \cap CallIds(cs) = {}
  PROVE  Matched(c \o Asked(cs) \o Told(cs, words))
<1> DEFINE a == Asked(cs)
           t == Told(cs, words)
           b == c \o a
           e == b \o t
           n == Len(c)
           m == Len(cs)
<1>1. /\ a \in Seq(ItemSet) /\ Len(a) = m /\ m \in Nat
      /\ Items(a, "call") = 1 .. m /\ Items(a, "result") = {}
      /\ \A i \in 1 .. m : a[i].id = cs[i].id /\ a[i].kind = "call"
  BY AskedIs
<1>2. /\ t \in Seq(ItemSet) /\ Len(t) = m
      /\ Items(t, "result") = 1 .. m /\ Items(t, "call") = {}
      /\ \A i \in 1 .. m : t[i].id = cs[i].id /\ t[i].kind = "result"
  BY ToldIs
<1> HIDE DEF a, t
<1>3. Joins(c, a, b) /\ b \in Seq(ItemSet)
  BY <1>1, Joined
<1> HIDE DEF b
<1>4. Joins(b, t, e)
  BY <1>2, <1>3, Joined
<1> HIDE DEF e
<1>5. m \in Nat /\ CallIds(cs) = {cs[i].id : i \in 1 .. m} /\ \A i, k \in 1 .. m : cs[i].id = cs[k].id => i = k
  BY <1>1, CallIdsAre DEF Distinct
<1>17. /\ n \in Nat /\ Len(b) = n + m
       /\ \A i \in 1 .. n : b[i] = c[i]
       /\ \A i \in 1 .. m : b[n + i] = a[i]
       /\ Items(b, "call") = Items(c, "call") \cup {n + i : i \in 1 .. m}
       /\ Items(b, "result") = Items(c, "result")
       /\ Items(c, "call") \subseteq 1 .. n /\ Items(c, "result") \subseteq 1 .. n
  BY <1>1, <1>3 DEF Joins, ItemsJoin
<1>18. /\ \A i \in 1 .. (n + m) : e[i] = b[i]
       /\ \A i \in 1 .. m : e[(n + m) + i] = t[i]
       /\ Items(e, "call") = Items(b, "call")
       /\ Items(e, "result") = Items(b, "result") \cup {(n + m) + i : i \in 1 .. m}
  <2> HIDE DEF m, n
  <2>1. Len(b) = n + m
    BY <1>17
  <2>2. \A i \in 1 .. (n + m) : e[i] = b[i]
    BY <1>4, <2>1, Zenon DEF Joins
  <2>3. \A i \in 1 .. m : e[(n + m) + i] = t[i]
    BY <1>2, <1>4, <2>1, Zenon DEF Joins
  <2>4. Items(e, "call") = Items(b, "call")
    BY <1>2, <1>4 DEF Joins, ItemsJoin
  <2>5. Items(e, "result") = Items(b, "result") \cup {(n + m) + i : i \in 1 .. m}
    <3>1. Items(e, "result") = Items(b, "result") \cup {Len(b) + i : i \in Items(t, "result")}
      BY <1>4 DEF Joins, ItemsJoin
    <3>2. {Len(b) + i : i \in Items(t, "result")} = {(n + m) + i : i \in 1 .. m}
      BY <1>2, <2>1
    <3> QED BY <3>1, <3>2
  <2> QED BY <2>2, <2>3, <2>4, <2>5
<1>6. /\ Items(e, "call") = Items(c, "call") \cup {n + i : i \in 1 .. m}
      /\ Items(e, "result") = Items(c, "result") \cup {(n + m) + i : i \in 1 .. m}
  BY <1>17, <1>18
<1> HIDE DEF m, n
<1>7. ASSUME NEW i \in 1 .. n PROVE e[i] = c[i]
  <2>1. i \in 1 .. (n + m)
    BY <1>5, <1>17
  <2> QED BY <1>17, <1>18, <2>1
<1>8. ASSUME NEW i \in 1 .. m PROVE e[n + i].id = cs[i].id /\ e[n + i].kind = "call"
  <2>1. n + i \in 1 .. (n + m)
    BY <1>5, <1>17
  <2>2. e[n + i] = b[n + i] /\ b[n + i] = a[i]
    BY <1>17, <1>18, <2>1
  <2> QED BY <1>1, <2>2 DEF m
<1>9. ASSUME NEW i \in 1 .. m PROVE e[(n + m) + i].id = cs[i].id /\ e[(n + m) + i].kind = "result"
  BY <1>2, <1>18 DEF m
<1>10. Items(c, "call") \subseteq 1 .. n /\ Items(c, "result") \subseteq 1 .. n
  BY <1>17
<1>11. ASSUME NEW i \in Items(e, "call")
       PROVE  \E j \in Items(e, "result") : /\ e[j].id = e[i].id /\ i < j
                                           /\ \A k \in i .. j : e[k].kind \in {"call", "result"}
  <2>1. CASE i \in Items(c, "call")
    <3>1. PICK j \in Items(c, "result") : /\ c[j].id = c[i].id /\ i < j
                                         /\ \A k \in i .. j : c[k].kind \in {"call", "result"}
      BY <2>1 DEF Matched
    <3>2. i \in 1 .. n /\ j \in 1 .. n /\ j \in Items(e, "result")
      BY <1>6, <1>10, <2>1
    <3>3. \A k \in i .. j : k \in 1 .. n
      BY <1>17, <3>2
    <3> QED BY <1>7, <3>1, <3>2, <3>3
  <2>2. ASSUME NEW x \in 1 .. m, i = n + x
        PROVE  \E j \in Items(e, "result") : /\ e[j].id = e[i].id /\ i < j
                                            /\ \A k \in i .. j : e[k].kind \in {"call", "result"}
    <3> DEFINE j == (n + m) + x
    <3>1. j \in Items(e, "result") /\ e[j].id = e[i].id
      BY <1>6, <1>8, <1>9, <2>2
    <3>2. i < j
      BY <1>5, <1>17, <2>2
    <3>3. ASSUME NEW k \in i .. j PROVE e[k].kind \in {"call", "result"}
      <4>1. \/ k - n \in 1 .. m /\ k = n + (k - n)
            \/ k - (n + m) \in 1 .. m /\ k = (n + m) + (k - (n + m))
        BY <1>5, <1>17, <2>2, <3>3
      <4> QED BY <1>8, <1>9, <4>1
    <3> HIDE DEF j
    <3> QED BY <3>1, <3>2, <3>3
  <2> QED BY <1>6, <2>1, <2>2
<1>12. \A j \in Items(c, "result") : e[j].id = c[j].id /\ e[j].id \notin CallIds(cs)
  BY <1>7, <1>10 DEF Ids
<1>13. \A i \in 1 .. m : e[(n + m) + i].id \in CallIds(cs)
  BY <1>5, <1>9
<1>14. ASSUME NEW j \in Items(e, "result"), NEW k \in Items(e, "result"), e[j].id = e[k].id PROVE j = k
  <2>1. CASE j \in Items(c, "result") /\ k \in Items(c, "result")
    BY <1>12, <1>14, <2>1 DEF Matched
  <2>2. ASSUME NEW x \in 1 .. m, NEW y \in 1 .. m, j = (n + m) + x, k = (n + m) + y PROVE j = k
    BY <1>5, <1>9, <1>14, <2>2
  <2> QED BY <1>6, <1>12, <1>13, <1>14, <2>1, <2>2
<1>15. ASSUME NEW j \in Items(e, "result") PROVE e[j].id \in {e[i].id : i \in Items(e, "call")}
  <2>1. CASE j \in Items(c, "result")
    <3>1. PICK i \in Items(c, "call") : c[i].id = c[j].id
      BY <2>1 DEF Matched
    <3>2. i \in Items(e, "call") /\ e[i].id = e[j].id
      BY <1>6, <1>7, <1>10, <1>12, <2>1, <3>1
    <3> QED BY <3>2
  <2>2. ASSUME NEW x \in 1 .. m, j = (n + m) + x PROVE e[j].id \in {e[i].id : i \in Items(e, "call")}
    <3>1. n + x \in Items(e, "call") /\ e[n + x].id = e[j].id
      BY <1>6, <1>8, <1>9, <2>2
    <3> QED BY <3>1
  <2> QED BY <1>6, <2>1, <2>2
<1>16. Matched(e)
  BY <1>11, <1>14, <1>15 DEF Matched
<1> QED BY <1>16 DEF e, b, a, t

-----------------------------------------------------------------------------
(* The types hold.                                                         *)

\* What `fold_interrupted_turn` says of each call of the dead turn.
FoldedWords == [i \in DOMAIN marker.calls |->
                  IF i \in DOMAIN marker.results THEN marker.results[i] ELSE "interrupted"]

\* The folded snapshot is the old one with the dead turn told after it.
LEMMA FoldedIs ==
  ASSUME Typed
  PROVE  /\ Folded.turn = marker.turn + 1 /\ Folded.delivered = snap.delivered
         /\ Folded.conv = snap.conv \o Asked(marker.calls) \o Told(marker.calls, FoldedWords)
         /\ Folded \in [turn : Nat, conv : Seq(ItemSet), delivered : SUBSET Number]
         /\ \A i \in 1 .. Len(marker.calls) :
               /\ FoldedWords[i] \in {"returned", "skipped", "interrupted"}
               /\ FoldedWords[i] = IF i \in DOMAIN marker.results THEN marker.results[i] ELSE "interrupted"
<1> DEFINE c == snap.conv
           cs == marker.calls
           e == c \o Asked(cs) \o Told(cs, FoldedWords)
<1>1. c \in Seq(ItemSet) /\ cs \in Seq(Call) /\ marker.results \in Seq(Outcome) /\ marker.turn \in Nat
  BY DEF Typed
<1>2. DOMAIN cs = 1 .. Len(cs)
  BY <1>1
<1>3. \A i \in 1 .. Len(cs) : FoldedWords[i] = IF i \in DOMAIN marker.results THEN marker.results[i] ELSE "interrupted"
  BY <1>2 DEF FoldedWords
<1>4. \A i \in DOMAIN marker.results : marker.results[i] \in Outcome
  BY <1>1
<1>5. \A i \in 1 .. Len(cs) : FoldedWords[i] \in {"returned", "skipped", "interrupted"}
  BY <1>3, <1>4 DEF Outcome
<1> HIDE DEF c, cs
<1>6. Asked(cs) \in Seq(ItemSet) /\ Told(cs, FoldedWords) \in Seq(ItemSet)
  BY <1>1, <1>5, AskedIs, ToldIs
<1>7. e \in Seq(ItemSet)
  BY <1>1, <1>6
<1> HIDE DEF e
<1>8. Folded = [snap EXCEPT !.turn = marker.turn + 1, !.conv = e]
  BY DEF Folded, FoldedWords, e, c, cs
<1>9. snap \in [turn : Nat, conv : Seq(ItemSet), delivered : SUBSET Number]
  BY DEF Typed
<1>10. Folded \in [turn : Nat, conv : Seq(ItemSet), delivered : SUBSET Number]
       /\ Folded.turn = marker.turn + 1 /\ Folded.delivered = snap.delivered /\ Folded.conv = e
  <2>1. DOMAIN snap = {"turn", "conv", "delivered"} /\ snap.delivered \in SUBSET Number
    BY <1>9
  <2>2. Folded = [turn |-> marker.turn + 1, conv |-> e, delivered |-> snap.delivered]
    <3>1. snap = [turn |-> snap.turn, conv |-> snap.conv, delivered |-> snap.delivered]
      BY <1>9
    <3> DEFINE t == snap.turn
                 s == snap.conv
                 d == snap.delivered
                 u == marker.turn + 1
    <3> HIDE DEF t, s, d, u
    <3>3. snap = [turn |-> t, conv |-> s, delivered |-> d] /\ Folded = [snap EXCEPT !.turn = u, !.conv = e]
      BY <1>8, <3>1 DEF t, s, d, u
    <3>4. Folded = [turn |-> u, conv |-> e, delivered |-> d]
      BY <3>3
    <3> QED BY <3>4 DEF d, u
  <2> QED BY <1>1, <1>7, <2>1, <2>2
<1> QED BY <1>3, <1>5, <1>10 DEF e, c, cs

\* The calls of a response are calls.
LEMMA ResponseIs ==
  ASSUME minted \in Nat, NEW kinds \in Responses, Respond(kinds)
  PROVE  /\ calls' \in Seq(Call) /\ Len(calls') = Len(kinds) /\ Len(kinds) \in Nat
         /\ \A i \in 1 .. Len(kinds) : calls'[i].id = minted + i
         /\ conv' = conv \o Asked(calls') /\ minted' = minted + Len(kinds)
         /\ CallIds(calls') = (minted + 1) .. (minted + Len(kinds))
<1>1. PICK n \in 1 .. MaxCalls : kinds \in [1 .. n -> CallKind]
  BY DEF Responses
<1>2. n \in Nat /\ n # 0 /\ kinds \in Seq(CallKind) /\ Len(kinds) = n /\ DOMAIN kinds = 1 .. n
  <2>1. n \in Nat /\ n # 0
    BY Bounds
  <2>2. kinds \in Seq(CallKind)
    BY <1>1, <2>1, SeqDef
  <2> QED BY <1>1, <2>1, <2>2
<1> DEFINE cs == [i \in DOMAIN kinds |-> [id |-> minted + i, kind |-> kinds[i]]]
<1>3. cs \in [1 .. n -> Call]
  <2>1. \A i \in 1 .. n : minted + i \in Nat /\ kinds[i] \in CallKind
    BY <1>1, <1>2
  <2> QED BY <1>2, <2>1 DEF Call
<1>4. cs \in Seq(Call) /\ Len(cs) = n
  <2>1. cs \in Seq(Call)
    <3> HIDE DEF cs
    <3> QED BY <1>2, <1>3, SeqDef
  <2> HIDE DEF cs
  <2> QED BY <1>2, <1>3, <2>1
<1>5. \A i \in 1 .. n : cs[i].id = minted + i
  BY <1>2
<1>6. calls' = cs /\ conv' = conv \o Asked(cs) /\ minted' = minted + Len(cs)
  BY DEF Respond
<1> HIDE DEF cs
<1>7. CallIds(cs) = (minted + 1) .. (minted + n)
  <2>1. CallIds(cs) = {cs[i].id : i \in 1 .. n}
    BY <1>4, CallIdsAre
  <2>2. ASSUME NEW x \in (minted + 1) .. (minted + n) PROVE x \in CallIds(cs)
    <3>1. x - minted \in 1 .. n /\ x = minted + (x - minted)
      BY <1>2
    <3> QED BY <1>5, <2>1, <3>1
  <2>3. \A i \in 1 .. n : cs[i].id \in (minted + 1) .. (minted + n)
    BY <1>2, <1>5
  <2> QED BY <2>1, <2>2, <2>3
<1> QED BY <1>2, <1>4, <1>5, <1>6, <1>7

\* A step of the turn that leaves what is typed alone.
LEMMA TypedFrame ==
  ASSUME Typed, UNCHANGED <<conv, calls, results, snap, marker, delivered, turn, minted, stale>>,
         finish' \in BOOLEAN,
         pc' \in {"dispatching", "asking", "answered"} =>
            pc \in {"dispatching", "asking", "answered"} \/ Len(results) < Len(calls),
         pc' = "dispatched" => pc = "dispatched" \/ Len(results) = Len(calls),
         pc' = "calling" => pc = "calling",
         pc' \in {"down"} \cup Ended \cup Opening => pc \in {"down"} \cup Ended \cup Opening
  PROVE  Typed'
BY DEF Typed, Number, ItemSet, Call, Outcome

\* Forgetting leaves nothing untyped.
LEMMA TypedForget ==
  ASSUME Typed, Forget, UNCHANGED minted, pc' \in {"down"} \cup Ended,
         snap' = snap, marker' = marker \/ marker' = NoMarker
  PROVE  Typed'
<1>1. <<>> \in Seq(ItemSet) /\ <<>> \in Seq(Call) /\ <<>> \in Seq(Outcome) /\ Len(<<>>) = 0
  OBVIOUS
<1>2. NoMarker \in [turn : Nat, calls : Seq(Call), results : Seq(Outcome)] /\ Len(NoMarker.results) <= Len(NoMarker.calls)
  BY <1>1 DEF NoMarker
<1>3. conv' = <<>> /\ calls' = <<>> /\ results' = <<>> /\ turn' = 0 /\ delivered' = {} /\ stale' = FALSE /\ finish' = FALSE
  BY DEF Forget
<1>4. pc' \notin {"dispatching", "asking", "answered", "dispatched", "calling"}
  BY DEF Ended
<1>5. /\ marker' \in [turn : Nat, calls : Seq(Call), results : Seq(Outcome)]
      /\ Len(marker'.results) <= Len(marker'.calls)
  BY <1>2 DEF Typed
<1>6. snap' \in [turn : Nat, conv : Seq(ItemSet), delivered : SUBSET Number]
  BY DEF Typed
<1>7. Number' = Number /\ ItemSet' = ItemSet /\ Call' = Call /\ Outcome' = Outcome
  BY DEF Number, ItemSet, Call, Outcome
<1>8. Len(results') <= Len(calls') /\ minted' \in Nat /\ turn' \in Nat
  BY <1>1, <1>3 DEF Typed
<1> QED BY <1>1, <1>3, <1>4, <1>5, <1>6, <1>7, <1>8 DEF Typed

\* A call returns.
LEMMA TypedReturn ==
  ASSUME Typed, NEW word \in Outcome, Return(word), Len(results) < Len(calls), finish' \in BOOLEAN,
         UNCHANGED <<conv, calls, snap, marker, delivered, turn, minted, stale>>
  PROVE  Typed'
<1>1. results' \in Seq(Outcome) /\ Len(results') = Len(results) + 1 /\ Len(results) \in Nat /\ Len(calls) \in Nat
  <2>1. results \in Seq(Outcome) /\ calls \in Seq(Call)
    BY DEF Typed
  <2> QED BY <2>1 DEF Return
<1>2. pc' = "marking" /\ pc' \notin {"down"} \cup Ended \cup Opening
  BY DEF Return, Goto, Ended, Opening
<1> QED BY <1>1, <1>2 DEF Typed, Number, ItemSet, Call, Outcome

\* A snapshot is written or left.
LEMMA SavedIs ==
  ASSUME Typed, NEW n \in Nat, NEW dropped, SaveSnapshot(n, conv, dropped)
  PROVE  /\ snap' \in [turn : Nat, conv : Seq(ItemSet), delivered : SUBSET Number] /\ stale' \in BOOLEAN
         /\ \/ /\ snap'.turn = n /\ snap'.conv = conv /\ snap'.delivered = delivered
               /\ stale' = FALSE /\ UNCHANGED excused
            \/ snap' = snap /\ stale' = TRUE /\ excused' = excused \cup dropped
<1>1. CASE snap' = snap /\ stale' = TRUE /\ excused' = excused \cup dropped
  BY <1>1 DEF Typed
<1>2. CASE snap' = Snapshot(n, conv) /\ stale' = FALSE /\ UNCHANGED excused
  <2>1. conv \in Seq(ItemSet) /\ delivered \in SUBSET Number
    BY DEF Typed
  <2>2. snap' = [turn |-> n, conv |-> conv, delivered |-> delivered]
    BY <1>2 DEF Snapshot
  <2>3. snap' \in [turn : Nat, conv : Seq(ItemSet), delivered : SUBSET Number]
    BY <2>1, <2>2
  <2>4. snap'.turn = n /\ snap'.conv = conv /\ snap'.delivered = delivered
    BY <2>2
  <2> QED BY <1>2, <2>3, <2>4
<1> QED BY <1>1, <1>2 DEF SaveSnapshot

\* One step keeps the types.
LEMMA TypedStep ==
  ASSUME Typed, Numbered, [Next]_vars
  PROVE  Typed'
<1> USE DEF Ended, Opening, Goto
<1>0. /\ Number' = Number /\ ItemSet' = ItemSet /\ Call' = Call /\ Outcome' = Outcome
      /\ finish \in BOOLEAN /\ stale \in BOOLEAN
  BY DEF Number, ItemSet, Call, Outcome, Typed
<1>1. CASE UNCHANGED vars
  BY <1>0, <1>1, TypedFrame DEF vars
<1>2. CASE PreCall
  <2>1. snap' \in [turn : Nat, conv : Seq(ItemSet), delivered : SUBSET Number] /\ stale' \in BOOLEAN
    BY <1>2, SavedIs DEF PreCall, Typed
  <2>2. calls' = <<>> /\ results' = <<>> /\ calls' \in Seq(Call) /\ results' \in Seq(Outcome) /\ Len(results') <= Len(calls')
    BY <1>2 DEF PreCall
  <2> QED BY <1>0, <1>2, <2>1, <2>2 DEF PreCall, Typed
<1>3. ASSUME NEW kinds \in Responses, Respond(kinds) PROVE Typed'
  <2>1. calls' \in Seq(Call) /\ Len(calls') \in Nat /\ minted' \in Nat /\ conv' = conv \o Asked(calls')
    BY <1>3, ResponseIs DEF Typed
  <2>2. conv' \in Seq(ItemSet)
    BY <2>1, AskedTells DEF Typed
  <2>3. results = <<>>
    BY <1>3 DEF Respond, Typed
  <2> QED BY <1>0, <1>3, <2>1, <2>2, <2>3 DEF Respond, Typed
<1>4. ASSUME RespondQuietly \/ Unpark \/ NothingToSettle \/ DropFolded \/ DropMarker \/ ClearMarker PROVE Typed'
  <2>1. NoMarker \in [turn : Nat, calls : Seq(Call), results : Seq(Outcome)]
        /\ Len(NoMarker.results) <= Len(NoMarker.calls)
    BY DEF NoMarker
  <2>2. /\ UNCHANGED <<conv, calls, results, finish, snap, delivered, turn, minted, stale>>
        /\ marker' \in {marker, NoMarker}
        /\ pc' \notin {"dispatching", "asking", "answered", "dispatched", "calling"}
        /\ pc' \in Ended \cup Opening => pc \in Ended \cup Opening
        /\ pc' # "down"
    BY <1>4 DEF RespondQuietly, Unpark, NothingToSettle, AfterSettling, DropFolded, DropMarker, ClearMarker
  <2>3. /\ marker' \in [turn : Nat, calls : Seq(Call), results : Seq(Outcome)]
        /\ Len(marker'.results) <= Len(marker'.calls)
    BY <2>1, <2>2 DEF Typed
  <2> QED BY <1>0, <2>2, <2>3 DEF Typed
<1>5. ASSUME CutCall \/ NextTurn PROVE Typed'
  BY <1>0, <1>5 DEF CutCall, NextTurn, Typed
<1>6. CASE MarkTurn
  <2>1. /\ marker' \in [turn : Nat, calls : Seq(Call), results : Seq(Outcome)]
        /\ Len(marker'.results) <= Len(marker'.calls)
    BY <1>6 DEF MarkTurn, InFlight, Typed
  <2>2. Len(results) # Len(calls) => Len(results) < Len(calls)
    BY DEF Typed
  <2> QED BY <1>0, <1>6, <2>1, <2>2 DEF MarkTurn, Typed
<1>7. ASSUME Skip \/ Work \/ Finish \/ Queue \/ TakeAnswer \/ GiveUpWaiting \/ LeaveUnanswered PROVE Typed'
  <2>1. PICK word \in Outcome : Return(word)
    BY <1>7 DEF Skip, Work, Finish, Queue, TakeAnswer, GiveUpWaiting, LeaveUnanswered, EndWait, Outcome
  <2>2. Len(results) < Len(calls) /\ finish' \in BOOLEAN /\ UNCHANGED <<conv, calls, snap, marker, delivered, turn, minted, stale>>
    BY <1>0, <1>7 DEF Skip, Work, Finish, Queue, TakeAnswer, GiveUpWaiting, LeaveUnanswered,
          EndWait, Dispatching, Typed
  <2> QED BY <2>1, <2>2, TypedReturn
<1>8. ASSUME Ask \/ ConsumeAnswer \/ AskSettle PROVE Typed'
  BY <1>0, <1>8, TypedFrame DEF Ask, ConsumeAnswer, Dispatching, AskSettle
<1>9. CASE JudgeTurn
  <2>1. calls \in Seq(Call) /\ conv \in Seq(ItemSet) /\ Len(results) = Len(calls) /\ results \in Seq(Outcome)
    BY <1>9 DEF JudgeTurn, Typed
  <2>2. \A i \in 1 .. Len(calls) : results[i] \in {"returned", "skipped", "interrupted"}
    BY <2>1 DEF Outcome
  <2>3. conv' \in Seq(ItemSet)
    BY <1>9, <2>1, <2>2, ToldTells DEF JudgeTurn
  <2> QED BY <1>0, <1>9, <2>3 DEF JudgeTurn, Typed
<1>10. CASE PostTurn
  <2>1. snap' \in [turn : Nat, conv : Seq(ItemSet), delivered : SUBSET Number] /\ stale' \in BOOLEAN
    <3>1. turn + 1 \in Nat
      BY DEF Typed
    <3> QED BY <1>10, <3>1, SavedIs DEF PostTurn
  <2> QED BY <1>0, <1>10, <2>1 DEF PostTurn, Typed
<1>11. ASSUME CheckStops \/ OperatorBoundary \/ PollParked \/ PeekNothing \/ JournalLateAnswer \/ ClearAnswer PROVE Typed'
  BY <1>0, <1>11, TypedFrame DEF CheckStops, OperatorBoundary, PollParked, PeekNothing, JournalLateAnswer, ClearAnswer,
     StartCollecting
<1>12. CASE Deliver
  <2>1. poll.took \subseteq Number /\ conv \in Seq(ItemSet)
    BY DEF Numbered, Typed
  <2>2. conv' \in Seq(ItemSet)
    BY <1>12, <2>1, NoticeTells DEF Deliver
  <2>3. pc' \notin {"down", "dispatching", "asking", "answered", "dispatched", "calling"} \cup Ended \cup Opening /\ finish' \in BOOLEAN
    BY <1>0, <1>12 DEF Deliver, AfterPoll, Numbered, Polled, Polling
  <2> QED BY <1>0, <1>12, <2>1, <2>2, <2>3 DEF Deliver, Typed
<1>13. CASE Start
  <2>1. pc' = "collecting" /\ UNCHANGED <<conv, calls, results, snap, marker, delivered, minted, stale, finish>> /\ turn' = 1
    BY <1>13 DEF Start, StartCollecting
  <2> QED BY <1>0, <2>1 DEF Typed
<1>14. CASE AnswerSettle
  BY <1>0, <1>14, TypedFrame DEF AnswerSettle, CloseSettle, AfterSettling
<1>15. CASE FoldInterruptedTurn
  <2>1. snap' \in [turn : Nat, conv : Seq(ItemSet), delivered : SUBSET Number]
    BY <1>15, FoldedIs DEF FoldInterruptedTurn, Typed
  <2> QED BY <1>0, <1>15, <2>1 DEF FoldInterruptedTurn, Typed
<1>16. CASE OpenResumed
  <2>1. snap.turn \in Nat /\ snap.conv \in Seq(ItemSet) /\ snap.delivered \subseteq Number
    BY DEF Typed
  <2>2. pc' = "collecting" /\ UNCHANGED <<calls, results, snap, marker, minted, stale, finish>>
        /\ turn' = snap.turn /\ conv' = snap.conv /\ delivered' = snap.delivered
    BY <1>16 DEF OpenResumed, StartCollecting
  <2> QED BY <1>0, <2>1, <2>2 DEF Typed
<1>17. ASSUME Begin \/ Resume \/ RequestStop \/ \E q \in Question : Answer(q) PROVE Typed'
  BY <1>0, <1>17, TypedFrame DEF Begin, Resume, RequestStop, Answer
<1>18. ASSUME NEW why, End(why), UNCHANGED <<snap, marker, minted>> PROVE Typed'
  BY <1>18, TypedForget DEF End
<1>19. ASSUME EndMaxTurns \/ EndBeforeCall \/ EndQuietly \/ EndCall \/ EndUnexecutable
             \/ EndBeforeResults \/ EndStopped \/ StopAt("boundary") \/ StopAt("parked")
             \/ EndAtSteer \/ EndFinished
      PROVE  Typed'
  BY <1>18, <1>19 DEF EndMaxTurns, EndBeforeCall, EndQuietly, EndCall, EndUnexecutable,
        EndBeforeResults, EndStopped, StopAt, EndAtSteer, EndFinished, EndWith, Polled
<1>20. ASSUME EmitEnd \/ CancelSettle \/ Crash PROVE Typed'
  BY <1>20, TypedForget DEF EmitEnd, CancelSettle, CloseSettle, Crash, Down
<1>22. ASSUME Calling PROVE Typed'
  BY <1>2, <1>3, <1>4, <1>5, <1>19, <1>22 DEF Calling
<1>23. ASSUME Dispatch PROVE Typed'
  BY <1>6, <1>7, <1>8, <1>19, <1>23 DEF Dispatch
<1>24. ASSUME Closing PROVE Typed'
  BY <1>4, <1>5, <1>9, <1>10, <1>11, <1>19, <1>20, <1>24 DEF Closing
<1>25. ASSUME Collecting \/ Resuming \/ Operator PROVE Typed'
  BY <1>4, <1>8, <1>11, <1>12, <1>13, <1>14, <1>15, <1>16, <1>17, <1>19, <1>7, <1>20, <1>25
  DEF Collecting, Resuming, Operator
<1> QED BY <1>1, <1>17, <1>20, <1>22, <1>23, <1>24, <1>25 DEF Next, Drive

-----------------------------------------------------------------------------
(* The delivery of late answers holds.                                     *)

\* A step that neither takes nor tells an answer.
LEMMA DeliveringFrame ==
  ASSUME Delivering, UNCHANGED <<conv, delivered, undelivered, pending, snap, poll, LateRows>>,
         pc' \in Talking <=> pc \in Talking, pc' \in Opening <=> pc \in Opening,
         pc' \in {"down"} \cup Ended => pc \in {"down"} \cup Ended,
         pc' = "clearing" <=> pc = "clearing",
         pc' = "starting" => snap = NoSnap
  PROVE  Delivering'
<1>1. Taking' = Taking
  BY DEF Taking, Peeked
<1> QED BY <1>1 DEF Delivering

\* What a process forgets was not told to anyone but the one before it.
LEMMA DeliveringForget ==
  ASSUME Delivering, Forget, UNCHANGED <<snap, LateRows>>, pc' \in {"down"} \cup Ended
  PROVE  Delivering'
<1>1. pc' \notin Opening \cup Talking /\ pc' # "starting"
  BY DEF Ended, Opening, Talking, InLoop, BesideLoop
<1>2. conv' = <<>> /\ delivered' = {} /\ undelivered' = {} /\ pending' = {}
  BY DEF Forget
<1> QED BY <1>1, <1>2 DEF Delivering

\* A collection begins with what an earlier execution took and never told.
LEMMA DeliveringCollect ==
  ASSUME Delivering, NEW whose, StartCollecting(whose), UNCHANGED <<snap, LateRows, pending>>,
         pc \in Talking => UNCHANGED <<conv, delivered>> /\ pc \notin Polling /\ poll = NoPoll,
         pc \in Opening => conv' = snap.conv /\ delivered' = snap.delivered,
         pc \in Talking \cup Opening
  PROVE  Delivering'
<1>1. /\ pc' = "collecting" /\ poll'.took = undelivered /\ undelivered' = {} /\ Taking' = {}
      /\ pc' \in Talking /\ pc' \notin Opening \cup Ended /\ pc' # "down" /\ pc' # "starting"
  BY DEF StartCollecting, Goto, Taking, Ended, Opening, Talking, InLoop, BesideLoop
<1>2. CASE pc \in Talking
  <2>1. Taking = {} /\ poll.took = {}
    BY <1>2 DEF Taking, NoPoll, Polling
  <2> QED BY <1>1, <1>2, <2>1 DEF Delivering
<1>3. CASE pc \in Opening
  BY <1>1, <1>3 DEF Delivering
<1> QED BY <1>2, <1>3

\* An answer that lies on disk is taken from the least number on.
LEMMA PeekedIs ==
  ASSUME Numbered, poll.left # {}
  PROVE  Peeked \in poll.left /\ Peeked \in pending /\ Peeked \in AskedIds /\ Peeked \in Number
<1>1. poll.left \subseteq 0 .. MaxQuestion /\ poll.left # {}
  BY DEF Numbered, Number
<1>2. \E q \in poll.left : \A p \in poll.left : q <= p
  BY <1>1, LeastElement, Bounds
<1>3. Peeked \in poll.left
  BY <1>2 DEF Peeked, Least
<1> QED BY <1>1, <1>3 DEF Numbered, Number

\* One step keeps the delivery.
LEMMA DeliveringStep ==
  ASSUME Delivering, Typed, Numbered, Fresh, [Next]_vars
  PROVE  Delivering'
<1> USE DEF Ended, Opening, Talking, InLoop, BesideLoop, Goto
<1>0. Journaled /\ events \in Seq(RowSet) /\ LateRows \subseteq AskedIds /\ LateIds = LateRows
      /\ AskedIds \subseteq Number /\ conv \in Seq(ItemSet) /\ snap.conv \in Seq(ItemSet)
  BY NextIsNew DEF Numbered, Journaled, Typed
<1>1. CASE UNCHANGED vars
  BY <1>1, DeliveringFrame, SameJournal DEF vars, Delivering
<1>2. CASE PreCall
  <2>1. /\ UNCHANGED <<conv, delivered, undelivered, pending, poll, Taking, LateRows>>
        /\ pc \in Talking /\ pc' = "calling"
    BY <1>2, SameJournal DEF PreCall, Taking
  <2>2. \/ snap'.conv = conv /\ snap'.delivered = delivered
        \/ snap' = snap
    BY <1>2, SavedIs DEF PreCall, Typed
  <2> QED BY <2>1, <2>2 DEF Delivering
<1>3. ASSUME NEW kinds \in Responses, Respond(kinds) PROVE Delivering'
  <2>1. calls' \in Seq(Call) /\ conv' = conv \o Asked(calls')
    BY <1>3, ResponseIs DEF Typed
  <2>2. AnswerIds(conv') = AnswerIds(conv) /\ (Once(conv) => Once(conv'))
    BY <1>0, <2>1, AskedTells
  <2>3. /\ UNCHANGED <<delivered, undelivered, pending, poll, snap, LateRows, Taking>>
        /\ pc = "calling" /\ pc' = "marking"
    BY <1>3, SameJournal DEF Respond, Taking
  <2> QED BY <2>2, <2>3 DEF Delivering
<1>4. ASSUME RespondQuietly \/ CutCall \/ MarkTurn \/ Skip \/ Work \/ Finish \/ ConsumeAnswer \/ ClearMarker
             \/ NextTurn \/ Unpark \/ DropMarker \/ NothingToSettle \/ DropFolded \/ RequestStop
      PROVE  Delivering'
  <2>1. UNCHANGED <<conv, delivered, undelivered, pending, snap, poll, events>>
    BY <1>4 DEF RespondQuietly, CutCall, MarkTurn, Skip, Work, Finish, ConsumeAnswer, ClearMarker,
       NextTurn, Unpark, DropMarker, NothingToSettle, DropFolded, RequestStop
  <2>2. /\ pc' \in Talking <=> pc \in Talking
        /\ pc' \in Opening <=> pc \in Opening
        /\ pc' \in {"down"} \cup Ended => pc \in {"down"} \cup Ended
        /\ pc' = "clearing" <=> pc = "clearing"
        /\ pc' = "starting" => pc = "starting" \/ snap = NoSnap
    BY <1>4 DEF RespondQuietly, CutCall, MarkTurn, Skip, Work, Finish, ConsumeAnswer, ClearMarker,
       NextTurn, Unpark, DropMarker, NothingToSettle, DropFolded, RequestStop, Return, Dispatching, AfterSettling
  <2>3. pc = "starting" => snap = NoSnap
    BY DEF Delivering
  <2> QED BY <2>1, <2>2, <2>3, DeliveringFrame, SameJournal
<1>5. ASSUME NEW q \in Question, Answer(q) PROVE Delivering'
  BY <1>5, DeliveringFrame, SameJournal DEF Answer, Delivering
<1>6. ASSUME Queue \/ Ask \/ AskSettle PROVE Delivering'
  <2>1. PICK by \in {"model", "agent6"} : Prompt(next, by) /\ pc \in Opening \cup Talking /\ (by = "model" => ~Outside)
    BY <1>6 DEF Queue, Ask, AskSettle, Dispatching, Numbered
  <2>2. LateRows' = LateRows /\ next \notin AskedIds
    BY <2>1, NumberedNext
  <2>3. CASE Queue
    <3>1. /\ UNCHANGED <<conv, delivered, undelivered, snap, poll, LateRows, Taking>>
          /\ pending' \cap LateRows = pending \cap LateRows /\ pc = "dispatching" /\ pc' = "marking"
      BY <1>0, <2>2, <2>3 DEF Queue, Dispatching, Return, Taking
    <3> QED BY <3>1 DEF Delivering
  <2>4. CASE Ask \/ AskSettle
    BY <2>2, <2>4, DeliveringFrame DEF Ask, AskSettle, Dispatching
  <2> QED BY <1>6, <2>3, <2>4
<1>7. ASSUME TakeAnswer \/ GiveUpWaiting \/ LeaveUnanswered \/ AnswerSettle PROVE Delivering'
  <2>1. LateRows' = LateRows
    BY <1>7, NumberedAnswer DEF TakeAnswer, GiveUpWaiting, LeaveUnanswered, AnswerSettle, CloseSettle, EndWait, Numbered
  <2>2. /\ UNCHANGED <<conv, delivered, undelivered, pending, snap, poll>>
        /\ pc' \in Talking <=> pc \in Talking
        /\ pc' \in Opening <=> pc \in Opening
        /\ pc' \notin {"down", "clearing"} \cup Ended /\ pc # "clearing"
        /\ pc' = "starting" => snap = NoSnap
    BY <1>7 DEF TakeAnswer, GiveUpWaiting, LeaveUnanswered, AnswerSettle, CloseSettle, EndWait, Return, AfterSettling
  <2> QED BY <2>1, <2>2, DeliveringFrame
<1>8. CASE JudgeTurn
  <2>1. calls \in Seq(Call) /\ Len(results) = Len(calls) /\ results \in Seq(Outcome)
    BY <1>8 DEF JudgeTurn, Typed
  <2>2. \A i \in 1 .. Len(calls) : results[i] \in {"returned", "skipped", "interrupted"}
    BY <2>1 DEF Outcome
  <2>3. AnswerIds(conv') = AnswerIds(conv) /\ (Once(conv) => Once(conv'))
    BY <1>0, <1>8, <2>1, <2>2, ToldTells DEF JudgeTurn
  <2>4. /\ UNCHANGED <<delivered, undelivered, pending, poll, snap, LateRows, Taking>>
        /\ pc = "dispatched" /\ pc' = "posting"
    BY <1>8, SameJournal DEF JudgeTurn, Taking
  <2> QED BY <2>3, <2>4 DEF Delivering
<1>9. CASE PostTurn
  <2>1. /\ UNCHANGED <<conv, delivered, undelivered, pending, poll, Taking, LateRows>>
        /\ pc \in Talking /\ pc' \in Talking /\ pc' \notin Opening \cup Ended \cup {"down", "starting"}
    BY <1>9, SameJournal DEF PostTurn, Taking
  <2>2. \/ snap'.conv = conv /\ snap'.delivered = delivered
        \/ snap' = snap
    <3>1. turn + 1 \in Nat
      BY DEF Typed
    <3> QED BY <1>9, <3>1, SavedIs DEF PostTurn
  <2> QED BY <2>1, <2>2 DEF Delivering
<1>10. ASSUME CheckStops \/ OperatorBoundary \/ PollParked PROVE Delivering'
  <2>1. /\ UNCHANGED <<conv, delivered, pending, snap, LateRows>>
        /\ pc \in {"checking", "boundary", "parked"} /\ poll = NoPoll
    BY <1>10, SameJournal DEF CheckStops, OperatorBoundary, PollParked, Numbered, Polling
  <2>2. ASSUME NEW whose, StartCollecting(whose) PROVE Delivering'
    BY <2>1, <2>2, DeliveringCollect DEF Polling
  <2>3. CASE CheckStops /\ ~finish
    BY <2>1, <2>3, DeliveringFrame DEF CheckStops
  <2> QED BY <1>10, <2>2, <2>3 DEF CheckStops, OperatorBoundary, PollParked
<1>11. CASE PeekNothing
  <2>1. /\ UNCHANGED <<conv, delivered, undelivered, pending, snap, LateRows, pc>> /\ Taking = {} /\ Taking' = {}
        /\ pc = "collecting" /\ poll'.took = poll.took
    BY <1>11, SameJournal DEF PeekNothing, Taking, Numbered
  <2> QED BY <2>1 DEF Delivering
<1>12. CASE JournalLateAnswer
  <2>1. Peeked \in pending /\ Peeked \in AskedIds /\ Peeked \in Number
    BY <1>12, PeekedIs DEF JournalLateAnswer
  <2>2. LateRows' = LateRows \cup {Peeked}
    BY <1>12, <2>1, NumberedAnswer DEF JournalLateAnswer
  <2>3. /\ UNCHANGED <<conv, delivered, undelivered, pending, snap, poll>> /\ Taking = {} /\ Taking' = {Peeked}
        /\ pc = "collecting" /\ pc' = "clearing"
    BY <1>12 DEF JournalLateAnswer, Taking, Peeked
  <2>4. Peeked \notin LateRows
    BY <2>1, <2>3 DEF Delivering
  <2> QED BY <2>1, <2>2, <2>3, <2>4 DEF Delivering
<1>13. CASE ClearAnswer
  <2>1. /\ UNCHANGED <<conv, delivered, undelivered, snap, LateRows>> /\ Taking = {Peeked} /\ Taking' = {}
        /\ pc = "clearing" /\ pc' = "collecting" /\ pending' = pending \ {Peeked}
        /\ poll'.took = poll.took \cup {Peeked}
    BY <1>13, SameJournal DEF ClearAnswer, Taking, Numbered
  <2> QED BY <2>1 DEF Delivering
<1>14. CASE Deliver
  <2>1. poll.took \subseteq Number
    BY DEF Numbered
  <2>2. /\ AnswerIds(conv') = AnswerIds(conv) \cup poll.took
        /\ Once(conv) /\ AnswerIds(conv) \cap poll.took = {} => Once(conv')
    BY <1>0, <1>14, <2>1, NoticeTells DEF Deliver
  <2>3. /\ UNCHANGED <<undelivered, pending, snap, LateRows>> /\ Taking = {} /\ Taking' = {}
        /\ pc = "collecting" /\ pc' \in Talking /\ pc' \notin Opening \cup Ended \cup {"down", "starting"}
        /\ delivered' = delivered \cup poll.took /\ poll'.took = {}
    BY <1>14, SameJournal DEF Deliver, Taking, Polled, AfterPoll, Numbered, Polling, NoPoll
  <2> QED BY <2>2, <2>3 DEF Delivering
<1>15. CASE Start
  <2>1. LateRows' = LateRows
    BY <1>15, NumberedOpens DEF Start
  <2>2. snap = NoSnap /\ conv = <<>> /\ delivered = {}
    BY <1>15 DEF Start, Delivering
  <2> QED BY <1>15, <2>1, <2>2, DeliveringCollect DEF Start, NoSnap
<1>16. CASE OpenResumed
  <2>1. LateRows' = LateRows
    BY <1>16, NumberedOpens DEF OpenResumed
  <2> QED BY <1>16, <2>1, DeliveringCollect DEF OpenResumed
<1>17. CASE FoldInterruptedTurn
  <2>1. UNCHANGED <<conv, delivered, undelivered, pending, poll, LateRows>> /\ pc = "folding" /\ pc' = "folded"
    BY <1>17, SameJournal DEF FoldInterruptedTurn
  <2>2. snap'.delivered = snap.delivered /\ AnswerIds(snap'.conv) = AnswerIds(snap.conv) /\ (Once(snap.conv) => Once(snap'.conv))
    <3>1. CASE snap' = snap
      BY <3>1
    <3>2. CASE snap' = Folded
      <4> DEFINE b == snap.conv \o Asked(marker.calls)
      <4>1. marker.calls \in Seq(Call)
        BY DEF Typed
      <4>2. b \in Seq(ItemSet) /\ AnswerIds(b) = AnswerIds(snap.conv) /\ (Once(snap.conv) => Once(b))
        BY <1>0, <4>1, AskedTells
      <4>3. snap'.delivered = snap.delivered /\ snap'.conv = b \o Told(marker.calls, FoldedWords)
            /\ \A i \in 1 .. Len(marker.calls) : FoldedWords[i] \in {"returned", "skipped", "interrupted"}
        BY <3>2, FoldedIs
      <4> HIDE DEF b
      <4>4. AnswerIds(snap'.conv) = AnswerIds(b) /\ (Once(b) => Once(snap'.conv))
        BY <4>1, <4>2, <4>3, ToldTells
      <4> QED BY <4>2, <4>3, <4>4
    <3> QED BY <1>17, <3>1, <3>2 DEF FoldInterruptedTurn
  <2> QED BY <2>1, <2>2 DEF Delivering
<1>18. CASE Begin
  <2>1. UNCHANGED <<conv, delivered, undelivered, pending, snap, LateRows>> /\ pc = "down" /\ pc' = "settling"
    BY <1>18, SameJournal DEF Begin
  <2>2. LateRows = {}
    BY <1>18 DEF Begin, Fresh, LateRows
  <2> QED BY <2>1, <2>2 DEF Delivering
<1>19. CASE Resume
  <2>1. /\ UNCHANGED <<conv, delivered, snap, LateRows>> /\ pc = "down" /\ pc' = "settling"
        /\ undelivered' = LateRows \ snap.delivered /\ pending' = CarriedPending
    BY <1>0, <1>19, SameJournal DEF Resume, Undelivered
  <2>2. CarriedPending \cap LateRows = {}
    BY <1>0, NextIsNew
  <2> QED BY <2>1, <2>2 DEF Delivering
<1>20. ASSUME NEW why, End(why), UNCHANGED <<snap, events>> PROVE Delivering'
  BY <1>20, DeliveringForget, SameJournal DEF End
<1>21. ASSUME EndMaxTurns \/ EndBeforeCall \/ EndQuietly \/ EndCall \/ EndUnexecutable
             \/ EndBeforeResults \/ EndStopped \/ StopAt("boundary") \/ StopAt("parked")
             \/ EndAtSteer \/ EndFinished
       PROVE Delivering'
  BY <1>20, <1>21 DEF EndMaxTurns, EndBeforeCall, EndQuietly, EndCall, EndUnexecutable,
        EndBeforeResults, EndStopped, StopAt, EndAtSteer, EndFinished, EndWith, Polled
<1>22. ASSUME EmitEnd \/ CancelSettle \/ Crash PROVE Delivering'
  <2>1. LateRows' = LateRows
    <3>1. CASE UNCHANGED events
      BY <3>1, SameJournal
    <3>2. CASE Log(Row("end", NoQuestion, ""))
      <4>1. Row("end", NoQuestion, "") \in RowSet
        BY NoQuestionIsNumber DEF Row, RowSet
      <4> QED BY <1>0, <3>2, <4>1, LoggedOther DEF Row
    <3>3. CASE Log(Row("answer", asking, "operator"))
      BY <3>3, NumberedAnswer DEF Numbered
    <3> QED BY <1>22, <3>1, <3>2, <3>3 DEF EmitEnd, CancelSettle, CloseSettle, Crash
  <2> QED BY <1>22, <2>1, DeliveringForget DEF EmitEnd, CancelSettle, CloseSettle, Crash, Down
<1>23. ASSUME Calling \/ Dispatch PROVE Delivering'
  BY <1>2, <1>3, <1>4, <1>6, <1>7, <1>21, <1>23 DEF Calling, Dispatch
<1>24. ASSUME Closing PROVE Delivering'
  BY <1>4, <1>8, <1>9, <1>10, <1>21, <1>22, <1>24 DEF Closing
<1>25. ASSUME Collecting \/ Resuming \/ Operator PROVE Delivering'
  BY <1>4, <1>5, <1>6, <1>7, <1>11, <1>12, <1>13, <1>14, <1>15, <1>16, <1>17, <1>21, <1>22, <1>25
  DEF Collecting, Resuming, Operator
<1> QED BY <1>1, <1>18, <1>19, <1>22, <1>23, <1>24, <1>25 DEF Next, Drive

\* Types and delivery hold in every state.
THEOREM DeliveringInvariance == Spec => [](Fresh /\ Numbered /\ Typed /\ Delivering)
<1>1. Init => Typed
  <2> SUFFICES ASSUME Init PROVE Typed
    OBVIOUS
  <2>1. <<>> \in Seq(ItemSet) /\ <<>> \in Seq(Call) /\ <<>> \in Seq(Outcome) /\ Len(<<>>) = 0
    OBVIOUS
  <2>2. snap \in [turn : Nat, conv : Seq(ItemSet), delivered : SUBSET Number]
    BY <2>1 DEF Init, NoSnap
  <2>3. marker \in [turn : Nat, calls : Seq(Call), results : Seq(Outcome)] /\ Len(marker.results) <= Len(marker.calls)
    BY <2>1 DEF Init, NoMarker
  <2>4. /\ conv = <<>> /\ calls = <<>> /\ results = <<>> /\ delivered = {} /\ turn = 0 /\ minted = 0
        /\ stale = FALSE /\ finish = FALSE /\ pc = "down"
    BY DEF Init
  <2>5. Len(results) <= Len(calls)
    BY <2>1, <2>4
  <2> QED BY <2>1, <2>2, <2>3, <2>4, <2>5 DEF Typed
<1>2. Init => Delivering
  <2> SUFFICES ASSUME Init PROVE Delivering
    OBVIOUS
  <2>1. LateRows = {} /\ Items(<<>>, "answer") = {}
    BY DEF Init, LateRows, Items
  <2>2. AnswerIds(<<>>) = {} /\ Once(<<>>)
    BY <2>1 DEF AnswerIds, Once
  <2>3. pc \notin Opening \cup Talking /\ pc # "starting"
    BY DEF Init, Opening, Talking, InLoop, BesideLoop
  <2> QED BY <2>1, <2>2, <2>3 DEF Init, Delivering, NoSnap
<1>3. Numbered /\ Typed /\ [Next]_vars => Typed'
  BY TypedStep
<1>4. Fresh /\ Numbered /\ Typed /\ Delivering /\ [Next]_vars => Delivering'
  BY DeliveringStep
<1> QED BY <1>1, <1>2, <1>3, <1>4, NumberedInvariance, PTL DEF Spec

\* Over every death and failed snapshot, a late answer the journal has is in the
\* next request, and is there once.
THEOREM LateToldOnceHolds == Spec => []LateToldOnce
<1>1. Numbered /\ Delivering => LateToldOnce
  <2> SUFFICES ASSUME Numbered, Delivering, pc = "calling" PROVE LateToldOnce
    BY DEF LateToldOnce
  <2>1. LateRows = AnswerIds(conv) /\ Once(conv)
    <3>1. pc \in Talking /\ poll = NoPoll /\ Taking = {}
      BY DEF Numbered, Talking, BesideLoop, Polling, Taking
    <3> QED BY <3>1 DEF Delivering, NoPoll
  <2>2. ASSUME NEW q \in LateRows PROVE Cardinality({i \in Items(conv, "answer") : conv[i].id = q}) = 1
    <3>1. PICK i \in Items(conv, "answer") : conv[i].id = q
      BY <2>1 DEF AnswerIds
    <3>2. {k \in Items(conv, "answer") : conv[k].id = q} = {i}
      BY <2>1, <3>1 DEF Once
    <3> QED BY <3>2, FS_Singleton
  <2>3. \A i \in Items(conv, "answer") : conv[i].id \in LateRows
    BY <2>1 DEF AnswerIds
  <2> QED BY <2>2, <2>3 DEF LateToldOnce
<1> QED BY <1>1, DeliveringInvariance, PTL

-----------------------------------------------------------------------------
(* A finish hears the answers.                                             *)

\* A late answer is journaled by the collector alone.
LEMMA LateRowsAre ==
  ASSUME Numbered, [Next]_vars
  PROVE  LateRows' = LateRows \/ JournalLateAnswer
<1> SUFFICES ASSUME ~JournalLateAnswer PROVE LateRows' = LateRows
  OBVIOUS
<1>0. events \in Seq(RowSet)
  BY DEF Numbered, Journaled
<1>1. CASE UNCHANGED events
  BY <1>1, SameJournal
<1>2. ASSUME NEW row \in RowSet, Log(row), row.type # "answer", row.type # "prompt" PROVE LateRows' = LateRows
  BY <1>0, <1>2, LoggedOther
<1>3. ASSUME Start \/ OpenResumed \/ EmitEnd, ~ UNCHANGED events PROVE LateRows' = LateRows
  <2>1. PICK kind \in {"start", "resume", "end"} : Log(Row(kind, NoQuestion, ""))
    BY <1>3 DEF Start, OpenResumed, EmitEnd
  <2>2. Row(kind, NoQuestion, "") \in RowSet
    BY NoQuestionIsNumber DEF Row, RowSet
  <2> QED BY <1>2, <2>1, <2>2 DEF Row
<1>4. ASSUME Queue \/ Ask \/ AskSettle PROVE LateRows' = LateRows
  <2>1. PICK by \in {"model", "agent6"} : Prompt(next, by) /\ pc \in Opening \cup Talking /\ (by = "model" => ~Outside)
    BY <1>4 DEF Queue, Ask, AskSettle, Dispatching, Numbered, Opening, Talking, InLoop
  <2> QED BY <2>1, NumberedNext
<1>5. ASSUME Log(Row("answer", asking, "operator")) PROVE LateRows' = LateRows
  BY <1>5, NumberedAnswer DEF Numbered
<1>6. ASSUME TakeAnswer \/ GiveUpWaiting \/ LeaveUnanswered \/ AnswerSettle \/ CancelSettle PROVE LateRows' = LateRows
  BY <1>5, <1>6 DEF TakeAnswer, GiveUpWaiting, LeaveUnanswered, EndWait, AnswerSettle, CancelSettle, CloseSettle
<1>7. CASE UNCHANGED vars
  BY <1>1, <1>7 DEF vars
<1>8. CASE Calling
  BY <1>1, <1>8 DEF Calling, PreCall, EndMaxTurns, EndBeforeCall, RespondQuietly, EndQuietly, EndCall, CutCall,
     Respond, EndWith
<1>9. CASE Dispatch
  BY <1>1, <1>4, <1>6, <1>9 DEF Dispatch, MarkTurn, Skip, Work, Finish, EndUnexecutable, ConsumeAnswer, EndWith
<1>10. CASE Closing
  BY <1>1, <1>3, <1>10 DEF Closing, EndBeforeResults, JudgeTurn, PostTurn, ClearMarker, EndStopped, CheckStops,
     StopAt, OperatorBoundary, NextTurn, EndAtSteer, PollParked, DropMarker, EndWith
<1>11. CASE Collecting
  BY <1>1, <1>11 DEF Collecting, PeekNothing, ClearAnswer, Deliver, EndFinished, EndWith
<1>12. CASE Resuming
  BY <1>1, <1>3, <1>6, <1>12 DEF Resuming, NothingToSettle, FoldInterruptedTurn, DropFolded
<1>13. CASE Operator
  BY <1>1, <1>4, <1>6, <1>13 DEF Operator, RequestStop, Unpark, Answer
<1>14. CASE Begin \/ Resume \/ Crash
  BY <1>1, <1>14 DEF Begin, Resume, Crash
<1> QED BY <1>7, <1>8, <1>9, <1>10, <1>11, <1>12, <1>13, <1>14 DEF Next, Drive

\* One step keeps what a finish has heard.
LEMMA HearingStep ==
  ASSUME Hearing, Delivering, Numbered, Typed, [Next]_vars
  PROVE  Hearing'
<1> USE DEF Ended, Opening, InLoop, Polling, Goto, FinishHearsAnswers
<1>1. LateRows' = LateRows \/ JournalLateAnswer
  BY LateRowsAre
<1>2. CASE UNCHANGED vars
  BY <1>2, SameJournal DEF Hearing, vars, Taking, Peeked
<1>3. CASE PreCall
  <2>1. LateRows = AnswerIds(conv)
    <3>1. pc \in Talking /\ poll = NoPoll /\ Taking = {}
      BY <1>3 DEF PreCall, Numbered, Talking, BesideLoop, Taking
    <3> QED BY <3>1 DEF Delivering, NoPoll
  <2>2. heard' = AnswerIds(conv)
    BY <1>3 DEF PreCall, AnswerIds, Items
  <2>3. calls' = <<>> /\ pc' = "calling" /\ LateRows' = LateRows
    BY <1>1, <1>3 DEF PreCall, JournalLateAnswer
  <2> QED BY <2>1, <2>2, <2>3 DEF Hearing
<1>4. ASSUME NEW kinds \in Responses, Respond(kinds) PROVE Hearing'
  BY <1>1, <1>4 DEF Hearing, Respond, JournalLateAnswer
<1>5. ASSUME RespondQuietly \/ CutCall \/ MarkTurn \/ Skip \/ Work \/ Finish \/ Queue \/ Ask \/ ConsumeAnswer
             \/ TakeAnswer \/ GiveUpWaiting \/ LeaveUnanswered \/ JudgeTurn \/ PostTurn \/ ClearMarker \/ NextTurn
             \/ DropMarker \/ Unpark \/ AskSettle \/ NothingToSettle \/ AnswerSettle \/ FoldInterruptedTurn \/ DropFolded
      PROVE  Hearing'
  <2>1. LateRows' = LateRows /\ UNCHANGED <<calls, heard, poll>>
    BY <1>1, <1>5 DEF RespondQuietly, CutCall, MarkTurn, Skip, Work, Finish, Queue, Ask, ConsumeAnswer,
       TakeAnswer, GiveUpWaiting, LeaveUnanswered, EndWait, JudgeTurn, PostTurn, ClearMarker, NextTurn, DropMarker, Unpark,
       AskSettle, NothingToSettle, AnswerSettle, CloseSettle, FoldInterruptedTurn, DropFolded, JournalLateAnswer,
       Dispatching, Return, AfterSettling
  <2>2. /\ pc' \in {"calling", "posted", "checking"} \cup InLoop =>
              pc \in {"calling", "posted", "checking"} \cup InLoop \/ (pc = "posting" /\ calls # <<>>)
        /\ pc' = "posting" => pc \in {"calling", "parked"} \cup InLoop
        /\ pc' \in {"parked", "calling"} => pc = "calling"
        /\ pc' \notin Polling \cup {"ending"}
    BY <1>5 DEF RespondQuietly, CutCall, MarkTurn, Skip, Work, Finish, Queue, Ask, ConsumeAnswer,
       TakeAnswer, GiveUpWaiting, LeaveUnanswered, EndWait, JudgeTurn, PostTurn, ClearMarker, NextTurn, DropMarker, Unpark,
       AskSettle, NothingToSettle, AnswerSettle, CloseSettle, FoldInterruptedTurn, DropFolded, Dispatching, Return,
       AfterSettling
  <2> QED BY <2>1, <2>2 DEF Hearing
<1>6. ASSUME CheckStops \/ OperatorBoundary \/ PollParked PROVE Hearing'
  <2>1. LateRows' = LateRows /\ UNCHANGED <<calls, heard>> /\ pc \notin Polling
    BY <1>1, <1>6 DEF CheckStops, OperatorBoundary, PollParked, JournalLateAnswer
  <2>2. CASE CheckStops
    BY <2>1, <2>2 DEF CheckStops, StartCollecting, Hearing
  <2>3. CASE OperatorBoundary
    BY <2>1, <2>3 DEF OperatorBoundary, StartCollecting, Hearing
  <2>4. CASE PollParked
    BY <2>1, <2>4 DEF PollParked, StartCollecting, Hearing
  <2> QED BY <1>6, <2>2, <2>3, <2>4
<1>7. ASSUME Start \/ OpenResumed PROVE Hearing'
  <2>1. pc' = "collecting" /\ poll'.for = "opening"
    <3>1. StartCollecting("opening")
      BY <1>7 DEF Start, OpenResumed
    <3> QED BY <3>1 DEF StartCollecting
  <2> QED BY <2>1 DEF Hearing
<1>8. CASE PeekNothing
  <2>1. LateRows' = LateRows /\ UNCHANGED <<calls, heard, pc>> /\ pc = "collecting" /\ poll'.for = poll.for
        /\ poll'.took = poll.took /\ Taking = {} /\ Taking' = {}
    BY <1>1, <1>8 DEF PeekNothing, Taking, JournalLateAnswer, Numbered
  <2> QED BY <2>1 DEF Hearing
<1>9. CASE JournalLateAnswer
  <2>1. Peeked \in AskedIds /\ Peeked \in Number
    BY <1>9, PeekedIs DEF JournalLateAnswer
  <2>2. LateRows' = LateRows \cup {Peeked}
    BY <1>9, <2>1, NumberedAnswer DEF JournalLateAnswer
  <2>3. /\ UNCHANGED <<calls, heard, poll>> /\ Taking = {} /\ Taking' = {Peeked}
        /\ pc = "collecting" /\ pc' = "clearing"
    BY <1>9 DEF JournalLateAnswer, Taking, Peeked
  <2> QED BY <2>2, <2>3 DEF Hearing
<1>10. CASE ClearAnswer
  <2>1. /\ LateRows' = LateRows /\ UNCHANGED <<calls, heard>> /\ Taking = {Peeked} /\ Taking' = {}
        /\ pc = "clearing" /\ pc' = "collecting"
        /\ poll'.took = poll.took \cup {Peeked} /\ poll'.for = poll.for
    BY <1>1, <1>10 DEF ClearAnswer, JournalLateAnswer, Taking, Numbered
  <2> QED BY <2>1 DEF Hearing
<1>11. CASE Deliver
  <2>1. /\ UNCHANGED calls /\ pc = "collecting" /\ pc' \in {"precall", "steer", "parked", "posting", "boundary"}
        /\ pc' \in {"parked", "posting"} => poll.for = "parked"
    BY <1>11 DEF Deliver, AfterPoll, Polled, Numbered
  <2> QED BY <2>1 DEF Hearing
<1>12. ASSUME EndFinished \/ EndStopped \/ EndBeforeResults \/ EndQuietly PROVE Hearing'
  <2>1. LateRows' = LateRows /\ UNCHANGED heard /\ pc' = "ending"
    BY <1>1, <1>12 DEF EndFinished, EndStopped, EndBeforeResults, EndQuietly, EndWith, End, JournalLateAnswer, Polled
  <2>2. LateRows \subseteq heard
    BY <1>12 DEF EndFinished, EndStopped, EndBeforeResults, EndQuietly, Hearing, Polled, PutsFinishOff, Taking
  <2> QED BY <2>1, <2>2 DEF Hearing
<1>13. ASSUME EndMaxTurns \/ EndBeforeCall \/ EndCall \/ EndUnexecutable \/ StopAt("boundary") \/ StopAt("parked")
             \/ EndAtSteer
       PROVE Hearing'
  <2>1. pc' = "ending" /\ reason' # "completed"
    BY <1>13 DEF EndMaxTurns, EndBeforeCall, EndCall, EndUnexecutable, StopAt, EndAtSteer, EndWith, End
  <2> QED BY <2>1 DEF Hearing
<1>14. ASSUME EmitEnd \/ CancelSettle \/ Crash \/ Begin \/ Resume PROVE Hearing'
  <2>1. pc' \in {"down", "settling"}
    BY <1>14 DEF EmitEnd, CancelSettle, Crash, Down, Begin, Resume
  <2> QED BY <2>1 DEF Hearing
<1>15. ASSUME RequestStop \/ \E q \in Question : Answer(q) PROVE Hearing'
  <2>1. UNCHANGED <<pc, calls, heard, poll, reason, events>>
    BY <1>15 DEF RequestStop, Answer
  <2>2. UNCHANGED <<Taking, LateRows>>
    BY <2>1, SameJournal DEF Taking, Peeked
  <2> QED BY <2>1, <2>2 DEF Hearing
<1>16. ASSUME Calling \/ Dispatch PROVE Hearing'
  BY <1>3, <1>4, <1>5, <1>12, <1>13, <1>16 DEF Calling, Dispatch
<1>17. ASSUME Closing PROVE Hearing'
  BY <1>5, <1>6, <1>12, <1>13, <1>14, <1>17 DEF Closing
<1>18. ASSUME Collecting \/ Resuming \/ Operator PROVE Hearing'
  BY <1>5, <1>7, <1>8, <1>9, <1>10, <1>11, <1>12, <1>14, <1>15, <1>18 DEF Collecting, Resuming, Operator
<1> QED BY <1>2, <1>14, <1>16, <1>17, <1>18 DEF Next, Drive

\* What a finish has heard holds in every state.
LEMMA HearingInvariance == Spec => []Hearing
<1>1. Init => Hearing
  BY DEF Init, Hearing, InLoop, Polling, FinishHearsAnswers
<1>2. Hearing /\ Delivering /\ Numbered /\ Typed /\ [Next]_vars => Hearing'
  BY HearingStep
<1> QED BY <1>1, <1>2, DeliveringInvariance, PTL DEF Spec

\* The run never finishes over an answer it took and the model has not read.
THEOREM FinishHearsAnswersHolds == Spec => []FinishHearsAnswers
<1>1. Hearing => FinishHearsAnswers
  BY DEF Hearing
<1> QED BY <1>1, HearingInvariance, PTL

-----------------------------------------------------------------------------
(* The turns of the snapshot, the marker and the process.                  *)

\* One step keeps the order of the turns.
LEMMA TurnsStep ==
  ASSUME Turns, Typed, Numbered, Fresh, [Next]_vars
  PROVE  Turns'
<1> USE DEF Opening, Talking, InLoop, BesideLoop, Polling, Goto
<1>0. turn \in Nat /\ snap.turn \in Nat /\ marker.turn \in Nat
  BY DEF Typed
<1>1. CASE UNCHANGED vars
  BY <1>1 DEF Turns, vars
<1>2. CASE PreCall
  <2>1. pc = "precall" /\ pc' = "calling" /\ UNCHANGED <<marker, turn>>
    BY <1>2 DEF PreCall
  <2>2. snap'.turn = turn \/ snap' = snap
    BY <1>2, SavedIs DEF PreCall, Typed
  <2> QED BY <1>0, <2>1, <2>2 DEF Turns
<1>3. CASE PostTurn
  <2>1. pc = "posting" /\ pc' \in {"boundary", "posted"} /\ UNCHANGED <<marker, turn>>
    BY <1>3 DEF PostTurn
  <2>2. snap'.turn = turn + 1 \/ snap' = snap
    <3>1. turn + 1 \in Nat
      BY <1>0
    <3> QED BY <1>3, <3>1, SavedIs DEF PostTurn
  <2> QED BY <1>0, <2>1, <2>2 DEF Turns
<1>4. CASE CutCall \/ NextTurn
  <2>1. /\ pc \in {"calling", "steer"} /\ pc' = "precall" /\ UNCHANGED <<marker, snap>> /\ turn' = turn + 1
    BY <1>4 DEF CutCall, NextTurn
  <2> QED BY <1>0, <2>1 DEF Turns
<1>5. CASE MarkTurn
  <2>1. pc = "marking" /\ pc' \in {"dispatching", "dispatched"} /\ UNCHANGED <<snap, turn>>
        /\ (marker'.turn = turn \/ marker' = marker)
    BY <1>5 DEF MarkTurn, InFlight
  <2> QED BY <1>0, <2>1 DEF Turns
<1>6. CASE ClearMarker \/ DropMarker \/ DropFolded
  <2>1. /\ marker' \in {marker, NoMarker} /\ UNCHANGED <<snap, turn>>
        /\ \/ pc = "posted" /\ pc' = "checking"
           \/ pc' = "ended"
           \/ pc = "folded" /\ pc' = "loaded" /\ marker' = NoMarker
    BY <1>6 DEF ClearMarker, DropMarker, DropFolded
  <2>2. NoMarker.turn = 0
    BY DEF NoMarker
  <2> QED BY <1>0, <2>1, <2>2 DEF Turns
<1>7. CASE \E kinds \in Responses : Respond(kinds)
  BY <1>7 DEF Respond, Turns
<1>8. ASSUME RespondQuietly \/ Skip \/ Work \/ Finish \/ Queue \/ Ask \/ TakeAnswer \/ GiveUpWaiting
             \/ LeaveUnanswered \/ JudgeTurn \/ Unpark
      PROVE  Turns'
  <2>1. /\ UNCHANGED <<snap, marker, turn>> /\ pc \in Talking /\ pc' \in Talking
        /\ pc' \notin Polling \cup {"precall", "calling"}
    BY <1>8 DEF RespondQuietly, Skip, Work, Finish, Queue, Ask, TakeAnswer, GiveUpWaiting, LeaveUnanswered, EndWait,
       JudgeTurn, Unpark, Dispatching, Return
  <2> QED BY <2>1 DEF Turns
<1>9. CASE ConsumeAnswer
  BY <1>9 DEF ConsumeAnswer, Turns
<1>10. ASSUME CheckStops \/ OperatorBoundary \/ PollParked PROVE Turns'
  <2>1. /\ UNCHANGED <<snap, marker, turn>> /\ pc \in Talking
        /\ \/ pc' = "boundary"
           \/ pc' = "collecting" /\ poll'.for # "opening"
    BY <1>10 DEF CheckStops, OperatorBoundary, PollParked, StartCollecting
  <2> QED BY <2>1 DEF Turns
<1>11. ASSUME PeekNothing \/ JournalLateAnswer \/ ClearAnswer PROVE Turns'
  <2>1. /\ UNCHANGED <<snap, marker, turn>> /\ pc \in Polling /\ pc' \in Polling
        /\ poll'.for = poll.for
    BY <1>11 DEF PeekNothing, JournalLateAnswer, ClearAnswer, Numbered
  <2> QED BY <2>1 DEF Turns
<1>12. CASE Deliver
  <2>1. /\ UNCHANGED <<snap, marker, turn>> /\ pc = "collecting" /\ pc' \in Talking \ (Polling \cup {"calling"})
        /\ pc' = "precall" => poll.for = "opening"
    BY <1>12 DEF Deliver, AfterPoll, Polled, Numbered
  <2> QED BY <2>1 DEF Turns
<1>13. CASE Start
  <2>1. /\ UNCHANGED <<snap, marker>> /\ pc = "starting" /\ pc' = "collecting" /\ turn' = 1
    BY <1>13 DEF Start, StartCollecting
  <2>2. marker.turn = 0
    BY <2>1 DEF Turns, NoMarker
  <2>3. turn' >= 1 /\ marker'.turn < turn' /\ marker'.turn <= turn' /\ snap' = NoSnap
    BY <2>1, <2>2 DEF Turns
  <2> QED BY <2>1, <2>3 DEF Turns
<1>14. CASE OpenResumed
  <2>1. /\ UNCHANGED <<snap, marker>> /\ pc = "loaded" /\ pc' = "collecting" /\ turn' = snap.turn
    BY <1>14 DEF OpenResumed, StartCollecting
  <2>2. marker.turn = 0 /\ snap.turn >= 1
    BY <2>1 DEF Turns, NoMarker
  <2>3. turn' >= 1 /\ marker'.turn < turn' /\ marker'.turn <= turn'
    BY <1>0, <2>1, <2>2
  <2>4. snap' # NoSnap /\ snap'.turn >= 1
    BY <2>1, <2>2 DEF Turns
  <2> QED BY <2>1, <2>3, <2>4 DEF Turns
<1>15. ASSUME NothingToSettle \/ AnswerSettle \/ AskSettle PROVE Turns'
  <2>1. /\ UNCHANGED <<snap, marker, turn>> /\ pc \in Opening /\ pc' \in {pc, AfterSettling}
        /\ pc \in {"settling", "settled"}
    BY <1>15 DEF NothingToSettle, AnswerSettle, CloseSettle, AskSettle
  <2> QED BY <2>1 DEF Turns, AfterSettling
<1>16. CASE FoldInterruptedTurn
  <2>1. UNCHANGED <<marker, turn>> /\ pc = "folding" /\ pc' = "folded" /\ snap' \in {snap, Folded}
    BY <1>16 DEF FoldInterruptedTurn
  <2>2. Folded.turn = marker.turn + 1 /\ NoSnap.turn = 0
    BY FoldedIs DEF NoSnap
  <2>3. snap'.turn >= 1 /\ snap' # NoSnap
    BY <1>0, <2>1, <2>2 DEF Turns
  <2> QED BY <2>1, <2>3 DEF Turns
<1>17. CASE Begin
  BY <1>17 DEF Begin, Fresh, Turns
<1>18. CASE Resume
  BY <1>18 DEF Resume, Turns
<1>19. ASSUME RequestStop \/ \E q \in Question : Answer(q) PROVE Turns'
  BY <1>19 DEF RequestStop, Answer, Turns
<1>20. ASSUME pc' \in {"down", "ending"}, UNCHANGED snap PROVE Turns'
  BY <1>20 DEF Turns
<1>21. ASSUME EndMaxTurns \/ EndBeforeCall \/ EndQuietly \/ EndCall \/ EndUnexecutable
             \/ EndBeforeResults \/ EndStopped \/ StopAt("boundary") \/ StopAt("parked")
             \/ EndAtSteer \/ EndFinished
       PROVE Turns'
  BY <1>20, <1>21 DEF EndMaxTurns, EndBeforeCall, EndQuietly, EndCall, EndUnexecutable,
        EndBeforeResults, EndStopped, StopAt, EndAtSteer, EndFinished, EndWith, End
<1>22. ASSUME EmitEnd \/ CancelSettle \/ Crash PROVE Turns'
  BY <1>20, <1>22 DEF EmitEnd, CancelSettle, CloseSettle, Crash, Down
<1>23. ASSUME Calling \/ Dispatch PROVE Turns'
  BY <1>2, <1>4, <1>5, <1>7, <1>8, <1>9, <1>21, <1>23 DEF Calling, Dispatch
<1>24. ASSUME Closing PROVE Turns'
  BY <1>3, <1>4, <1>6, <1>8, <1>10, <1>21, <1>22, <1>24 DEF Closing
<1>25. ASSUME Collecting \/ Resuming \/ Operator PROVE Turns'
  BY <1>6, <1>8, <1>11, <1>12, <1>13, <1>14, <1>15, <1>16, <1>19, <1>21, <1>22, <1>25
  DEF Collecting, Resuming, Operator
<1> QED BY <1>1, <1>17, <1>18, <1>22, <1>23, <1>24, <1>25 DEF Next, Drive

-----------------------------------------------------------------------------
(* The conversation keeps its shape.                                       *)

\* A step that adds nothing to what is told and opens no turn.
LEMMA ShapedFrame ==
  ASSUME Shaped, UNCHANGED <<conv, calls, snap, minted>>, marker' = marker \/ marker' = NoMarker,
         pc' \in InLoop => pc \in InLoop,
         pc' \notin InLoop => Matched(conv)
  PROVE  Shaped'
<1>1. CallIds(NoMarker.calls) = {} /\ Distinct(NoMarker.calls)
  BY DEF NoMarker, CallIds, Distinct
<1>2. Turn' = Turn /\ Hanging' = Hanging
  BY DEF Turn, Hanging
<1>3. /\ CallIds(marker'.calls) \subseteq CallIds(marker.calls) /\ Distinct(marker'.calls)
      /\ marker'.turn = snap'.turn => CallIds(marker'.calls) \cap Ids(snap.conv) = {}
  BY <1>1 DEF Shaped
<1> QED BY <1>2, <1>3 DEF Shaped

\* An empty conversation, as a process forgets it.
LEMMA ShapedForget ==
  ASSUME Shaped, Forget, UNCHANGED <<snap, marker, minted>>, pc' \notin InLoop
  PROVE  Shaped'
<1>1. conv' = <<>> /\ calls' = <<>>
  BY DEF Forget
<1>2. Items(<<>>, "call") = {} /\ Items(<<>>, "result") = {} /\ CallIds(<<>>) = {} /\ Distinct(<<>>)
  BY DEF Items, CallIds, Distinct
<1>3. Ids(<<>>) = {} /\ Matched(<<>>)
  BY <1>2 DEF Ids, Matched
<1>4. Ids(conv') = {} /\ Matched(conv') /\ Turn' = {} /\ Distinct(calls')
  BY <1>1, <1>2, <1>3 DEF Turn
<1> QED BY <1>4 DEF Shaped

\* The conversation of an unfinished turn, once its calls are all told.
LEMMA HangingTold ==
  ASSUME Hanging, Distinct(calls), conv \in Seq(ItemSet), calls \in Seq(Call), NEW words,
         \A i \in 1 .. Len(calls) : words[i] \in {"returned", "skipped", "interrupted"}
  PROVE  Matched(conv \o Told(calls, words))
<1>1. PICK n \in 0 .. Len(conv) : /\ conv = SubSeq(conv, 1, n) \o Asked(calls) /\ Matched(SubSeq(conv, 1, n))
                                  /\ Ids(SubSeq(conv, 1, n)) \cap Turn = {}
  BY DEF Hanging
<1> DEFINE base == SubSeq(conv, 1, n)
<1>2. base \in Seq(ItemSet)
  BY SubSeqProperties
<1>3. conv = base \o Asked(calls) /\ Matched(base) /\ Ids(base) \cap CallIds(calls) = {}
  BY <1>1 DEF Turn
<1> HIDE DEF base
<1>4. Matched(base \o Asked(calls) \o Told(calls, words))
  BY <1>2, <1>3, TurnMatched
<1> QED BY <1>3, <1>4

\* The calls of a response join a matched conversation.
LEMMA HangingAsked ==
  ASSUME conv \in Seq(ItemSet), Matched(conv), calls' \in Seq(Call), conv' = conv \o Asked(calls'),
         Ids(conv) \cap CallIds(calls') = {}
  PROVE  Hanging'
<1> DEFINE n == Len(conv)
           d == Asked(calls')
<1>1. d \in Seq(ItemSet) /\ Len(d) \in Nat
  BY AskedIs
<1> HIDE DEF d
<1>2. n \in Nat /\ Len(conv') = n + Len(d) /\ n \in 0 .. Len(conv')
  BY <1>1 DEF d
<1>3. SubSeq(conv', 1, n) = conv
  <2>1. SubSeq(conv', 1, n) \in Seq(ItemSet) /\ Len(SubSeq(conv', 1, n)) = n
        /\ \A i \in 1 .. n : SubSeq(conv', 1, n)[i] = conv'[i]
    <3>1. conv' \in Seq(ItemSet)
      BY <1>1 DEF d
    <3> HIDE DEF n
    <3> QED BY <1>2, <3>1, SubSeqProperties
  <2>2. \A i \in 1 .. n : conv'[i] = conv[i]
    BY <1>1 DEF d
  <2> DEFINE s == SubSeq(conv', 1, n)
  <2>3. s \in Seq(ItemSet) /\ Len(s) = Len(conv) /\ \A i \in 1 .. Len(conv) : s[i] = conv[i]
    BY <2>1, <2>2
  <2> HIDE DEF s
  <2>4. s = conv
    BY <2>3, SeqEqual
  <2> QED BY <2>4 DEF s
<1>4. /\ conv' = SubSeq(conv', 1, n) \o Asked(calls') /\ Matched(SubSeq(conv', 1, n))
      /\ Ids(SubSeq(conv', 1, n)) \cap Turn' = {}
  BY <1>3 DEF Turn
<1> HIDE DEF n
<1> QED BY <1>2, <1>4 DEF Hanging

-----------------------------------------------------------------------------
\* Folding tells the calls of the dead turn after what the snapshot holds.
LEMMA FoldedTells ==
  ASSUME Typed, Shaped, Interrupted
  PROVE  /\ Matched(Folded.conv)
         /\ Ids(Folded.conv) = Ids(snap.conv) \cup CallIds(marker.calls)
         /\ ResultIds(Folded.conv) = ResultIds(snap.conv) \cup CallIds(marker.calls)
         /\ Honest(snap.conv) /\ (\A i \in 1 .. Len(marker.calls) : HonestWord(marker.calls[i].id, FoldedWords[i]))
               => Honest(Folded.conv)
<1> DEFINE c == snap.conv
           cs == marker.calls
           b == c \o Asked(cs)
<1>1. /\ c \in Seq(ItemSet) /\ cs \in Seq(Call) /\ Matched(c) /\ Distinct(cs)
      /\ Ids(c) \cap CallIds(cs) = {}
  BY DEF Typed, Shaped, Interrupted
<1>2. /\ Folded.conv = b \o Told(cs, FoldedWords)
      /\ \A i \in 1 .. Len(cs) : FoldedWords[i] \in {"returned", "skipped", "interrupted"}
  BY FoldedIs
<1> HIDE DEF c, cs
<1>3. b \in Seq(ItemSet) /\ Ids(b) = Ids(c) \cup CallIds(cs) /\ ResultIds(b) = ResultIds(c)
      /\ (Honest(c) => Honest(b))
  BY <1>1, AskedTells
<1>4. Matched(Folded.conv)
  BY <1>1, <1>2, TurnMatched
<1> HIDE DEF b
<1>5. /\ Ids(Folded.conv) = Ids(b) \cup CallIds(cs) /\ ResultIds(Folded.conv) = ResultIds(b) \cup CallIds(cs)
      /\ Honest(b) /\ (\A i \in 1 .. Len(cs) : HonestWord(cs[i].id, FoldedWords[i])) => Honest(Folded.conv)
  BY <1>1, <1>2, <1>3, ToldTells
<1> QED BY <1>3, <1>4, <1>5 DEF c, cs

\* The results of the turn are words it may say.
LEMMA ResultsAre ==
  ASSUME Typed, Len(results) = Len(calls)
  PROVE  \A i \in 1 .. Len(calls) : results[i] \in {"returned", "skipped", "interrupted"}
<1>1. results \in Seq(Outcome)
  BY DEF Typed
<1> QED BY <1>1 DEF Outcome

\* One step keeps the shape.
LEMMA ShapedStep ==
  ASSUME Shaped, Turns, Typed, Numbered, [Next]_vars
  PROVE  Shaped'
<1> USE DEF InLoop, Goto
<1>0. /\ turn \in Nat /\ snap.turn \in Nat /\ marker.turn \in Nat /\ minted \in Nat
      /\ conv \in Seq(ItemSet) /\ calls \in Seq(Call)
  BY DEF Typed
<1>1. CASE UNCHANGED vars
  <2>1. pc \notin InLoop => Matched(conv)
    BY DEF Shaped
  <2> QED BY <1>1, <2>1, ShapedFrame DEF vars
<1>2. ASSUME NEW n \in Nat, NEW dropped, SaveSnapshot(n, conv, dropped), n > marker.turn, Matched(conv),
             UNCHANGED <<conv, marker, minted>>, calls' \in {calls, <<>>}, pc' \notin InLoop
      PROVE  Shaped'
  <2>1. CallIds(<<>>) = {} /\ Distinct(<<>>)
    BY DEF CallIds, Distinct
  <2>2. Turn' \subseteq Turn /\ Distinct(calls')
    BY <1>2, <2>1 DEF Turn, Shaped
  <2>3. CASE snap'.conv = conv /\ snap'.turn = n
    BY <1>0, <1>2, <2>2, <2>3 DEF Shaped
  <2>4. CASE snap' = snap
    BY <1>2, <2>2, <2>4 DEF Shaped
  <2> QED BY <1>2, <2>3, <2>4, SavedIs
<1>3. CASE PreCall
  <2>1. turn > marker.turn /\ Matched(conv) /\ calls' = <<>> /\ pc' = "calling" /\ SaveSnapshot(turn, conv, {})
        /\ UNCHANGED <<conv, marker, minted>>
    BY <1>0, <1>3 DEF PreCall, Turns, Shaped
  <2> QED BY <1>0, <1>2, <2>1
<1>4. CASE PostTurn
  <2>1. turn + 1 > marker.turn /\ turn + 1 \in Nat
    BY <1>0, <1>4 DEF PostTurn, Turns, Talking, BesideLoop
  <2>2. Matched(conv) /\ calls' = calls /\ pc' \in {"boundary", "posted"} /\ SaveSnapshot(turn + 1, conv, Turn)
        /\ UNCHANGED <<conv, marker, minted>>
    BY <1>4 DEF PostTurn, Shaped
  <2> QED BY <1>2, <2>1, <2>2
<1>5. ASSUME NEW kinds \in Responses, Respond(kinds) PROVE Shaped'
  <2>1. /\ calls' \in Seq(Call) /\ conv' = conv \o Asked(calls') /\ Len(kinds) \in Nat
        /\ minted' = minted + Len(kinds) /\ CallIds(calls') = (minted + 1) .. (minted + Len(kinds))
        /\ Len(calls') = Len(kinds) /\ \A i \in 1 .. Len(kinds) : calls'[i].id = minted + i
    BY <1>0, <1>5, ResponseIs
  <2>2. Matched(conv) /\ Ids(conv) \subseteq 1 .. minted /\ Ids(snap.conv) \subseteq 1 .. minted
        /\ CallIds(marker.calls) \subseteq 1 .. minted
    BY <1>5 DEF Respond, Shaped
  <2>3. Ids(conv) \cap CallIds(calls') = {} /\ Ids(snap.conv) \cap CallIds(calls') = {}
    BY <1>0, <2>1, <2>2
  <2>4. Hanging'
    BY <1>0, <2>1, <2>2, <2>3, HangingAsked
  <2>5. Ids(conv') = Ids(conv) \cup CallIds(calls')
    BY <1>0, <2>1, AskedTells
  <2>6. Distinct(calls')
    <3>1. DOMAIN calls' = 1 .. Len(kinds)
      BY <2>1
    <3>2. \A i, k \in 1 .. Len(kinds) : calls'[i].id = calls'[k].id => i = k
      BY <1>0, <2>1
    <3> QED BY <3>1, <3>2 DEF Distinct
  <2>7. UNCHANGED <<snap, marker>> /\ pc' = "marking"
    BY <1>5 DEF Respond
  <2>8. Ids(conv') \cup Ids(snap'.conv) \cup Turn' \cup CallIds(marker'.calls) \subseteq 1 .. minted'
    <3>1. \A x \in 1 .. minted : x \in 1 .. minted'
      BY <1>0, <2>1
    <3>2. \A x \in CallIds(calls') : x \in 1 .. minted'
      BY <1>0, <2>1
    <3> QED BY <2>2, <2>5, <2>7, <3>1, <3>2 DEF Turn
  <2> QED BY <2>3, <2>4, <2>6, <2>7, <2>8 DEF Shaped, Turn
<1>6. CASE MarkTurn
  <2>1. UNCHANGED <<conv, calls, snap, minted>> /\ pc = "marking" /\ pc' \in {"dispatching", "dispatched"}
    BY <1>6 DEF MarkTurn
  <2>2. Turn' = Turn /\ (Hanging' <=> Hanging)
    BY <2>1 DEF Turn, Hanging
  <2>3. marker' = marker \/ marker'.calls = calls
    BY <1>6 DEF MarkTurn, InFlight
  <2> QED BY <2>1, <2>2, <2>3 DEF Shaped, Turn
<1>7. ASSUME RespondQuietly \/ CutCall \/ Skip \/ Work \/ Finish \/ Queue \/ Ask \/ ConsumeAnswer
             \/ TakeAnswer \/ GiveUpWaiting \/ LeaveUnanswered \/ ClearMarker \/ NextTurn
             \/ DropMarker \/ Unpark \/ AskSettle \/ NothingToSettle \/ AnswerSettle \/ DropFolded \/ CheckStops
             \/ OperatorBoundary \/ PollParked \/ PeekNothing \/ JournalLateAnswer \/ ClearAnswer \/ Start
             \/ Begin \/ Resume \/ RequestStop
      PROVE  Shaped'
  <2>1. UNCHANGED <<conv, calls, snap, minted>> /\ (marker' = marker \/ marker' = NoMarker)
    BY <1>7 DEF RespondQuietly, CutCall, Skip, Work, Finish, Queue, Ask, ConsumeAnswer,
       TakeAnswer, GiveUpWaiting, LeaveUnanswered, EndWait, ClearMarker, NextTurn, DropMarker, Unpark,
       AskSettle, NothingToSettle, AnswerSettle, CloseSettle, DropFolded, CheckStops, OperatorBoundary, PollParked,
       PeekNothing, JournalLateAnswer, ClearAnswer, Start, Begin, Resume, RequestStop
  <2>2. pc' \in InLoop <=> pc \in InLoop
    BY <1>7 DEF RespondQuietly, CutCall, Skip, Work, Finish, Queue, Ask, ConsumeAnswer,
       TakeAnswer, GiveUpWaiting, LeaveUnanswered, EndWait, ClearMarker, NextTurn, DropMarker, Unpark,
       AskSettle, NothingToSettle, AnswerSettle, CloseSettle, DropFolded, CheckStops, OperatorBoundary, PollParked,
       PeekNothing, JournalLateAnswer, ClearAnswer, Start, Begin, Resume, RequestStop, StartCollecting, Dispatching,
       Return, AfterSettling
  <2>3. pc \notin InLoop => Matched(conv)
    BY DEF Shaped
  <2> HIDE DEF InLoop
  <2> QED BY <2>1, <2>2, <2>3, ShapedFrame
<1>8. ASSUME NEW q \in Question, Answer(q) PROVE Shaped'
  <2>1. pc \notin InLoop => Matched(conv)
    BY DEF Shaped
  <2> QED BY <1>8, <2>1, ShapedFrame DEF Answer
<1>9. CASE JudgeTurn
  <2>1. /\ conv' = conv \o Told(calls, results) /\ UNCHANGED <<calls, snap, marker, minted>>
        /\ pc = "dispatched" /\ pc' = "posting" /\ Len(results) = Len(calls)
    BY <1>9 DEF JudgeTurn, Typed
  <2>2. Hanging /\ Distinct(calls)
    BY <2>1 DEF Shaped
  <2>3. \A i \in 1 .. Len(calls) : results[i] \in {"returned", "skipped", "interrupted"}
    BY <2>1, ResultsAre
  <2>4. Matched(conv')
    BY <1>0, <2>1, <2>2, <2>3, HangingTold
  <2>5. Ids(conv') = Ids(conv) \cup Turn
    BY <1>0, <2>1, <2>3, ToldTells DEF Turn
  <2>6. Turn' = Turn
    BY <2>1 DEF Turn
  <2> QED BY <2>1, <2>4, <2>5, <2>6 DEF Shaped
<1>10. CASE Deliver
  <2>1. poll.took \subseteq Number /\ pc = "collecting" /\ pc' \notin InLoop
    BY <1>10 DEF Deliver, AfterPoll, Polled, Numbered, Polling
  <2>2. conv' = conv \o AnswersNotice(poll.took) /\ UNCHANGED <<calls, snap, marker, minted>>
    BY <1>10 DEF Deliver
  <2>3. Matched(conv)
    BY <2>1 DEF Shaped
  <2>4. Ids(conv') = Ids(conv) /\ Matched(conv')
    BY <1>0, <2>1, <2>2, <2>3, NoticeTells
  <2>5. Turn' = Turn
    BY <2>2 DEF Turn
  <2> QED BY <2>1, <2>2, <2>4, <2>5 DEF Shaped
<1>11. CASE FoldInterruptedTurn
  <2>1. UNCHANGED <<conv, calls, marker, minted>> /\ pc = "folding" /\ pc' = "folded"
    BY <1>11 DEF FoldInterruptedTurn
  <2>2. CASE Interrupted /\ snap' = Folded
    <3>1. /\ Matched(snap'.conv) /\ Ids(snap'.conv) = Ids(snap.conv) \cup CallIds(marker.calls)
          /\ snap'.turn = marker.turn + 1
      BY <2>2, FoldedTells, FoldedIs
    <3>2. marker'.turn # snap'.turn
      BY <1>0, <2>1, <3>1
    <3>3. Turn' = Turn
      BY <2>1 DEF Turn
    <3> QED BY <2>1, <3>1, <3>2, <3>3 DEF Shaped
  <2>3. CASE snap' = snap
    BY <2>1, <2>3, ShapedFrame DEF Shaped
  <2> QED BY <1>11, <2>2, <2>3 DEF FoldInterruptedTurn
<1>12. CASE OpenResumed
  <2>1. conv' = snap.conv /\ UNCHANGED <<calls, snap, marker, minted>> /\ pc' = "collecting"
    BY <1>12 DEF OpenResumed, StartCollecting
  <2>2. Turn' = Turn
    BY <2>1 DEF Turn
  <2> QED BY <2>1, <2>2 DEF Shaped
<1>13. ASSUME NEW why, End(why), UNCHANGED <<snap, marker, minted>> PROVE Shaped'
  BY <1>13, ShapedForget DEF End
<1>14. ASSUME EndMaxTurns \/ EndBeforeCall \/ EndQuietly \/ EndCall \/ EndUnexecutable
             \/ EndBeforeResults \/ EndStopped \/ StopAt("boundary") \/ StopAt("parked")
             \/ EndAtSteer \/ EndFinished
       PROVE Shaped'
  BY <1>13, <1>14 DEF EndMaxTurns, EndBeforeCall, EndQuietly, EndCall, EndUnexecutable,
        EndBeforeResults, EndStopped, StopAt, EndAtSteer, EndFinished, EndWith
<1>15. ASSUME EmitEnd \/ CancelSettle \/ Crash PROVE Shaped'
  BY <1>15, ShapedForget DEF EmitEnd, CancelSettle, CloseSettle, Crash, Down
<1>16. ASSUME Calling \/ Dispatch PROVE Shaped'
  BY <1>3, <1>5, <1>6, <1>7, <1>14, <1>16 DEF Calling, Dispatch
<1>17. ASSUME Closing PROVE Shaped'
  BY <1>4, <1>7, <1>9, <1>14, <1>15, <1>17 DEF Closing
<1>18. ASSUME Collecting \/ Resuming \/ Operator PROVE Shaped'
  BY <1>7, <1>8, <1>10, <1>11, <1>12, <1>14, <1>15, <1>18 DEF Collecting, Resuming, Operator
<1> QED BY <1>1, <1>7, <1>15, <1>16, <1>17, <1>18 DEF Next, Drive

\* Types, turns and shape hold in every state.
THEOREM ShapedInvariance == Spec => [](Fresh /\ Numbered /\ Typed /\ Turns /\ Shaped)
<1>1. Init => Turns
  BY DEF Init, Turns, Opening, Talking, InLoop, BesideLoop, Polling
<1>2. Init => Shaped
  <2> SUFFICES ASSUME Init PROVE Shaped
    OBVIOUS
  <2>1. Items(<<>>, "call") = {} /\ Items(<<>>, "result") = {} /\ CallIds(<<>>) = {} /\ Distinct(<<>>)
    BY DEF Items, CallIds, Distinct
  <2>2. Ids(<<>>) = {} /\ Matched(<<>>)
    BY <2>1 DEF Ids, Matched
  <2>3. conv = <<>> /\ snap.conv = <<>> /\ calls = <<>> /\ marker.calls = <<>> /\ pc \notin InLoop
    BY DEF Init, NoSnap, NoMarker, InLoop
  <2> QED BY <2>1, <2>2, <2>3 DEF Shaped, Turn
<1>3. Fresh /\ Numbered /\ Typed /\ Turns /\ [Next]_vars => Turns'
  BY TurnsStep
<1>4. Numbered /\ Typed /\ Turns /\ Shaped /\ [Next]_vars => Shaped'
  BY ShapedStep
<1> QED BY <1>1, <1>2, <1>3, <1>4, DeliveringInvariance, PTL DEF Spec

\* Whatever died and wherever, the conversation a request or a resume starts from
\* pairs every call with exactly one result, and nothing stands between them.
THEOREM CallsPairedHolds == Spec => []CallsPaired
<1>1. ASSUME NEW c, Matched(c) PROVE Paired(c)
  <2>1. ASSUME NEW i \in Items(c, "call")
        PROVE  /\ Cardinality(ResultsOf(c, c[i].id)) = 1
               /\ \A j \in ResultsOf(c, c[i].id) :
                     i < j /\ \A k \in i .. j : c[k].kind \in {"call", "result"}
    <3>1. PICK j \in Items(c, "result") : /\ c[j].id = c[i].id /\ i < j
                                         /\ \A k \in i .. j : c[k].kind \in {"call", "result"}
      BY <1>1 DEF Matched
    <3>2. ResultsOf(c, c[i].id) = {j}
      BY <1>1, <3>1 DEF Matched, ResultsOf
    <3> QED BY <3>1, <3>2, FS_Singleton
  <2>2. \A j \in Items(c, "result") : \E i \in Items(c, "call") : c[i].id = c[j].id
    BY <1>1 DEF Matched
  <2> QED BY <2>1, <2>2 DEF Paired
<1>2. Shaped => CallsPaired
  BY <1>1 DEF Shaped, CallsPaired, InLoop
<1> QED BY <1>2, ShapedInvariance, PTL

-----------------------------------------------------------------------------
(* Nothing that ran is forgotten.                                          *)

\* A step that leaves the calls that count alone and stays outside a turn: what was
\* safe in the snapshot stays safe.
LEMMA RememberedSafe ==
  ASSUME Remembered, ran' \cup noted' \subseteq 1 .. minted', Counted' \subseteq ResultIds(snap'.conv),
         pc' \in BesideLoop => Counted' \subseteq ResultIds(conv') /\ ~InTurn',
         pc' \notin InLoop, pc' = "calling" /\ ~stale' => snap'.turn = turn'
  PROVE  Remembered'
<1>1. ~InTurn'
  BY DEF InTurn, BesideLoop
<1>2. Counted' \subseteq Recoverable'
  BY DEF Recoverable
<1> QED BY <1>1, <1>2 DEF Remembered

\* A step from which nothing is safe but what the next execution finds.
LEMMA RememberedDown ==
  ASSUME Remembered, UNCHANGED <<ran, noted, excused, minted, snap, marker>>,
         pc' \notin {"folded", "loaded"} \cup Ended \cup BesideLoop \cup InLoop
  PROVE  Remembered'
<1>1. ~InTurn' /\ Counted' = Counted /\ Recoverable' = Recoverable
  BY DEF InTurn, BesideLoop, Counted, Recoverable, Interrupted
<1> QED BY <1>1, Zenon DEF Remembered, BesideLoop

\* A step within a turn: what counts of it is of this turn or was safe before.
LEMMA RememberedInTurn ==
  ASSUME Remembered, Turns, Typed, pc \in InLoop, pc' \in InLoop, ran' \cup noted' \subseteq 1 .. minted',
         UNCHANGED <<conv, calls, snap, turn, stale>>,
         Counted' \subseteq Counted \cup Turn,
         Counted' \cap Turn # {} => Marked' /\ snap.turn = turn,
         pc' \in InLoop \ {"marking"} => Marked' \/ Turn \subseteq excused'
  PROVE  Remembered'
<1>1. InTurn /\ InTurn' /\ Turn' = Turn
  BY DEF InTurn, Turn
<1>2. Counted \subseteq ResultIds(snap.conv) \cup Turn /\ Counted \subseteq ResultIds(conv) \cup Turn
  BY <1>1 DEF Remembered
<1>3. turn >= 1 /\ turn \in Nat
  BY DEF Turns, Talking, Typed
<1>4. ASSUME Counted' \cap Turn # {} PROVE Turn \subseteq Recoverable'
  <2>1. marker'.turn = turn /\ marker'.calls = calls /\ snap'.turn = turn
    BY <1>4 DEF Marked
  <2>2. marker' # NoMarker
    BY <1>3, <2>1 DEF NoMarker
  <2> QED BY <2>1, <2>2 DEF Recoverable, Interrupted, Turn
<1>5. Counted' \subseteq Recoverable'
  BY <1>2, <1>4 DEF Recoverable
<1>6. pc' \notin {"folded", "loaded"} \cup Ended \cup BesideLoop /\ pc' # "calling"
  BY DEF InLoop, BesideLoop, Ended
<1>7. ~stale' => snap'.turn = turn'
  BY DEF Remembered
<1> QED BY <1>1, <1>2, <1>5, <1>6, <1>7 DEF Remembered

\* The call in hand is one of the turn's.
LEMMA InHand ==
  ASSUME Typed, pc \in {"dispatching", "asking", "answered"}
  PROVE  /\ Len(results) + 1 \in DOMAIN calls /\ calls[Len(results) + 1].id \in Turn
         /\ Len(results) \in Nat /\ DOMAIN results = 1 .. Len(results)
         /\ DOMAIN calls = 1 .. Len(calls) /\ Len(calls) \in Nat
<1>1. calls \in Seq(Call) /\ results \in Seq(Outcome) /\ Len(results) < Len(calls)
  BY DEF Typed
<1>2. Len(results) + 1 \in DOMAIN calls /\ Len(results) \in Nat /\ DOMAIN results = 1 .. Len(results)
      /\ DOMAIN calls = 1 .. Len(calls) /\ Len(calls) \in Nat
  BY <1>1
<1> QED BY <1>2 DEF Turn, CallIds

\* The calls whose results are in are among the turn's.
LEMMA ReturnedAre ==
  ASSUME Typed
  PROVE  /\ DOMAIN results \subseteq DOMAIN calls
         /\ {calls[i].id : i \in DOMAIN results} \subseteq Turn
<1>1. calls \in Seq(Call) /\ results \in Seq(Outcome) /\ Len(results) <= Len(calls)
  BY DEF Typed
<1>2. DOMAIN results \subseteq DOMAIN calls
  BY <1>1
<1> QED BY <1>2 DEF Turn, CallIds

\* One step keeps what was done.
LEMMA RememberedStep ==
  ASSUME Remembered, Hearing, Shaped, Turns, Typed, Numbered, [Next]_vars
  PROVE  Remembered'
<1> USE DEF Goto, Ended, InLoop, BesideLoop
<1>0. /\ turn \in Nat /\ minted \in Nat /\ conv \in Seq(ItemSet) /\ calls \in Seq(Call)
      /\ ran \cup noted \subseteq 1 .. minted
  BY DEF Typed, Remembered
<1>1. CASE UNCHANGED vars
  <2>1. UNCHANGED <<Counted, Recoverable, InTurn, Marked, Turn>>
    BY <1>1 DEF vars, Counted, Recoverable, Interrupted, InTurn, Marked, Turn
  <2> QED BY <1>1, <2>1 DEF Remembered, vars
<1>2. CASE PreCall
  <2>1. /\ pc = "precall" /\ pc' = "calling" /\ UNCHANGED <<conv, ran, noted, minted, turn>>
        /\ Counted \subseteq ResultIds(conv) /\ Counted \subseteq ResultIds(snap.conv)
    BY <1>2 DEF PreCall, Remembered, InTurn
  <2>2. ~InTurn' /\ Counted' = ran \ excused'
    BY <2>1 DEF InTurn, Counted
  <2>3. CASE snap'.conv = conv /\ snap'.turn = turn /\ UNCHANGED excused
    BY <1>0, <2>1, <2>2, <2>3, RememberedSafe DEF Counted
  <2>4. CASE snap' = snap /\ stale' = TRUE /\ excused' = excused \cup {}
    BY <1>0, <2>1, <2>2, <2>4, RememberedSafe DEF Counted
  <2> QED BY <1>2, <2>3, <2>4, SavedIs DEF PreCall, Typed
<1>3. CASE PostTurn
  <2>1. /\ pc = "posting" /\ pc' \in {"boundary", "posted"} /\ UNCHANGED <<conv, ran, noted, minted>>
        /\ Counted \subseteq ResultIds(conv)
    BY <1>3 DEF PostTurn, Remembered
  <2>2. ~InTurn' /\ Counted' = ran \ excused'
    BY <2>1 DEF InTurn, Counted
  <2>3. CASE snap'.conv = conv /\ UNCHANGED excused
    BY <1>0, <2>1, <2>2, <2>3, RememberedSafe DEF Counted
  <2>4. CASE snap' = snap /\ excused' = excused \cup Turn
    <3>1. Counted \subseteq ResultIds(snap.conv) \cup Turn
      <4>1. CASE calls = <<>>
        BY <2>1, <4>1 DEF Remembered, InTurn
      <4>2. CASE calls # <<>>
        BY <2>1, <4>2 DEF Remembered, InTurn
      <4> QED BY <4>1, <4>2
    <3>2. Counted' \subseteq ResultIds(snap.conv) /\ Counted' \subseteq ResultIds(conv)
      BY <2>1, <2>2, <2>4, <3>1 DEF Counted
    <3> QED BY <1>0, <2>1, <2>2, <2>4, <3>2, RememberedSafe
  <2>5. turn + 1 \in Nat
    BY <1>0
  <2> QED BY <1>3, <2>3, <2>4, <2>5, SavedIs DEF PostTurn
<1>4. ASSUME NEW kinds \in Responses, Respond(kinds) PROVE Remembered'
  <2>1. /\ calls' \in Seq(Call) /\ conv' = conv \o Asked(calls') /\ Len(kinds) \in Nat
        /\ minted' = minted + Len(kinds) /\ CallIds(calls') = (minted + 1) .. (minted + Len(kinds))
    BY <1>0, <1>4, ResponseIs
  <2>2. /\ pc = "calling" /\ pc' = "marking" /\ UNCHANGED <<ran, noted, excused, snap, marker, stale, turn>>
        /\ Counted \subseteq ResultIds(conv) /\ Counted \subseteq ResultIds(snap.conv)
        /\ ~stale => snap.turn = turn
    BY <1>4 DEF Respond, Remembered, InTurn
  <2>3. ResultIds(conv') = ResultIds(conv)
    BY <1>0, <2>1, AskedTells
  <2>4. Counted' = Counted /\ Counted \cap Turn' = {}
    BY <1>0, <2>1, <2>2 DEF Counted, Turn
  <2>5. Counted' \subseteq Recoverable'
    BY <2>2, <2>4 DEF Recoverable
  <2>6. ran' \cup noted' \subseteq 1 .. minted'
    BY <1>0, <2>1, <2>2
  <2> QED BY <2>2, <2>3, <2>4, <2>5, <2>6 DEF Remembered
<1>5. CASE MarkTurn
  <2>1. /\ pc = "marking" /\ pc' \in {"dispatching", "dispatched"}
        /\ UNCHANGED <<conv, calls, snap, turn, stale, ran, minted>>
    BY <1>5 DEF MarkTurn
  <2>2. Turn \subseteq 1 .. minted /\ {calls[i].id : i \in DOMAIN results} \subseteq Turn
    BY ReturnedAre DEF Shaped
  <2>3. InTurn /\ Counted \subseteq ResultIds(snap.conv) \cup Turn /\ (Counted \cap Turn # {} => snap.turn = turn)
    BY <2>1 DEF InTurn, Remembered
  <2>4. CASE marker' = InFlight /\ noted' = noted \cup {calls[i].id : i \in DOMAIN results} /\ UNCHANGED excused
    <3>1. Marked' /\ Counted' = Counted
      BY <2>1, <2>4 DEF Marked, InFlight, Counted
    <3>2. ran' \cup noted' \subseteq 1 .. minted'
      BY <1>0, <2>1, <2>2, <2>4
    <3> QED BY <2>1, <2>3, <3>1, <3>2, RememberedInTurn
  <2>5. CASE excused' = excused \cup Turn /\ UNCHANGED <<marker, noted>>
    <3>1. Counted' = Counted \ Turn
      BY <2>1, <2>5 DEF Counted
    <3> QED BY <1>0, <2>1, <2>5, <3>1, RememberedInTurn
  <2> QED BY <1>5, <2>4, <2>5 DEF MarkTurn
<1>6. ASSUME Run, pc = "dispatching", pc' \in {"marking", "asking"},
             UNCHANGED <<conv, calls, snap, marker, turn, stale, noted, minted>>
      PROVE  Remembered'
  <2> DEFINE c == calls[Len(results) + 1].id
  <2>1. c \in Turn /\ Turn \subseteq 1 .. minted
    BY <1>6, InHand DEF Shaped
  <2>2. /\ ran' = ran \cup {c} /\ excused' = IF stale THEN excused \cup {c} ELSE excused
    BY <1>6 DEF Run
  <2> HIDE DEF c
  <2>3. InTurn /\ (Counted \cap Turn # {} => Marked /\ snap.turn = turn) /\ (~stale => snap.turn = turn)
        /\ (Marked \/ Turn \subseteq excused)
    BY <1>6 DEF InTurn, Remembered
  <2>4. Marked' = Marked
    BY <1>6 DEF Marked
  <2>5. Counted' \subseteq Counted \cup Turn /\ (Counted' \cap Turn # {} => Marked /\ snap.turn = turn)
    BY <2>1, <2>2, <2>3 DEF Counted
  <2>6. Marked' \/ Turn \subseteq excused'
    BY <2>2, <2>3, <2>4
  <2>7. ran' \cup noted' \subseteq 1 .. minted'
    BY <1>0, <1>6, <2>1, <2>2
  <2> QED BY <1>6, <2>4, <2>5, <2>6, <2>7, RememberedInTurn
<1>7. ASSUME Work \/ Finish \/ Queue \/ Ask PROVE Remembered'
  BY <1>6, <1>7 DEF Work, Finish, Queue, Ask, Dispatching, Return
<1>8. ASSUME Skip \/ ConsumeAnswer \/ TakeAnswer \/ GiveUpWaiting \/ LeaveUnanswered PROVE Remembered'
  <2>1. /\ UNCHANGED <<conv, calls, snap, marker, turn, stale, ran, noted, excused, minted>>
        /\ \/ pc = "settling" /\ pc' = "settled"
           \/ pc \in {"dispatching", "asking", "answered"} /\ pc' = "marking"
           \/ pc = "asking" /\ pc' = "answered"
    BY <1>8 DEF Skip, ConsumeAnswer, TakeAnswer, GiveUpWaiting, LeaveUnanswered, EndWait, Return
  <2>2. CASE pc = "settling" /\ pc' = "settled"
    BY <2>1, <2>2, RememberedDown
  <2>3. CASE pc \in InLoop /\ pc' \in InLoop
    <3>1. Counted' = Counted /\ Marked' = Marked /\ InTurn
      BY <2>1, <2>3 DEF Counted, Marked, InTurn
    <3>2. /\ Counted \cap Turn # {} => Marked /\ snap.turn = turn
          /\ pc \in InLoop \ {"marking"} => Marked \/ Turn \subseteq excused
      BY <3>1 DEF Remembered
    <3> QED BY <1>0, <2>1, <2>3, <3>1, <3>2, RememberedInTurn
  <2> QED BY <2>1, <2>2, <2>3
<1>9. CASE JudgeTurn
  <2>1. /\ conv' = conv \o Told(calls, results) /\ UNCHANGED <<calls, snap, marker, turn, stale, ran, noted, excused, minted>>
        /\ pc = "dispatched" /\ pc' = "posting" /\ Len(results) = Len(calls)
    BY <1>9 DEF JudgeTurn, Typed
  <2>2. ResultIds(conv') = ResultIds(conv) \cup Turn
    BY <1>0, <2>1, ResultsAre, ToldTells DEF Turn
  <2>3. InTurn /\ Turn' = Turn /\ Counted' = Counted /\ Marked' = Marked /\ Recoverable' = Recoverable
    BY <2>1 DEF InTurn, Turn, Counted, Marked, Recoverable, Interrupted
  <2>4. /\ Counted \subseteq ResultIds(conv) \cup Turn /\ Counted \subseteq ResultIds(snap.conv) \cup Turn
        /\ Counted \cap Turn # {} => Marked /\ snap.turn = turn
        /\ Counted \subseteq Recoverable
    BY <2>1, <2>3 DEF Remembered
  <2>5. ~InTurn' => Turn = {}
    BY <2>1 DEF InTurn, Turn, CallIds
  <2> QED BY <1>0, <2>1, <2>2, <2>3, <2>4, <2>5 DEF Remembered
<1>10. ASSUME UNCHANGED <<snap, ran, noted, excused, minted>>, pc \in BesideLoop, ~InTurn,
              pc' \in BesideLoop \cup Ended, ~InTurn', pc' # "calling", pc' \in BesideLoop => ResultIds(conv') = ResultIds(conv)
       PROVE  Remembered'
  <2>1. Counted' = Counted /\ Counted \subseteq ResultIds(snap.conv) /\ Counted \subseteq ResultIds(conv)
    BY <1>10 DEF Counted, Remembered
  <2>2. pc' \notin InLoop
    BY <1>10
  <2> HIDE DEF BesideLoop, InLoop, Ended
  <2> QED BY <1>0, <1>10, <2>1, <2>2, RememberedSafe
<1>11. ASSUME RespondQuietly \/ CutCall \/ ClearMarker \/ NextTurn \/ Unpark \/ CheckStops
              \/ OperatorBoundary \/ PollParked \/ PeekNothing \/ JournalLateAnswer \/ ClearAnswer
       PROVE  Remembered'
  <2>1. /\ UNCHANGED <<conv, calls, snap, ran, noted, excused, minted>>
        /\ pc \in BesideLoop /\ pc # "posting" /\ pc' \in BesideLoop /\ pc' # "calling"
        /\ pc' = "posting" => pc \in {"calling", "parked"}
    BY <1>11 DEF RespondQuietly, CutCall, ClearMarker, NextTurn, Unpark, CheckStops, OperatorBoundary, PollParked,
       PeekNothing, JournalLateAnswer, ClearAnswer, StartCollecting
  <2>2. ~InTurn /\ ~InTurn'
    BY <2>1 DEF InTurn, Hearing
  <2> QED BY <1>10, <2>1, <2>2
<1>12. CASE Deliver
  <2>1. poll.took \subseteq Number /\ pc = "collecting" /\ pc' \in BesideLoop /\ pc' # "calling"
        /\ (pc' = "posting" => poll.for = "parked")
    BY <1>12 DEF Deliver, AfterPoll, Polled, Numbered, Polling
  <2>2. conv' = conv \o AnswersNotice(poll.took) /\ UNCHANGED <<calls, snap, ran, noted, excused, minted>>
    BY <1>12 DEF Deliver
  <2>3. ResultIds(conv') = ResultIds(conv)
    BY <1>0, <2>1, <2>2, NoticeTells
  <2>4. ~InTurn /\ ~InTurn'
    BY <2>1, <2>2 DEF InTurn, Hearing, Polling
  <2> QED BY <1>10, <2>1, <2>2, <2>3, <2>4
<1>13. ASSUME NEW why, End(why), UNCHANGED <<snap, ran, noted, excused, minted>>, pc \in BesideLoop, pc # "posting"
       PROVE  Remembered'
  <2>1. ~InTurn /\ ~InTurn' /\ pc' = "ending"
    BY <1>13 DEF End, InTurn
  <2> QED BY <1>10, <1>13, <2>1
<1>14. ASSUME EndMaxTurns \/ EndBeforeCall \/ EndQuietly \/ EndCall
             \/ EndStopped \/ StopAt("boundary") \/ StopAt("parked") \/ EndAtSteer \/ EndFinished
       PROVE Remembered'
  BY <1>13, <1>14 DEF EndMaxTurns, EndBeforeCall, EndQuietly, EndCall, EndStopped, StopAt, EndAtSteer, EndFinished,
     EndWith, Polled
<1>15. ASSUME EndUnexecutable \/ EndBeforeResults PROVE Remembered'
  <2>1. /\ UNCHANGED <<snap, ran, noted, minted>> /\ excused' = excused \cup Turn /\ pc \in InLoop /\ pc' = "ending"
    BY <1>15 DEF EndUnexecutable, EndBeforeResults, EndWith, End
  <2>2. Counted \subseteq ResultIds(snap.conv) \cup Turn
    BY <2>1 DEF Remembered, InTurn
  <2>3. Counted' \subseteq ResultIds(snap'.conv)
    BY <2>1, <2>2 DEF Counted
  <2> QED BY <1>0, <2>1, <2>3, RememberedSafe
<1>16. CASE Start
  <2>1. /\ UNCHANGED <<conv, snap, marker, ran, noted, excused, minted>> /\ pc = "starting" /\ pc' = "collecting"
    BY <1>16 DEF Start, StartCollecting
  <2>2. snap = NoSnap /\ marker = NoMarker
    BY <2>1 DEF Turns, Opening
  <2>3. Recoverable = {}
    BY <2>2 DEF Recoverable, Interrupted, NoSnap, ResultIds, Items
  <2>4. Counted' = {}
    BY <2>1, <2>3 DEF Counted, Remembered
  <2> QED BY <1>0, <2>1, <2>4, RememberedSafe DEF InTurn
<1>17. CASE OpenResumed
  <2>1. /\ UNCHANGED <<snap, marker, ran, noted, excused, minted>> /\ pc = "loaded" /\ pc' = "collecting"
        /\ conv' = snap.conv
    BY <1>17 DEF OpenResumed, StartCollecting
  <2>2. Counted' \subseteq ResultIds(snap.conv)
    BY <2>1 DEF Counted, Remembered
  <2> QED BY <1>0, <2>1, <2>2, RememberedSafe DEF InTurn
<1>18. CASE FoldInterruptedTurn
  <2>1. UNCHANGED <<marker, ran, noted, excused, minted>> /\ pc = "folding" /\ pc' = "folded"
    BY <1>18 DEF FoldInterruptedTurn
  <2>2. Counted' = Counted /\ Counted \subseteq Recoverable
    BY <2>1 DEF Counted, Remembered
  <2>3. Recoverable \subseteq ResultIds(snap'.conv)
    BY <1>18, FoldedTells DEF FoldInterruptedTurn, Recoverable
  <2> QED BY <1>0, <2>1, <2>2, <2>3, RememberedSafe
<1>19. ASSUME DropFolded \/ DropMarker PROVE Remembered'
  <2>1. UNCHANGED <<snap, ran, noted, excused, minted>> /\ pc \in {"folded", "ending"} /\ pc' \in {"loaded", "ended"}
    BY <1>19 DEF DropFolded, DropMarker
  <2>2. Counted' = Counted /\ Counted \subseteq ResultIds(snap.conv)
    BY <2>1 DEF Counted, Remembered
  <2> QED BY <1>0, <2>1, <2>2, RememberedSafe
<1>20. ASSUME EmitEnd \/ CancelSettle \/ Crash \/ Begin \/ Resume PROVE Remembered'
  <2>1. UNCHANGED <<snap, marker, ran, noted, excused, minted>> /\ pc' \in {"down", "settling"}
    BY <1>20 DEF EmitEnd, CancelSettle, CloseSettle, Crash, Down, Begin, Resume
  <2> QED BY <2>1, RememberedDown
<1>21. ASSUME NothingToSettle \/ AnswerSettle \/ AskSettle PROVE Remembered'
  <2>1. UNCHANGED <<snap, marker, ran, noted, excused, minted>> /\ pc' \in {"settling", "starting", "folding"}
    BY <1>21 DEF NothingToSettle, AnswerSettle, CloseSettle, AskSettle, AfterSettling
  <2> QED BY <2>1, RememberedDown
<1>22. ASSUME RequestStop \/ \E q \in Question : Answer(q) PROVE Remembered'
  <2>1. UNCHANGED <<process, snap, marker, ran, noted, excused, minted>>
    BY <1>22 DEF RequestStop, Answer
  <2>2. UNCHANGED <<Counted, Recoverable, InTurn, Marked, Turn>>
    BY <2>1 DEF Counted, Recoverable, Interrupted, InTurn, Marked, Turn
  <2> QED BY <2>1, <2>2 DEF Remembered
<1>23. ASSUME Calling \/ Dispatch PROVE Remembered'
  BY <1>2, <1>4, <1>5, <1>7, <1>8, <1>11, <1>14, <1>15, <1>23 DEF Calling, Dispatch
<1>24. ASSUME Closing PROVE Remembered'
  BY <1>3, <1>9, <1>11, <1>14, <1>15, <1>19, <1>20, <1>24 DEF Closing
<1>25. ASSUME Collecting \/ Resuming \/ Operator PROVE Remembered'
  BY <1>8, <1>11, <1>12, <1>14, <1>16, <1>17, <1>18, <1>19, <1>20, <1>21, <1>22, <1>25
  DEF Collecting, Resuming, Operator
<1> QED BY <1>1, <1>20, <1>23, <1>24, <1>25 DEF Next, Drive

-----------------------------------------------------------------------------
(* What is told of a call is true of it.                                   *)

\* A step that tells nothing and runs nothing.
LEMMA SpokenFrame ==
  ASSUME Spoken, UNCHANGED <<conv, snap, calls, results, ran, noted>>, marker' = marker \/ marker' = NoMarker,
         pc' \in InLoop => pc \in InLoop /\ (pc \in {"asking", "answered"} => pc' \in {"asking", "answered"}),
         pc' \in {"asking", "answered"} => pc \in {"asking", "answered"},
         pc' \in InLoop => marker' = marker
  PROVE  Spoken'
<1>1. \A id, word : Fits(ran', noted', id, word) <=> HonestWord(id, word)
  BY DEF HonestWord
<1>2. Honest(conv)' /\ Honest(snap.conv)'
  BY <1>1 DEF Spoken, Honest, HonestWord
<1>3. DOMAIN NoMarker.results = {} /\ DOMAIN NoMarker.calls = {}
  BY DEF NoMarker
<1>4. /\ \A i \in DOMAIN marker'.results : HonestWord(marker'.calls[i].id, marker'.results[i])
      /\ \A i \in DOMAIN marker'.calls : marker'.calls[i].id \in noted => i \in DOMAIN marker'.results
  BY <1>3 DEF Spoken
<1>5. \A i \in DOMAIN results' : Fits(ran', noted', calls'[i].id, results'[i])
  BY <1>1 DEF Spoken, HonestWord
<1>6. Turn' = Turn
  BY DEF Turn
<1>7. pc' \in InLoop =>
          /\ \A i \in DOMAIN calls : calls[i].id \in noted => i \in DOMAIN results
          /\ \A i \in DOMAIN calls : calls[i].id \in ran =>
                i <= Len(results) + (IF pc' \in {"asking", "answered"} THEN 1 ELSE 0)
          /\ \/ marker'.calls = calls /\ Len(marker'.results) <= Len(results)
             \/ CallIds(marker'.calls) \cap Turn = {}
  BY DEF Spoken
<1>8. pc' \in {"asking", "answered"} => calls[Len(results) + 1].id \in ran
  BY DEF Spoken
<1>9. \A i \in DOMAIN marker'.results : Fits(ran', noted', marker'.calls[i].id, marker'.results[i])
  BY <1>1, <1>4
<1> QED BY <1>2, <1>4, <1>5, <1>6, <1>7, <1>8, <1>9 DEF Spoken, HonestWord

\* A step that tells more and runs nothing, outside a turn.
LEMMA SpokenTells ==
  ASSUME Spoken, UNCHANGED <<marker, ran, noted>>, Honest(conv'), Honest(snap'.conv),
         results' = <<>> \/ UNCHANGED <<calls, results>>, pc' \notin InLoop
  PROVE  Spoken'
<1>1. \A id, word : Fits(ran', noted', id, word) <=> HonestWord(id, word)
  BY DEF HonestWord
<1>2. Honest(conv)' /\ Honest(snap.conv)'
  BY <1>1 DEF Honest, HonestWord
<1>3. \A i \in DOMAIN results' : Fits(ran', noted', calls'[i].id, results'[i])
  BY <1>1 DEF Spoken
<1>4. \A i \in DOMAIN marker'.results : Fits(ran', noted', marker'.calls[i].id, marker'.results[i])
  BY <1>1 DEF Spoken
<1> QED BY <1>2, <1>3, <1>4 DEF Spoken, InLoop, HonestWord

\* Nothing is told yet of the calls in hand, and what the marker says of them is
\* about the first of them.
LEMMA UntoldIs ==
  ASSUME Shaped, Typed, pc \in InLoop
  PROVE  ResultIds(conv) \cap Turn = {} /\ ResultIds(snap.conv) \cap Turn = {}
<1>1. PICK n \in 0 .. Len(conv) : /\ conv = SubSeq(conv, 1, n) \o Asked(calls)
                                  /\ Ids(SubSeq(conv, 1, n)) \cap Turn = {}
  BY DEF Shaped, Hanging
<1> DEFINE base == SubSeq(conv, 1, n)
<1>2. base \in Seq(ItemSet)
  <2>1. conv \in Seq(ItemSet)
    BY DEF Typed
  <2> QED BY <2>1, SubSeqProperties
<1>3. conv = base \o Asked(calls) /\ Ids(base) \cap Turn = {} /\ calls \in Seq(Call)
  BY <1>1 DEF Typed
<1> HIDE DEF base
<1>4. ResultIds(conv) = ResultIds(base)
  BY <1>2, <1>3, AskedTells
<1>5. ResultIds(base) \subseteq Ids(base) /\ ResultIds(snap.conv) \subseteq Ids(snap.conv)
  BY DEF ResultIds, Ids
<1> QED BY <1>3, <1>4, <1>5 DEF Shaped

\* Running a call changes what is true of it alone, noting one what is true of it.
LEMMA HonestGrows ==
  ASSUME NEW S, ran \subseteq ran', noted \subseteq noted', ran' \subseteq ran \cup S, noted' \subseteq noted \cup S
  PROVE  /\ \A id, word : HonestWord(id, word) /\ id \notin S => Fits(ran', noted', id, word)
         /\ \A c : Honest(c) /\ ResultIds(c) \cap S = {} =>
               \A j \in Items(c, "result") : Fits(ran', noted', c[j].id, c[j].word)
<1>1. \A id, word : HonestWord(id, word) /\ id \notin S => Fits(ran', noted', id, word)
  BY DEF HonestWord, Fits
<1>2. \A c : \A j \in Items(c, "result") : c[j].id \in ResultIds(c)
  BY DEF ResultIds
<1> QED BY <1>1, <1>2 DEF Honest

\* The call in hand runs.
LEMMA SpokenRuns ==
  ASSUME Spoken, Shaped, Typed, Run, pc = "dispatching",
         UNCHANGED <<conv, calls, snap, marker, noted>>,
         \/ pc' = "marking" /\ results' = Append(results, "returned")
         \/ pc' = "asking" /\ results' = results
  PROVE  Spoken'
<1> DEFINE n == Len(results) + 1
           c == calls[n].id
<1>1. /\ n \in DOMAIN calls /\ c \in Turn /\ n \in Nat /\ DOMAIN results = 1 .. Len(results) /\ Len(results) \in Nat
      /\ DOMAIN calls = 1 .. Len(calls) /\ Len(calls) \in Nat
  BY InHand
<1>2. ran' = ran \cup {c}
  BY DEF Run
<1>3. \A i \in DOMAIN calls : calls[i].id = c => i = n
  BY <1>1 DEF Shaped, Distinct
<1> HIDE DEF c
<1>4. /\ \A id, word : HonestWord(id, word) /\ id \notin {c} => Fits(ran', noted', id, word)
      /\ \A d : Honest(d) /\ ResultIds(d) \cap {c} = {} =>
            \A j \in Items(d, "result") : Fits(ran', noted', d[j].id, d[j].word)
  BY <1>2, HonestGrows
<1>5. pc \in InLoop /\ pc' \in InLoop
  BY DEF InLoop
<1>6. Honest(conv)' /\ Honest(snap.conv)'
  <2>1. ResultIds(conv) \cap {c} = {} /\ ResultIds(snap.conv) \cap {c} = {}
    BY <1>1, <1>5, UntoldIs
  <2> QED BY <1>4, <2>1 DEF Spoken, Honest, HonestWord
<1>7. \A i \in DOMAIN results : Fits(ran', noted', calls[i].id, results[i])
  <2>1. \A i \in DOMAIN results : i \in DOMAIN calls /\ i # n
    BY <1>1
  <2>2. \A i \in DOMAIN results : calls[i].id \notin {c} /\ HonestWord(calls[i].id, results[i])
    BY <1>3, <2>1 DEF Spoken
  <2> QED BY <1>4, <2>2
<1>8. Fits(ran', noted', c, "returned")
  BY <1>2 DEF Fits
<1>9. \A i \in DOMAIN results' : Fits(ran', noted', calls'[i].id, results'[i])
  <2>1. CASE results' = results
    BY <1>7, <2>1
  <2>2. CASE results' = Append(results, "returned")
    <3>1. results \in Seq(Outcome)
      BY DEF Typed
    <3>2. DOMAIN results' = 1 .. n /\ results'[n] = "returned" /\ \A i \in 1 .. Len(results) : results'[i] = results[i]
      BY <2>2, <3>1
    <3>3. \A i \in 1 .. n : i \in DOMAIN results \/ i = n
      BY <1>1
    <3> HIDE DEF n
    <3>4. ASSUME NEW i \in DOMAIN results' PROVE Fits(ran', noted', calls'[i].id, results'[i])
      <4>1. CASE i \in DOMAIN results
        BY <1>1, <1>7, <3>2, <4>1
      <4>2. CASE i = n
        <5>1. calls'[i].id = c /\ results'[i] = "returned"
          BY <3>2, <4>2 DEF c
        <5> QED BY <1>8, <5>1
      <4> QED BY <3>2, <3>3, <4>1, <4>2
    <3> QED BY <3>4
  <2> QED BY <2>1, <2>2
<1>10. \A i \in DOMAIN marker.results : Fits(ran', noted', marker.calls[i].id, marker.results[i])
  <2>1. marker.results \in Seq(Outcome) /\ marker.calls \in Seq(Call) /\ Len(marker.results) <= Len(marker.calls)
    BY DEF Typed
  <2>2. ASSUME NEW i \in DOMAIN marker.results PROVE marker.calls[i].id # c
    <3>1. CASE marker.calls = calls /\ Len(marker.results) <= Len(results)
      <4>1. i \in DOMAIN calls /\ i # n
        BY <1>1, <2>1, <3>1
      <4> QED BY <1>3, <3>1, <4>1
    <3>2. CASE CallIds(marker.calls) \cap Turn = {}
      <4>1. i \in DOMAIN marker.calls
        BY <2>1
      <4>2. marker.calls[i].id \in CallIds(marker.calls)
        BY <4>1 DEF CallIds
      <4> QED BY <1>1, <3>2, <4>2
    <3> QED BY <1>5, <3>1, <3>2 DEF Spoken
  <2> QED BY <1>4, <2>2 DEF Spoken
<1>11. Len(results') \in Nat /\ Len(results) <= Len(results') /\ DOMAIN results \subseteq DOMAIN results'
       /\ Len(results') + (IF pc' \in {"asking", "answered"} THEN 1 ELSE 0) = n
  <2>1. results \in Seq(Outcome)
    BY DEF Typed
  <2>2. CASE pc' = "marking" /\ results' = Append(results, "returned")
    <3>1. results' \in Seq(Outcome) /\ Len(results') = n
      BY <2>1, <2>2 DEF Outcome
    <3> QED BY <1>1, <2>2, <3>1
  <2>3. CASE pc' = "asking" /\ results' = results
    BY <1>1, <2>3
  <2> QED BY <2>2, <2>3
<1>12. \A i \in DOMAIN calls : calls[i].id \in noted => i \in DOMAIN results'
  BY <1>5, <1>11 DEF Spoken
<1>13. ASSUME NEW i \in DOMAIN calls, calls[i].id \in ran'
       PROVE  i <= Len(results') + (IF pc' \in {"asking", "answered"} THEN 1 ELSE 0)
  <2>1. calls[i].id = c => i = n
    BY <1>3
  <2>2. calls[i].id \in ran => i <= Len(results)
    BY <1>5, <1>1 DEF Spoken
  <2>3. i \in Nat /\ i <= n
    BY <1>1, <1>2, <1>13, <2>1, <2>2
  <2> QED BY <1>11, <2>3
<1>14. \/ marker.calls = calls /\ Len(marker.results) <= Len(results')
       \/ CallIds(marker.calls) \cap Turn = {}
  <2>1. Len(marker.results) \in Nat
    <3>1. marker.results \in Seq(Outcome)
      BY DEF Typed
    <3> QED BY <3>1
  <2> QED BY <1>1, <1>5, <1>11, <2>1 DEF Spoken
<1>15. Turn' = Turn
  BY DEF Turn
<1>16. pc' \in {"asking", "answered"} => calls'[Len(results') + 1].id \in ran'
  BY <1>2 DEF c
<1>17. \A i \in DOMAIN marker.calls : marker.calls[i].id \in noted => i \in DOMAIN marker.results
  BY DEF Spoken
<1> HIDE DEF n
<1> QED BY <1>6, <1>9, <1>10, <1>12, <1>13, <1>14, <1>15, <1>16, <1>17 DEF Spoken, HonestWord

\* The call in hand has its word, without running.
LEMMA SpokenReturns ==
  ASSUME Spoken, Shaped, Typed, pc \in {"dispatching", "asking", "answered"},
         NEW word \in Outcome, Return(word), HonestWord(calls[Len(results) + 1].id, word),
         UNCHANGED <<conv, calls, snap, marker, noted, ran>>
  PROVE  Spoken'
<1> DEFINE n == Len(results) + 1
<1>1. /\ n \in DOMAIN calls /\ n \in Nat /\ DOMAIN results = 1 .. Len(results) /\ Len(results) \in Nat
      /\ DOMAIN calls = 1 .. Len(calls) /\ Len(calls) \in Nat
  BY InHand
<1>2. results \in Seq(Outcome) /\ marker.results \in Seq(Outcome)
  BY DEF Typed
<1>3. /\ Len(results') = n /\ DOMAIN results' = 1 .. n /\ results'[n] = word
      /\ \A i \in 1 .. Len(results) : results'[i] = results[i]
  BY <1>2 DEF Return
<1>4. pc' = "marking" /\ pc \in InLoop
  BY DEF Return, Goto, InLoop
<1>5. \A i \in 1 .. n : i \in DOMAIN results \/ i = n
  BY <1>1
<1>6. HonestWord(calls[n].id, word)
  OBVIOUS
<1>7. n = Len(results) + 1
  OBVIOUS
<1> HIDE DEF n
<1>8. ASSUME NEW i \in DOMAIN results' PROVE Fits(ran', noted', calls'[i].id, results'[i])
  <2>1. CASE i \in DOMAIN results
    BY <1>1, <1>3, <2>1 DEF Spoken, HonestWord
  <2>2. CASE i = n
    BY <1>3, <1>6, <2>2 DEF HonestWord
  <2> QED BY <1>3, <1>5, <2>1, <2>2
<1>9. \A id, w : Fits(ran', noted', id, w) <=> HonestWord(id, w)
  BY DEF HonestWord
<1>10. Honest(conv)' /\ Honest(snap.conv)'
  BY <1>9 DEF Spoken, Honest, HonestWord
<1>11. \A i \in DOMAIN marker'.results : Fits(ran', noted', marker'.calls[i].id, marker'.results[i])
  BY <1>9 DEF Spoken
<1>12. \A i \in DOMAIN calls : calls[i].id \in noted => i \in DOMAIN results'
  BY <1>1, <1>3, <1>4, <1>7 DEF Spoken
<1>13. \A i \in DOMAIN calls : calls[i].id \in ran => i <= Len(results')
  <2>1. ASSUME NEW i \in DOMAIN calls, calls[i].id \in ran PROVE i <= Len(results')
    <3>1. i <= Len(results) + 1
      <4>1. i <= Len(results) + (IF pc \in {"asking", "answered"} THEN 1 ELSE 0) /\ i \in Nat
        BY <1>1, <1>4, <2>1 DEF Spoken
      <4> QED BY <1>1, <4>1
    <3> QED BY <1>3, <1>7, <3>1
  <2> QED BY <2>1
<1>14. \/ marker.calls = calls /\ Len(marker.results) <= Len(results')
       \/ CallIds(marker.calls) \cap Turn = {}
  <2>1. Len(marker.results) \in Nat
    BY <1>2
  <2> QED BY <1>1, <1>3, <1>4, <1>7, <2>1 DEF Spoken
<1>15. Turn' = Turn
  BY DEF Turn
<1>16. \A i \in DOMAIN marker.calls : marker.calls[i].id \in noted => i \in DOMAIN marker.results
  BY DEF Spoken
<1>17. pc' \notin {"asking", "answered"} /\ Len(results') + 0 = Len(results')
  BY <1>1, <1>3, <1>4, <1>7
<1> QED BY <1>8, <1>10, <1>11, <1>12, <1>13, <1>14, <1>15, <1>16, <1>17 DEF Spoken, HonestWord

\* The marker gets the results of the calls that returned.
LEMMA SpokenNotes ==
  ASSUME Spoken, Shaped, Typed, pc = "marking", pc' \in {"dispatching", "dispatched"},
         marker' = InFlight, noted' = noted \cup {calls[i].id : i \in DOMAIN results},
         UNCHANGED <<conv, calls, results, snap, ran>>
  PROVE  Spoken'
<1>0. pc \in InLoop /\ pc' \notin {"asking", "answered"} /\ DOMAIN results \subseteq DOMAIN calls
      /\ {calls[i].id : i \in DOMAIN results} \subseteq Turn
  BY ReturnedAre DEF InLoop
<1>1. /\ \A id, word : HonestWord(id, word) /\ id \notin Turn => Fits(ran', noted', id, word)
      /\ \A c : Honest(c) /\ ResultIds(c) \cap Turn = {} =>
            \A j \in Items(c, "result") : Fits(ran', noted', c[j].id, c[j].word)
  <2>1. ran \subseteq ran' /\ noted \subseteq noted' /\ ran' \subseteq ran \cup Turn /\ noted' \subseteq noted \cup Turn
    BY <1>0
  <2> QED BY <2>1, HonestGrows
<1>2. Honest(conv)' /\ Honest(snap.conv)'
  <2>1. ResultIds(conv) \cap Turn = {} /\ ResultIds(snap.conv) \cap Turn = {}
    BY <1>0, UntoldIs
  <2> QED BY <1>1, <2>1 DEF Spoken, Honest, HonestWord
<1>3. \A i \in DOMAIN results : Fits(ran', noted', calls[i].id, results[i])
  <2>1. results \in Seq(Outcome)
    BY DEF Typed
  <2>2. \A i \in DOMAIN results : results[i] # "interrupted"
    BY <2>1 DEF Outcome
  <2> QED BY <2>2 DEF Spoken, HonestWord, Fits
<1>4. marker'.calls = calls /\ marker'.results = results
  BY DEF InFlight
<1>5. \A i \in DOMAIN calls : calls[i].id \in noted' => i \in DOMAIN results
  <2>1. \A i \in DOMAIN calls : calls[i].id \in noted => i \in DOMAIN results
    BY <1>0 DEF Spoken
  <2>2. \A i, k \in DOMAIN calls : calls[i].id = calls[k].id => i = k
    BY DEF Shaped, Distinct
  <2> QED BY <1>0, <2>1, <2>2
<1>6. \A i \in DOMAIN calls : calls[i].id \in ran => i <= Len(results) + 0
  BY <1>0 DEF Spoken
<1>7. Len(results) <= Len(results)
  <2>1. results \in Seq(Outcome)
    BY DEF Typed
  <2> QED BY <2>1
<1> QED BY <1>0, <1>2, <1>3, <1>4, <1>5, <1>6, <1>7 DEF Spoken, HonestWord

\* One step keeps what is told true.
LEMMA SpokenStep ==
  ASSUME Spoken, Remembered, Shaped, Typed, Numbered, [Next]_vars
  PROVE  Spoken'
<1> USE DEF Goto, InLoop
<1>0. /\ conv \in Seq(ItemSet) /\ calls \in Seq(Call) /\ minted \in Nat /\ turn \in Nat
      /\ Honest(conv) /\ Honest(snap.conv)
  BY DEF Typed, Spoken
<1>1. CASE UNCHANGED vars
  BY <1>1, SpokenFrame DEF vars
<1>2. CASE PreCall
  <2>1. UNCHANGED <<conv, marker, ran, noted>> /\ results' = <<>> /\ pc' = "calling" /\ SaveSnapshot(turn, conv, {})
    BY <1>2 DEF PreCall
  <2>2. snap'.conv = conv \/ snap' = snap
    BY <1>0, <2>1, SavedIs
  <2>3. Honest(conv') /\ Honest(snap'.conv)
    BY <1>0, <2>1, <2>2
  <2>4. pc' \notin InLoop
    BY <2>1
  <2> HIDE DEF InLoop
  <2> QED BY <2>1, <2>3, <2>4, SpokenTells
<1>3. CASE PostTurn
  <2>1. UNCHANGED <<conv, marker, ran, noted, calls, results>> /\ pc' \notin InLoop /\ SaveSnapshot(turn + 1, conv, Turn)
    BY <1>3 DEF PostTurn
  <2>2. turn + 1 \in Nat
    BY <1>0
  <2>3. snap'.conv = conv \/ snap' = snap
    BY <2>1, <2>2, SavedIs
  <2>4. Honest(conv') /\ Honest(snap'.conv)
    BY <1>0, <2>1, <2>3
  <2> HIDE DEF InLoop
  <2> QED BY <2>1, <2>4, SpokenTells
<1>4. ASSUME NEW kinds \in Responses, Respond(kinds) PROVE Spoken'
  <2>1. /\ calls' \in Seq(Call) /\ conv' = conv \o Asked(calls') /\ Len(kinds) \in Nat
        /\ CallIds(calls') = (minted + 1) .. (minted + Len(kinds))
    BY <1>0, <1>4, ResponseIs
  <2>2. UNCHANGED <<results, snap, marker, ran, noted>> /\ pc = "calling" /\ pc' = "marking"
    BY <1>4 DEF Respond
  <2>3. results = <<>> /\ ran \cup noted \subseteq 1 .. minted /\ CallIds(marker.calls) \subseteq 1 .. minted
    BY <2>2 DEF Typed, Remembered, Shaped
  <2>4. CallIds(calls') \cap (ran \cup noted \cup CallIds(marker.calls)) = {}
    BY <1>0, <2>1, <2>3
  <2>5. \A i \in DOMAIN calls' : calls'[i].id \in CallIds(calls')
    BY DEF CallIds
  <2>6. \A id, word : Fits(ran', noted', id, word) <=> HonestWord(id, word)
    BY <2>2 DEF HonestWord
  <2>7. Honest(conv')
    BY <1>0, <2>1, AskedTells
  <2>8. Honest(conv)' /\ Honest(snap.conv)'
    BY <1>0, <2>2, <2>6, <2>7 DEF Honest, HonestWord
  <2>9. \A i \in DOMAIN marker'.results : Fits(ran', noted', marker'.calls[i].id, marker'.results[i])
    BY <2>2, <2>6 DEF Spoken
  <2>10. \A i \in DOMAIN results' : Fits(ran', noted', calls'[i].id, results'[i])
    BY <2>2, <2>3
  <2>11. \A i \in DOMAIN calls' : calls'[i].id \notin noted' /\ calls'[i].id \notin ran'
    BY <2>2, <2>4, <2>5
  <2>12. \A i \in DOMAIN marker.calls : marker.calls[i].id \in noted => i \in DOMAIN marker.results
    BY DEF Spoken
  <2>13. CallIds(marker'.calls) \cap Turn' = {}
    BY <2>2, <2>4 DEF Turn
  <2> QED BY <2>2, <2>8, <2>9, <2>10, <2>11, <2>12, <2>13 DEF Spoken, HonestWord
<1>5. CASE MarkTurn
  <2>1. /\ pc = "marking" /\ pc' \in {"dispatching", "dispatched"} /\ UNCHANGED <<conv, calls, results, snap, ran>>
    BY <1>5 DEF MarkTurn
  <2>2. CASE marker' = InFlight /\ noted' = noted \cup {calls[i].id : i \in DOMAIN results}
    BY <2>1, <2>2, SpokenNotes
  <2>3. CASE UNCHANGED <<marker, noted>>
    BY <2>1, <2>3, SpokenFrame
  <2> QED BY <1>5, <2>2, <2>3 DEF MarkTurn
<1>6. ASSUME Work \/ Finish \/ Queue \/ Ask PROVE Spoken'
  <2>1. /\ Run /\ pc = "dispatching" /\ UNCHANGED <<conv, calls, snap, marker, noted>>
        /\ \/ pc' = "marking" /\ results' = Append(results, "returned")
           \/ pc' = "asking" /\ results' = results
    BY <1>6 DEF Work, Finish, Queue, Ask, Dispatching, Return
  <2> QED BY <2>1, SpokenRuns
<1>7. CASE Skip
  <2>1. Return("skipped") /\ pc = "dispatching" /\ UNCHANGED <<conv, calls, snap, marker, noted, ran>>
    BY <1>7 DEF Skip
  <2>2. Len(results) + 1 \in DOMAIN calls /\ Len(results) \in Nat
    BY <2>1, InHand
  <2>3. calls[Len(results) + 1].id \notin ran
    <3>1. calls[Len(results) + 1].id \in ran => Len(results) + 1 <= Len(results) + 0
      BY <2>1, <2>2 DEF Spoken
    <3> QED BY <2>2, <3>1
  <2>4. HonestWord(calls[Len(results) + 1].id, "skipped")
    BY <2>3 DEF HonestWord, Fits
  <2> QED BY <2>1, <2>4, SpokenReturns DEF Outcome
<1>8. ASSUME TakeAnswer \/ GiveUpWaiting \/ LeaveUnanswered PROVE Spoken'
  <2>1. Return("returned") /\ pc \in {"asking", "answered"} /\ UNCHANGED <<conv, calls, snap, marker, noted, ran>>
    BY <1>8 DEF TakeAnswer, GiveUpWaiting, LeaveUnanswered, EndWait
  <2>2. HonestWord(calls[Len(results) + 1].id, "returned")
    BY <2>1 DEF Spoken, HonestWord, Fits
  <2> QED BY <2>1, <2>2, SpokenReturns DEF Outcome
<1>9. CASE JudgeTurn
  <2>1. /\ conv' = conv \o Told(calls, results) /\ UNCHANGED <<calls, results, snap, marker, ran, noted>>
        /\ pc' \notin InLoop /\ Len(results) = Len(calls)
    BY <1>9 DEF JudgeTurn, Typed
  <2>2. \A i \in 1 .. Len(calls) : HonestWord(calls[i].id, results[i])
    <3>1. DOMAIN results = 1 .. Len(calls)
      BY <2>1 DEF Typed
    <3> QED BY <3>1 DEF Spoken
  <2>3. Honest(conv')
    BY <1>0, <2>1, <2>2, ResultsAre, ToldTells
  <2>4. Honest(snap'.conv)
    BY <1>0, <2>1
  <2> HIDE DEF InLoop
  <2> QED BY <2>1, <2>3, <2>4, SpokenTells
<1>10. CASE Deliver
  <2>1. poll.took \subseteq Number /\ pc' \notin InLoop
    BY <1>10 DEF Deliver, AfterPoll, Polled, Numbered, Polling
  <2>2. conv' = conv \o AnswersNotice(poll.took) /\ UNCHANGED <<calls, results, snap, marker, ran, noted>>
    BY <1>10 DEF Deliver
  <2>3. Honest(conv') /\ Honest(snap'.conv)
    BY <1>0, <2>1, <2>2, NoticeTells
  <2> HIDE DEF InLoop
  <2> QED BY <2>1, <2>2, <2>3, SpokenTells
<1>11. CASE FoldInterruptedTurn
  <2>1. UNCHANGED <<conv, calls, results, marker, ran, noted>> /\ pc' \notin InLoop
    BY <1>11 DEF FoldInterruptedTurn
  <2>2. CASE snap' = snap
    <3>1. Honest(conv') /\ Honest(snap'.conv)
      BY <1>0, <2>1, <2>2
    <3> HIDE DEF InLoop
    <3> QED BY <2>1, <3>1, SpokenTells
  <2>3. CASE Interrupted /\ snap' = Folded
    <3>1. DOMAIN marker.calls = 1 .. Len(marker.calls)
      BY DEF Typed
    <3>2. ASSUME NEW i \in 1 .. Len(marker.calls) PROVE HonestWord(marker.calls[i].id, FoldedWords[i])
      <4>1. FoldedWords[i] = IF i \in DOMAIN marker.results THEN marker.results[i] ELSE "interrupted"
        BY FoldedIs
      <4>2. CASE i \in DOMAIN marker.results
        BY <4>1, <4>2 DEF Spoken
      <4>3. CASE i \notin DOMAIN marker.results
        <5>1. marker.calls[i].id \notin noted
          BY <3>1, <4>3 DEF Spoken
        <5> QED BY <4>1, <4>3, <5>1 DEF HonestWord, Fits
      <4> QED BY <4>2, <4>3
    <3>3. Honest(Folded.conv)
      BY <1>0, <2>3, <3>2, FoldedTells
    <3>4. Honest(conv') /\ Honest(snap'.conv)
      BY <1>0, <2>1, <2>3, <3>3
    <3> HIDE DEF InLoop
    <3> QED BY <2>1, <3>4, SpokenTells
  <2> QED BY <1>11, <2>2, <2>3 DEF FoldInterruptedTurn
<1>12. CASE OpenResumed
  <2>1. UNCHANGED <<snap, calls, results, marker, ran, noted>> /\ pc' \notin InLoop /\ conv' = snap.conv
    BY <1>12 DEF OpenResumed, StartCollecting
  <2>2. Honest(conv') /\ Honest(snap'.conv)
    BY <1>0, <2>1
  <2> HIDE DEF InLoop
  <2> QED BY <2>1, <2>2, SpokenTells
<1>13. ASSUME Forget, UNCHANGED <<snap, marker, ran, noted>>, pc' \notin InLoop PROVE Spoken'
  <2>1. conv' = <<>> /\ results' = <<>>
    BY <1>13 DEF Forget
  <2>2. Honest(conv') /\ Honest(snap'.conv)
    BY <1>0, <1>13, <2>1 DEF Honest, Items
  <2> HIDE DEF InLoop
  <2> QED BY <1>13, <2>1, <2>2, SpokenTells
<1>14. ASSUME EndMaxTurns \/ EndBeforeCall \/ EndQuietly \/ EndCall \/ EndUnexecutable
             \/ EndBeforeResults \/ EndStopped \/ StopAt("boundary") \/ StopAt("parked")
             \/ EndAtSteer \/ EndFinished \/ EmitEnd \/ CancelSettle \/ Crash
       PROVE Spoken'
  BY <1>13, <1>14 DEF EndMaxTurns, EndBeforeCall, EndQuietly, EndCall, EndUnexecutable,
        EndBeforeResults, EndStopped, StopAt, EndAtSteer, EndFinished, EndWith, End, EmitEnd, CancelSettle, CloseSettle,
        Crash, Down
<1>15. ASSUME RespondQuietly \/ CutCall \/ ClearMarker \/ NextTurn
             \/ DropMarker \/ Unpark \/ AskSettle \/ NothingToSettle \/ AnswerSettle \/ DropFolded \/ CheckStops
             \/ OperatorBoundary \/ PollParked \/ PeekNothing \/ JournalLateAnswer \/ ClearAnswer \/ Start
             \/ Begin \/ Resume
      PROVE  Spoken'
  <2>1. UNCHANGED <<conv, snap, calls, results, ran, noted>> /\ (marker' = marker \/ marker' = NoMarker)
    BY <1>15 DEF RespondQuietly, CutCall, ClearMarker, NextTurn, DropMarker, Unpark,
       AskSettle, NothingToSettle, AnswerSettle, CloseSettle, DropFolded, CheckStops, OperatorBoundary, PollParked,
       PeekNothing, JournalLateAnswer, ClearAnswer, Start, Begin, Resume
  <2>2. pc' \notin InLoop
    BY <1>15 DEF RespondQuietly, CutCall, ClearMarker, NextTurn, DropMarker, Unpark,
       AskSettle, NothingToSettle, AnswerSettle, CloseSettle, DropFolded, CheckStops, OperatorBoundary, PollParked,
       PeekNothing, JournalLateAnswer, ClearAnswer, Start, Begin, Resume, StartCollecting, AfterSettling
  <2> QED BY <2>1, <2>2, SpokenFrame
<1>16. CASE ConsumeAnswer
  BY <1>16, SpokenFrame DEF ConsumeAnswer
<1>17. ASSUME RequestStop \/ \E q \in Question : Answer(q) PROVE Spoken'
  <2>1. UNCHANGED <<conv, snap, calls, results, ran, noted, marker, pc>>
    BY <1>17 DEF RequestStop, Answer
  <2> QED BY <2>1, SpokenFrame
<1>18. ASSUME Calling \/ Dispatch PROVE Spoken'
  BY <1>2, <1>4, <1>5, <1>6, <1>7, <1>8, <1>14, <1>15, <1>16, <1>18 DEF Calling, Dispatch
<1>19. ASSUME Closing PROVE Spoken'
  BY <1>3, <1>9, <1>14, <1>15, <1>19 DEF Closing
<1>20. ASSUME Collecting \/ Resuming \/ Operator PROVE Spoken'
  BY <1>8, <1>10, <1>11, <1>12, <1>14, <1>15, <1>17, <1>20 DEF Collecting, Resuming, Operator
<1> QED BY <1>1, <1>14, <1>15, <1>18, <1>19, <1>20 DEF Next, Drive

\* Over every death and failed write, what ran is remembered and truly told.
THEOREM SpokenInvariance == Spec => [](Shaped /\ Remembered /\ Spoken)
<1>1. Init => Remembered
  <2> SUFFICES ASSUME Init PROVE Remembered
    OBVIOUS
  <2>1. Counted = {} /\ ran \cup noted = {} /\ pc \notin BesideLoop \cup InLoop
    BY DEF Init, Counted, BesideLoop, InLoop
  <2>2. ~InTurn
    BY <2>1 DEF InTurn, BesideLoop
  <2> QED BY <2>1, <2>2 DEF Remembered, Init
<1>2. Init => Spoken
  <2> SUFFICES ASSUME Init PROVE Spoken
    OBVIOUS
  <2>1. Items(<<>>, "result") = {} /\ pc \notin InLoop
    BY DEF Init, Items, InLoop
  <2>2. Honest(conv) /\ Honest(snap.conv)
    BY <2>1 DEF Init, NoSnap, Honest
  <2> QED BY <2>1, <2>2 DEF Spoken, Init, NoMarker
<1>3. Remembered /\ Hearing /\ Shaped /\ Turns /\ Typed /\ Numbered /\ [Next]_vars => Remembered'
  BY RememberedStep
<1>4. Spoken /\ Remembered /\ Shaped /\ Typed /\ Numbered /\ [Next]_vars => Spoken'
  BY SpokenStep
<1> QED BY <1>1, <1>2, <1>3, <1>4, ShapedInvariance, HearingInvariance, PTL DEF Spec

\* Every call that ran is in the next request, a result that returned is told as it
\* was, and a call told as not executed never ran.
THEOREM ToldWhatRanHolds == Spec => []ToldWhatRan
<1>1. Remembered /\ Spoken => ToldWhatRan
  <2> SUFFICES ASSUME Remembered, Spoken, pc = "calling" PROVE ToldWhatRan
    BY DEF ToldWhatRan
  <2>1. ran \ excused \subseteq ResultIds(conv)
    BY DEF Remembered, Counted, BesideLoop
  <2>2. \A c \in ResultIds(conv) : ResultsOf(conv, c) # {}
    BY DEF ResultIds, ResultsOf
  <2>3. Honest(conv)
    BY DEF Spoken
  <2> QED BY <2>1, <2>2, <2>3 DEF ToldWhatRan, Honest, HonestWord, Fits
<1> QED BY <1>1, SpokenInvariance, PTL
=============================================================================
