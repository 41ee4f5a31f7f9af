----------------------------- MODULE TurnLoop -----------------------------
(***************************************************************************)
(* One run of the harness over its executions: the turn pipeline           *)
(* (harness/loop.py), what it keeps on disk so that a death loses nothing  *)
(* (harness/loop_resume.py, harness/loop_snapshot.py) and the questions    *)
(* put to the operator, answered at once, later, or after the execution    *)
(* that asked is gone (tools/operator_prompts.py, harness/loop_steer.py,   *)
(* app/resume.py, app/resume_questions.py, sessions/ipc.py).               *)
(*                                                                         *)
(* Every write to disk and every effect of a call is a step of its own, so *)
(* the process can die between any two.  The single-writer lock makes it   *)
(* one process at a time.  The conversation is kept as what the model is   *)
(* told: its calls, their results and the operator's late answers.         *)
(***************************************************************************)
EXTENDS Integers, Sequences, FiniteSets

CONSTANTS
    MaxTurns,       \* how many turns an execution may take
    MaxCalls,       \* bound: how many calls one response may hold
    MaxQuestion,    \* bound: the last question id
    MaxExecutions,  \* bound: how many executions the run may have
    MaxStops,       \* bound: how often the operator asks to stop
    MaxFaults,      \* bound: how many writes may fail
    CallKind        \* the calls the model makes: "work", "ask", "queue", "finish"

ASSUME BoundsAssumption ==
    /\ MaxTurns \in Nat \ {0}
    /\ {MaxCalls, MaxQuestion, MaxExecutions, MaxStops, MaxFaults} \subseteq Nat
ASSUME KindAssumption == CallKind \subseteq {"work", "ask", "queue", "finish"}

VARIABLES
    snap,        \* loop_state.json
    marker,      \* turn_in_flight.json
    answers,     \* the questions with an answer file
    stop,        \* stop.request
    events,      \* logs.jsonl: executions, prompts and answers
    pc,          \* where the process stands; "down" when there is none
    first,       \* the first turn of the execution
    turn,        \* the turn it is in
    conv,        \* its conversation
    calls,       \* the calls of this turn's response
    results,     \* their results so far
    finish,      \* a finish_session of this turn stands
    next,        \* the number the next question takes
    pending,     \* the questions it holds as unanswered
    undelivered, \* answers an earlier execution took and never told
    delivered,   \* the questions whose answers are in the conversation
    poll,        \* a collection of answers: whose, what is left, what it took
    asking,      \* the question the process waits on
    reason,      \* how the execution ends
    stale,       \* the last snapshot write failed
    minted,      \* how many calls the model has made
    ran,         \* the calls that were executed
    noted,       \* the calls whose return the marker has had
    excused,     \* calls whose record the harness gave up by its own word
    heard,       \* the late answers in the last request
    executions,  \* how many executions there were
    stops,       \* how often the operator asked to stop
    faults       \* how many writes failed

files == <<snap, marker, answers, stop, events>>
talk == <<conv, calls, results, finish>>
prompts == <<next, pending, undelivered, delivered, poll, asking>>
process == <<pc, first, turn, talk, prompts, reason, stale>>
ghosts == <<minted, ran, noted, excused, heard, executions, stops, faults>>
vars == <<files, process, ghosts>>

NoSnap == [turn |-> 0, conv |-> <<>>, delivered |-> {}]
NoMarker == [turn |-> 0, calls |-> <<>>, results |-> <<>>]
NoPoll == [for |-> "nobody", left |-> {}, took |-> {}]
NoQuestion == 0
Question == 1..MaxQuestion

CallIds(cs) == {cs[i].id : i \in DOMAIN cs}
Item(kind, id, word) == [kind |-> kind, id |-> id, word |-> word]
Asked(cs) == [i \in DOMAIN cs |-> Item("call", cs[i].id, "asked")]
Told(cs, words) == [i \in DOMAIN cs |-> Item("result", cs[i].id, words[i])]

Least(S) == CHOOSE q \in S : \A p \in S : q <= p
Most(S) == CHOOSE q \in S : \A p \in S : p <= q
Ascending(S) == [i \in 1..Cardinality(S) |->
                   CHOOSE q \in S : Cardinality({p \in S : p <= q}) = i]
AnswersNotice(S) == [i \in 1..Cardinality(S) |-> Item("answer", Ascending(S)[i], "late")]

-----------------------------------------------------------------------------
(* The journal, as the next execution folds it.                            *)

Row(type, id, source) == [type |-> type, id |-> id, source |-> source]
Log(row) == events' = Append(events, row)

\* No execution is open before the n-th row: none began, or the last one ended.
Between(n) ==
    LET bounds == {i \in 1..(n - 1) : events[i].type \in {"start", "resume", "end"}}
    IN  bounds = {} \/ events[Most(bounds)].type = "end"

PromptRows == {i \in DOMAIN events : events[i].type = "prompt"}

\* The row that speaks for a question id: the latest prompt of that id.
LastPrompts == {i \in PromptRows : \A k \in PromptRows : events[k].id = events[i].id => k <= i}

\* The questions asked inside an execution.
AskedIds == {events[i].id : i \in {k \in LastPrompts : ~Between(k)}}

AnsweredBy(q, sources) ==
    \E i \in LastPrompts : events[i].id = q /\
       \E k \in DOMAIN events : k > i /\ events[k].type = "answer" /\ events[k].id = q
                                /\ events[k].source \in sources

Source == {"operator", "late"}
CarriedPending == {q \in AskedIds : ~AnsweredBy(q, Source)}
LateIds == {q \in AskedIds : AnsweredBy(q, {"late"})}

\* Mutant: question ids start over on every execution.
NextNumberRestarts == 1

NextNumber == 1 + Most(AskedIds \cup {0})

-----------------------------------------------------------------------------
(* Writing.                                                                *)

Goto(label) == pc' = label

CanFail == faults < MaxFaults /\ faults' = faults + 1
Turn == CallIds(calls)

Snapshot(n, talked) == [turn |-> n, conv |-> talked, delivered |-> delivered]

\* A failed write warns once and the run goes on without its snapshot.
SaveSnapshot(n, talked, dropped) ==
    \/ snap' = Snapshot(n, talked) /\ stale' = FALSE /\ UNCHANGED <<excused, faults>>
    \/ CanFail /\ stale' = TRUE /\ excused' = excused \cup dropped /\ snap' = snap

\* What a process holds dies with it.
Forget ==
    /\ first' = 0 /\ turn' = 0
    /\ conv' = <<>> /\ calls' = <<>> /\ results' = <<>> /\ finish' = FALSE
    /\ next' = 1 /\ pending' = {} /\ undelivered' = {} /\ delivered' = {}
    /\ poll' = NoPoll /\ asking' = NoQuestion
    /\ stale' = FALSE

Down == Forget /\ pc' = "down" /\ reason' = "none"

\* The loop ends the execution, completed, cut or detached; what it did not yet
\* tell of the turn's calls is given up.
End(why) == Forget /\ Goto("ending") /\ reason' = why

EndWith(why, dropped) ==
    /\ End(why)
    /\ excused' = excused \cup dropped
    /\ UNCHANGED <<files, minted, ran, noted, heard, executions, stops, faults>>

\* The answers that have landed are collected for one of four places.
StartCollecting(whose) ==
    /\ poll' = [for |-> whose, left |-> pending, took |-> undelivered]
    /\ undelivered' = {}
    /\ Goto("collecting")

-----------------------------------------------------------------------------
(* A fresh run, and the model call.                                        *)

Begin ==
    /\ pc = "down" /\ executions = 0
    /\ executions' = 1
    /\ Goto("settling")
    /\ UNCHANGED <<files, first, turn, talk, prompts, reason, stale,
                   minted, ran, noted, excused, heard, stops, faults>>

\* A fresh run opens as a resumed one does, with nothing to collect.
Start ==
    /\ pc = "starting"
    /\ Log(Row("start", NoQuestion, ""))
    /\ first' = 1 /\ turn' = 1
    /\ StartCollecting("opening")
    /\ UNCHANGED <<snap, marker, answers, stop, talk, next, pending, delivered, asking,
                   reason, stale, ghosts>>

\* The allowance is this execution's: a resumed one has its own.
AllowanceSpent == turn >= first + MaxTurns

EndMaxTurns == pc = "precall" /\ AllowanceSpent /\ EndWith("cut", {})

\* The steer that opened the execution is a verb, or the plan cannot be read.
EndBeforeCall ==
    /\ pc = "precall" /\ ~AllowanceSpent
    /\ \E why \in {"cut", "detached"} : EndWith(why, {})

\* The snapshot the call consumes is on disk before the call.
PreCall ==
    /\ pc = "precall"
    /\ ~AllowanceSpent
    /\ SaveSnapshot(turn, conv, {})
    /\ heard' = {conv[i].id : i \in {k \in DOMAIN conv : conv[k].kind = "answer"}}
    /\ calls' = <<>> /\ results' = <<>> /\ finish' = FALSE
    /\ Goto("calling")
    /\ UNCHANGED <<marker, answers, stop, events, first, turn, conv, prompts, reason,
                   minted, ran, noted, executions, stops>>

Respond(kinds) ==
    LET cs == [i \in DOMAIN kinds |-> [id |-> minted + i, kind |-> kinds[i]]]
        asks == {i \in DOMAIN kinds : kinds[i] \in {"ask", "queue"}}
    IN  /\ pc = "calling"
        /\ next + Cardinality(asks) <= MaxQuestion + 1
        /\ calls' = cs
        /\ conv' = conv \o Asked(cs)
        /\ minted' = minted + Len(cs)
        /\ Goto("marking")
        /\ UNCHANGED <<files, first, turn, results, finish, prompts, reason, stale,
                       ran, noted, excused, heard, executions, stops, faults>>

\* A response without a call: a nudge or a gate's notice sends the model back,
\* the goal is re-entered, the run parks, or it ends.
RespondQuietly ==
    /\ pc = "calling"
    /\ pc' \in {"posting", "parked"}
    /\ UNCHANGED <<files, first, turn, talk, prompts, reason, stale, ghosts>>

EndQuietly == pc = "calling" /\ \E why \in {"completed", "cut"} : EndWith(why, {})

\* The provider failed, the budget is spent, or a stop or a steer cut the call.
EndCall == pc = "calling" /\ \E why \in {"cut", "detached"} : EndWith(why, {})

\* A steer cut the call: the turn is discarded and the next one begins.
CutCall ==
    /\ pc = "calling"
    /\ turn' = turn + 1
    /\ Goto("precall")
    /\ UNCHANGED <<files, first, talk, prompts, reason, stale, ghosts>>

-----------------------------------------------------------------------------
(* Dispatching the turn's calls.                                           *)

\* Mutant: only the calls are recorded, not what they returned.
InFlightNoResults == [turn |-> turn, calls |-> calls, results |-> <<>>]

InFlight == [turn |-> turn, calls |-> calls, results |-> results]

\* A failed write never fails the turn.
MarkTurn ==
    /\ pc = "marking"
    /\ \/ /\ marker' = InFlight
          /\ noted' = noted \cup {calls[i].id : i \in DOMAIN results}
          /\ UNCHANGED <<excused, faults>>
       \/ CanFail /\ excused' = excused \cup Turn /\ UNCHANGED <<marker, noted>>
    /\ Goto(IF Len(results) = Len(calls) THEN "dispatched" ELSE "dispatching")
    /\ UNCHANGED <<snap, answers, stop, events, first, turn, talk, prompts, reason, stale,
                   minted, ran, heard, executions, stops>>

Dispatching(kind) ==
    /\ pc = "dispatching"
    /\ calls[Len(results) + 1].kind = kind

Return(word) == results' = Append(results, word) /\ Goto("marking")

Run ==
    /\ ran' = ran \cup {calls[Len(results) + 1].id}
    /\ excused' = IF stale THEN excused \cup {calls[Len(results) + 1].id} ELSE excused

\* The calls after a finish are not executed.
Skip ==
    /\ pc = "dispatching"
    /\ finish
    /\ Return("skipped")
    /\ UNCHANGED <<files, first, turn, conv, calls, finish, prompts, reason, stale, ghosts>>

Work ==
    /\ Dispatching("work") /\ ~finish
    /\ Run
    /\ Return("returned")
    /\ UNCHANGED <<files, first, turn, conv, calls, finish, prompts, reason, stale,
                   minted, noted, heard, executions, stops, faults>>

\* A dispatched finish counts; a refused one is an error result.
Finish ==
    /\ Dispatching("finish") /\ ~finish
    /\ Run
    /\ Return("returned")
    /\ finish' \in BOOLEAN
    /\ UNCHANGED <<files, first, turn, conv, calls, prompts, reason, stale,
                   minted, noted, heard, executions, stops, faults>>

\* The slot of the id is cleared before its prompt is journaled.
Prompt(q, by) ==
    /\ q <= MaxQuestion
    /\ answers' = answers \ {q}
    /\ Log(Row("prompt", q, by))
    /\ next' = q + 1

\* ask_user without waiting: the answers come at a later turn, or on resume.
Queue ==
    /\ Dispatching("queue") /\ ~finish
    /\ Prompt(next, "model")
    /\ pending' = pending \cup {next}
    /\ Run
    /\ Return("returned")
    /\ UNCHANGED <<snap, marker, stop, first, turn, conv, calls, finish, undelivered, delivered,
                   poll, asking, reason, stale, minted, noted, heard, executions, stops, faults>>

Ask ==
    /\ Dispatching("ask") /\ ~finish
    /\ Prompt(next, "model")
    /\ asking' = next
    /\ Run
    /\ Goto("asking")
    /\ UNCHANGED <<snap, marker, stop, first, turn, talk, pending, undelivered, delivered,
                   poll, reason, stale, minted, noted, heard, executions, stops, faults>>

\* The wait consumes the answer file, and journals the answer after.
ConsumeAnswer ==
    /\ pc \in {"asking", "settling"}
    /\ asking \in answers
    /\ answers' = answers \ {asking}
    /\ Goto(IF pc = "asking" THEN "answered" ELSE "settled")
    /\ UNCHANGED <<snap, marker, stop, events, first, turn, talk, prompts, reason, stale, ghosts>>

EndWait ==
    /\ Log(Row("answer", asking, "operator"))
    /\ asking' = NoQuestion
    /\ Return("returned")
    /\ UNCHANGED <<snap, marker, answers, stop, first, turn, conv, calls, finish, next, pending,
                   undelivered, delivered, poll, reason, stale, ghosts>>

TakeAnswer == pc = "answered" /\ EndWait

\* A stop ends the wait unanswered.
GiveUpWaiting == pc = "asking" /\ stop /\ EndWait

\* The front-end that would answer is gone.
LeaveUnanswered == pc = "asking" /\ ~stop /\ asking \notin answers /\ EndWait

\* The operator's own command cannot execute.
EndUnexecutable == pc = "dispatching" /\ EndWith("cut", Turn)

-----------------------------------------------------------------------------
(* After the calls.                                                        *)

\* The operator's commit hook stops the run, or a gate's command cannot execute.
EndBeforeResults ==
    pc = "dispatched" /\ \E why \in {"completed", "cut"} : EndWith(why, Turn)

\* The gates let a finish stand or revoke it; the results enter the conversation.
JudgeTurn ==
    /\ pc = "dispatched"
    /\ finish' \in {finish, FALSE}
    /\ conv' = conv \o Told(calls, results)
    /\ Goto("posting")
    /\ UNCHANGED <<files, first, turn, calls, results, prompts, reason, stale, ghosts>>

\* Snapshot, then clear the marker.
PostTurn ==
    /\ pc = "posting"
    /\ SaveSnapshot(turn + 1, conv, Turn)
    /\ Goto(IF calls = <<>> THEN "boundary" ELSE "posted")
    /\ UNCHANGED <<marker, answers, stop, events, first, turn, talk, prompts, reason,
                   minted, ran, noted, heard, executions, stops>>

ClearMarker ==
    /\ pc = "posted"
    /\ \/ marker' = NoMarker /\ UNCHANGED faults
       \/ CanFail /\ marker' = marker
    /\ Goto("checking")
    /\ UNCHANGED <<snap, answers, stop, events, first, turn, talk, prompts, reason, stale,
                   minted, ran, noted, excused, heard, executions, stops>>

\* An advisor's stop that no standing goal absorbs.
EndStopped == pc = "checking" /\ \E why \in {"completed", "cut"} : EndWith(why, {})

\* A finish that stands polls for answers first.
CheckStops ==
    /\ pc = "checking"
    /\ IF finish THEN StartCollecting("finishing")
                 ELSE Goto("boundary") /\ UNCHANGED <<poll, undelivered>>
    /\ UNCHANGED <<files, first, turn, talk, next, pending, delivered, asking, reason, stale, ghosts>>

\* Mutant: a stop is looked for when a turn ends, never in a park.
StopUnseenWhen(place) == stop /\ place = "boundary"

StopSeenWhen(place) == stop

StopAt(place) ==
    /\ pc = place
    /\ StopSeenWhen(place)
    /\ stop' = FALSE
    /\ End("cut")
    /\ UNCHANGED <<snap, marker, answers, events, ghosts>>

OperatorBoundary ==
    /\ pc = "boundary"
    /\ ~StopSeenWhen("boundary")
    /\ StartCollecting("steer")
    /\ UNCHANGED <<files, first, turn, talk, next, pending, delivered, asking, reason, stale, ghosts>>

\* The steer after the answers: an instruction or nothing.
NextTurn ==
    /\ pc = "steer"
    /\ turn' = turn + 1
    /\ Goto("precall")
    /\ UNCHANGED <<files, first, talk, prompts, reason, stale, ghosts>>

\* A steer verb ends the run.
EndAtSteer ==
    pc \in {"steer", "parked"} /\ \E why \in {"cut", "detached"} : EndWith(why, {})

PollParked ==
    /\ pc = "parked"
    /\ ~StopSeenWhen("parked")
    /\ StartCollecting("parked")
    /\ UNCHANGED <<files, first, turn, talk, next, pending, delivered, asking, reason, stale, ghosts>>

\* A steer or a queued task is work.
Unpark ==
    /\ pc = "parked"
    /\ Goto("posting")
    /\ UNCHANGED <<files, first, turn, talk, prompts, reason, stale, ghosts>>

-----------------------------------------------------------------------------
(* Collecting late answers.                                                *)

Peeked == Least(poll.left)

\* No answer yet.
PeekNothing ==
    /\ pc = "collecting" /\ poll.left # {}
    /\ Peeked \notin answers
    /\ poll' = [poll EXCEPT !.left = @ \ {Peeked}]
    /\ UNCHANGED <<files, pc, first, turn, talk, next, pending, undelivered, delivered, asking,
                   reason, stale, ghosts>>

JournalLateAnswer ==
    /\ pc = "collecting" /\ poll.left # {}
    /\ Peeked \in answers
    /\ Log(Row("answer", Peeked, "late"))
    /\ Goto("clearing")
    /\ UNCHANGED <<snap, marker, answers, stop, first, turn, talk, prompts, reason, stale, ghosts>>

ClearAnswer ==
    /\ pc = "clearing"
    /\ answers' = answers \ {Peeked}
    /\ pending' = pending \ {Peeked}
    /\ poll' = [poll EXCEPT !.left = @ \ {Peeked}, !.took = @ \cup {Peeked}]
    /\ Goto("collecting")
    /\ UNCHANGED <<snap, marker, stop, events, first, turn, talk, next, undelivered, delivered, asking,
                   reason, stale, ghosts>>

\* Mutant: the run finishes over the answers it just took.
PutsFinishOffNever(took) == FALSE

\* An answer puts a finish off to another turn.
PutsFinishOff(took) == took # {}

\* An answer is work for a parked run.
AfterPoll ==
    CASE poll.for = "opening" -> Goto("precall") /\ UNCHANGED finish
      [] poll.for = "steer" -> Goto("steer") /\ UNCHANGED finish
      [] poll.for = "parked" ->
            Goto(IF poll.took = {} THEN "parked" ELSE "posting") /\ UNCHANGED finish
      [] poll.for = "finishing" -> Goto("boundary") /\ finish' = FALSE

Polled == pc = "collecting" /\ poll.left = {}

Deliver ==
    /\ Polled
    /\ poll.for = "finishing" => PutsFinishOff(poll.took)
    /\ conv' = conv \o AnswersNotice(poll.took)
    /\ delivered' = delivered \cup poll.took
    /\ poll' = NoPoll
    /\ AfterPoll
    /\ UNCHANGED <<files, first, turn, calls, results, next, pending, undelivered, asking,
                   reason, stale, ghosts>>

EndFinished ==
    /\ Polled
    /\ poll.for = "finishing" /\ ~PutsFinishOff(poll.took)
    /\ EndWith("completed", {})

-----------------------------------------------------------------------------
(* The end.                                                                *)

\* An end the loop declares is no death: its marker goes.
DropMarker ==
    /\ pc = "ending"
    /\ marker' = NoMarker
    /\ Goto("ended")
    /\ UNCHANGED <<snap, answers, stop, events, first, turn, talk, prompts, reason, stale, ghosts>>

\* A detached execution writes no end: the next one goes on in its place.
EmitEnd ==
    /\ pc = "ended"
    /\ IF reason = "detached" THEN UNCHANGED events ELSE Log(Row("end", NoQuestion, ""))
    /\ Down
    /\ UNCHANGED <<snap, marker, answers, stop, ghosts>>

-----------------------------------------------------------------------------
(* Resuming.                                                               *)

\* Mutant: an answer waiting for a dead execution is swept with the rest.
KeptNothing == {}

\* The answers to the questions still pending stay.
Kept == CarriedPending

\* Mutant: what the snapshot says was told is not looked at.
UndeliveredAll == LateIds

Undelivered == LateIds \ snap.delivered

\* The journal is folded and the bridge files of the last execution are swept,
\* save those written since this one started.
Resume ==
    /\ pc = "down" /\ snap # NoSnap
    /\ executions < MaxExecutions
    /\ executions' = executions + 1
    /\ \E late \in SUBSET (answers \ Kept) : answers' = (answers \cap Kept) \cup late
    /\ stop' \in {FALSE, stop}
    /\ pending' = CarriedPending
    /\ undelivered' = Undelivered
    /\ next' = NextNumber
    /\ Goto("settling")
    /\ UNCHANGED <<snap, marker, events, first, turn, talk, delivered, poll, asking, reason, stale,
                   minted, ran, noted, excused, heard, stops, faults>>

\* agent6 asks what to do with edits made outside the run.
AskSettle ==
    /\ pc = "settling" /\ asking = NoQuestion
    /\ Prompt(next, "agent6")
    /\ asking' = next
    /\ UNCHANGED <<snap, marker, stop, pc, first, turn, talk, pending, undelivered, delivered, poll,
                   reason, stale, ghosts>>

AfterSettling == IF snap = NoSnap THEN "starting" ELSE "folding"

NothingToSettle ==
    /\ pc = "settling" /\ asking = NoQuestion
    /\ Goto(AfterSettling)
    /\ UNCHANGED <<files, first, turn, talk, prompts, reason, stale, ghosts>>

CloseSettle ==
    /\ pc \in {"settling", "settled"} /\ asking # NoQuestion
    /\ Log(Row("answer", asking, "operator"))
    /\ UNCHANGED <<snap, marker, answers, stop, ghosts>>

\* Stash the edits or take them in.
AnswerSettle ==
    /\ pc = "settled"
    /\ CloseSettle
    /\ Goto(AfterSettling)
    /\ asking' = NoQuestion
    /\ UNCHANGED <<first, turn, talk, next, pending, undelivered, delivered, poll, reason, stale>>

\* No answer, a stop and any other word cancel: the execution never opens.
CancelSettle == CloseSettle /\ Down

\* Mutant: any marker is folded, that of a turn the snapshot holds too.
InterruptedAnyTurn == marker # NoMarker

\* The marker is of the turn the snapshot leads to.
Interrupted == marker # NoMarker /\ marker.turn = snap.turn

\* Mutant: every call of the dead turn is told as interrupted.
FoldedAllInterrupted ==
    [snap EXCEPT
        !.turn = marker.turn + 1,
        !.conv = @ \o Asked(marker.calls)
                   \o Told(marker.calls, [i \in DOMAIN marker.calls |-> "interrupted"])]

\* Mutant: the snapshot stays at the turn it folded.
FoldedKeepsTurn ==
    [snap EXCEPT
        !.conv = @ \o Asked(marker.calls)
                   \o Told(marker.calls, [i \in DOMAIN marker.calls |->
                              IF i \in DOMAIN marker.results THEN marker.results[i]
                                                             ELSE "interrupted"])]

\* A call that returned keeps its result, every other is told as interrupted.
Folded ==
    [snap EXCEPT
        !.turn = marker.turn + 1,
        !.conv = @ \o Asked(marker.calls)
                   \o Told(marker.calls, [i \in DOMAIN marker.calls |->
                              IF i \in DOMAIN marker.results THEN marker.results[i]
                                                             ELSE "interrupted"])]

FoldInterruptedTurn ==
    /\ pc = "folding"
    /\ snap' = IF Interrupted THEN Folded ELSE snap
    /\ Goto("folded")
    /\ UNCHANGED <<marker, answers, stop, events, first, turn, talk, prompts, reason, stale, ghosts>>

DropFolded ==
    /\ pc = "folded"
    /\ marker' = NoMarker
    /\ Goto("loaded")
    /\ UNCHANGED <<snap, answers, stop, events, first, turn, talk, prompts, reason, stale, ghosts>>

\* The execution opens with the answers the last one took or missed.
OpenResumed ==
    /\ pc = "loaded"
    /\ Log(Row("resume", NoQuestion, ""))
    /\ first' = snap.turn /\ turn' = snap.turn
    /\ conv' = snap.conv
    /\ delivered' = snap.delivered
    /\ StartCollecting("opening")
    /\ UNCHANGED <<snap, marker, answers, stop, calls, results, finish, next, pending, asking,
                   reason, stale, ghosts>>

-----------------------------------------------------------------------------
(* The operator, and death.                                                *)

\* The first answer to a question is the one on disk.
Answer(q) ==
    /\ \E i \in PromptRows : events[i].id = q
    /\ q \notin answers
    /\ answers' = answers \cup {q}
    /\ UNCHANGED <<snap, marker, stop, events, process, ghosts>>

RequestStop ==
    /\ pc # "down" /\ ~stop
    /\ stops < MaxStops
    /\ stops' = stops + 1
    /\ stop' = TRUE
    /\ UNCHANGED <<snap, marker, answers, events, process,
                   minted, ran, noted, excused, heard, executions, faults>>

Crash ==
    /\ pc # "down"
    /\ Down
    /\ UNCHANGED <<files, ghosts>>

-----------------------------------------------------------------------------

Init ==
    /\ snap = NoSnap /\ marker = NoMarker /\ answers = {} /\ stop = FALSE /\ events = <<>>
    /\ pc = "down" /\ first = 0 /\ turn = 0
    /\ conv = <<>> /\ calls = <<>> /\ results = <<>> /\ finish = FALSE
    /\ next = 1 /\ pending = {} /\ undelivered = {} /\ delivered = {}
    /\ poll = NoPoll /\ asking = NoQuestion
    /\ reason = "none" /\ stale = FALSE
    /\ minted = 0 /\ ran = {} /\ noted = {} /\ excused = {} /\ heard = {}
    /\ executions = 0 /\ stops = 0 /\ faults = 0

Responses == UNION {[1..n -> CallKind] : n \in 1..MaxCalls}

Calling ==
    \/ PreCall \/ EndMaxTurns \/ EndBeforeCall \/ RespondQuietly \/ EndQuietly \/ EndCall \/ CutCall
    \/ \E kinds \in Responses : Respond(kinds)
Dispatch ==
    \/ MarkTurn \/ Skip \/ Work \/ Finish \/ Queue \/ Ask \/ EndUnexecutable
    \/ ConsumeAnswer \/ TakeAnswer \/ GiveUpWaiting
Closing ==
    \/ EndBeforeResults \/ JudgeTurn \/ PostTurn \/ ClearMarker \/ EndStopped \/ CheckStops
    \/ StopAt("boundary") \/ StopAt("parked") \/ OperatorBoundary \/ NextTurn \/ EndAtSteer
    \/ PollParked \/ DropMarker \/ EmitEnd
Collecting == PeekNothing \/ JournalLateAnswer \/ ClearAnswer \/ Deliver \/ EndFinished
Resuming ==
    \/ Start \/ NothingToSettle \/ AnswerSettle \/ (stop /\ CancelSettle)
    \/ FoldInterruptedTurn \/ DropFolded \/ OpenResumed

\* What the process does by itself once it runs.
Drive == Calling \/ Dispatch \/ Closing \/ Collecting \/ Resuming

Operator ==
    \/ RequestStop \/ LeaveUnanswered \/ Unpark \/ AskSettle \/ CancelSettle
    \/ \E q \in Question : Answer(q)

Next == Begin \/ Drive \/ Resume \/ Operator \/ Crash

Spec == Init /\ [][Next]_vars

\* A live process keeps running; nothing restarts a dead one.
FairSpec == Spec /\ WF_vars(Drive)

-----------------------------------------------------------------------------
(* Properties.                                                             *)

Items(c, kind) == {i \in DOMAIN c : c[i].kind = kind}
ResultsOf(c, id) == {i \in Items(c, "result") : c[i].id = id}

\* Every variable has its type; nobody home holds nothing.
TypeOK ==
    /\ pc \in {"down", "precall", "calling", "marking", "dispatching", "asking", "answered",
               "dispatched", "posting", "posted", "checking", "boundary", "steer", "parked",
               "collecting", "clearing", "ending", "ended", "settling", "settled",
               "starting", "folding", "folded", "loaded"}
    /\ pc = "down" => conv = <<>> /\ pending = {} /\ poll = NoPoll
    /\ {first, turn, snap.turn} \subseteq Nat
    /\ pc # "down" => turn <= first + MaxTurns
    /\ answers \cup pending \cup undelivered \cup delivered \cup heard \subseteq Question
    /\ next \in 1..(MaxQuestion + 1) /\ asking \in 0..MaxQuestion
    /\ Len(results) <= Len(calls)
    /\ ran \cup noted \cup excused \subseteq 1..minted
    /\ {stop, finish, stale} \subseteq BOOLEAN
    /\ reason \in {"none", "completed", "cut", "detached"}

\* `fold_interrupted_turn', `operator_boundary': whatever died and wherever, the
\* conversation a request or a resume starts from pairs every call with exactly
\* one result, and nothing stands between the calls of a turn and their results.
Paired(c) ==
    /\ \A i \in Items(c, "call") :
          /\ Cardinality(ResultsOf(c, c[i].id)) = 1
          /\ \A j \in ResultsOf(c, c[i].id) :
                /\ i < j
                /\ \A k \in i..j : c[k].kind \in {"call", "result"}
    /\ \A j \in Items(c, "result") : \E i \in Items(c, "call") : c[i].id = c[j].id

CallsPaired == Paired(snap.conv) /\ (pc = "calling" => Paired(conv))

\* `_drive_loop', `mark_turn', `fold_interrupted_turn': every call that ran is in
\* the next request, a result that returned is told as it was, and a call told as
\* not executed never ran.  Excused are the calls of a turn the harness ended
\* itself and those of a failed write.
ToldWhatRan ==
    pc = "calling" =>
        /\ \A c \in ran \ excused : ResultsOf(conv, c) # {}
        /\ \A j \in Items(conv, "result") :
              /\ conv[j].word = "skipped" => conv[j].id \notin ran
              /\ conv[j].word = "returned" => conv[j].id \in ran
              /\ conv[j].word = "interrupted" => conv[j].id \notin noted

LateRows == {events[i].id : i \in {k \in DOMAIN events : events[k].type = "answer"
                                                         /\ events[k].source = "late"}}

\* `collect_answers', `operator_state', `delivered_questions': over every death
\* and failed snapshot, a late answer the journal has is in the next request, and
\* is there once.
LateToldOnce ==
    pc = "calling" =>
        /\ \A q \in LateRows : Cardinality({i \in Items(conv, "answer") : conv[i].id = q}) = 1
        /\ \A i \in Items(conv, "answer") : conv[i].id \in LateRows

\* `_turn_stop_checks': the run never finishes over an answer it took and the
\* model has not read.
FinishHearsAnswers ==
    (pc = "ending" /\ reason = "completed") => LateRows \subseteq heard

\* `clear_pending_answers', `ask', `collect_answers': an answer file goes only when
\* its question is answered in the journal, is being waited for, or was asked
\* by agent6 outside an execution.
AnswersKept ==
    [][\A q \in answers \ answers' :
          \/ \E k \in DOMAIN events : events[k].type = "answer" /\ events[k].id = q
          \/ asking = q
          \/ q \notin AskedIds]_vars

\* `carried_questions': over every resume, no two questions of the model share
\* an id, so the answer filed for a question of the model is that question's.
IdsRunOn ==
    \A i, k \in PromptRows :
        (events[i].source = "model" /\ events[k].source = "model" /\ i # k)
            => events[i].id # events[k].id

\* `park_for_steer', `_await_answer', `operator_boundary': a stop ends the
\* execution, parked, waiting for the operator or at work.
StopEnds == (stop /\ pc \notin {"down", "ending", "ended"}) ~> (~stop \/ pc = "down")

-----------------------------------------------------------------------------
(* What the repository says and the code does not do.                      *)

\* resume_questions.py: "A question agent6 asked outside an execution (the start
\* gate) is left out: nothing delivers its answer."
HarnessQuestionsLeftOut ==
    \A q \in pending : \E i \in PromptRows : events[i].id = q /\ events[i].source = "model"

\* operator_prompts.py: "Question ids run on across executions, so an answer
\* names one prompt in the journal."
AnswerNamesOnePrompt ==
    \A i, k \in PromptRows : events[i].id = events[k].id => i = k

===========================================================================
