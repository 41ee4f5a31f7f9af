----------------------------- MODULE TaskTurns -----------------------------
(***************************************************************************)
(* Who edits the task graph while a run goes on, and what the graph does   *)
(* to the run: the operator's queued tasks, goals and retirements          *)
(* (harness/operator_tasks.py), the focus banner, the model's task tools   *)
(* (tools/dag_tools.py), the check-off of a compaction, the gates that     *)
(* refuse an end over open work (harness/finish_gates.py) and the standing *)
(* goal that turns an end into another round (harness/standing_goal.py).   *)
(*                                                                         *)
(* The curator is atomic here (TaskGraph has its writes): a mutation lands *)
(* whole, is refused, or fails.  A turn is the steps of `_drive_loop' that *)
(* touch the graph; the process can die between any two.                   *)
(***************************************************************************)
EXTENDS TaskOrder, SequencesExt

CONSTANTS
    MaxTask,       \* bound: how many tasks the graph may hold
    MaxDeps,       \* bound: how many dependencies the graph may hold
    MaxCalls,      \* bound: how many calls one turn may hold
    MaxQueue,      \* bound: how many requests one drain finds
    FinishPatience, \* TASK_FINISH_PATIENCE: refusals of an end over open tasks
    Patience,      \* [harness].standing_patience; -1 is unbounded
    ModelStatus,   \* the statuses the model asks update_task for
    Interactive    \* a quiet run parks

ASSUME BoundsAssumption ==
    /\ MaxTask \in Nat \ {0}
    /\ {MaxDeps, MaxCalls, MaxQueue, FinishPatience} \subseteq Nat
    /\ Patience \in Nat \cup {-1}
ASSUME InputAssumption == ModelStatus \subseteq Status /\ Interactive \in BOOLEAN

VARIABLES
    nodes,     \* the graph
    cursor,    \* cursor.json
    saved,     \* loop_state.json is there
    pc,        \* where the process stands; "down" when there is none
    inHand,    \* requests drained and not yet applied
    landed,    \* one of them landed
    surfaced,  \* FocusGuard.surfaced_task_id
    banner,    \* the task the latest banner of the conversation names
    worked,    \* a call executed since the last re-entry: ok_tool_calls # tools_mark
    fruitless, \* re-entries in a row without one
    refusals,  \* ends refused over open tasks: task_nudges_used
    calls,     \* calls left in the turn
    finish,    \* a finish_session of this turn stands
    broke,     \* the budget was spent when the goal judged this turn's end
    end        \* why the execution ends

graph == <<nodes, cursor>>
counters == <<worked, fruitless, refusals>>
turnState == <<calls, finish, broke>>
focus == <<surfaced, banner>>
requests == <<inHand, landed>>
vars == <<graph, requests, saved, pc, focus, counters, turnState, end>>

Root == 1
Streak == 0..(IF Patience < 0 THEN 0 ELSE Patience + 1)
Soft == {"settled", "no_progress"}
Stop == Soft \cup {"guard"}
\* Ends that ask the graph first; a hard end does not.
SoftEnd == Soft \cup {"finish_session", "silent_finish", "went_quiet"}
RootPassingEnd == {"finish_session", "silent_finish", "settled", "settled by a guard"}
End == SoftEnd \cup RootPassingEnd \cup {"guard", "hard", "none"}

Node(p, by, standing, deps) ==
    [parent |-> p, status |-> "pending", deps |-> deps, children |-> <<>>,
     standing |-> standing /\ by = "steering", by |-> by]

Subtasks == {t \in DOMAIN nodes : nodes[t].parent # NoTask}
Open == {t \in DOMAIN nodes : nodes[t].status \in OpenStatuses}
OpenSubtasks == {t \in Open \cap Subtasks : ~nodes[t].standing}
Goals == {t \in Open : nodes[t].standing}
ReadyGoals == {t \in Goals : ReadySubtask(nodes, t)}
QueuedByOperator(t) == nodes[t].by = "user" /\ nodes[t].parent # NoTask
Current == CurrentTask(nodes, cursor)

-----------------------------------------------------------------------------
(* The curator's mutations, whole.                                         *)

StandingAt(s) == {i \in DOMAIN s : nodes[s[i]].standing}

\* After a named sibling, else last, ahead of a standing one.
PlaceChild(s, id, after) ==
    IF after # NoTask THEN InsertAt(s, 1 + CHOOSE i \in DOMAIN s : s[i] = after, id)
    ELSE IF StandingAt(s) = {} THEN Append(s, id)
    ELSE InsertAt(s, CHOOSE i \in StandingAt(s) : \A j \in StandingAt(s) : i <= j, id)

Fresh == Cardinality(DOMAIN nodes) + 1

AddSubtask(p, by, standing, deps, after) ==
    /\ Fresh <= MaxTask
    /\ nodes' = [t \in DOMAIN nodes \cup {Fresh} |->
                   IF t = Fresh THEN Node(p, by, standing, deps)
                   ELSE IF t = p THEN [nodes[t] EXCEPT !.children = PlaceChild(@, Fresh, after)]
                   ELSE nodes[t]]
    /\ UNCHANGED cursor

StatusAllowed(t, s) ==
    /\ nodes[t].status = "passed" => s = "obsolete"
    /\ nodes[t].status \in {"skipped", "obsolete"} => s = nodes[t].status
    /\ ~(nodes[t].standing /\ s = "passed")
    /\ s = "passed" /\ nodes[t].parent # NoTask => UnresolvedChildren(nodes, nodes[t]) = {}

UpdateStatus(t, s) ==
    /\ StatusAllowed(t, s)
    /\ nodes' = [nodes EXCEPT ![t].status = s]
    /\ cursor' = IF s = "in_progress" THEN t ELSE cursor

\* The walk from the new dependency reaches the task.
WouldIntroduceCycle(t, d) ==
    \A S \in SUBSET DOMAIN nodes :
        (d \in S /\ \A u \in S : nodes[u].deps \subseteq S) => t \in S

Goto(label) == pc' = label

-----------------------------------------------------------------------------
(* Starting, ending, resuming.                                             *)

Forget ==
    /\ inHand' = <<>> /\ landed' = FALSE
    /\ surfaced' = NoTask /\ banner' = NoTask
    /\ worked' = FALSE /\ fruitless' = 0 /\ refusals' = 0
    /\ calls' = 0 /\ finish' = FALSE /\ broke' = FALSE /\ end' = "none"

\* A fresh run seeds its root, and a goal when it was given one.
Begin ==
    /\ pc = "down" /\ nodes = <<>>
    /\ \E goal \in BOOLEAN :
          nodes' = [t \in 1..(IF goal THEN 2 ELSE 1) |->
                      IF t = 2 THEN Node(Root, "steering", TRUE, {})
                      ELSE [Node(NoTask, "user", FALSE, {}) EXCEPT
                              !.children = IF goal THEN <<2>> ELSE <<>>]]
    /\ worked' = TRUE
    /\ Goto("boundary")
    /\ UNCHANGED <<cursor, requests, saved, focus, fruitless, refusals, turnState, end>>

\* The goal's counters come back from the snapshot, which any turn may have written.
Resume ==
    /\ pc = "down" /\ saved
    /\ worked' \in BOOLEAN /\ fruitless' \in Streak
    /\ Goto("boundary")
    /\ UNCHANGED <<graph, requests, saved, focus, refusals, turnState, end>>

EndWith(why) ==
    /\ end' = why
    /\ Goto("ending")
    /\ UNCHANGED <<requests, saved, focus, turnState>>

\* Stops, faults, the turn cap and the budget end the run as it is.
EndHard ==
    /\ pc \in {"boundary", "calling", "dispatching", "parked"}
    /\ EndWith("hard")
    /\ UNCHANGED <<graph, counters>>

\* Ends other than a failed one mark the root passed; open subtasks stay.
PassPendingRootTasks ==
    /\ pc = "ending"
    /\ IF end \in RootPassingEnd /\ Root \in Open
       THEN UpdateStatus(Root, "passed") \/ UNCHANGED graph
       ELSE UNCHANGED graph
    /\ Forget
    /\ Goto("down")
    /\ UNCHANGED saved

Crash ==
    /\ pc # "down"
    /\ Forget
    /\ Goto("down")
    /\ UNCHANGED <<graph, saved>>

SaveSnapshot == saved' = TRUE

-----------------------------------------------------------------------------
(* What the operator asks, and the drain of it at a turn boundary.         *)

Request == [kind : {"task", "standing", "retire"}, id : 0..MaxTask]

\* The operator may ask for anything at any time; what waits in queue/ is read at
\* the drain and by nobody else, so the drain chooses it.  Every request is read and
\* its file removed before the first is applied.
DrainRequests ==
    /\ pc \in {"boundary", "taking", "parked"}
    /\ inHand' \in BoundedSeq(Request, MaxQueue)
    /\ \A i \in DOMAIN inHand' : IF inHand'[i].kind = "retire" THEN inHand'[i].id \in Subtasks
                                 ELSE inHand'[i].id = NoTask
    /\ pc = "parked" => inHand' # <<>>
    /\ Goto(IF pc = "parked" THEN "applying parked" ELSE "applying")
    /\ UNCHANGED <<graph, landed, saved, focus, counters, turnState, end>>

Applying(kind) ==
    /\ pc \in {"applying", "applying parked"}
    /\ inHand # <<>> /\ Head(inHand).kind = kind

Apply ==
    /\ inHand' = Tail(inHand)
    /\ landed' = TRUE
    /\ UNCHANGED <<saved, pc, focus, counters, turnState, end>>

Queue == Applying("task") /\ Apply /\ AddSubtask(Root, "user", FALSE, {}, NoTask)

Retire == Applying("retire") /\ Apply /\ UpdateStatus(Head(inHand).id, "obsolete")

\* A new goal retires each open one, by a mutation of its own.
RetireGoal ==
    /\ Applying("standing")
    /\ \E t \in Goals : (\A u \in Goals : t <= u) /\ UpdateStatus(t, "obsolete")
    /\ UNCHANGED <<requests, saved, pc, focus, counters, turnState, end>>

SetStanding ==
    /\ Applying("standing") /\ Goals = {}
    /\ Apply
    /\ AddSubtask(Root, "steering", TRUE, {}, NoTask)

\* A request the curator refuses, or a write that fails, is logged; the rest
\* still land.
RefuseRequest ==
    /\ pc \in {"applying", "applying parked"} /\ inHand # <<>>
    /\ inHand' = Tail(inHand)
    /\ UNCHANGED <<graph, landed, saved, pc, focus, counters, turnState, end>>

\* What landed wakes a parked run.
TakenParked ==
    /\ pc = "applying parked" /\ inHand = <<>>
    /\ Goto(IF landed THEN "posting" ELSE "parked")
    /\ landed' = FALSE
    /\ UNCHANGED <<graph, inHand, saved, focus, counters, turnState, end>>

-----------------------------------------------------------------------------
(* Before the call: compaction, the requests, the banner, the snapshot.    *)

Summarise ==
    /\ pc = "boundary"
    /\ Goto("compacting")
    /\ UNCHANGED <<graph, requests, saved, focus, counters, turnState, end>>

\* The summary's check-off passes tasks and queues what it discovered.
ApplyCheckoff ==
    /\ pc = "compacting" /\ OpenSubtasks # {}
    /\ \/ \E t \in OpenSubtasks : UpdateStatus(t, "passed")
       \/ AddSubtask(Root, "planner", FALSE, {}, NoTask)
    /\ UNCHANGED <<requests, saved, pc, focus, counters, turnState, end>>

\* Mutant: a restart keeps the focus guard's word for the banner it wiped.
RestartKeepsSurfaced == banner' = NoTask /\ UNCHANGED surfaced

\* The restarted conversation has no banner.
Restart == banner' = NoTask /\ surfaced' = NoTask

RestartConversation ==
    /\ pc = "compacting"
    /\ Restart
    /\ Goto("taking")
    /\ UNCHANGED <<graph, requests, saved, counters, turnState, end>>

Marked == [nodes EXCEPT ![Current].status = "in_progress"]

\* The cursor follows the frontier; a new task is marked and its banner posted.
\* A failed write is logged and the rest goes on.
MaybeSurface ==
    LET followed == IF Current = NoTask THEN cursor ELSE Current
        marked == IF Current \in {NoTask, surfaced} THEN nodes ELSE Marked
    IN  /\ nodes' \in {nodes, marked} /\ cursor' \in {cursor, followed}
        /\ IF Current \in {NoTask, surfaced} THEN UNCHANGED focus
           ELSE banner' = Current /\ surfaced' = Current

\* The snapshot is the state the call consumes.
SurfaceCurrentTask ==
    /\ pc = "applying" /\ inHand = <<>>
    /\ MaybeSurface
    /\ SaveSnapshot
    /\ landed' = FALSE
    /\ Goto("calling")
    /\ UNCHANGED <<inHand, counters, turnState, end>>

-----------------------------------------------------------------------------
(* The call and its tools.                                                 *)

Respond ==
    /\ pc = "calling"
    /\ calls' \in 1..MaxCalls
    /\ finish' = FALSE /\ broke' = FALSE
    /\ Goto("dispatching")
    /\ UNCHANGED <<graph, requests, saved, focus, counters, end>>

\* A steer cut the call, and the turn is made again.
CutCall ==
    /\ pc = "calling"
    /\ Goto("boundary")
    /\ UNCHANGED <<graph, requests, saved, focus, counters, turnState, end>>

Dispatched ==
    /\ pc = "dispatching" /\ calls > 0 /\ ~finish
    /\ calls' = calls - 1
    /\ UNCHANGED <<requests, saved, pc, focus, fruitless, refusals, broke, end>>

Executed == Dispatched /\ worked' = TRUE /\ UNCHANGED <<finish>>

Work == Executed /\ UNCHANGED graph

Edges == {e \in (DOMAIN nodes) \X (DOMAIN nodes) : e[2] \in nodes[e[1]].deps}

AddTask ==
    /\ Executed
    /\ \E p \in DOMAIN nodes, deps \in SUBSET DOMAIN nodes :
         \E after \in {NoTask} \cup {t \in DOMAIN nodes : IsChildOf(t, nodes[p])} :
            Cardinality(deps) + Cardinality(Edges) <= MaxDeps /\ AddSubtask(p, "worker", FALSE, deps, after)

\* Mutant: the model may retire what the operator asked for.
MayUpdateAll(t, s) == TRUE

\* The model retires neither a task the operator queued nor the goal.
MayUpdate(t, s) ==
    s \in {"skipped", "obsolete"} => ~QueuedByOperator(t) /\ ~nodes[t].standing

UpdateTask ==
    /\ Executed
    /\ \E t \in Subtasks, s \in ModelStatus : MayUpdate(t, s) /\ UpdateStatus(t, s)

AddDependency ==
    /\ Executed
    /\ Cardinality(Edges) < MaxDeps
    /\ \E t \in Subtasks, d \in DOMAIN nodes :
         /\ d \notin nodes[t].deps /\ ~WouldIntroduceCycle(t, d)
         /\ nodes' = [nodes EXCEPT ![t].deps = @ \cup {d}]
    /\ UNCHANGED cursor

\* The call raised: a refusal, a fault, or a status changed before a refused
\* dependency.
FailCall ==
    /\ Dispatched
    /\ \/ UNCHANGED graph
       \/ \E t \in Subtasks, s \in ModelStatus : MayUpdate(t, s) /\ UpdateStatus(t, s)
    /\ UNCHANGED <<worked, finish>>

\* A finish is no work.
FinishSession ==
    /\ Dispatched
    /\ finish' = TRUE
    /\ UNCHANGED <<graph, worked>>

Over == pc = "dispatching" /\ (calls = 0 \/ finish)

-----------------------------------------------------------------------------
(* The gates and the goal.                                                 *)

\* Mutant: an open task that waits for another is not asked about.
TaskFinishNudgeReady ==
    refusals < FinishPatience /\ \E t \in OpenSubtasks : ReadySubtask(nodes, t)

TaskFinishNudge == OpenSubtasks # {} /\ refusals < FinishPatience

\* A goal that is ready, money left, and patience: another round.
Absorbs == ReadyGoals # {} /\ ~broke' /\ (worked \/ Patience < 0 \/ fruitless < Patience)

\* The goal judges an end; money only runs out.  Past the patience the streak no
\* longer matters.
Judge ==
    /\ broke' \in IF ReadyGoals = {} THEN {broke} ELSE {broke, TRUE}
    /\ IF ReadyGoals = {} \/ broke' THEN UNCHANGED <<worked, fruitless>>
       ELSE /\ fruitless' = IF worked THEN 0
                            ELSE IF fruitless <= Patience THEN fruitless + 1 ELSE fruitless
            /\ worked' = IF Absorbs THEN FALSE ELSE worked

\* Mutant: the goal is not asked about a finish.
StandingFinishNever == FALSE

StandingFinish == Absorbs

FinishGates ==
    /\ Over /\ finish
    /\ \/ \* verify, review, the contract or the metric returns the finish
          finish' = FALSE /\ UNCHANGED <<counters, broke>>
       \/ /\ TaskFinishNudge
          /\ refusals' = refusals + 1 /\ finish' = FALSE
          /\ UNCHANGED <<worked, fruitless, broke>>
       \/ /\ ~TaskFinishNudge
          /\ Judge
          /\ finish' = ~StandingFinish
          /\ UNCHANGED refusals
    /\ calls' = 0
    /\ Goto("advising")
    /\ UNCHANGED <<graph, requests, saved, focus, end>>

\* A stop the harness declares passes the end gates too, unless a finish stands
\* that has passed them.
Declared(wanted, granted) ==
    \/ /\ "settled" \in wanted /\ ~finish
       /\ granted = wanted \ {"settled"}
       /\ refusals' \in IF TaskFinishNudge THEN {refusals, refusals + 1} ELSE {refusals}
    \/ /\ "settled" \in wanted => finish \/ ~TaskFinishNudge
       /\ granted = wanted
       /\ UNCHANGED refusals

SoftOnly(stops) == stops # {} /\ stops \subseteq Soft

EndOfTurn(why) == end' = why /\ Goto("ending") /\ finish' = FALSE
NextTurn == finish' = FALSE /\ Goto("boundary") /\ UNCHANGED end

\* The advisors' stops, the snapshot, then the stop checks: the goal is asked
\* about soft stops, a stop left ends the run, then a finish that an answer of
\* the operator does not defer.
AdviseAndCheck ==
    /\ pc = "advising" \/ (Over /\ ~finish)
    /\ SaveSnapshot
    /\ \E wanted \in SUBSET Stop : \E stops \in {wanted, wanted \ {"settled"}} :
          /\ Declared(wanted, stops)
          /\ IF SoftOnly(stops) THEN Judge ELSE UNCHANGED <<worked, fruitless, broke>>
          /\ IF stops = {} \/ (SoftOnly(stops) /\ Absorbs)
             THEN NextTurn \/ (finish /\ EndOfTurn("finish_session"))
             ELSE \E why \in stops :
                     EndOfTurn(IF "guard" \in stops /\ why = "settled" THEN "settled by a guard"
                               ELSE IF "guard" \in stops THEN "guard" ELSE why)
    /\ calls' = 0
    /\ UNCHANGED <<graph, requests, focus>>

\* A turn without a call: a nudge, a gate, the goal, a park, or the end.
Quiet(why) ==
    /\ pc = "calling"
    /\ \/ UNCHANGED <<counters, broke, end>> /\ Goto("posting")
       \/ /\ why = "silent_finish" /\ TaskFinishNudge
          /\ refusals' = refusals + 1 /\ Goto("posting")
          /\ UNCHANGED <<worked, fruitless, broke, end>>
       \/ /\ why = "silent_finish" => ~TaskFinishNudge
          /\ Judge
          /\ IF Absorbs THEN Goto("posting") /\ UNCHANGED end
             ELSE IF Interactive THEN Goto("parked") /\ UNCHANGED end
             ELSE Goto("ending") /\ end' = why
          /\ UNCHANGED refusals
    /\ UNCHANGED <<graph, requests, saved, focus, calls, finish>>

PostQuietTurn ==
    /\ pc = "posting"
    /\ SaveSnapshot
    /\ broke' = FALSE
    /\ Goto("boundary")
    /\ UNCHANGED <<graph, requests, focus, counters, calls, finish, end>>

\* The operator steers a parked run, or answers a question of it.
Unpark ==
    /\ pc = "parked"
    /\ Goto("posting")
    /\ UNCHANGED <<graph, requests, saved, focus, counters, turnState, end>>

-----------------------------------------------------------------------------

Init ==
    /\ nodes = <<>> /\ cursor = NoTask
    /\ inHand = <<>> /\ landed = FALSE
    /\ saved = FALSE /\ pc = "down"
    /\ surfaced = NoTask /\ banner = NoTask
    /\ worked = FALSE /\ fruitless = 0 /\ refusals = 0
    /\ calls = 0 /\ finish = FALSE /\ broke = FALSE /\ end = "none"

Take == DrainRequests \/ Queue \/ Retire \/ RetireGoal \/ SetStanding \/ RefuseRequest \/ TakenParked
BeforeCall == Summarise \/ ApplyCheckoff \/ RestartConversation \/ SurfaceCurrentTask
Model ==
    \/ Respond \/ Work \/ AddTask \/ UpdateTask \/ AddDependency \/ FailCall \/ FinishSession
    \/ Quiet("silent_finish") \/ Quiet("went_quiet")
AfterCall == FinishGates \/ AdviseAndCheck \/ PostQuietTurn \/ PassPendingRootTasks

Drive == Take \/ BeforeCall \/ Model \/ AfterCall

Operator == Unpark \/ CutCall \/ EndHard

Next == Begin \/ Drive \/ Operator \/ Resume \/ Crash

Spec == Init /\ [][Next]_vars

-----------------------------------------------------------------------------
(* Properties.                                                             *)

TypeOK ==
    /\ \A t \in DOMAIN nodes :
          /\ nodes[t].parent \in 0..MaxTask /\ nodes[t].status \in Status
          /\ nodes[t].deps \subseteq DOMAIN nodes /\ nodes[t].by \in Actor
    /\ {cursor, surfaced, banner} \subseteq 0..MaxTask
    /\ \A i \in DOMAIN inHand : inHand[i] \in Request
    /\ {landed, worked, broke, finish} \subseteq BOOLEAN
    /\ end \in End
    /\ refusals \in 0..FinishPatience

\* `_maybe_surface_current_task', `summarise_and_restart': whoever changed the
\* graph since, and whatever the compaction threw away, the latest banner of the
\* conversation a call is made with names the task the frontier has now.
BannerIsFrontier ==
    (pc = "calling" /\ Current # NoTask) => banner = Current

\* `task_finish_nudge', FINISH_GATES, END_GATES, SILENT_END_GATES: an end the model
\* or a settled run declares leaves ordinary tasks open only when this execution
\* was sent back as often as the patience allows.
EndsOverOpenWork ==
    (pc = "ending" /\ end \in {"finish_session", "silent_finish", "settled"} /\ OpenSubtasks # {})
        => refusals = FinishPatience

\* `absorb': while the goal is ready and money is left, a soft end is another
\* round, unless more rounds than the patience brought no work.
GoalHolds ==
    (pc = "ending" /\ end \in SoftEnd /\ ReadyGoals # {} /\ ~broke)
        => Patience >= 0 /\ fruitless > Patience

\* `update_task', `apply_checkoff', `retire': a task the operator queued and the
\* goal are retired by the operator's requests only.
OperatorRetires ==
    [][\A t \in DOMAIN nodes :
          (nodes'[t].status \in {"skipped", "obsolete"} /\ nodes[t].status # nodes'[t].status
              /\ (QueuedByOperator(t) \/ nodes[t].standing))
          => pc \in {"applying", "applying parked"}]_vars

-----------------------------------------------------------------------------
(* What the repository says and the code does not do.                      *)

\* usage.md: `/standing' sets the goal the run returns to, "replacing any it had".
\* The model may mark a goal failed, and take a failed one up again.
OneGoal == Cardinality(Goals) <= 1
=============================================================================
