-------------------------- MODULE TaskTurnsProofs --------------------------
(***************************************************************************)
(* What holds of a run over a task graph for any number of tasks, calls    *)
(* and requests and any patience: ends over open work only after the       *)
(* refusals are spent, no soft end while the standing goal can be worked,  *)
(* no retirement of what is the operator's by anybody else, and no call    *)
(* under a banner that names another task than the frontier.               *)
(*                                                                         *)
(* A finish passes the gates some steps before it ends the run.  Nothing   *)
(* between edits the graph or hands back patience, so what the gates found *)
(* still holds at the end: that is `Passed', the only strengthening.       *)
(*                                                                         *)
(* The banner rests on the walk of the tree: it has a first task of any    *)
(* set, and depends on parents and lists alone, so marking the frontier as *)
(* taken up leaves the frontier where it is.                               *)
(***************************************************************************)
EXTENDS TaskTurns, InductionFacts, SequenceTheorems, FiniteSetTheorems

Counters ==
    /\ refusals \in Nat /\ refusals <= FinishPatience
    /\ fruitless \in Nat
    /\ worked \in BOOLEAN /\ broke \in BOOLEAN /\ finish \in BOOLEAN

\* More rounds than the patience brought no work.
Exhausted == Patience >= 0 /\ fruitless > Patience

\* The goal has nothing to say: it is not ready, the money is spent, or the patience is.
Spent == ReadyGoals = {} \/ broke \/ (Exhausted /\ ~worked)

\* A finish that stands after the gates has passed them all.
Passed == pc = "advising" /\ finish => ~TaskFinishNudge /\ Spent

IInv == Counters /\ Passed /\ EndsOverOpenWork /\ GoalHolds

\* The bounds, fact by fact.
LEMMA Bounds ==
    /\ FinishPatience \in Nat /\ Patience \in Int
  BY BoundsAssumption

\* What the steps that leave the gates alone do: the process is not at an end afterwards, and not
\* between the gates and the end.
Ordinary == pc' \notin {"advising", "ending"} /\ Counters'

\* Such a step keeps the invariant.
LEMMA OrdinaryKeeps ==
  ASSUME Ordinary
  PROVE  IInv'
  BY DEF Ordinary, IInv, Passed, EndsOverOpenWork, GoalHolds

\* A judgement of the goal counts the round or leaves the counters as they are, and money does not
\* come back.
LEMMA JudgeCounts ==
  ASSUME Counters, Judge
  PROVE  /\ fruitless' \in Nat /\ worked' \in BOOLEAN /\ broke' \in BOOLEAN
         /\ broke => broke'
<1>1. broke' \in BOOLEAN /\ (broke => broke')
  BY Zenon DEF Counters, Judge
<1>2. fruitless' \in {fruitless, fruitless + 1, 0}
  BY DEF Judge
<1>3. worked' \in BOOLEAN
  BY Zenon DEF Counters, Judge
<1> QED BY <1>1, <1>2, <1>3 DEF Counters

\* A goal that does not ask for another round is spent, and one that is spent does not ask.
LEMMA JudgeSpends ==
  ASSUME Counters, Judge, UNCHANGED nodes
  PROVE  /\ ~Absorbs => Spent'
         /\ Spent => ~Absorbs
<1>1. ReadyGoals' = ReadyGoals
  BY DEF ReadyGoals, Goals, Open
<1>2. ASSUME ~Absorbs, ReadyGoals # {}, ~broke'
      PROVE  Exhausted' /\ ~worked'
  <2>1. ~worked /\ ~(Patience < 0) /\ ~(fruitless < Patience)
    BY <1>2 DEF Absorbs
  <2>2. fruitless' = IF worked THEN 0 ELSE IF fruitless <= Patience THEN fruitless + 1 ELSE fruitless
    BY <1>2 DEF Judge
  <2>3. ~worked'
    BY <1>2, <2>1, Zenon DEF Judge
  <2>4. fruitless' = IF fruitless <= Patience THEN fruitless + 1 ELSE fruitless
    BY <2>1, <2>2, Zenon
  <2>5. Exhausted'
    BY <2>1, <2>4, Bounds DEF Counters, Exhausted
  <2> QED BY <2>3, <2>5
<1>3. ~Absorbs => Spent'
  BY <1>1, <1>2, Zenon DEF Spent
<1>4. Exhausted => ~(Patience < 0) /\ ~(fruitless < Patience)
  BY Bounds DEF Counters, Exhausted
<1>5. Spent => ~Absorbs
  BY <1>4, JudgeCounts, Zenon DEF Spent, Absorbs
<1> QED BY <1>3, <1>5

\* The end gates ask as often as the patience allows, no more.
LEMMA NudgeCounts ==
  ASSUME Counters, TaskFinishNudge
  PROVE  refusals + 1 \in Nat /\ refusals + 1 <= FinishPatience
  BY Bounds DEF Counters, TaskFinishNudge

\* A gate that does not ask has nothing open or no patience left.
LEMMA NoNudge ==
  ASSUME Counters, ~TaskFinishNudge, UNCHANGED <<nodes, refusals>>
  PROVE  ~TaskFinishNudge' /\ (OpenSubtasks' = {} \/ refusals' = FinishPatience)
<1>1. OpenSubtasks' = OpenSubtasks
  BY DEF OpenSubtasks, Open, Subtasks
<1>2. OpenSubtasks = {} \/ refusals = FinishPatience
  BY Bounds DEF Counters, TaskFinishNudge
<1> QED BY <1>1, <1>2 DEF TaskFinishNudge

-----------------------------------------------------------------------------
(* The steps at the gates.                                                 *)

\* The finish gates let a finish stand that the refusals and the goal have let through.
LEMMA FinishKeeps ==
  ASSUME IInv, FinishGates
  PROVE  IInv'
<1> USE DEF FinishGates
<1>1. pc' = "advising" /\ UNCHANGED nodes /\ finish' \in BOOLEAN
  BY DEF Goto, graph, StandingFinish, Absorbs
<1>2. EndsOverOpenWork' /\ GoalHolds'
  BY <1>1 DEF EndsOverOpenWork, GoalHolds
<1>3. CASE finish' = FALSE /\ UNCHANGED <<counters, broke>>
  BY <1>1, <1>2, <1>3 DEF IInv, Counters, Passed, counters
<1>4. CASE TaskFinishNudge /\ refusals' = refusals + 1 /\ finish' = FALSE
           /\ UNCHANGED <<worked, fruitless, broke>>
  BY <1>1, <1>2, <1>4, NudgeCounts DEF IInv, Counters, Passed
<1>5. CASE ~TaskFinishNudge /\ Judge /\ finish' = ~StandingFinish /\ UNCHANGED refusals
  <2>1. ~TaskFinishNudge'
    BY <1>1, <1>5, NoNudge DEF IInv
  <2>2. finish' => Spent'
    BY <1>1, <1>5, JudgeSpends, Zenon DEF IInv, StandingFinish
  <2>3. Counters'
    BY <1>1, <1>5, JudgeCounts DEF IInv, Counters
  <2> QED BY <1>2, <2>1, <2>2, <2>3 DEF IInv, Passed
<1> QED BY <1>3, <1>4, <1>5

\* What an end may say of the graph: a goal with nothing to say, and, for the ends that ask about
\* open work, gates that are through.
LEMMA EndKeeps ==
  ASSUME Counters', pc' = "ending", end' \in SoftEnd => Spent',
         end' \in {"finish_session", "silent_finish", "settled"}
            => OpenSubtasks' = {} \/ refusals' = FinishPatience
  PROVE  IInv'
<1>1. GoalHolds'
  BY DEF GoalHolds, Spent, Exhausted
<1> QED BY <1>1 DEF IInv, Passed, EndsOverOpenWork

\* The harness's own stops ask the gates and the goal; a finish that stands has asked them.
LEMMA AdviseKeeps ==
  ASSUME IInv, AdviseAndCheck
  PROVE  IInv'
<1>0. UNCHANGED nodes
  BY DEF AdviseAndCheck, graph
<1>1. finish => ~TaskFinishNudge /\ Spent
  BY DEF AdviseAndCheck, Over, IInv, Passed
<1>2. PICK wanted \in SUBSET Stop, stops \in SUBSET Stop :
        /\ stops \in {wanted, wanted \ {"settled"}}
        /\ Declared(wanted, stops)
        /\ IF SoftOnly(stops) THEN Judge ELSE UNCHANGED <<worked, fruitless, broke>>
        /\ IF stops = {} \/ (SoftOnly(stops) /\ Absorbs)
           THEN NextTurn \/ (finish /\ EndOfTurn("finish_session"))
           ELSE \E why \in stops :
                   EndOfTurn(IF "guard" \in stops /\ why = "settled" THEN "settled by a guard"
                             ELSE IF "guard" \in stops THEN "guard" ELSE why)
  BY DEF AdviseAndCheck
<1>3. finish' = FALSE
  BY <1>2 DEF NextTurn, EndOfTurn
<1>4. refusals' \in Nat /\ refusals' <= FinishPatience
  BY <1>2, NudgeCounts DEF Declared, IInv, Counters
<1>5. Counters'
  BY <1>2, <1>3, <1>4, JudgeCounts DEF IInv, Counters
<1>7. CASE NextTurn
  BY <1>5, <1>7, OrdinaryKeeps DEF Ordinary, NextTurn, Goto
<1>8. CASE (stops = {} \/ (SoftOnly(stops) /\ Absorbs)) /\ finish /\ EndOfTurn("finish_session")
  <2>1. UNCHANGED refusals
    BY <1>2, <1>8 DEF Declared
  <2>2. OpenSubtasks' = {} \/ refusals' = FinishPatience
    BY <1>0, <1>1, <1>8, <2>1, NoNudge DEF IInv
  <2>3. ~Absorbs \/ ~SoftOnly(stops)
    BY <1>0, <1>1, <1>2, <1>8, JudgeSpends, Zenon DEF IInv
  <2>4. stops = {} /\ UNCHANGED <<worked, fruitless, broke>>
    BY <1>2, <1>8, <2>3 DEF SoftOnly
  <2>5. Spent'
    <3>1. ReadyGoals' = ReadyGoals
      BY <1>0 DEF ReadyGoals, Goals, Open
    <3> QED BY <1>1, <1>8, <2>4, <3>1 DEF Spent, Exhausted
  <2> QED BY <1>5, <1>8, <2>2, <2>5, EndKeeps DEF EndOfTurn, Goto
<1>9. CASE /\ ~(stops = {} \/ (SoftOnly(stops) /\ Absorbs))
           /\ \E why \in stops :
                 EndOfTurn(IF "guard" \in stops /\ why = "settled" THEN "settled by a guard"
                           ELSE IF "guard" \in stops THEN "guard" ELSE why)
  <2>1. CASE "guard" \in stops
    <3>1. pc' = "ending" /\ end' \in {"settled by a guard", "guard"}
      BY <1>9, <2>1 DEF EndOfTurn, Goto
    <3> QED BY <1>5, <3>1, EndKeeps DEF SoftEnd, Soft
  <2>2. CASE "guard" \notin stops
    <3>1. SoftOnly(stops)
      BY <1>2, <1>9, <2>2 DEF SoftOnly, Stop
    <3>2. Judge /\ ~Absorbs
      BY <1>2, <1>9, <3>1
    <3>3. Spent'
      BY <1>0, <3>2, JudgeSpends, Zenon DEF IInv
    <3>4. pc' = "ending" /\ end' \in stops
      BY <1>9, <2>2 DEF EndOfTurn, Goto
    <3>5. ASSUME "settled" \in stops
          PROVE  OpenSubtasks' = {} \/ refusals' = FinishPatience
      <4>1. UNCHANGED refusals /\ (finish \/ ~TaskFinishNudge)
        BY <1>2, <3>5 DEF Declared
      <4> QED BY <1>0, <1>1, <4>1, NoNudge DEF IInv
    <3>6. end' \in {"finish_session", "silent_finish", "settled"} => end' = "settled"
      BY <3>4 DEF Stop, Soft
    <3> QED BY <1>5, <3>3, <3>4, <3>5, <3>6, EndKeeps
  <2> QED BY <2>1, <2>2
<1> QED BY <1>2, <1>7, <1>8, <1>9

\* A turn without a call asks the gates that its reason has.
LEMMA QuietKeeps ==
  ASSUME IInv, NEW why \in {"silent_finish", "went_quiet"}, Quiet(why)
  PROVE  IInv'
<1>0. UNCHANGED nodes /\ finish' = finish
  BY DEF Quiet, graph
<1>1. CASE UNCHANGED <<counters, broke, end>> /\ Goto("posting")
  BY <1>0, <1>1, OrdinaryKeeps DEF Ordinary, IInv, Counters, counters, Goto
<1>2. CASE /\ TaskFinishNudge
           /\ refusals' = refusals + 1 /\ Goto("posting")
           /\ UNCHANGED <<worked, fruitless, broke, end>>
  BY <1>0, <1>2, NudgeCounts, OrdinaryKeeps DEF Ordinary, IInv, Counters, Goto
<1>3. CASE /\ why = "silent_finish" => ~TaskFinishNudge
           /\ Judge
           /\ IF Absorbs THEN Goto("posting") /\ UNCHANGED end
              ELSE IF Interactive THEN Goto("parked") /\ UNCHANGED end
              ELSE Goto("ending") /\ end' = why
           /\ UNCHANGED refusals
  <2>1. Counters'
    BY <1>0, <1>3, JudgeCounts DEF IInv, Counters
  <2>2. CASE Goto("posting") \/ Goto("parked")
    BY <2>1, <2>2, OrdinaryKeeps DEF Ordinary, Goto
  <2>3. CASE ~Absorbs /\ Goto("ending") /\ end' = why
    <3>1. Spent'
      BY <1>0, <1>3, <2>3, JudgeSpends, Zenon DEF IInv
    <3>2. why = "silent_finish" => OpenSubtasks' = {} \/ refusals' = FinishPatience
      BY <1>0, <1>3, NoNudge DEF IInv
    <3> QED BY <2>1, <2>3, <3>1, <3>2, EndKeeps DEF Goto
  <2> QED BY <1>3, <2>2, <2>3
<1> QED BY <1>1, <1>2, <1>3 DEF Quiet

-----------------------------------------------------------------------------
(* The steps that leave the gates alone.                                   *)

\* A process starts with its counters in range, at a boundary.
LEMMA BeginKeeps ==
  ASSUME IInv, Begin \/ Resume
  PROVE  IInv'
<1>1. CASE Begin
  BY <1>1, OrdinaryKeeps DEF Begin, Ordinary, IInv, Counters, Goto, turnState
<1>2. CASE Resume
  <2>1. fruitless' \in Nat
    BY <1>2, Bounds DEF Resume, Streak
  <2> QED BY <1>2, <2>1, OrdinaryKeeps DEF Resume, Ordinary, IInv, Counters, Goto, turnState
<1> QED BY <1>1, <1>2

\* An end that was made goes by without another.
LEMMA LeaveKeeps ==
  ASSUME IInv, EndHard \/ PassPendingRootTasks \/ Crash
  PROVE  IInv'
<1>1. CASE EndHard
  <2>1. Counters' /\ pc' = "ending" /\ end' = "hard"
    BY <1>1 DEF EndHard, EndWith, Goto, IInv, Counters, counters, turnState
  <2> QED BY <2>1, EndKeeps DEF SoftEnd, Soft
<1>2. CASE PassPendingRootTasks \/ Crash
  <2>1. Forget /\ pc' = "down"
    BY <1>2 DEF PassPendingRootTasks, Crash, Goto
  <2>2. worked' \in BOOLEAN /\ broke' \in BOOLEAN /\ finish' \in BOOLEAN
    BY <2>1, Zenon DEF Forget
  <2>3. refusals' = 0 /\ fruitless' = 0
    BY <2>1, Zenon DEF Forget
  <2> QED BY <2>1, <2>2, <2>3, Bounds, OrdinaryKeeps DEF Ordinary, Counters
<1> QED BY <1>1, <1>2

\* What the operator asks leaves the counters and the place alone.
LEMMA TakeKeeps ==
  ASSUME IInv, Take
  PROVE  IInv'
<1>1. UNCHANGED <<counters, turnState>>
  BY DEF Take, DrainRequests, Queue, Retire, RetireGoal, SetStanding, RefuseRequest, TakenParked,
         Apply, counters, turnState
<1>2. pc' \notin {"advising", "ending"}
  BY DEF Take, DrainRequests, Queue, Retire, RetireGoal, SetStanding, RefuseRequest, TakenParked,
         Apply, Applying, Goto
<1> QED BY <1>1, <1>2, OrdinaryKeeps DEF Ordinary, IInv, Counters, counters, turnState

\* What goes before the call leaves the counters alone.
LEMMA BeforeCallKeeps ==
  ASSUME IInv, BeforeCall
  PROVE  IInv'
<1>1. UNCHANGED <<counters, turnState>>
  BY DEF BeforeCall, Summarise, ApplyCheckoff, RestartConversation, SurfaceCurrentTask
<1>2. pc' \notin {"advising", "ending"}
  BY DEF BeforeCall, Summarise, ApplyCheckoff, RestartConversation, SurfaceCurrentTask, Goto
<1> QED BY <1>1, <1>2, OrdinaryKeeps DEF Ordinary, IInv, Counters, counters, turnState

\* A call may change the graph, and what it did counts as work at most.
LEMMA CallKeeps ==
  ASSUME IInv, Work \/ AddTask \/ UpdateTask \/ AddDependency \/ FailCall \/ FinishSession
  PROVE  IInv'
<1>1. Dispatched
  BY DEF Work, AddTask, UpdateTask, AddDependency, FailCall, FinishSession, Executed
<1>2. worked' \in BOOLEAN /\ finish' \in BOOLEAN
  BY DEF IInv, Counters, Work, AddTask, UpdateTask, AddDependency, FailCall, FinishSession, Executed
<1> QED BY <1>1, <1>2, OrdinaryKeeps DEF Ordinary, Dispatched, IInv, Counters

\* The steps between the turns leave the counters alone.
LEMMA RestKeeps ==
  ASSUME IInv, Respond \/ PostQuietTurn \/ Unpark \/ CutCall
  PROVE  IInv'
  BY OrdinaryKeeps DEF Respond, PostQuietTurn, Unpark, CutCall, Goto, Ordinary, IInv, Counters,
       counters, turnState

-----------------------------------------------------------------------------

\* Every step keeps the invariant.
LEMMA NextKeeps ==
  ASSUME IInv, [Next]_vars
  PROVE  IInv'
<1>1. CASE UNCHANGED vars
  <2>1. UNCHANGED <<nodes, pc, end, refusals, fruitless, worked, broke, finish>>
    BY <1>1 DEF vars, graph, counters, turnState
  <2>2. ReadyGoals' = ReadyGoals /\ OpenSubtasks' = OpenSubtasks
    BY <2>1 DEF ReadyGoals, Goals, OpenSubtasks, Open, Subtasks
  <2> QED BY <2>1, <2>2 DEF IInv, Counters, Passed, TaskFinishNudge, Spent, Exhausted,
                            EndsOverOpenWork, GoalHolds
<1>2. CASE Begin \/ Resume
  BY <1>2, BeginKeeps
<1>3. CASE Take
  BY <1>3, TakeKeeps
<1>4. CASE BeforeCall
  BY <1>4, BeforeCallKeeps
<1>5. CASE Model
  BY <1>5, RestKeeps, CallKeeps, QuietKeeps DEF Model
<1>6. CASE AfterCall
  BY <1>6, FinishKeeps, AdviseKeeps, RestKeeps, LeaveKeeps DEF AfterCall
<1>7. CASE Operator \/ Crash
  BY <1>7, RestKeeps, LeaveKeeps DEF Operator
<1> QED BY <1>1, <1>2, <1>3, <1>4, <1>5, <1>6, <1>7 DEF Next, Drive

\* The invariant holds of every state a run reaches.
THEOREM Invariance == Spec => []IInv
<1>1. Init => IInv
  <2>1. Init => Counters
    <3>1. Init => worked \in BOOLEAN /\ broke \in BOOLEAN /\ finish \in BOOLEAN
      BY Zenon DEF Init
    <3>2. Init => refusals = 0 /\ fruitless = 0
      BY Zenon DEF Init
    <3> QED BY <3>1, <3>2, Bounds DEF Counters
  <2>2. Init => pc = "down"
    BY DEF Init
  <2> QED BY <2>1, <2>2 DEF IInv, Passed, EndsOverOpenWork, GoalHolds
<1>2. IInv /\ [Next]_vars => IInv'
  BY NextKeeps
<1> QED BY <1>1, <1>2, PTL DEF Spec

\* `task_finish_nudge', FINISH_GATES, END_GATES, SILENT_END_GATES: for any tasks and any patience,
\* an end the model or a settled run declares leaves ordinary tasks open only when this execution
\* was sent back as often as the patience allows.
THEOREM EndsHold == Spec => []EndsOverOpenWork
<1>1. IInv => EndsOverOpenWork
  BY DEF IInv
<1> QED BY <1>1, Invariance, PTL

\* `absorb': for any patience, while the goal is ready and money is left, a soft end is another
\* round, unless more rounds than the patience brought no work.
THEOREM GoalStands == Spec => []GoalHolds
<1>1. IInv => GoalHolds
  BY DEF IInv
<1> QED BY <1>1, Invariance, PTL

-----------------------------------------------------------------------------
(* Who retires.  Each mutation is traced to the statuses it changes; what  *)
(* a status change may do to the record it is in needs the record's shape. *)

\* Every task is a record of its fields.
Shaped ==
    \A t \in DOMAIN nodes :
       nodes[t] = [parent |-> nodes[t].parent, status |-> nodes[t].status, deps |-> nodes[t].deps,
                   children |-> nodes[t].children, standing |-> nodes[t].standing, by |-> nodes[t].by]

Ended == {"skipped", "obsolete"}

Retired(t) == nodes'[t].status \in Ended /\ nodes[t].status # nodes'[t].status

\* The step retires nobody.
Spares == \A t \in DOMAIN nodes : ~Retired(t)

\* The step retires nobody but what the model may retire.
SparesTheOperators ==
    \A t \in DOMAIN nodes : Retired(t) => ~QueuedByOperator(t) /\ ~nodes[t].standing

\* A field is changed in place.
LEMMA RecordUpdate ==
  ASSUME NEW r, NEW x,
         r = [parent |-> r.parent, status |-> r.status, deps |-> r.deps,
              children |-> r.children, standing |-> r.standing, by |-> r.by]
  PROVE  /\ [r EXCEPT !.status = x] = [parent |-> r.parent, status |-> x, deps |-> r.deps,
                   children |-> r.children, standing |-> r.standing, by |-> r.by]
         /\ [r EXCEPT !.children = x] = [parent |-> r.parent, status |-> r.status, deps |-> r.deps,
                   children |-> x, standing |-> r.standing, by |-> r.by]
         /\ [r EXCEPT !.deps = x] = [parent |-> r.parent, status |-> r.status, deps |-> x,
                   children |-> r.children, standing |-> r.standing, by |-> r.by]
  OBVIOUS

\* A status is changed at one task.
LEMMA StatusChanges ==
  ASSUME Shaped, NEW t, NEW s, nodes' = [nodes EXCEPT ![t].status = s]
  PROVE  /\ Shaped'
         /\ \A u \in DOMAIN nodes : Retired(u) => u = t /\ s \in Ended
<1>1. nodes' = [nodes EXCEPT ![t] = [nodes[t] EXCEPT !.status = s]]
  OBVIOUS
<1>2. /\ t \in DOMAIN nodes => nodes'[t] = [nodes[t] EXCEPT !.status = s]
      /\ \A u \in DOMAIN nodes : u # t => nodes'[u] = nodes[u]
  BY <1>1
<1>3. DOMAIN nodes' = DOMAIN nodes
  OBVIOUS
<1>4. t \in DOMAIN nodes =>
        nodes'[t] = [parent |-> nodes[t].parent, status |-> s, deps |-> nodes[t].deps,
                     children |-> nodes[t].children, standing |-> nodes[t].standing, by |-> nodes[t].by]
  BY <1>2, RecordUpdate DEF Shaped
<1>5. t \in DOMAIN nodes => nodes'[t].status = s
  BY <1>4
<1>6. Shaped'
  BY <1>2, <1>3, <1>4 DEF Shaped
<1> QED BY <1>2, <1>5, <1>6 DEF Retired

\* A new task changes no status, not even when it takes a number that is there.
LEMMA AddingChanges ==
  ASSUME Shaped, NEW p, NEW by, NEW standing, NEW deps, NEW after,
         AddSubtask(p, by, standing, deps, after)
  PROVE  Shaped' /\ Spares
<1>1. /\ DOMAIN nodes' = DOMAIN nodes \cup {Fresh}
      /\ nodes'[Fresh] = Node(p, by, standing, deps)
      /\ \A t \in DOMAIN nodes : t # Fresh =>
            nodes'[t] = IF t = p THEN [nodes[t] EXCEPT !.children = PlaceChild(nodes[t].children, Fresh, after)]
                        ELSE nodes[t]
  BY DEF AddSubtask
<1>2. /\ nodes'[Fresh].status = "pending"
      /\ nodes'[Fresh] = [parent |-> nodes'[Fresh].parent, status |-> nodes'[Fresh].status,
                          deps |-> nodes'[Fresh].deps, children |-> nodes'[Fresh].children,
                          standing |-> nodes'[Fresh].standing, by |-> nodes'[Fresh].by]
  BY <1>1 DEF Node
<1>3. ASSUME NEW t \in DOMAIN nodes, t # Fresh
      PROVE  /\ nodes'[t].status = nodes[t].status
             /\ nodes'[t] = [parent |-> nodes'[t].parent, status |-> nodes'[t].status,
                             deps |-> nodes'[t].deps, children |-> nodes'[t].children,
                             standing |-> nodes'[t].standing, by |-> nodes'[t].by]
  <2> DEFINE new == PlaceChild(nodes[t].children, Fresh, after)
  <2>1. nodes[t] = [parent |-> nodes[t].parent, status |-> nodes[t].status, deps |-> nodes[t].deps,
                    children |-> nodes[t].children, standing |-> nodes[t].standing, by |-> nodes[t].by]
    BY DEF Shaped
  <2>2. CASE t = p
    <3>1. nodes'[t] = [nodes[t] EXCEPT !.children = new]
      BY <1>1, <1>3, <2>2
    <3> HIDE DEF new
    <3>2. nodes'[t] = [parent |-> nodes[t].parent, status |-> nodes[t].status, deps |-> nodes[t].deps,
                       children |-> new, standing |-> nodes[t].standing, by |-> nodes[t].by]
      BY <2>1, <3>1, RecordUpdate
    <3> QED BY <3>2
  <2>3. CASE t # p
    BY <1>1, <1>3, <2>1, <2>3
  <2> QED BY <2>2, <2>3
<1>4. Shaped'
  BY <1>1, <1>2, <1>3 DEF Shaped
<1>5. Spares
  BY <1>2, <1>3 DEF Spares, Retired, Ended
<1> QED BY <1>4, <1>5

\* A new dependency changes no status.
LEMMA DependingChanges ==
  ASSUME Shaped, NEW t, NEW d, nodes' = [nodes EXCEPT ![t].deps = @ \cup {d}]
  PROVE  Shaped' /\ Spares
<1> DEFINE new == nodes[t].deps \cup {d}
<1>1. nodes' = [nodes EXCEPT ![t] = [nodes[t] EXCEPT !.deps = new]]
  OBVIOUS
<1> HIDE DEF new
<1>2. /\ t \in DOMAIN nodes => nodes'[t] = [nodes[t] EXCEPT !.deps = new]
      /\ \A u \in DOMAIN nodes : u # t => nodes'[u] = nodes[u]
      /\ DOMAIN nodes' = DOMAIN nodes
  BY <1>1
<1>3. t \in DOMAIN nodes =>
        nodes'[t] = [parent |-> nodes[t].parent, status |-> nodes[t].status, deps |-> new,
                     children |-> nodes[t].children, standing |-> nodes[t].standing, by |-> nodes[t].by]
  BY <1>2, RecordUpdate DEF Shaped
<1>4. t \in DOMAIN nodes => nodes'[t].status = nodes[t].status
  BY <1>3
<1>5. Shaped'
  BY <1>2, <1>3 DEF Shaped
<1> QED BY <1>2, <1>4, <1>5 DEF Spares, Retired

\* A graph left alone stays in shape.
LEMMA NothingChanges ==
  ASSUME Shaped, UNCHANGED nodes
  PROVE  Shaped' /\ Spares
  BY DEF Shaped, Spares, Retired

\* A run begins over no task.
LEMMA BeginShapes ==
  ASSUME Begin
  PROVE  Shaped' /\ Spares
<1>1. DOMAIN nodes = {}
  BY DEF Begin
<1>2. PICK goal \in BOOLEAN :
          nodes' = [t \in 1..(IF goal THEN 2 ELSE 1) |->
                      IF t = 2 THEN Node(Root, "steering", TRUE, {})
                      ELSE [Node(NoTask, "user", FALSE, {}) EXCEPT
                              !.children = IF goal THEN <<2>> ELSE <<>>]]
  BY DEF Begin
<1>3. \A x : [Node(NoTask, "user", FALSE, {}) EXCEPT !.children = x]
               = [parent |-> NoTask, status |-> "pending", deps |-> {}, children |-> x,
                  standing |-> FALSE /\ "user" = "steering", by |-> "user"]
  BY DEF Node
<1>4. \A t \in DOMAIN nodes' :
        \/ nodes'[t] = Node(Root, "steering", TRUE, {})
        \/ \E x : nodes'[t] = [parent |-> NoTask, status |-> "pending", deps |-> {}, children |-> x,
                  standing |-> FALSE /\ "user" = "steering", by |-> "user"]
  BY <1>2, <1>3
<1>5. Shaped'
  BY <1>4 DEF Shaped, Node
<1> QED BY <1>1, <1>5 DEF Spares

\* What the model's calls may retire.
LEMMA CallSpares ==
  ASSUME Shaped, Work \/ AddTask \/ UpdateTask \/ AddDependency \/ FailCall \/ FinishSession
  PROVE  Shaped' /\ SparesTheOperators
<1>1. CASE UNCHANGED nodes
  BY <1>1, NothingChanges DEF Spares, SparesTheOperators
<1>2. CASE AddTask
  BY <1>2, AddingChanges DEF AddTask, Spares, SparesTheOperators
<1>3. CASE AddDependency
  BY <1>3, DependingChanges DEF AddDependency, Spares, SparesTheOperators
<1>4. ASSUME NEW t \in Subtasks, NEW s \in ModelStatus, MayUpdate(t, s), UpdateStatus(t, s)
      PROVE  Shaped' /\ SparesTheOperators
  <2>1. /\ Shaped'
        /\ \A u \in DOMAIN nodes : Retired(u) => u = t /\ s \in Ended
    BY <1>4, StatusChanges DEF UpdateStatus
  <2> QED BY <1>4, <2>1 DEF MayUpdate, SparesTheOperators, Ended
<1> QED BY <1>1, <1>2, <1>3, <1>4 DEF Work, UpdateTask, FailCall, FinishSession, graph

\* What the operator asks is applied there and nowhere else.
LEMMA TakeShapes ==
  ASSUME Shaped, Take
  PROVE  Shaped' /\ (Spares \/ pc \in {"applying", "applying parked"})
<1>1. CASE UNCHANGED nodes
  BY <1>1, NothingChanges
<1>2. CASE Queue \/ SetStanding
  BY <1>2, AddingChanges DEF Queue, SetStanding
<1>3. CASE Retire \/ RetireGoal
  BY <1>3, StatusChanges DEF Retire, RetireGoal, UpdateStatus, Applying
<1> QED BY <1>1, <1>2, <1>3 DEF Take, DrainRequests, RefuseRequest, TakenParked, graph

\* The harness passes tasks and takes them up; it retires none.
LEMMA HarnessSpares ==
  ASSUME Shaped, BeforeCall \/ PassPendingRootTasks
  PROVE  Shaped' /\ Spares
<1>1. CASE UNCHANGED nodes
  BY <1>1, NothingChanges
<1>2. CASE \E t, s : s \notin Ended /\ nodes' = [nodes EXCEPT ![t].status = s]
  BY <1>2, StatusChanges DEF Spares
<1>3. CASE AddSubtask(Root, "planner", FALSE, {}, NoTask)
  BY <1>3, AddingChanges
<1>4. ASSUME ApplyCheckoff
      PROVE  \/ AddSubtask(Root, "planner", FALSE, {}, NoTask)
             \/ \E t, s : s \notin Ended /\ nodes' = [nodes EXCEPT ![t].status = s]
  BY <1>4 DEF ApplyCheckoff, UpdateStatus, Ended
<1>5. ASSUME SurfaceCurrentTask
      PROVE  \/ UNCHANGED nodes
             \/ \E t, s : s \notin Ended /\ nodes' = [nodes EXCEPT ![t].status = s]
  BY <1>5 DEF SurfaceCurrentTask, MaybeSurface, Marked, Ended
<1>6. ASSUME PassPendingRootTasks
      PROVE  \/ UNCHANGED nodes
             \/ \E t, s : s \notin Ended /\ nodes' = [nodes EXCEPT ![t].status = s]
  BY <1>6 DEF PassPendingRootTasks, UpdateStatus, Ended, graph
<1> QED BY <1>1, <1>2, <1>3, <1>4, <1>5, <1>6 DEF BeforeCall, Summarise, RestartConversation, graph

\* Every step keeps the tasks in shape and retires the operator's only where his requests are applied.
LEMMA NextRetires ==
  ASSUME Shaped, [Next]_vars
  PROVE  Shaped' /\ (SparesTheOperators \/ pc \in {"applying", "applying parked"})
<1>1. CASE UNCHANGED nodes
  BY <1>1, NothingChanges DEF Spares, SparesTheOperators
<1>2. CASE Begin
  BY <1>2, BeginShapes DEF Spares, SparesTheOperators
<1>3. CASE Take
  BY <1>3, TakeShapes DEF Spares, SparesTheOperators
<1>4. CASE BeforeCall \/ PassPendingRootTasks
  BY <1>4, HarnessSpares DEF Spares, SparesTheOperators
<1>5. CASE Model
  BY <1>1, <1>5, CallSpares DEF Model, Respond, Quiet, graph
<1>6. CASE FinishGates \/ AdviseAndCheck \/ PostQuietTurn \/ Operator \/ Resume \/ Crash
  BY <1>1, <1>6 DEF FinishGates, AdviseAndCheck, PostQuietTurn, Operator, Unpark, CutCall, EndHard,
                    Resume, Crash, graph
<1> QED BY <1>1, <1>2, <1>3, <1>4, <1>5, <1>6 DEF Next, Drive, AfterCall, vars, graph

\* The curator's nodes keep their fields whatever is done to them.
THEOREM ShapeHolds == Spec => []Shaped
<1>1. Init => Shaped
  BY DEF Init, Shaped
<1>2. Shaped /\ [Next]_vars => Shaped'
  BY NextRetires
<1> QED BY <1>1, <1>2, PTL DEF Spec

\* `update_task', `apply_checkoff', `retire': over any graph, a task the operator queued and the
\* goal are retired where the operator's requests are applied and nowhere else.
THEOREM RetiringHolds == Spec => OperatorRetires
<1>1. Shaped /\ [Next]_vars =>
        [\A t \in DOMAIN nodes :
           (nodes'[t].status \in {"skipped", "obsolete"} /\ nodes[t].status # nodes'[t].status
               /\ (QueuedByOperator(t) \/ nodes[t].standing))
           => pc \in {"applying", "applying parked"}]_vars
  BY NextRetires DEF SparesTheOperators, Retired, Ended
<1> QED BY <1>1, ShapeHolds, PTL DEF Spec, OperatorRetires


-----------------------------------------------------------------------------
(* The tree walk has a first task.                                         *)

\* No place comes before itself.
LEMMA BeforeIrreflexive ==
  ASSUME NEW p \in Seq(Nat)
  PROVE  ~Before(p, p)
<1>1. Len(p) \in Nat /\ DOMAIN p = 1..Len(p) /\ \A i \in DOMAIN p : p[i] \in Nat
  BY LenProperties, ElementOfSeq
<1>2. ~(\E i \in DOMAIN p \cap DOMAIN p : p[i] < p[i] /\ \A j \in 1..(i - 1) : p[j] = p[j])
  BY <1>1
<1>3. ~(Len(p) < Len(p))
  BY <1>1
<1> QED BY <1>2, <1>3 DEF Before

\* Where two places part.
Parts(p, q, i) == i \in DOMAIN p \cap DOMAIN q /\ p[i] < q[i] /\ \A j \in 1..(i - 1) : p[j] = q[j]
Starts(p, q) == Len(p) < Len(q) /\ \A j \in DOMAIN p : p[j] = q[j]

\* A sequence of naturals, as far as the order looks at it.
Digits(p) == Len(p) \in Nat /\ DOMAIN p = 1..Len(p) /\ \A i \in DOMAIN p : p[i] \in Nat

\* Two partings: the earlier one counts.
LEMMA PartsTwice ==
  ASSUME NEW p, NEW q, NEW r, Digits(p), Digits(q), Digits(r), NEW i, NEW k, Parts(p, q, i), Parts(q, r, k)
  PROVE  \E m : Parts(p, r, m)
<1>1. /\ i \in Nat /\ k \in Nat /\ i >= 1 /\ k >= 1
      /\ i \in DOMAIN p /\ i \in DOMAIN q /\ k \in DOMAIN q /\ k \in DOMAIN r
  BY DEF Parts, Digits
<1>2. /\ p[i] < q[i] /\ q[k] < r[k]
      /\ \A j \in 1..(i - 1) : p[j] = q[j]
      /\ \A j \in 1..(k - 1) : q[j] = r[j]
  BY DEF Parts
<1>3. CASE i <= k
  <2>1. i \in DOMAIN r
    BY <1>1, <1>3 DEF Digits
  <2>2. \A j \in 1..(i - 1) : j \in 1..(k - 1)
    BY <1>1, <1>3
  <2>3. \A j \in 1..(i - 1) : p[j] = r[j]
    BY <1>2, <2>2
  <2>4. p[i] < r[i]
    <3>1. CASE i = k
      <4>1. p[i] \in Nat /\ q[i] \in Nat /\ r[i] \in Nat /\ q[i] < r[i]
        BY <1>1, <1>2, <2>1, <3>1 DEF Digits
      <4> QED BY <1>2, <4>1
    <3>2. CASE i # k
      <4>1. i \in 1..(k - 1)
        BY <1>1, <1>3, <3>2
      <4> QED BY <1>2, <4>1
    <3> QED BY <3>1, <3>2
  <2> QED BY <1>1, <2>1, <2>3, <2>4 DEF Parts
<1>4. CASE k < i
  <2>1. k \in DOMAIN p /\ k \in 1..(i - 1)
    BY <1>1, <1>4 DEF Digits
  <2>2. \A j \in 1..(k - 1) : j \in 1..(i - 1)
    BY <1>1, <1>4
  <2>3. \A j \in 1..(k - 1) : p[j] = r[j]
    BY <1>2, <2>2
  <2>4. p[k] < r[k]
    BY <1>2, <2>1
  <2> QED BY <1>1, <2>1, <2>3, <2>4 DEF Parts
<1> QED BY <1>1, <1>3, <1>4

\* Before is the lexicographic order, so it is transitive.
LEMMA BeforeTransitive ==
  ASSUME NEW p \in Seq(Nat), NEW q \in Seq(Nat), NEW r \in Seq(Nat), Before(p, q), Before(q, r)
  PROVE  Before(p, r)
<1>0. Digits(p) /\ Digits(q) /\ Digits(r)
  BY LenProperties, ElementOfSeq DEF Digits
<1>1. \A x, y : Before(x, y) <=> (\E i : Parts(x, y, i)) \/ Starts(x, y)
  BY DEF Before, Parts, Starts
<1>2. ASSUME NEW i, NEW k, Parts(p, q, i), Parts(q, r, k) PROVE \E m : Parts(p, r, m)
  BY ONLY <1>0, <1>2, PartsTwice
<1>3. ASSUME NEW i, Parts(p, q, i), Starts(q, r) PROVE Parts(p, r, i)
  <2>1. i \in DOMAIN q /\ i \in DOMAIN p /\ DOMAIN q = 1..Len(q) /\ Len(q) \in Nat
    BY ONLY <1>0, <1>3 DEF Parts, Digits
  <2>2. \A j \in DOMAIN q : q[j] = r[j]
    BY ONLY <1>3 DEF Starts
  <2>3. i \in DOMAIN r
    BY ONLY <1>0, <1>3, <2>1 DEF Starts, Digits
  <2>4. \A j \in 1..(i - 1) : j \in DOMAIN q
    BY ONLY <2>1
  <2>5. q[i] = r[i] /\ \A j \in 1..(i - 1) : q[j] = r[j]
    BY ONLY <2>1, <2>2, <2>4
  <2>6. p[i] < q[i] /\ \A j \in 1..(i - 1) : p[j] = q[j]
    BY ONLY <1>3 DEF Parts
  <2>7. p[i] < r[i] /\ \A j \in 1..(i - 1) : p[j] = r[j]
    BY ONLY <2>5, <2>6
  <2> QED BY ONLY <2>1, <2>3, <2>7 DEF Parts
<1>4. ASSUME NEW k, Starts(p, q), Parts(q, r, k) PROVE (\E m : Parts(p, r, m)) \/ Starts(p, r)
  <2>1. /\ k \in DOMAIN q /\ k \in DOMAIN r /\ k \in Nat /\ k >= 1 /\ DOMAIN p = 1..Len(p) /\ Len(p) \in Nat
        /\ DOMAIN r = 1..Len(r) /\ Len(r) \in Nat
    BY ONLY <1>0, <1>4 DEF Parts, Digits
  <2>2. \A j \in DOMAIN p : p[j] = q[j]
    BY ONLY <1>4 DEF Starts
  <2>3. q[k] < r[k] /\ \A j \in 1..(k - 1) : q[j] = r[j]
    BY ONLY <1>4 DEF Parts
  <2>4. CASE k <= Len(p)
    <3>1. k \in DOMAIN p /\ \A j \in 1..(k - 1) : j \in DOMAIN p
      BY ONLY <2>1, <2>4
    <3>2. p[k] < r[k] /\ \A j \in 1..(k - 1) : p[j] = r[j]
      BY ONLY <2>2, <2>3, <3>1
    <3>3. Parts(p, r, k)
      BY ONLY <2>1, <3>1, <3>2 DEF Parts
    <3> QED BY ONLY <3>3
  <2>5. CASE Len(p) < k
    <3>1. Len(p) < Len(r)
      BY ONLY <2>1, <2>5
    <3>2. \A j \in DOMAIN p : j \in 1..(k - 1)
      BY ONLY <2>1, <2>5
    <3>3. \A j \in DOMAIN p : p[j] = r[j]
      BY ONLY <2>2, <2>3, <3>2
    <3> QED BY ONLY <3>1, <3>3 DEF Starts
  <2> QED BY ONLY <2>1, <2>4, <2>5
<1>5. ASSUME Starts(p, q), Starts(q, r) PROVE Starts(p, r)
  <2>1. \A j \in DOMAIN p : j \in DOMAIN q
    BY ONLY <1>0, <1>5 DEF Starts, Digits
  <2>2. \A j \in DOMAIN p : p[j] = r[j]
    BY ONLY <1>5, <2>1 DEF Starts
  <2>3. Len(p) < Len(r)
    BY ONLY <1>0, <1>5 DEF Starts, Digits
  <2> QED BY ONLY <2>2, <2>3 DEF Starts
<1>6. (\E i : Parts(p, q, i)) \/ Starts(p, q)
  BY <1>1
<1>7. (\E i : Parts(q, r, i)) \/ Starts(q, r)
  BY <1>1
<1>8. (\E i : Parts(p, r, i)) \/ Starts(p, r)
  BY <1>2, <1>3, <1>4, <1>5, <1>6, <1>7
<1> QED BY <1>1, <1>8

\* A finite set with a strict order has an element nothing comes before: the one
\* with the fewest before it.
LEMMA FiniteHasForemost ==
  ASSUME NEW S, IsFiniteSet(S), S # {}, NEW R,
         \A x \in S : <<x, x>> \notin R,
         \A x, y, z \in S : <<x, y>> \in R /\ <<y, z>> \in R => <<x, z>> \in R
  PROVE  \E x \in S : \A y \in S : <<y, x>> \notin R
<1> DEFINE Pre(x) == {y \in S : <<y, x>> \in R}
           T == {Cardinality(Pre(x)) : x \in S}
<1>1. ASSUME NEW x \in S PROVE IsFiniteSet(Pre(x)) /\ Cardinality(Pre(x)) \in Nat
  <2>1. Pre(x) \in SUBSET S
    OBVIOUS
  <2> HIDE DEF Pre
  <2>2. IsFiniteSet(Pre(x))
    BY <2>1, FS_Subset
  <2> QED BY <2>2, FS_CardinalityType
<1>2. PICK n \in T : \A m \in T : n <= m
  <2> DEFINE c(x) == Cardinality(Pre(x))
  <2>0. T = {c(x) : x \in S} /\ \A x \in S : c(x) \in Nat
    BY <1>1
  <2> HIDE DEF c, T, Pre
  <2>1. T \subseteq Nat /\ T # {}
    BY <2>0
  <2> QED BY <2>1, LeastElement
<1>3. PICK x \in S : n = Cardinality(Pre(x))
  BY <1>2
<1>4. ASSUME NEW y \in S, <<y, x>> \in R PROVE FALSE
  <2>1. Pre(y) \in SUBSET Pre(x) /\ y \in Pre(x) /\ y \notin Pre(y)
    BY <1>4
  <2>2. Cardinality(Pre(x)) <= Cardinality(Pre(y))
    <3>1. Cardinality(Pre(y)) \in T
      OBVIOUS
    <3> HIDE DEF T, Pre
    <3> QED BY <1>2, <1>3, <3>1
  <2>3. /\ IsFiniteSet(Pre(x)) /\ Cardinality(Pre(x)) \in Nat /\ Cardinality(Pre(y)) \in Nat
    BY <1>1
  <2> HIDE DEF Pre
  <2>4. /\ Cardinality(Pre(y)) <= Cardinality(Pre(x))
        /\ Cardinality(Pre(x)) = Cardinality(Pre(y)) => Pre(x) = Pre(y)
    BY <2>1, <2>3, FS_Subset
  <2>5. Pre(x) = Pre(y)
    BY <2>2, <2>3, <2>4
  <2> QED BY <2>1, <2>5
<1> QED BY <1>4

-----------------------------------------------------------------------------
(* The places of the walk.                                                 *)

\* What the walk needs of a graph: numbered tasks and lists of numbers.
Walkable(g) ==
    /\ \E k \in Nat : DOMAIN g = 1..k
    /\ \A t \in DOMAIN g : g[t].children \in Seq(Nat)

\* Two graphs with the same parents and the same lists.
SameTree(g, f) ==
    /\ DOMAIN g = DOMAIN f
    /\ \A t \in DOMAIN g : g[t].parent = f[t].parent /\ g[t].children = f[t].children

\* A walkable graph is finite.
LEMMA WalkableFinite ==
  ASSUME NEW g, Walkable(g)
  PROVE  IsFiniteSet(DOMAIN g) /\ Cardinality(DOMAIN g) \in Nat /\ DOMAIN g = 1..Cardinality(DOMAIN g)
<1>1. PICK k \in Nat : DOMAIN g = 1..k
  BY DEF Walkable
<1>2. IsFiniteSet(1..k) /\ Cardinality(1..k) = k
  BY FS_Interval
<1> QED BY <1>1, <1>2

\* The recursive definition holds of what it defines.
LEMMA PlacesUnfold ==
  ASSUME NEW g, Cardinality(DOMAIN g) \in Nat
  PROVE  \A n \in 0..Cardinality(DOMAIN g) :
            Places(g)[n] = IF n = 0 THEN [s \in DOMAIN g |-> StartPlace(g, s)]
                                    ELSE Deeper(g, Places(g)[n - 1])
<1> DEFINE c == Cardinality(DOMAIN g)
           a == [s \in DOMAIN g |-> StartPlace(g, s)]
           Goes(f, k) == f = [n \in 0..k |-> IF n = 0 THEN a ELSE Deeper(g, f[n - 1])]
           K == {k \in Nat : \E f : Goes(f, k)}
<1> HIDE DEF a
<1>1. 0 \in K
  <2> DEFINE f == [n \in 0..0 |-> a]
  <2>1. Goes(f, 0)
    OBVIOUS
  <2> QED BY <2>1
<1>2. ASSUME NEW k \in Nat, k \in K PROVE k + 1 \in K
  <2>1. PICK f : Goes(f, k)
    BY <1>2
  <2> DEFINE h == [n \in 0..(k + 1) |-> IF n = k + 1 THEN Deeper(g, f[k]) ELSE f[n]]
  <2>2. \A n \in 0..(k + 1) : h[n] = IF n = 0 THEN a ELSE Deeper(g, h[n - 1])
    <3> TAKE n \in 0..(k + 1)
    <3>0. f = [m \in 0..k |-> IF m = 0 THEN a ELSE Deeper(g, f[m - 1])]
      BY <2>1
    <3>1. CASE n = k + 1
      <4>1. h[n] = Deeper(g, f[k]) /\ h[k] = f[k] /\ n # 0 /\ n - 1 = k
        BY <3>1
      <4> HIDE DEF h
      <4> QED BY <3>1, <4>1
    <3>2. CASE n # k + 1
      <4>1. n \in 0..k /\ h[n] = f[n] /\ (n # 0 => h[n - 1] = f[n - 1])
        BY <3>2
      <4> HIDE DEF h
      <4>2. f[n] = IF n = 0 THEN a ELSE Deeper(g, f[n - 1])
        BY <3>0, <4>1
      <4> QED BY <4>1, <4>2
    <3> QED BY <3>1, <3>2
  <2>3. Goes(h, k + 1)
    <3>1. h = [n \in 0..(k + 1) |-> h[n]]
      OBVIOUS
    <3> HIDE DEF h
    <3> QED BY <2>2, <3>1
  <2> HIDE DEF Goes, h
  <2> QED BY <2>3
<1>3. c \in K
  <2> HIDE DEF K
  <2> QED BY <1>1, <1>2, SetInduction
<1>4. \E f : Goes(f, c)
  BY <1>3
<1>5. Places(g) = CHOOSE f : Goes(f, c)
  BY DEF Places, a
<1>6. Goes(Places(g), c)
  <2> HIDE DEF Goes
  <2> QED BY <1>4, <1>5
<1>7. \A n \in 0..c : Places(g)[n] = IF n = 0 THEN a ELSE Deeper(g, Places(g)[n - 1])
  BY <1>6
<1> QED BY <1>7 DEF a

\* A place is a sequence of numbers.
LEMMA PlaceDigits ==
  ASSUME NEW g, Walkable(g), NEW t \in DOMAIN g
  PROVE  Place(g, t) \in Seq(Nat)
<1> DEFINE c == Cardinality(DOMAIN g)
           K == {n \in Nat : n <= c => \A s \in DOMAIN g : Places(g)[n][s] \in Seq(Nat)}
<1>1. c \in Nat /\ DOMAIN g = 1..c
  BY WalkableFinite
<1>2. \A n \in 0..c : Places(g)[n] = IF n = 0 THEN [s \in DOMAIN g |-> StartPlace(g, s)]
                                              ELSE Deeper(g, Places(g)[n - 1])
  BY <1>1, PlacesUnfold
<1> HIDE DEF c
<1>3. \A s \in DOMAIN g : StartPlace(g, s) \in Seq(Nat)
  BY <1>1 DEF StartPlace
<1>4. 0 \in K
  <2>1. Places(g)[0] = [s \in DOMAIN g |-> StartPlace(g, s)]
    BY <1>1, <1>2
  <2> QED BY <1>3, <2>1
<1>5. ASSUME NEW n \in Nat, n \in K PROVE n + 1 \in K
  <2> SUFFICES ASSUME n + 1 <= c, NEW s \in DOMAIN g PROVE Places(g)[n + 1][s] \in Seq(Nat)
    OBVIOUS
  <2>1. \A u \in DOMAIN g : Places(g)[n][u] \in Seq(Nat)
    BY <1>1, <1>5
  <2>2. Places(g)[n + 1] = Deeper(g, Places(g)[n])
    <3>1. n + 1 \in 0..c /\ n + 1 # 0 /\ (n + 1) - 1 = n
      BY <1>1
    <3> QED BY <1>2, <3>1
  <2>3. CASE IsHead(g, s)
    BY <1>3, <2>2, <2>3 DEF Deeper
  <2>4. CASE ~IsHead(g, s)
    <3>1. g[s].parent \in DOMAIN g /\ IsChildOf(s, g[g[s].parent])
      BY <2>4 DEF IsHead
    <3>2. \E i \in DOMAIN g[g[s].parent].children : g[g[s].parent].children[i] = s
      BY <3>1 DEF IsChildOf
    <3>3. ChildIndex(g, s) \in DOMAIN g[g[s].parent].children
      BY <3>2 DEF ChildIndex, IndexIn
    <3>4. ChildIndex(g, s) \in Nat
      <4>1. g[g[s].parent].children \in Seq(Nat)
        BY <3>1 DEF Walkable
      <4> QED BY <3>3, <4>1, LenProperties
    <3>5. Places(g)[n + 1][s] = Append(Places(g)[n][g[s].parent], ChildIndex(g, s))
      BY <2>2, <2>4 DEF Deeper
    <3>6. Places(g)[n][g[s].parent] \in Seq(Nat)
      BY <2>1, <3>1
    <3> QED BY <3>4, <3>5, <3>6, AppendProperties
  <2> QED BY <2>3, <2>4
<1>6. c \in K
  <2> HIDE DEF K
  <2> QED BY <1>1, <1>4, <1>5, SetInduction
<1>7. Places(g)[c][t] \in Seq(Nat)
  BY <1>1, <1>6
<1> QED BY <1>7 DEF Place, c

\* The walk looks at parents and lists alone.
LEMMA SamePlaces ==
  ASSUME NEW g, NEW f, SameTree(g, f), Cardinality(DOMAIN g) \in Nat, NEW t \in DOMAIN g
  PROVE  Place(g, t) = Place(f, t)
<1> DEFINE c == Cardinality(DOMAIN g)
           K == {n \in Nat : n <= c => Places(g)[n] = Places(f)[n]}
<1>1. DOMAIN g = DOMAIN f /\ c = Cardinality(DOMAIN f)
  BY DEF SameTree
<1>2. \A n \in 0..c : Places(g)[n] = IF n = 0 THEN [s \in DOMAIN g |-> StartPlace(g, s)]
                                              ELSE Deeper(g, Places(g)[n - 1])
  BY PlacesUnfold
<1>3. \A n \in 0..c : Places(f)[n] = IF n = 0 THEN [s \in DOMAIN f |-> StartPlace(f, s)]
                                              ELSE Deeper(f, Places(f)[n - 1])
  BY <1>1, PlacesUnfold
<1>4. c \in Nat
  OBVIOUS
<1> HIDE DEF c
<1>5. \A s \in DOMAIN g : StartPlace(g, s) = StartPlace(f, s)
  BY DEF StartPlace, SameTree
<1>6. \A s \in DOMAIN g : IsHead(g, s) <=> IsHead(f, s)
  BY DEF IsHead, SameTree, IsChildOf
<1>7. \A s \in DOMAIN g : ~IsHead(g, s) => g[s].parent = f[s].parent /\ ChildIndex(g, s) = ChildIndex(f, s)
  BY DEF IsHead, SameTree, ChildIndex
<1>8. \A r : Deeper(g, r) = Deeper(f, r)
  BY <1>1, <1>5, <1>6, <1>7 DEF Deeper
<1>9. [s \in DOMAIN g |-> StartPlace(g, s)] = [s \in DOMAIN f |-> StartPlace(f, s)]
  BY <1>1, <1>5
<1>10. 0 \in K
  <2>1. /\ Places(g)[0] = [s \in DOMAIN g |-> StartPlace(g, s)]
        /\ Places(f)[0] = [s \in DOMAIN f |-> StartPlace(f, s)]
    BY <1>2, <1>3, <1>4
  <2>2. Places(g)[0] = Places(f)[0]
    BY <1>9, <2>1
  <2> QED BY <2>2
<1>11. ASSUME NEW n \in Nat, n \in K PROVE n + 1 \in K
  <2> SUFFICES ASSUME n + 1 <= c PROVE Places(g)[n + 1] = Places(f)[n + 1]
    OBVIOUS
  <2>1. Places(g)[n] = Places(f)[n]
    BY <1>4, <1>11
  <2>2. Places(g)[n + 1] = Deeper(g, Places(g)[n]) /\ Places(f)[n + 1] = Deeper(f, Places(f)[n])
    <3>1. n + 1 \in 0..c /\ n + 1 # 0 /\ (n + 1) - 1 = n
      BY <1>4
    <3> QED BY <1>2, <1>3, <3>1
  <2> QED BY <1>8, <2>1, <2>2
<1>12. c \in K
  <2> HIDE DEF K
  <2> QED BY <1>4, <1>10, <1>11, SetInduction
<1>13. Places(g)[c][t] = Places(f)[c][t]
  BY <1>4, <1>12
<1> QED BY <1>1, <1>13 DEF Place, c

\* The first of some tasks is one of them.
LEMMA FirstIsOne ==
  ASSUME NEW g, Walkable(g), NEW S \in SUBSET DOMAIN g, S # {}
  PROVE  FirstInTree(g, S) \in S
<1> DEFINE R == {e \in S \X S : TreeBefore(g, e[1], e[2])}
<1>1. IsFiniteSet(S)
  <2>1. IsFiniteSet(DOMAIN g)
    BY WalkableFinite
  <2> QED BY <2>1, FS_Subset
<1>2. \A x, y \in S : <<x, y>> \in R <=> Before(Place(g, x), Place(g, y))
  BY DEF TreeBefore
<1> HIDE DEF R
<1>3. \A x \in S : Place(g, x) \in Seq(Nat)
  BY PlaceDigits
<1>4. \A x \in S : <<x, x>> \notin R
  BY <1>2, <1>3, BeforeIrreflexive
<1>5. ASSUME NEW x \in S, NEW y \in S, NEW z \in S, <<x, y>> \in R, <<y, z>> \in R
      PROVE  <<x, z>> \in R
  <2>1. Before(Place(g, x), Place(g, y)) /\ Before(Place(g, y), Place(g, z))
    BY <1>2, <1>5
  <2>2. Before(Place(g, x), Place(g, z))
    BY <1>3, <2>1, BeforeTransitive
  <2> QED BY <1>2, <2>2
<1>6. \E x \in S : \A y \in S : <<y, x>> \notin R
  BY <1>1, <1>4, <1>5, FiniteHasForemost
<1>7. \E x \in S : x \in Foremost(g, S)
  BY <1>2, <1>6 DEF Foremost, TreeBefore
<1> QED BY <1>7 DEF FirstInTree

\* Graphs with the same tree have the same first task of any set.
LEMMA SameFirst ==
  ASSUME NEW g, NEW f, SameTree(g, f), Walkable(g), NEW S \in SUBSET DOMAIN g
  PROVE  FirstInTree(g, S) = FirstInTree(f, S)
<1>1. Cardinality(DOMAIN g) \in Nat
  BY WalkableFinite
<1>2. \A x \in S : Place(g, x) = Place(f, x)
  BY <1>1, SamePlaces
<1>3. Foremost(g, S) = Foremost(f, S)
  BY <1>2 DEF Foremost, TreeBefore
<1> QED BY <1>3 DEF FirstInTree

-----------------------------------------------------------------------------
(* The banner and the frontier.                                            *)

\* The graph can be walked, and the focus guard's word is the banner's.
Grounded == Shaped /\ Walkable(nodes) /\ surfaced = banner

\* A status changes nothing else of the graph.
LEMMA StatusTree ==
  ASSUME Shaped, NEW t, NEW s, NEW g, g = [nodes EXCEPT ![t].status = s]
  PROVE  /\ SameTree(nodes, g)
         /\ \A u \in DOMAIN nodes : /\ g[u].deps = nodes[u].deps /\ g[u].standing = nodes[u].standing
                                    /\ u # t => g[u].status = nodes[u].status
<1>1. g = [nodes EXCEPT ![t] = [nodes[t] EXCEPT !.status = s]]
  OBVIOUS
<1>2. /\ t \in DOMAIN nodes => g[t] = [nodes[t] EXCEPT !.status = s]
      /\ \A u \in DOMAIN nodes : u # t => g[u] = nodes[u]
      /\ DOMAIN g = DOMAIN nodes
  BY <1>1
<1>3. t \in DOMAIN nodes =>
        g[t] = [parent |-> nodes[t].parent, status |-> s, deps |-> nodes[t].deps,
                children |-> nodes[t].children, standing |-> nodes[t].standing, by |-> nodes[t].by]
  BY <1>2, RecordUpdate DEF Shaped
<1>4. t \in DOMAIN nodes =>
        /\ g[t].parent = nodes[t].parent /\ g[t].status = s /\ g[t].deps = nodes[t].deps
        /\ g[t].children = nodes[t].children /\ g[t].standing = nodes[t].standing
  BY <1>3
<1> QED BY <1>2, <1>4 DEF SameTree

\* A dependency leaves the tree.
LEMMA DependencyTree ==
  ASSUME Shaped, NEW t, NEW d, NEW g, g = [nodes EXCEPT ![t].deps = @ \cup {d}]
  PROVE  SameTree(nodes, g)
<1> DEFINE new == nodes[t].deps \cup {d}
<1>1. g = [nodes EXCEPT ![t] = [nodes[t] EXCEPT !.deps = new]]
  OBVIOUS
<1> HIDE DEF new
<1>2. /\ t \in DOMAIN nodes => g[t] = [nodes[t] EXCEPT !.deps = new]
      /\ \A u \in DOMAIN nodes : u # t => g[u] = nodes[u]
      /\ DOMAIN g = DOMAIN nodes
  BY <1>1
<1>3. t \in DOMAIN nodes =>
        g[t] = [parent |-> nodes[t].parent, status |-> nodes[t].status, deps |-> new,
                children |-> nodes[t].children, standing |-> nodes[t].standing, by |-> nodes[t].by]
  BY <1>2, RecordUpdate DEF Shaped
<1>4. t \in DOMAIN nodes => g[t].parent = nodes[t].parent /\ g[t].children = nodes[t].children
  BY <1>3
<1> QED BY <1>2, <1>4 DEF SameTree

\* A graph with the same tree can be walked too.
LEMMA SameWalkable ==
  ASSUME NEW g, NEW f, Walkable(g), SameTree(g, f)
  PROVE  Walkable(f)
  BY DEF Walkable, SameTree

\* A new number in a list of numbers.
LEMMA InsertedNumbers ==
  ASSUME NEW s \in Seq(Nat), NEW i \in 1..(Len(s) + 1), NEW e \in Nat
  PROVE  InsertAt(s, i, e) \in Seq(Nat)
<1>1. Len(s) \in Nat
  BY LenProperties
<1>2. SubSeq(s, 1, i - 1) \in Seq(Nat) /\ SubSeq(s, i, Len(s)) \in Seq(Nat)
  BY <1>1, SubSeqProperties
<1>3. <<e>> \in Seq(Nat)
  OBVIOUS
<1>4. SubSeq(s, 1, i - 1) \o <<e>> \in Seq(Nat)
  BY <1>2, <1>3, ConcatProperties
<1>5. (SubSeq(s, 1, i - 1) \o <<e>>) \o SubSeq(s, i, Len(s)) \in Seq(Nat)
  BY <1>2, <1>4, ConcatProperties
<1> QED BY <1>5 DEF InsertAt

\* Placing a child keeps a list of numbers.
LEMMA PlacedNumbers ==
  ASSUME NEW s \in Seq(Nat), NEW id \in Nat, NEW after,
         after # NoTask => \E i \in DOMAIN s : s[i] = after
  PROVE  PlaceChild(s, id, after) \in Seq(Nat)
<1>0. Len(s) \in Nat /\ DOMAIN s = 1..Len(s)
  BY LenProperties
<1>1. CASE after # NoTask
  <2> DEFINE i == CHOOSE k \in DOMAIN s : s[k] = after
  <2>1. i \in DOMAIN s
    BY <1>1
  <2>2. PlaceChild(s, id, after) = InsertAt(s, 1 + i, id)
    BY <1>1 DEF PlaceChild
  <2> HIDE DEF i
  <2>3. 1 + i \in 1..(Len(s) + 1)
    BY <1>0, <2>1
  <2> QED BY <2>2, <2>3, InsertedNumbers
<1>2. CASE after = NoTask /\ StandingAt(s) = {}
  <2>1. PlaceChild(s, id, after) = Append(s, id)
    BY <1>2 DEF PlaceChild
  <2> QED BY <2>1, AppendProperties
<1>3. CASE after = NoTask /\ StandingAt(s) # {}
  <2> DEFINE i == CHOOSE k \in StandingAt(s) : \A j \in StandingAt(s) : k <= j
  <2>1. StandingAt(s) \subseteq DOMAIN s /\ StandingAt(s) \subseteq Nat
    BY <1>0 DEF StandingAt
  <2>2. \E k \in StandingAt(s) : \A j \in StandingAt(s) : k <= j
    BY <1>3, <2>1, LeastElement
  <2>3. i \in StandingAt(s)
    BY <2>2
  <2>4. PlaceChild(s, id, after) = InsertAt(s, i, id)
    BY <1>3 DEF PlaceChild
  <2> HIDE DEF i
  <2>5. i \in 1..(Len(s) + 1)
    BY <1>0, <2>1, <2>3
  <2> QED BY <2>4, <2>5, InsertedNumbers
<1> QED BY <1>1, <1>2, <1>3

\* A new task takes the next number and a place in a list.
LEMMA AddingWalks ==
  ASSUME Shaped, Walkable(nodes), NEW p, NEW by, NEW standing, NEW deps, NEW after,
         AddSubtask(p, by, standing, deps, after),
         after # NoTask => p \in DOMAIN nodes /\ IsChildOf(after, nodes[p])
  PROVE  Walkable(nodes')
<1>1. /\ DOMAIN nodes' = DOMAIN nodes \cup {Fresh}
      /\ nodes'[Fresh] = Node(p, by, standing, deps)
      /\ \A t \in DOMAIN nodes : t # Fresh =>
            nodes'[t] = IF t = p THEN [nodes[t] EXCEPT !.children = PlaceChild(nodes[t].children, Fresh, after)]
                        ELSE nodes[t]
  BY DEF AddSubtask
<1>2. PICK k \in Nat : DOMAIN nodes = 1..k
  BY DEF Walkable
<1>3. Fresh = k + 1
  <2>1. Cardinality(DOMAIN nodes) = k
    BY <1>2, WalkableFinite, FS_Interval
  <2> QED BY <2>1 DEF Fresh
<1>4. DOMAIN nodes' = 1..(k + 1) /\ k + 1 \in Nat
  BY <1>1, <1>2, <1>3
<1>5. nodes'[Fresh].children = <<>>
  BY <1>1 DEF Node
<1>6. ASSUME NEW t \in DOMAIN nodes PROVE nodes'[t].children \in Seq(Nat)
  <2>0. t # Fresh
    BY <1>2, <1>3
  <2>1. nodes[t].children \in Seq(Nat)
    BY DEF Walkable
  <2>2. CASE t = p
    <3> DEFINE new == PlaceChild(nodes[t].children, Fresh, after)
    <3>1. nodes'[t] = [nodes[t] EXCEPT !.children = new]
      BY <1>1, <2>0, <2>2
    <3>2. new \in Seq(Nat)
      <4>1. after # NoTask => \E i \in DOMAIN nodes[t].children : nodes[t].children[i] = after
        BY <2>2 DEF IsChildOf
      <4>2. Fresh \in Nat
        BY <1>3
      <4> QED BY <2>1, <4>1, <4>2, PlacedNumbers
    <3> HIDE DEF new
    <3>3. nodes'[t] = [parent |-> nodes[t].parent, status |-> nodes[t].status, deps |-> nodes[t].deps,
                       children |-> new, standing |-> nodes[t].standing, by |-> nodes[t].by]
      BY <3>1, RecordUpdate DEF Shaped
    <3> QED BY <3>2, <3>3
  <2>3. CASE t # p
    BY <1>1, <2>0, <2>1, <2>3
  <2> QED BY <2>2, <2>3
<1>7. \A t \in DOMAIN nodes' : nodes'[t].children \in Seq(Nat)
  <2>1. <<>> \in Seq(Nat)
    OBVIOUS
  <2>2. \A t \in DOMAIN nodes' : t \in DOMAIN nodes \/ t = Fresh
    BY <1>1
  <2> QED BY <1>5, <1>6, <2>1, <2>2, Zenon
<1> QED BY <1>4, <1>7 DEF Walkable

\* A run begins over a root, alone or with its goal.
LEMMA BeginWalks ==
  ASSUME Begin
  PROVE  Walkable(nodes')
<1>1. PICK goal \in BOOLEAN :
          nodes' = [t \in 1..(IF goal THEN 2 ELSE 1) |->
                      IF t = 2 THEN Node(Root, "steering", TRUE, {})
                      ELSE [Node(NoTask, "user", FALSE, {}) EXCEPT
                              !.children = IF goal THEN <<2>> ELSE <<>>]]
  BY DEF Begin
<1>2. \A x : [Node(NoTask, "user", FALSE, {}) EXCEPT !.children = x]
               = [parent |-> NoTask, status |-> "pending", deps |-> {}, children |-> x,
                  standing |-> FALSE /\ "user" = "steering", by |-> "user"]
  BY DEF Node
<1>3. \A x : [Node(NoTask, "user", FALSE, {}) EXCEPT !.children = x].children = x
  BY <1>2
<1>4. Node(Root, "steering", TRUE, {}).children = <<>>
  BY DEF Node
<1> DEFINE l == IF goal THEN <<2>> ELSE <<>>
           n == IF goal THEN 2 ELSE 1
<1>5. l \in Seq(Nat) /\ <<>> \in Seq(Nat) /\ n \in Nat
  OBVIOUS
<1> DEFINE a == Node(Root, "steering", TRUE, {})
           b == [Node(NoTask, "user", FALSE, {}) EXCEPT !.children = l]
<1>6. nodes' = [t \in 1..n |-> IF t = 2 THEN a ELSE b]
  BY <1>1
<1>7. a.children = <<>> /\ b.children = l
  BY <1>3, <1>4
<1> HIDE DEF a, b, l, n
<1>8. DOMAIN nodes' = 1..n /\ \A t \in DOMAIN nodes' : nodes'[t] \in {a, b}
  BY <1>6
<1> QED BY <1>5, <1>7, <1>8 DEF Walkable

\* What the steps do to the graph.
Edits ==
    \/ UNCHANGED nodes
    \/ \E t, s : nodes' = [nodes EXCEPT ![t].status = s]
    \/ \E t, d : nodes' = [nodes EXCEPT ![t].deps = @ \cup {d}]
    \/ \E p, by, standing, deps, after :
          /\ AddSubtask(p, by, standing, deps, after)
          /\ after # NoTask => p \in DOMAIN nodes /\ IsChildOf(after, nodes[p])

\* Every edit of the graph is one mutation of the curator.
LEMMA NextEdits ==
  ASSUME [Next]_vars
  PROVE  Begin \/ Edits
<1>1. CASE UNCHANGED nodes
  BY <1>1 DEF Edits
<1>2. ASSUME \E t, s : UpdateStatus(t, s) PROVE Edits
  BY <1>2 DEF UpdateStatus, Edits
<1>3. ASSUME NEW p, NEW by, NEW standing, NEW deps, AddSubtask(p, by, standing, deps, NoTask) PROVE Edits
  BY <1>3 DEF Edits
<1>4. CASE Take
  <2>1. CASE Queue \/ SetStanding
    BY <1>3, <2>1 DEF Queue, SetStanding
  <2>2. CASE Retire \/ RetireGoal
    BY <1>2, <2>2 DEF Retire, RetireGoal
  <2> QED BY <1>1, <1>4, <2>1, <2>2 DEF Take, DrainRequests, RefuseRequest, TakenParked, graph
<1>5. CASE BeforeCall
  <2>1. CASE ApplyCheckoff
    BY <1>2, <1>3, <2>1 DEF ApplyCheckoff
  <2>2. CASE SurfaceCurrentTask
    BY <1>1, <2>2 DEF SurfaceCurrentTask, MaybeSurface, Marked, Edits
  <2> QED BY <1>1, <1>5, <2>1, <2>2 DEF BeforeCall, Summarise, RestartConversation, graph
<1>6. CASE Model
  <2>1. CASE AddTask
    BY <2>1 DEF AddTask, Edits
  <2>2. CASE UpdateTask \/ FailCall
    BY <1>1, <1>2, <2>2 DEF UpdateTask, FailCall, graph
  <2>3. CASE AddDependency
    BY <2>3 DEF AddDependency, Edits
  <2> QED BY <1>1, <1>6, <2>1, <2>2, <2>3 DEF Model, Respond, Quiet, Work, FinishSession, graph
<1>7. CASE PassPendingRootTasks
  BY <1>1, <1>2, <1>7 DEF PassPendingRootTasks, graph
<1>8. CASE FinishGates \/ AdviseAndCheck \/ PostQuietTurn \/ Operator \/ Resume \/ Crash
  BY <1>1, <1>8 DEF FinishGates, AdviseAndCheck, PostQuietTurn, Operator, Unpark, CutCall, EndHard,
                    Resume, Crash, graph
<1> QED BY <1>1, <1>4, <1>5, <1>6, <1>7, <1>8 DEF Next, Drive, AfterCall, vars, graph

\* The banner and the focus guard's word change together.
LEMMA FocusTogether ==
  ASSUME surfaced = banner, [Next]_vars
  PROVE  (surfaced = banner)'
<1>1. CASE UNCHANGED focus
  BY <1>1 DEF focus
<1>2. CASE RestartConversation
  BY <1>2 DEF RestartConversation, Restart
<1>3. CASE SurfaceCurrentTask
  BY <1>1, <1>3 DEF SurfaceCurrentTask, MaybeSurface
<1>4. CASE PassPendingRootTasks \/ Crash
  BY <1>4 DEF PassPendingRootTasks, Crash, Forget
<1>5. CASE Take
  BY <1>1, <1>5 DEF Take, DrainRequests, Queue, Retire, RetireGoal, SetStanding, RefuseRequest, TakenParked, Apply
<1>6. CASE Summarise \/ ApplyCheckoff
  BY <1>1, <1>6 DEF Summarise, ApplyCheckoff
<1>7. CASE Model
  BY <1>1, <1>7 DEF Model, Respond, Work, AddTask, UpdateTask, AddDependency, FailCall, FinishSession,
                    Executed, Dispatched, Quiet
<1>8. CASE FinishGates \/ AdviseAndCheck \/ PostQuietTurn \/ Operator \/ Resume \/ Begin
  BY <1>1, <1>8 DEF FinishGates, AdviseAndCheck, PostQuietTurn, Operator, Unpark, CutCall, EndHard, EndWith,
                    Resume, Begin
<1> QED BY <1>1, <1>2, <1>3, <1>4, <1>5, <1>6, <1>7, <1>8 DEF Next, Drive, AfterCall, BeforeCall, vars

\* Every step keeps the graph walkable and the guard's word the banner's.
LEMMA NextGrounded == Grounded /\ [Next]_vars => Grounded'
<1> SUFFICES ASSUME Grounded, [Next]_vars PROVE Grounded'
  OBVIOUS
<1>1. Shaped'
  BY NextRetires DEF Grounded
<1>2. (surfaced = banner)'
  BY FocusTogether DEF Grounded
<1>3. Walkable(nodes')
  <2>1. CASE Begin
    BY <2>1, BeginWalks
  <2>2. CASE UNCHANGED nodes
    BY <2>2 DEF Grounded
  <2>3. ASSUME NEW t, NEW s, nodes' = [nodes EXCEPT ![t].status = s] PROVE Walkable(nodes')
    <3>1. SameTree(nodes, nodes')
      BY <2>3, StatusTree DEF Grounded
    <3> QED BY <3>1, SameWalkable DEF Grounded
  <2>4. ASSUME NEW t, NEW d, nodes' = [nodes EXCEPT ![t].deps = @ \cup {d}] PROVE Walkable(nodes')
    <3>1. SameTree(nodes, nodes')
      BY <2>4, DependencyTree DEF Grounded
    <3> QED BY <3>1, SameWalkable DEF Grounded
  <2>5. ASSUME NEW p, NEW by, NEW standing, NEW deps, NEW after,
               AddSubtask(p, by, standing, deps, after),
               after # NoTask => p \in DOMAIN nodes /\ IsChildOf(after, nodes[p])
        PROVE  Walkable(nodes')
    BY <2>5, AddingWalks DEF Grounded
  <2>6. Begin \/ Edits
    BY NextEdits
  <2> QED BY <2>1, <2>2, <2>3, <2>4, <2>5, <2>6 DEF Edits
<1> QED BY <1>1, <1>2, <1>3 DEF Grounded

-----------------------------------------------------------------------------
(* The frontier stays where the harness marks it.                          *)

FocusableTasks(g) == {t \in DOMAIN g : IsFocusable(g, t)}
ReadyStanding(g) == {t \in DOMAIN g : g[t].standing /\ ReadySubtask(g, t)}
Choice(g) == IF FocusableTasks(g) # {} THEN FocusableTasks(g) ELSE ReadyStanding(g)

\* A written status is read back.
LEMMA StatusSet ==
  ASSUME Shaped, NEW t, NEW s, NEW g, g = [nodes EXCEPT ![t].status = s], t \in DOMAIN nodes
  PROVE  g[t].status = s
<1>1. g[t] = [nodes[t] EXCEPT !.status = s]
  OBVIOUS
<1>2. nodes[t] = [parent |-> nodes[t].parent, status |-> nodes[t].status, deps |-> nodes[t].deps,
                children |-> nodes[t].children, standing |-> nodes[t].standing, by |-> nodes[t].by]
  BY RecordUpdate DEF Shaped
<1>3. [nodes[t] EXCEPT !.status = s] = [parent |-> nodes[t].parent, status |-> s, deps |-> nodes[t].deps,
                children |-> nodes[t].children, standing |-> nodes[t].standing, by |-> nodes[t].by]
  BY RecordUpdate DEF Shaped
<1>4. g[t] = [parent |-> nodes[t].parent, status |-> s, deps |-> nodes[t].deps,
                children |-> nodes[t].children, standing |-> nodes[t].standing, by |-> nodes[t].by]
  BY <1>1, <1>3
<1> QED BY <1>4

\* The frontier is a ready task.
LEMMA FrontierReady ==
  ASSUME Grounded, Current # NoTask
  PROVE  Current \in DOMAIN nodes /\ ReadySubtask(nodes, Current)
<1>1. CASE cursor \in DOMAIN nodes /\ IsFocusable(nodes, cursor)
  BY <1>1 DEF Current, CurrentTask, IsFocusable
<1>2. CASE ~(cursor \in DOMAIN nodes /\ IsFocusable(nodes, cursor))
  <2>1. Current = FirstInTree(nodes, Choice(nodes))
    BY <1>2 DEF Current, CurrentTask, FirstReadySubtask, Choice, FocusableTasks, ReadyStanding
  <2>2. Choice(nodes) # {}
    BY <2>1 DEF FirstInTree
  <2>3. Choice(nodes) \in SUBSET DOMAIN nodes /\ \A t \in Choice(nodes) : ReadySubtask(nodes, t)
    BY DEF Choice, FocusableTasks, ReadyStanding, IsFocusable
  <2>4. Current \in Choice(nodes)
    BY <2>1, <2>2, <2>3, FirstIsOne DEF Grounded
  <2> QED BY <2>3, <2>4
<1> QED BY <1>1, <1>2

\* Taking up an open task makes no other one ready, and no ready one unready.
LEMMA MarkedReady ==
  ASSUME Grounded, Current \in DOMAIN nodes, ReadySubtask(nodes, Current)
  PROVE  /\ SameTree(nodes, Marked)
         /\ \A t \in DOMAIN nodes : /\ ReadySubtask(Marked, t) <=> ReadySubtask(nodes, t)
                                    /\ IsFocusable(Marked, t) <=> IsFocusable(nodes, t)
                                    /\ Marked[t].standing = nodes[t].standing
<1>1. PICK g : g = [nodes EXCEPT ![Current].status = "in_progress"]
  OBVIOUS
<1>2. /\ SameTree(nodes, g)
      /\ \A u \in DOMAIN nodes : /\ g[u].deps = nodes[u].deps /\ g[u].standing = nodes[u].standing
                                 /\ u = Current => g[u].status = "in_progress"
                                 /\ u # Current => g[u].status = nodes[u].status
  <2>1. Shaped
    BY DEF Grounded
  <2>2. PICK t, s : t = Current /\ s = "in_progress"
    OBVIOUS
  <2>3. g = [nodes EXCEPT ![t].status = s]
    BY <1>1, <2>2
  <2>4. SameTree(nodes, g)
    BY ONLY <2>1, <2>3, StatusTree
  <2>5. ASSUME NEW u \in DOMAIN nodes PROVE g[u].deps = nodes[u].deps /\ g[u].standing = nodes[u].standing
    BY ONLY <2>1, <2>3, u \in DOMAIN nodes, StatusTree
  <2>6. ASSUME NEW u \in DOMAIN nodes, u # t PROVE g[u].status = nodes[u].status
    BY ONLY <2>1, <2>3, <2>6, StatusTree
  <2>7. t \in DOMAIN nodes => g[t].status = s
    BY ONLY <2>1, <2>3, StatusSet
  <2> QED BY <2>2, <2>4, <2>5, <2>6, <2>7
<1>3. nodes[Current].status \in OpenStatuses
  BY DEF ReadySubtask
<1>4. \A u \in DOMAIN nodes : /\ g[u].status \in OpenStatuses <=> nodes[u].status \in OpenStatuses
                              /\ g[u].status \in DoneStatuses <=> nodes[u].status \in DoneStatuses
  BY <1>2, <1>3 DEF OpenStatuses, DoneStatuses
<1>5. DOMAIN g = DOMAIN nodes /\ \A u \in DOMAIN nodes : g[u].parent = nodes[u].parent /\ g[u].children = nodes[u].children
  BY <1>2 DEF SameTree
<1>6. ASSUME NEW t \in DOMAIN nodes PROVE HasOpenChild(g, g[t]) <=> HasOpenChild(nodes, nodes[t])
  <2>1. g[t].children = nodes[t].children
    BY <1>5
  <2>2. \A c : IsChildOf(c, g[t]) <=> IsChildOf(c, nodes[t])
    BY <2>1 DEF IsChildOf
  <2> QED BY <1>4, <1>5, <2>2 DEF HasOpenChild
<1>7. ASSUME NEW t \in DOMAIN nodes PROVE ReadySubtask(g, t) <=> ReadySubtask(nodes, t)
  <2>1. \A d \in nodes[t].deps :
           (d \in DOMAIN g /\ g[d].status \in DoneStatuses) <=> (d \in DOMAIN nodes /\ nodes[d].status \in DoneStatuses)
    BY <1>4, <1>5
  <2>2. g[t].deps = nodes[t].deps /\ g[t].parent = nodes[t].parent
        /\ (g[t].status \in OpenStatuses <=> nodes[t].status \in OpenStatuses)
    BY <1>2, <1>4, <1>5
  <2> QED BY <1>6, <2>1, <2>2, Zenon DEF ReadySubtask
<1>8. \A t \in DOMAIN nodes : g[t].standing = nodes[t].standing
  BY <1>2
<1>9. \A t \in DOMAIN nodes : IsFocusable(g, t) <=> IsFocusable(nodes, t)
  BY <1>7, <1>8, Zenon DEF IsFocusable
<1>10. g = Marked
  BY <1>1 DEF Marked
<1> QED BY <1>2, <1>7, <1>8, <1>9, <1>10

\* Marking the frontier leaves the first ready task what it was.
LEMMA MarkedFirst ==
  ASSUME Grounded, Current \in DOMAIN nodes, ReadySubtask(nodes, Current)
  PROVE  FirstReadySubtask(Marked) = FirstReadySubtask(nodes)
<1> DEFINE g == Marked
<1>1. /\ SameTree(nodes, g)
      /\ \A t \in DOMAIN nodes : /\ ReadySubtask(g, t) <=> ReadySubtask(nodes, t)
                                 /\ IsFocusable(g, t) <=> IsFocusable(nodes, t)
                                 /\ g[t].standing = nodes[t].standing
  BY MarkedReady
<1> HIDE DEF g
<1>2. DOMAIN g = DOMAIN nodes
  BY <1>1 DEF SameTree
<1>3. FocusableTasks(g) = FocusableTasks(nodes) /\ ReadyStanding(g) = ReadyStanding(nodes)
  BY <1>1, <1>2 DEF FocusableTasks, ReadyStanding
<1>4. Choice(g) = Choice(nodes)
  BY <1>3 DEF Choice
<1>5. Choice(nodes) \in SUBSET DOMAIN nodes
  BY DEF Choice, FocusableTasks, ReadyStanding
<1>6. FirstInTree(nodes, Choice(nodes)) = FirstInTree(g, Choice(nodes))
  BY <1>1, <1>5, SameFirst DEF Grounded
<1>7. \A f : FirstReadySubtask(f) = FirstInTree(f, Choice(f))
  BY DEF FirstReadySubtask, Choice, FocusableTasks, ReadyStanding
<1>8. FirstReadySubtask(g) = FirstReadySubtask(nodes)
  BY <1>4, <1>6, <1>7
<1> QED BY <1>8 DEF g

\* Wherever the cursor write and the mark get, the frontier is the same task.
LEMMA FrontierStays ==
  ASSUME Grounded, NEW g, NEW c,
         g \in {nodes, IF Current = NoTask THEN nodes ELSE Marked},
         c \in {cursor, IF Current = NoTask THEN cursor ELSE Current}
  PROVE  CurrentTask(g, c) = Current
<1>1. CASE Current = NoTask
  BY <1>1 DEF Current
<1>2. CASE Current # NoTask
  <2>1. Current \in DOMAIN nodes /\ ReadySubtask(nodes, Current)
    BY <1>2, FrontierReady
  <2>2. /\ DOMAIN g = DOMAIN nodes
        /\ \A t \in DOMAIN nodes : IsFocusable(g, t) <=> IsFocusable(nodes, t)
        /\ FirstReadySubtask(g) = FirstReadySubtask(nodes)
    <3>1. CASE g = nodes
      BY <3>1
    <3>2. CASE g = Marked
      BY <2>1, <3>2, MarkedReady, MarkedFirst DEF SameTree
    <3> QED BY <1>2, <3>1, <3>2
  <2>3. c = cursor \/ c = Current
    BY <1>2
  <2>4. CASE cursor \in DOMAIN nodes /\ IsFocusable(nodes, cursor)
    <3>1. Current = cursor
      BY <2>4 DEF Current, CurrentTask
    <3> QED BY <2>2, <2>3, <2>4, <3>1 DEF CurrentTask
  <2>5. CASE ~(cursor \in DOMAIN nodes /\ IsFocusable(nodes, cursor))
    <3>1. Current = FirstReadySubtask(nodes)
      BY <2>5 DEF Current, CurrentTask
    <3> HIDE DEF Current
    <3> QED BY <2>2, <2>3, <2>5, <3>1 DEF CurrentTask
  <2> QED BY <2>4, <2>5
<1> QED BY <1>1, <1>2

\* The banner is posted on the way to the call, and nothing else leads there.
LEMMA NextBanner == Grounded /\ BannerIsFrontier /\ [Next]_vars => BannerIsFrontier'
<1> SUFFICES ASSUME Grounded, BannerIsFrontier, [Next]_vars, pc' = "calling", Current' # NoTask
             PROVE  banner' = Current'
  BY DEF BannerIsFrontier
<1>1. CASE SurfaceCurrentTask
  <2>1. Current' = CurrentTask(nodes', cursor')
    BY DEF Current
  <2>2. /\ nodes' \in {nodes, IF Current \in {NoTask, surfaced} THEN nodes ELSE Marked}
        /\ cursor' \in {cursor, IF Current = NoTask THEN cursor ELSE Current}
        /\ IF Current \in {NoTask, surfaced} THEN banner' = banner ELSE banner' = Current
    BY <1>1 DEF SurfaceCurrentTask, MaybeSurface, focus
  <2>3. nodes' \in {nodes, IF Current = NoTask THEN nodes ELSE Marked}
    BY <2>2
  <2>4. Current' = Current
    BY <2>1, <2>2, <2>3, FrontierStays
  <2>5. Current # NoTask => banner' = Current
    BY <2>2 DEF Grounded
  <2> QED BY <2>4, <2>5
<1>2. CASE UNCHANGED vars
  <2>1. pc = "calling" /\ Current' = Current /\ banner' = banner
    BY <1>2 DEF vars, graph, focus, Current
  <2> QED BY <2>1 DEF BannerIsFrontier
<1>3. pc' # "calling" \/ SurfaceCurrentTask \/ UNCHANGED vars
  <2>1. ~Take
    BY DEF Take, DrainRequests, Queue, Retire, RetireGoal, SetStanding, RefuseRequest, TakenParked, Apply,
           Applying, Goto
  <2>2. ~(Summarise \/ ApplyCheckoff \/ RestartConversation)
    BY DEF Summarise, ApplyCheckoff, RestartConversation, Goto
  <2>3. ~Model
    BY DEF Model, Respond, Work, AddTask, UpdateTask, AddDependency, FailCall, FinishSession, Executed,
           Dispatched, Quiet, Goto
  <2>4. ~(AfterCall \/ Operator \/ Resume \/ Begin \/ Crash)
    BY DEF AfterCall, FinishGates, AdviseAndCheck, PostQuietTurn, PassPendingRootTasks, Operator, Unpark,
           CutCall, EndHard, EndWith, EndOfTurn, NextTurn, Resume, Begin, Crash, Goto
  <2> QED BY <2>1, <2>2, <2>3, <2>4 DEF Next, Drive, BeforeCall
<1> QED BY <1>1, <1>2, <1>3

\* `_maybe_surface_current_task', `summarise_and_restart': whoever changed the
\* graph since, the banner a call is made with names the frontier it has then.
THEOREM BannerHolds == Spec => []BannerIsFrontier
<1>1. Init => Grounded /\ BannerIsFrontier
  <2>1. Init => Walkable(nodes)
    <3> SUFFICES ASSUME nodes = <<>> PROVE Walkable(nodes)
      BY DEF Init
    <3>1. DOMAIN nodes = 1..0
      OBVIOUS
    <3> QED BY <3>1 DEF Walkable
  <2> QED BY <2>1 DEF Init, Grounded, Shaped, BannerIsFrontier
<1>2. (Grounded /\ BannerIsFrontier) /\ [Next]_vars => (Grounded /\ BannerIsFrontier)'
  BY NextGrounded, NextBanner
<1> QED BY <1>1, <1>2, PTL DEF Spec
=============================================================================
