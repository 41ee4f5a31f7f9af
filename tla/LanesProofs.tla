---------------------------- MODULE LanesProofs ----------------------------
(***************************************************************************)
(* What holds of a /parallel directive for any number of tasks, lanes and  *)
(* groups: no lane's work is lost, the graph says what reached the chain,  *)
(* a group's name is used once, nothing is taken from a live lane.         *)
(*                                                                         *)
(* The argument is kept per lane: `Kept' ties where a lane's thread stands *)
(* to what its process, its clone and its branch are by then.  Between     *)
(* lanes there are only the numbering of the groups (`Counted') and the    *)
(* stamps of the group under way (`Stamped').                              *)
(***************************************************************************)
EXTENDS Lanes, TLAPS

\* Where a lane's thread has seen its log, and where it takes the lane's work.
Watching  == {"link", "await", "turn", "drain"}
Importing == {"unlink", "check", "fetch", "move", "tidy"}
Places    == Watching \cup Importing \cup {"idle", "clone", "locate", "done", "raised", "dead"}
MergePlaces == {"unlink", "check", "fetch", "move"}

\* The types the argument rests on.
Shapes ==
    /\ count \in Nat /\ saved = count
    /\ thread \in [Id -> Places]
    /\ result \in [Id -> {"none", "ok", "failed"}]
    /\ worker \in [Id -> {"none", "booting", "made", "running", "ended", "gone", "stillborn"}]
    /\ outcome \in [Id -> {"result", "none"}]
    /\ where \in [Id -> {"none", "clone", "origin"}]
    /\ tip \in [Id -> Nat] /\ branch \in [Id -> Nat]
    /\ clone \subseteq Id /\ chain \subseteq Id
    /\ node \in [Group \X Task -> {"none", "open", "passed", "failed"}]
    /\ merger \in {<<"idle">>} \cup (MergePlaces \X Id)

\* One lane: what its thread, its process, its branch and its clone say of each other.
Kept(id) ==
    /\ thread[id] \in {"idle", "clone"} => worker[id] = "none"
    /\ thread[id] \in Watching => worker[id] \in {"running", "ended", "gone"}
    /\ thread[id] \in Importing => worker[id] = "gone"
    /\ thread[id] \in {"move", "tidy"} => branch[id] = tip[id]
    /\ thread[id] = "tidy" => where[id] = "origin"
    /\ \A s \in MergePlaces : merger = <<s, id>> => worker[id] = "gone"
    /\ merger = <<"move", id>> => branch[id] = tip[id]
    /\ where[id] = "origin" => worker[id] = "gone" /\ branch[id] = tip[id]
    /\ worker[id] \in {"none", "booting", "made", "stillborn"} => tip[id] = 0
    /\ worker[id] \in {"made", "running", "ended", "gone"} => where[id] # "none"
    /\ tip[id] > 0 => branch[id] = tip[id] \/ id \in clone
    /\ result[id] = "ok" => /\ thread[id] = "done" /\ worker[id] = "gone"
                            /\ outcome[id] = "result" /\ branch[id] = tip[id]
    /\ id \in chain => result[id] = "ok"

\* The groups are numbered in the order they are steered in.
Counted ==
    /\ coord \notin {"steer", "dead"} => count \in Group
    /\ \A id \in Id : thread[id] # "idle" => id[1] <= count
    /\ coord = "counted" => \A id \in Id : id[1] = count => thread[id] = "idle"
    /\ coord = "join" => cursor \in Lane
    /\ coord = "stamp" => cursor \in Task

Joined(nd) == \E l \in LanesOf(nd[2]) : <<nd[1], l>> \in chain

\* A group's lanes join the chain after it was waited for; its nodes wait, open, until their own
\* lanes have been tried; a stamp tells what the lanes did.
Chained ==
    /\ \A id \in chain : id[1] <= count
    /\ coord \in {"counted", "waiting"} => \A id \in chain : id[1] # count
Untried ==
    /\ coord \in {"waiting", "join"} => \A t \in Task : node[<<count, t>>] = "open"
    /\ coord = "stamp" => \A t \in Task : t >= cursor => node[<<count, t>>] = "open"
Told ==
    \A nd \in Group \X Task :
        /\ node[nd] = "passed" => Joined(nd)
        /\ node[nd] = "failed" => ~Joined(nd)

Stamped == Chained /\ Untried /\ Told

IInv == Shapes /\ (\A id \in Id : Kept(id)) /\ Counted /\ Stamped

-----------------------------------------------------------------------------
(* A step of one lane.                                                     *)

\* There is a task and a lane.
LEMMA SomeLane == Tasks * Width \in Nat /\ Tasks * Width > 0 /\ 1 \in Lane /\ 1 \in Task
<1>1. Tasks \in Nat /\ Width \in Nat /\ Tasks > 0 /\ Width > 0
  BY LaneAssumption
<1>2. Tasks * Width \in Nat /\ Tasks * Width > 0
  BY <1>1
<1> QED BY <1>1, <1>2 DEF Lane, Task

\* What one lane shows of itself.
Same(id) ==
    /\ thread'[id] = thread[id] /\ result'[id] = result[id]
    /\ worker'[id] = worker[id] /\ outcome'[id] = outcome[id] /\ tip'[id] = tip[id]
    /\ where'[id] = where[id] /\ branch'[id] = branch[id]
    /\ id \in clone' <=> id \in clone
    /\ \A s \in MergePlaces : merger' = <<s, id>> => merger = <<s, id>>

\* A step of one lane leaves the others, the graph and the chain as they are.
Steps(id) ==
    /\ \A o \in Id \ {id} : Same(o)
    /\ UNCHANGED <<coord, count, saved, cursor, node, chain>>
    /\ thread'[id] = "idle" <=> thread[id] = "idle"

\* Such a step keeps the invariant, if it keeps the types and what is said of its lane.
LEMMA StepKeeps ==
  ASSUME IInv, NEW id \in Id, Shapes', Steps(id), Kept(id)'
  PROVE  IInv'
<1>1. ASSUME NEW o \in Id PROVE Kept(o)'
  <2>1. CASE o = id
    BY <2>1
  <2>2. CASE o # id
    <3>1. Kept(o) /\ Same(o) /\ chain' = chain
      BY <2>2 DEF IInv, Steps
    <3>2. "move" \in MergePlaces
      BY DEF MergePlaces
    <3> QED BY <3>1, <3>2 DEF Kept, Same
  <2> QED BY <2>1, <2>2
<1>2. Counted'
  <2>1. \A o \in Id : thread'[o] = "idle" <=> thread[o] = "idle"
    BY DEF Steps, Same
  <2> QED BY <2>1 DEF IInv, Counted, Steps
<1>3. Stamped'
  BY DEF IInv, Stamped, Chained, Untried, Told, Steps, Joined
<1> QED BY <1>1, <1>2, <1>3 DEF IInv

-----------------------------------------------------------------------------
(* The lane's process, and its thread.                                     *)

\* The process commits only while its clone stands, and ends before it goes.
LEMMA LaneMakesDirKeeps ==
  ASSUME IInv, NEW id \in Id, LaneMakesDir(id)
  PROVE  IInv'
<1> USE DEF LaneMakesDir, coordVars, threadVars, laneVars, diskVars
<1>1. Shapes'
  BY DEF IInv, Shapes, Places, Watching, Importing, MergePlaces
<1>2. Steps(id)
  BY DEF IInv, Shapes, Steps, Same, MergePlaces
<1>3. Kept(id)'
  BY DEF IInv, Shapes, Kept, Watching, Importing, MergePlaces
<1> QED BY <1>1, <1>2, <1>3, StepKeeps

\* A process runs once its directory is made.
LEMMA LaneStartsKeeps ==
  ASSUME IInv, NEW id \in Id, LaneStarts(id)
  PROVE  IInv'
<1> USE DEF LaneStarts, coordVars, threadVars, laneVars, diskVars
<1>1. Shapes'
  BY DEF IInv, Shapes, Places, Watching, Importing, MergePlaces
<1>2. Steps(id)
  BY DEF IInv, Shapes, Steps, Same, MergePlaces
<1>3. Kept(id)'
  BY DEF IInv, Shapes, Kept, Watching, Importing, MergePlaces
<1> QED BY <1>1, <1>2, <1>3, StepKeeps

\* A commit is one more of a clone that stands.
LEMMA LaneCommitsKeeps ==
  ASSUME IInv, NEW id \in Id, LaneCommits(id)
  PROVE  IInv'
<1> USE DEF LaneCommits, coordVars, threadVars, laneVars, diskVars
<1>1. Shapes'
  BY DEF IInv, Shapes, Places, Watching, Importing, MergePlaces
<1>2. Steps(id)
  BY DEF IInv, Shapes, Steps, Same, MergePlaces
<1>3. Kept(id)'
  BY DEF IInv, Shapes, Kept, Watching, Importing, MergePlaces
<1> QED BY <1>1, <1>2, <1>3, StepKeeps

\* The log's end comes while the process is still there.
LEMMA LaneEndsKeeps ==
  ASSUME IInv, NEW id \in Id, LaneEnds(id)
  PROVE  IInv'
<1> USE DEF LaneEnds, coordVars, threadVars, laneVars, diskVars
<1>1. Shapes'
  BY DEF IInv, Shapes, Places, Watching, Importing, MergePlaces
<1>2. Steps(id)
  BY DEF IInv, Shapes, Steps, Same, MergePlaces
<1>3. Kept(id)'
  BY DEF IInv, Shapes, Kept, Watching, Importing, MergePlaces
<1> QED BY <1>1, <1>2, <1>3, StepKeeps

\* A process that goes leaves its clone and its commits behind.
LEMMA LaneGoesKeeps ==
  ASSUME IInv, NEW id \in Id, LaneGoes(id)
  PROVE  IInv'
<1> USE DEF LaneGoes, coordVars, threadVars, laneVars, diskVars, Alive
<1>1. Shapes'
  BY DEF IInv, Shapes, Places, Watching, Importing, MergePlaces
<1>2. Steps(id)
  BY DEF IInv, Shapes, Steps, Same, MergePlaces
<1>3. Kept(id)'
  BY DEF IInv, Shapes, Kept, Watching, Importing, MergePlaces
<1> QED BY <1>1, <1>2, <1>3, StepKeeps

\* A thread leaves the process alone until it starts it, and takes a lane only at rest.
LEMMA CloneKeeps ==
  ASSUME IInv, NEW id \in Id, Clone(id)
  PROVE  IInv'
<1> USE DEF Clone, coordVars, threadVars, laneVars, diskVars, Goes, Returns, Spend
<1>1. Shapes'
  BY DEF IInv, Shapes, Places, Watching, Importing, MergePlaces
<1>2. Steps(id)
  BY DEF IInv, Shapes, Steps, Same, MergePlaces
<1>3. Kept(id)'
  BY DEF IInv, Shapes, Kept, Watching, Importing, MergePlaces
<1> QED BY <1>1, <1>2, <1>3, StepKeeps

\* A thread watches a lane only once the lane has its log.
LEMMA LocateKeeps ==
  ASSUME IInv, NEW id \in Id, Locate(id)
  PROVE  IInv'
<1> USE DEF Locate, coordVars, threadVars, laneVars, diskVars, Goes, Returns, Logged
<1>1. Shapes'
  BY DEF IInv, Shapes, Places, Watching, Importing, MergePlaces
<1>2. Steps(id)
  BY DEF IInv, Shapes, Steps, Same, MergePlaces
<1>3. Kept(id)'
  BY DEF IInv, Shapes, Kept, Watching, Importing, MergePlaces
<1> QED BY <1>1, <1>2, <1>3, StepKeeps

\* The live-view link is made of a lane that was found.
LEMMA LinkKeeps ==
  ASSUME IInv, NEW id \in Id, Link(id)
  PROVE  IInv'
<1> USE DEF Link, coordVars, threadVars, laneVars, diskVars, Goes
<1>1. Shapes'
  BY DEF IInv, Shapes, Places, Watching, Importing, MergePlaces
<1>2. Steps(id)
  BY DEF IInv, Shapes, Steps, Same, MergePlaces
<1>3. Kept(id)'
  BY DEF IInv, Shapes, Kept, Watching, Importing, MergePlaces
<1> QED BY <1>1, <1>2, <1>3, StepKeeps

\* The wait ends on a lane at rest or on a stop.
LEMMA AwaitKeeps ==
  ASSUME IInv, NEW id \in Id, Await(id)
  PROVE  IInv'
<1> USE DEF Await, coordVars, threadVars, laneVars, diskVars, Goes, Terminal, Alive
<1>1. Shapes'
  BY DEF IInv, Shapes, Places, Watching, Importing, MergePlaces
<1>2. Steps(id)
  BY DEF IInv, Shapes, Steps, Same, MergePlaces
<1>3. Kept(id)'
  BY DEF IInv, Shapes, Kept, Watching, Importing, MergePlaces
<1> QED BY <1>1, <1>2, <1>3, StepKeeps

\* A lane that finishes its turn is at rest before it is imported.
LEMMA FinishTurnKeeps ==
  ASSUME IInv, NEW id \in Id, FinishTurn(id)
  PROVE  IInv'
<1> USE DEF FinishTurn, coordVars, threadVars, laneVars, diskVars, Goes, Terminal, Alive
<1>1. Shapes'
  BY DEF IInv, Shapes, Places, Watching, Importing, MergePlaces
<1>2. Steps(id)
  BY DEF IInv, Shapes, Steps, Same, MergePlaces
<1>3. Kept(id)'
  BY DEF IInv, Shapes, Kept, Watching, Importing, MergePlaces
<1> QED BY <1>1, <1>2, <1>3, StepKeeps

\* A lane that outlives its grace is not imported.
LEMMA DrainKeeps ==
  ASSUME IInv, NEW id \in Id, Drain(id)
  PROVE  IInv'
<1> USE DEF Drain, coordVars, threadVars, laneVars, diskVars, Goes, Returns, Terminal, Alive
<1>1. Shapes'
  BY DEF IInv, Shapes, Places, Watching, Importing, MergePlaces
<1>2. Steps(id)
  BY DEF IInv, Shapes, Steps, Same, MergePlaces
<1>3. Kept(id)'
  BY DEF IInv, Shapes, Kept, Watching, Importing, MergePlaces
<1> QED BY <1>1, <1>2, <1>3, StepKeeps

\* The link goes while the lane is at rest.
LEMMA UnlinkKeeps ==
  ASSUME IInv, NEW id \in Id, Unlink(id)
  PROVE  IInv'
<1> USE DEF Unlink, coordVars, threadVars, laneVars, diskVars, Goes
<1>1. Shapes'
  BY DEF IInv, Shapes, Places, Watching, Importing, MergePlaces
<1>2. Steps(id)
  BY DEF IInv, Shapes, Steps, Same, MergePlaces
<1>3. Kept(id)'
  BY DEF IInv, Shapes, Kept, Watching, Importing, MergePlaces
<1> QED BY <1>1, <1>2, <1>3, StepKeeps

\* From the import lock on: the commits land before the directory moves, both before the clone goes.
LEMMA CheckKeeps ==
  ASSUME IInv, NEW id \in Id, Check(id)
  PROVE  IInv'
<1> USE DEF Check, coordVars, threadVars, laneVars, diskVars, Goes, Returns, Refuse
<1>1. Shapes'
  BY DEF IInv, Shapes, Places, Watching, Importing, MergePlaces
<1>2. Steps(id)
  BY DEF IInv, Shapes, Steps, Same, MergePlaces
<1>3. Kept(id)'
  BY DEF IInv, Shapes, Kept, Watching, Importing, MergePlaces
<1> QED BY <1>1, <1>2, <1>3, StepKeeps

\* A fetch brings every commit of a lane at rest to the origin's branch.
LEMMA FetchKeeps ==
  ASSUME IInv, NEW id \in Id, Fetch(id)
  PROVE  IInv'
<1> USE DEF Fetch, coordVars, threadVars, laneVars, diskVars, Goes, Returns, Refuse
<1>1. Shapes'
  BY DEF IInv, Shapes, Places, Watching, Importing, MergePlaces
<1>2. Steps(id)
  BY DEF IInv, Shapes, Steps, Same, MergePlaces
<1>3. Kept(id)'
  BY DEF IInv, Shapes, Kept, Watching, Importing, MergePlaces
<1> QED BY <1>1, <1>2, <1>3, StepKeeps

\* The directory moves after the commits have landed.
LEMMA MoveKeeps ==
  ASSUME IInv, NEW id \in Id, Move(id)
  PROVE  IInv'
<1> USE DEF Move, coordVars, threadVars, laneVars, diskVars, Goes, Moves
<1>1. Shapes'
  BY DEF IInv, Shapes, Places, Watching, Importing, MergePlaces
<1>2. Steps(id)
  BY DEF IInv, Shapes, Steps, Same, MergePlaces
<1>3. Kept(id)'
  BY DEF IInv, Shapes, Kept, Watching, Importing, MergePlaces
<1> QED BY <1>1, <1>2, <1>3, StepKeeps

\* The clone goes when its commits and its directory are with the origin.
LEMMA TidyKeeps ==
  ASSUME IInv, NEW id \in Id, Tidy(id)
  PROVE  IInv'
<1> USE DEF Tidy, coordVars, threadVars, laneVars, diskVars, Goes, Returns, Produced
<1>1. Shapes'
  BY DEF IInv, Shapes, Places, Watching, Importing, MergePlaces
<1>2. Steps(id)
  BY DEF IInv, Shapes, Steps, Same, MergePlaces
<1>3. Kept(id)'
  BY DEF IInv, Shapes, Kept, Watching, Importing, MergePlaces
<1> QED BY <1>1, <1>2, <1>3, StepKeeps

\* An adopting merge takes the same steps, of a lane that is not live.
LEMMA MergeLooksKeeps ==
  ASSUME IInv, NEW id \in Id, MergeLooks(id)
  PROVE  IInv'
<1> USE DEF MergeLooks, coordVars, threadVars, laneVars, diskVars, Alive
<1>1. Shapes'
  BY DEF IInv, Shapes, Places, Watching, Importing, MergePlaces
<1>2. Steps(id)
  BY DEF IInv, Shapes, Steps, Same, MergePlaces
<1>3. Kept(id)'
  BY DEF IInv, Shapes, Kept, Watching, Importing, MergePlaces
<1> QED BY <1>1, <1>2, <1>3, StepKeeps

\* The merge drops the link of a lane that has gone.
LEMMA MergeUnlinksKeeps ==
  ASSUME IInv, NEW id \in Id, MergeUnlinks(id)
  PROVE  IInv'
<1> USE DEF MergeUnlinks, coordVars, threadVars, laneVars, diskVars
<1>1. Shapes'
  BY DEF IInv, Shapes, Places, Watching, Importing, MergePlaces
<1>2. Steps(id)
  BY DEF IInv, Shapes, Steps, Same, MergePlaces
<1>3. Kept(id)'
  BY DEF IInv, Shapes, Kept, Watching, Importing, MergePlaces
<1> QED BY <1>1, <1>2, <1>3, StepKeeps

\* The merge looks at a lane that has gone.
LEMMA MergeChecksKeeps ==
  ASSUME IInv, NEW id \in Id, MergeChecks(id)
  PROVE  IInv'
<1> USE DEF MergeChecks, coordVars, threadVars, laneVars, diskVars
<1>1. Shapes'
  BY DEF IInv, Shapes, Places, Watching, Importing, MergePlaces
<1>2. Steps(id)
  BY DEF IInv, Shapes, Steps, Same, MergePlaces
<1>3. Kept(id)'
  BY DEF IInv, Shapes, Kept, Watching, Importing, MergePlaces
<1> QED BY <1>1, <1>2, <1>3, StepKeeps

\* The merge fetches every commit.
LEMMA MergeFetchesKeeps ==
  ASSUME IInv, NEW id \in Id, MergeFetches(id)
  PROVE  IInv'
<1> USE DEF MergeFetches, coordVars, threadVars, laneVars, diskVars
<1>1. Shapes'
  BY DEF IInv, Shapes, Places, Watching, Importing, MergePlaces
<1>2. Steps(id)
  BY DEF IInv, Shapes, Steps, Same, MergePlaces
<1>3. Kept(id)'
  BY DEF IInv, Shapes, Kept, Watching, Importing, MergePlaces
<1> QED BY <1>1, <1>2, <1>3, StepKeeps

\* The merge moves the directory after the commits have landed.
LEMMA MergeMovesKeeps ==
  ASSUME IInv, NEW id \in Id, MergeMoves(id)
  PROVE  IInv'
<1> USE DEF MergeMoves, coordVars, threadVars, laneVars, diskVars, Moves
<1>1. Shapes'
  BY DEF IInv, Shapes, Places, Watching, Importing, MergePlaces
<1>2. Steps(id)
  BY DEF IInv, Shapes, Steps, Same, MergePlaces
<1>3. Kept(id)'
  BY DEF IInv, Shapes, Kept, Watching, Importing, MergePlaces
<1> QED BY <1>1, <1>2, <1>3, StepKeeps

\* Every step of one lane.
LEMMA LaneKeeps ==
  ASSUME IInv, NEW id \in Id, LaneStep(id) \/ ThreadStep(id) \/ MergeStep(id)
  PROVE  IInv'
<1>1. CASE LaneStep(id)
  BY <1>1, LaneMakesDirKeeps, LaneStartsKeeps, LaneCommitsKeeps, LaneEndsKeeps, LaneGoesKeeps DEF LaneStep
<1>2. CASE ThreadStep(id)
  BY <1>2, CloneKeeps, LocateKeeps, LinkKeeps, AwaitKeeps, FinishTurnKeeps, DrainKeeps, UnlinkKeeps,
     CheckKeeps, FetchKeeps, MoveKeeps, TidyKeeps DEF ThreadStep
<1>3. CASE MergeStep(id)
  BY <1>3, MergeLooksKeeps, MergeUnlinksKeeps, MergeChecksKeeps, MergeFetchesKeeps, MergeMovesKeeps
     DEF MergeStep
<1> QED BY <1>1, <1>2, <1>3

-----------------------------------------------------------------------------
(* The coordinator, the sweep, and all steps.                              *)

\* A step that moves no thread leaves what every lane shows of itself.
LEMMA LanesStay ==
  ASSUME IInv, UNCHANGED <<threadVars, laneVars, clone, where, branch, merger, chain>>
  PROVE  \A id \in Id : Kept(id)'
  BY DEF IInv, Kept, threadVars, laneVars

\* A new number has no lane and nothing on the chain.
LEMMA CountGroupKeeps ==
  ASSUME IInv, CountGroup
  PROVE  IInv'
<1> USE DEF CountGroup, threadVars, laneVars, diskVars
<1>1. Shapes' /\ count + 1 \in Group
  BY LaneAssumption DEF IInv, Shapes, Group
<1>2. \A id \in Id : Kept(id)'
  BY LanesStay
<1>3. \A id \in Id : id[1] \in Nat
  BY DEF Id, Group
<1>4. Counted'
  BY <1>1, <1>3 DEF IInv, Shapes, Counted
<1>5. Stamped'
  <2>1. \A nd \in Group \X Task : Joined(nd)' <=> Joined(nd)
    BY DEF Joined
  <2>2. \A id \in chain : id[1] <= count + 1 /\ id[1] # count + 1
    BY <1>3 DEF IInv, Shapes, Stamped, Chained, Untried, Told
  <2>3. count' = count + 1 /\ coord' = "counted" /\ UNCHANGED <<node, chain>>
    OBVIOUS
  <2> QED BY <2>1, <2>2, <2>3 DEF IInv, Stamped, Chained, Untried, Told
<1> QED BY <1>1, <1>2, <1>4, <1>5 DEF IInv

\* The group's nodes open with its threads, or fail with nothing joined.
LEMMA SpawnGroupKeeps ==
  ASSUME IInv, SpawnGroup
  PROVE  IInv'
<1> USE DEF SpawnGroup, threadVars, laneVars, diskVars
<1>1. Shapes' /\ coord = "counted" /\ count \in Group
  BY DEF IInv, Shapes, Places, Counted
<1>2. ASSUME NEW id \in Id PROVE Kept(id)'
  BY <1>1 DEF IInv, Shapes, Kept, Counted, Watching, Importing
<1>3. Counted'
  BY <1>1 DEF IInv, Shapes, Counted
<1>4. \A nd \in Group \X Task : nd[1] = count => ~Joined(nd)
  BY <1>1 DEF IInv, Stamped, Chained, Untried, Told, Joined, Shapes, Id
<1>5. Stamped'
  <2>2. ASSUME NEW nd \in Group \X Task
        PROVE  /\ node'[nd] = "passed" => Joined(nd)'
               /\ node'[nd] = "failed" => ~Joined(nd)'
    <3>1. Joined(nd)' <=> Joined(nd)
      BY DEF Joined
    <3>2. CASE nd[1] = count
      <4>1. ~Joined(nd) /\ (node'[nd] = "open" \/ node'[nd] = "failed")
        BY <1>4, <3>2 DEF IInv, Shapes
      <4> QED BY <3>1, <4>1
    <3>3. CASE nd[1] # count
      <4>1. node'[nd] = node[nd]
        BY <3>3 DEF IInv, Shapes
      <4>2. Told
        BY DEF IInv, Stamped
      <4> HIDE DEF SpawnGroup
      <4> QED BY <3>1, <4>1, <4>2 DEF Told
    <3> QED BY <3>2, <3>3
  <2>3. coord' # "steer" => \A t \in Task : node'[<<count, t>>] = "open"
    BY <1>1 DEF IInv, Shapes
  <2>4. coord' \in {"waiting", "steer"} /\ UNCHANGED <<chain, count>>
    OBVIOUS
  <2>5. \A id \in chain : id[1] <= count /\ id[1] # count
    BY <1>1 DEF IInv, Stamped, Chained, Untried, Told
  <2>6. Chained'
    BY <2>4, <2>5 DEF Chained
  <2>7. Untried'
    BY <2>3, <2>4 DEF Untried
  <2>8. Told'
    <3> HIDE DEF SpawnGroup
    <3> QED BY <2>2 DEF Told
  <2> QED BY <2>6, <2>7, <2>8 DEF Stamped
<1> QED BY <1>1, <1>2, <1>3, <1>5 DEF IInv

\* The group has returned: its first lane is tried next.
LEMMA AllReturnKeeps ==
  ASSUME IInv, AllReturn
  PROVE  IInv'
<1> USE DEF AllReturn, threadVars, laneVars, diskVars
<1>1. Shapes'
  BY DEF IInv, Shapes
<1>2. \A id \in Id : Kept(id)'
  BY LanesStay
<1>3. Counted'
  BY SomeLane DEF IInv, Counted
<1>4. Stamped'
  <2>1. \A nd \in Group \X Task : Joined(nd)' <=> Joined(nd)
    BY DEF Joined
  <2> QED BY <2>1 DEF IInv, Stamped, Chained, Untried, Told
<1> QED BY <1>1, <1>2, <1>3, <1>4 DEF IInv

\* An aborted group fails its nodes, none of which has a lane on the chain.
LEMMA AbortKeeps ==
  ASSUME IInv, Abort
  PROVE  IInv'
<1> USE DEF Abort, threadVars, laneVars, diskVars
<1>1. Shapes'
  BY DEF IInv, Shapes
<1>2. \A id \in Id : Kept(id)'
  BY LanesStay
<1>3. Counted'
  BY DEF IInv, Counted
<1>4. \A nd \in Group \X Task : nd[1] = count => ~Joined(nd)
  BY DEF IInv, Stamped, Chained, Untried, Told, Joined, Shapes, Id
<1>5. Stamped'
  BY <1>4 DEF IInv, Shapes, Stamped, Chained, Untried, Told, Joined
<1> QED BY <1>1, <1>2, <1>3, <1>5 DEF IInv

\* A lane joins while its node is open.
LEMMA JoinKeeps ==
  ASSUME IInv, Join
  PROVE  IInv'
<1> USE DEF Join, threadVars, laneVars, diskVars
<1> DEFINE id == <<count, cursor>>
<1>1. coord = "join" /\ id \in Id /\ id[1] = count /\ count \in Group
  BY DEF IInv, Counted, Id
<1>2. chain' = chain \/ (chain' = chain \cup {id} /\ result[id] = "ok")
  OBVIOUS
<1> HIDE DEF id
<1>3. Shapes'
  BY <1>1, <1>2 DEF IInv, Shapes
<1>4. ASSUME NEW o \in Id PROVE Kept(o)'
  BY <1>2 DEF IInv, Kept
<1>5. Counted'
  BY SomeLane, <1>1 DEF IInv, Counted, Lane
<1>6. Stamped'
  <2>1. ASSUME NEW nd \in Group \X Task PROVE /\ node'[nd] = "passed" => Joined(nd)'
                                              /\ node'[nd] = "failed" => ~Joined(nd)'
    <3>1. CASE nd[1] = count
      <4>1. node[nd] = "open"
        BY <1>1, <3>1 DEF IInv, Stamped, Chained, Untried, Told
      <4> QED BY <4>1
    <3>2. CASE nd[1] # count
      <4>1. Joined(nd)' <=> Joined(nd)
        BY <1>1, <1>2, <3>2 DEF Joined
      <4> QED BY <4>1 DEF IInv, Stamped, Chained, Untried, Told
    <3> QED BY <3>1, <3>2
  <2>2. \A o \in chain' : o[1] <= count'
    BY <1>1, <1>2 DEF IInv, Stamped, Chained, Untried, Told, Shapes
  <2> QED BY <1>1, <2>1, <2>2 DEF IInv, Stamped, Chained, Untried, Told
<1> QED BY <1>3, <1>4, <1>5, <1>6 DEF IInv

\* A stamp says what the lanes of its task did, and the next node is still open.
LEMMA StampKeeps ==
  ASSUME IInv, Stamp
  PROVE  IInv'
<1> USE DEF Stamp, threadVars, laneVars, diskVars
<1> DEFINE at == <<count, cursor>>
<1>1. /\ coord = "stamp" /\ at \in Group \X Task /\ at[1] = count /\ at[2] = cursor
      /\ cursor \in Task /\ node[at] = "open"
  BY DEF IInv, Counted, Stamped, Chained, Untried, Told, Task
<1>2. /\ node' = [node EXCEPT ![at] = StampOf(cursor)] /\ StampOf(cursor) \in {"passed", "failed"}
      /\ StampOf(cursor) = "passed" <=> Joined(at)
  BY <1>1 DEF StampOf, Joined
<1> HIDE DEF at
<1>3. Shapes'
  BY <1>1, <1>2 DEF IInv, Shapes
<1>4. \A id \in Id : Kept(id)'
  BY LanesStay
<1>5. Counted'
  BY <1>1, LaneAssumption DEF IInv, Counted, Task
<1>6. Stamped'
  <2>1. ASSUME NEW nd \in Group \X Task PROVE /\ node'[nd] = "passed" => Joined(nd)
                                              /\ node'[nd] = "failed" => ~Joined(nd)
    BY <1>1, <1>2 DEF IInv, Stamped, Chained, Untried, Told, Shapes
  <2>2. ASSUME coord' = "stamp", NEW t \in Task, t >= cursor' PROVE node'[<<count, t>>] = "open"
    <3>1. t >= cursor /\ t # cursor
      BY <1>1, <2>2 DEF Task
    <3>2. <<count, t>> # at /\ node[<<count, t>>] = "open"
      BY <1>1, <3>1 DEF IInv, Stamped, Chained, Untried, Told
    <3> QED BY <1>2, <3>2, <1>1 DEF IInv, Shapes
  <2> QED BY <1>1, <2>1, <2>2 DEF IInv, Stamped, Chained, Untried, Told, Joined
<1> QED BY <1>3, <1>4, <1>5, <1>6 DEF IInv

\* Leaving the wait, the process, and coming back.
LEMMA AwayKeeps ==
  ASSUME IInv, Interrupt \/ Leave \/ Resume \/ AskStop
  PROVE  IInv'
<1> USE DEF Interrupt, Leave, Resume, AskStop, threadVars, laneVars, diskVars
<1>1. Shapes'
  BY DEF IInv, Shapes
<1>2. \A id \in Id : Kept(id)'
  BY LanesStay
<1>3. Counted'
  BY DEF IInv, Counted, Shapes
<1>4. Stamped'
  <2>1. \A nd \in Group \X Task : Joined(nd)' <=> Joined(nd)
    BY DEF Joined
  <2>2. count' = count /\ node' = node /\ chain' = chain
        /\ (coord' = coord \/ coord' \in {"leaving", "dead", "steer"})
    BY DEF IInv, Shapes
  <2> QED BY <2>1, <2>2 DEF IInv, Stamped, Chained, Untried, Told
<1> QED BY <1>1, <1>2, <1>3, <1>4 DEF IInv

\* A death takes the threads and nothing else.
LEMMA DieKeeps ==
  ASSUME IInv, Die
  PROVE  IInv'
<1> USE DEF Die, Settled, laneVars, diskVars
<1>1. Shapes'
  BY DEF IInv, Shapes, Places
<1>2. ASSUME NEW id \in Id PROVE Kept(id)'
  BY <1>2 DEF IInv, Shapes, Kept, Watching, Importing
<1>3. Counted'
  BY DEF IInv, Shapes, Counted
<1>4. Stamped'
  BY DEF IInv, Stamped, Chained, Untried, Told, Joined
<1> QED BY <1>1, <1>2, <1>3, <1>4 DEF IInv

\* A sweep takes a clone whose commits the origin has, or one without any.
LEMMA SweepKeeps ==
  ASSUME IInv, NEW g \in Group, Sweep(g)
  PROVE  IInv'
<1> USE DEF Sweep, coordVars, threadVars, laneVars
<1>1. Shapes'
  BY DEF IInv, Shapes
<1>2. ASSUME NEW id \in Id PROVE Kept(id)'
  <2>1. id \in clone /\ id \notin clone' => (tip[id] > 0 => branch[id] = tip[id])
    BY DEF MayGo
  <2> QED BY <2>1 DEF IInv, Kept
<1>3. Counted' /\ Stamped'
  BY DEF IInv, Counted, Stamped, Chained, Untried, Told, Joined
<1> QED BY <1>1, <1>2, <1>3 DEF IInv

\* Every step, and every stutter, keeps the invariant.
LEMMA NextKeeps ==
  ASSUME IInv, [Next]_vars
  PROVE  IInv'
<1>1. ASSUME NEW id \in Id, LaneStep(id) \/ ThreadStep(id) \/ MergeStep(id) PROVE IInv'
  BY <1>1, LaneKeeps
<1>2. CASE CoordinatorStep
  BY <1>2, SpawnGroupKeeps, AllReturnKeeps, AbortKeeps, JoinKeeps, StampKeeps, AwayKeeps
  DEF CoordinatorStep
<1>3. CASE CountGroup \/ Interrupt \/ Die \/ Resume \/ AskStop
  BY <1>3, CountGroupKeeps, DieKeeps, AwayKeeps
<1>4. ASSUME NEW g \in Group, Sweep(g) PROVE IInv'
  BY <1>4, SweepKeeps
<1>5. CASE UNCHANGED vars
  <2> USE <1>5 DEF vars, coordVars, threadVars, laneVars, diskVars
  <2>1. \A id \in Id : Kept(id)'
    BY LanesStay
  <2> QED BY <2>1 DEF IInv, Shapes, Counted, Stamped, Chained, Untried, Told, Joined
<1> QED BY <1>1, <1>2, <1>3, <1>4, <1>5 DEF Next, Machine

\* Before the first directive it holds.
LEMMA InitHolds ==
  ASSUME Init
  PROVE  IInv
<1>1. Shapes
  BY DEF Init, Shapes, Places
<1>2. ASSUME NEW id \in Id PROVE Kept(id)
  BY DEF Init, Kept, Watching, Importing, MergePlaces
<1>3. Counted /\ Stamped
  BY DEF Init, Counted, Stamped, Chained, Untried, Told
<1> QED BY <1>1, <1>2, <1>3 DEF IInv

\* The inductive invariant holds in every reachable state, for any number of tasks, lanes,
\* groups, commits and troubles.
THEOREM Invariance == Spec => []IInv
<1>1. Init => IInv
  BY InitHolds
<1>2. IInv /\ [Next]_vars => IInv'
  BY NextKeeps
<1> QED BY <1>1, <1>2, PTL DEF Spec

\* No commit of a lane and no session directory is ever lost: whatever dies, fails, sweeps or
\* merges, the commits are on the origin's branch or in the clone.
THEOREM HomeHolds == Spec => []WorkHasAHome
<1>1. IInv => WorkHasAHome
  BY DEF IInv, Shapes, Kept, WorkHasAHome
<1> QED BY <1>1, Invariance, PTL

\* The chain holds whole, deliberate results of lanes at rest, and every stamped node says what
\* its own lanes did.
THEOREM StampsHold == Spec => []StampsTellTheChain
<1>1. IInv => StampsTellTheChain
  <2>1. ASSUME IInv PROVE \A id \in chain : branch[id] = tip[id] /\ Produced(id) /\ ~Alive(id)
    BY <2>1 DEF IInv, Shapes, Kept, Produced, Alive
  <2>2. ASSUME IInv PROVE \A nd \in DOMAIN node : /\ node[nd] = "passed" => Joined(nd)
                                                  /\ node[nd] = "failed" => ~Joined(nd)
    BY <2>2 DEF IInv, Shapes, Stamped, Chained, Untried, Told
  <2> QED BY <2>1, <2>2 DEF StampsTellTheChain, Joined
<1> QED BY <1>1, Invariance, PTL

\* Only the start of a group sends a lane's thread to clone.
LEMMA OnlyGroupsClone ==
  ASSUME IInv, [Next]_vars, NEW id \in Id, thread'[id] = "clone", thread[id] # "clone"
  PROVE  SpawnGroup
<1> USE DEF threadVars
<1>1. thread \in [Id -> Places]
  BY DEF IInv, Shapes
<1>2. ASSUME NEW o \in Id, ThreadStep(o) PROVE FALSE
  BY <1>1, <1>2 DEF ThreadStep, Clone, Locate, Link, Await, FinishTurn, Drain, Unlink, Check, Fetch,
                    Move, Tidy, Goes, Returns, Refuse
<1>3. ASSUME NEW o \in Id, LaneStep(o) \/ MergeStep(o) PROVE FALSE
  BY <1>3 DEF LaneStep, LaneMakesDir, LaneStarts, LaneCommits, LaneEnds, LaneGoes,
              MergeStep, MergeLooks, MergeUnlinks, MergeChecks, MergeFetches, MergeMoves
<1>4. ASSUME CountGroup \/ Interrupt \/ Die \/ Resume \/ AskStop \/ AllReturn \/ Abort \/ Join
             \/ Stamp \/ Leave
      PROVE  FALSE
  BY <1>1, <1>4 DEF CountGroup, Interrupt, Die, Resume, AskStop, AllReturn, Abort, Join, Stamp, Leave
<1>5. ASSUME NEW g \in Group, Sweep(g) PROVE FALSE
  BY <1>5 DEF Sweep
<1>6. ASSUME UNCHANGED vars PROVE FALSE
  BY <1>6 DEF vars
<1> QED BY <1>2, <1>3, <1>4, <1>5, <1>6 DEF Next, Machine, CoordinatorStep

\* Only an import or an adopting merge that fetched moves a lane's directory.
LEMMA OnlyMovesMove ==
  ASSUME IInv, [Next]_vars, NEW id \in Id, where'[id] = "origin", where[id] # "origin"
  PROVE  worker[id] = "gone"
<1> USE DEF diskVars
<1>1. where \in [Id -> {"none", "clone", "origin"}] /\ Kept(id)
  BY DEF IInv, Shapes
<1>2. ASSUME NEW o \in Id, ThreadStep(o) PROVE thread[id] = "move"
  BY <1>1, <1>2 DEF ThreadStep, Clone, Locate, Link, Await, FinishTurn, Drain, Unlink, Check, Fetch,
                    Move, Tidy
<1>3. ASSUME NEW o \in Id, LaneStep(o) PROVE FALSE
  BY <1>1, <1>3 DEF LaneStep, LaneMakesDir, LaneStarts, LaneCommits, LaneEnds, LaneGoes
<1>4. ASSUME NEW o \in Id, MergeStep(o) PROVE merger = <<"move", id>>
  BY <1>1, <1>4 DEF MergeStep, MergeLooks, MergeUnlinks, MergeChecks, MergeFetches, MergeMoves
<1>5. ASSUME CountGroup \/ Interrupt \/ Die \/ Resume \/ AskStop \/ CoordinatorStep
      PROVE  FALSE
  BY <1>5 DEF CountGroup, Interrupt, Die, Resume, AskStop, CoordinatorStep, SpawnGroup, AllReturn,
              Abort, Join, Stamp, Leave
<1>6. ASSUME NEW g \in Group, Sweep(g) PROVE FALSE
  BY <1>6 DEF Sweep
<1>7. ASSUME UNCHANGED vars PROVE FALSE
  BY <1>7 DEF vars
<1>8. thread[id] = "move" \/ merger = <<"move", id>>
  BY <1>2, <1>3, <1>4, <1>5, <1>6, <1>7 DEF Next, Machine
<1> QED BY <1>1, <1>8 DEF Kept, Importing, MergePlaces

\* A lane's names are given out once: it is cloned only from a thread that was never started.
THEOREM NamesHold == Spec => NamesUsedOnce
<1>1. ASSUME IInv, [Next]_vars, NEW id \in Id, thread'[id] = "clone", thread[id] # "clone"
      PROVE  thread[id] = "idle"
  <2>1. SpawnGroup
    BY <1>1, OnlyGroupsClone
  <2> QED BY <1>1, <2>1 DEF SpawnGroup, IInv, Shapes, Counted
<1>2. IInv /\ [Next]_vars =>
        [\A id \in Id : thread'[id] = "clone" /\ thread[id] # "clone" => thread[id] = "idle"]_vars
  BY <1>1
<1> QED BY <1>2, Invariance, PTL DEF Spec, NamesUsedOnce

\* A lane's directory is moved and its clone torn down only when its process has gone.
THEOREM RestHolds == Spec => TakenAtRest
<1>1. ASSUME IInv, [Next]_vars, NEW id \in Id,
             (where[id] # where'[id] /\ where'[id] = "origin")
             \/ (thread[id] = "tidy" /\ thread'[id] = "done")
      PROVE  worker[id] = "gone"
  BY <1>1, OnlyMovesMove DEF IInv, Kept, Importing
<1>2. IInv /\ [Next]_vars =>
        [\A id \in Id :
           (where[id] # where'[id] /\ where'[id] = "origin") \/ (thread[id] = "tidy" /\ thread'[id] = "done")
           => worker[id] = "gone"]_vars
  BY <1>1
<1> QED BY <1>2, Invariance, PTL DEF Spec, TakenAtRest

============================================================================
