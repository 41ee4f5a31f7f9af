------------------------------- MODULE Lanes -------------------------------
(***************************************************************************)
(* A running session's /parallel directive: the coordinator's dispatcher   *)
(* (harness/parallel_dispatch.py), the lane threads behind it              *)
(* (app/lanes.py, app/lane_watch.py, app/parallel_results.py,              *)
(* harness/subrun.py, app/workdirs.py), the detached lane processes, and   *)
(* the two operator commands that touch a lane from outside: `sessions     *)
(* merge`, which adopts an orphan, and the clone sweep of `sessions prune`.*)
(*                                                                         *)
(* A lane is <<group, number>>: its clone, its session and its branch all  *)
(* take their names from that pair.                                        *)
(***************************************************************************)
EXTENDS Naturals, FiniteSets

CONSTANTS
    Tasks,       \* the tasks of one directive, a node of the graph each
    Width,       \* the lanes of one task
    MaxGroups,   \* bound: directives steered in
    MaxCommits,  \* bound: commits of one lane
    MaxTrouble,  \* bound: deaths, stops, faults, sweeps and merges together
    MaxDeaths,   \* bound: deaths of the coordinator
    MaxStops,    \* bound: stop requests of the operator
    MaxFaults,   \* bound: file and git operations that fail
    MaxSweeps,   \* bound: runs of the clone sweep
    MaxMerges    \* bound: operator merges of a lane

ASSUME LaneAssumption == /\ Tasks \in Nat \ {0} /\ Width \in Nat \ {0}
                         /\ MaxGroups \in Nat /\ MaxCommits \in Nat

Task  == 1..Tasks
Lane  == 1..(Tasks * Width)
Group == 1..MaxGroups
Id    == Group \X Lane

LanesOf(t) == ((t - 1) * Width + 1)..(t * Width)
OfGroup(g) == {g} \X Lane

VARIABLES
    coord,   \* what the coordinator is doing
    count,   \* state.parallel_groups_dispatched
    saved,   \* the same in the resume snapshot on disk
    cursor,  \* the lane or the task the coordinator is at
    node,    \* the status of a dispatched task's node
    chain,   \* the lanes merged onto the coordinator's chain
    asked,   \* the coordinator's stop marker
    hard,    \* the groups whose hard_stop event is set
    thread,  \* where a lane's thread is
    hadLink, \* the lanes whose link their import dropped
    result,  \* the LaneResult a thread returned
    clone,   \* the lanes whose clone is on disk
    worker,  \* a lane's process
    outcome, \* how the lane's log says it ended
    tip,     \* the commits on the lane's branch in its clone
    where,   \* where the lane's session directory is
    link,    \* the lanes with a live-view symlink under the origin's runs
    branch,  \* the commits on the lane's branch in the origin
    merger,  \* where `sessions merge` is in adopting a lane
    spent    \* how much of each bound is used

coordVars == <<coord, count, saved, cursor, node, chain, asked, hard>>
threadVars == <<thread, hadLink, result>>
laneVars  == <<worker, outcome, tip>>
diskVars  == <<clone, where, link, branch>>
vars == <<coordVars, threadVars, laneVars, diskVars, merger, spent>>

Bounds == [deaths |-> MaxDeaths, stops |-> MaxStops, faults |-> MaxFaults,
           sweeps |-> MaxSweeps, merges |-> MaxMerges]

SumSpent == spent.deaths + spent.stops + spent.faults + spent.sweeps + spent.merges

Spend(what) == /\ spent[what] < Bounds[what]
               /\ SumSpent < MaxTrouble
               /\ spent' = [spent EXCEPT ![what] = @ + 1]

-----------------------------------------------------------------------------
(* What the threads and the commands look at.                              *)

\* worker.pid names a live process. It is written before the first event.
Alive(id) == worker[id] \in {"running", "ended"}

\* The log that tells a spawn its child is up.
Logged(id) == worker[id] \in {"running", "ended", "gone"}

\* Mutant: Terminal with the fold's word alone, without the worker being gone.
TerminalByFold(id) == where[id] = "origin" \/ worker[id] # "running"

\* The fold no longer says "running", and no worker lives. A directory that
\* has been moved away reads as one that never started.
Terminal(id) == where[id] = "origin" \/ ~Alive(id)

\* The word the fold gives is one of RESULT_WORDS.
Produced(id) == outcome[id] = "result"

ShouldStop(id) == id[1] \in hard \/ asked # "none"
StopIsNow(id)  == id[1] \in hard \/ asked = "now"

\* The import lock of the lane's group is free.
Unlocked(id) == \A other \in OfGroup(id[1]) : thread[other] \notin {"fetch", "move"}

Goes(id, to) == thread' = [thread EXCEPT ![id] = to]

Returns(id, answer) == /\ Goes(id, "done")
                       /\ result' = [result EXCEPT ![id] = answer]

-----------------------------------------------------------------------------
(* The lane's own process, detached from the coordinator.                  *)

\* The child makes its session directory, writes its pid and then its first
\* event: until then it is alive with nothing to show for it.
LaneMakesDir(id) ==
    /\ worker[id] = "booting"
    /\ worker' = [worker EXCEPT ![id] = "made"]
    /\ where' = [where EXCEPT ![id] = "clone"]
    /\ UNCHANGED <<coordVars, threadVars, outcome, tip, clone, link, branch, merger, spent>>

LaneStarts(id) ==
    /\ worker[id] = "made"
    /\ worker' = [worker EXCEPT ![id] = "running"]
    /\ UNCHANGED <<coordVars, threadVars, outcome, tip, diskVars, merger, spent>>

LaneCommits(id) ==
    /\ worker[id] = "running" /\ id \in clone /\ tip[id] < MaxCommits
    /\ tip' = [tip EXCEPT ![id] = @ + 1]
    /\ UNCHANGED <<coordVars, threadVars, worker, outcome, diskVars, merger, spent>>

\* session.end lands before the teardown clears worker.pid.
LaneEnds(id) ==
    /\ worker[id] = "running"
    /\ worker' = [worker EXCEPT ![id] = "ended"]
    /\ \E how \in {"result", "none"} : outcome' = [outcome EXCEPT ![id] = how]
    /\ UNCHANGED <<coordVars, threadVars, tip, diskVars, merger, spent>>

\* The teardown, or a death at any point before it.
LaneGoes(id) ==
    /\ \/ /\ worker[id] \in {"booting", "made"}
          /\ worker' = [worker EXCEPT ![id] = "stillborn"]
       \/ /\ Alive(id)
          /\ worker' = [worker EXCEPT ![id] = "gone"]
    /\ UNCHANGED <<coordVars, threadVars, outcome, tip, diskVars, merger, spent>>

LaneStep(id) == \/ LaneMakesDir(id) \/ LaneStarts(id) \/ LaneCommits(id)
                \/ LaneEnds(id)     \/ LaneGoes(id)

-----------------------------------------------------------------------------
(* A lane's thread: run_lane_to_completion.                                *)

\* git clone refuses a path that exists, and can fail by itself.
Clone(id) ==
    /\ thread[id] = "clone"
    /\ \/ /\ id \notin clone
          /\ clone' = clone \union {id}
          /\ worker' = [worker EXCEPT ![id] = "booting"]
          /\ Goes(id, "locate")
          /\ UNCHANGED <<result, spent>>
       \/ /\ Returns(id, "failed")
          /\ IF id \in clone THEN UNCHANGED spent ELSE Spend("faults")
          /\ UNCHANGED <<clone, worker>>
    /\ UNCHANGED <<coordVars, hadLink, outcome, tip, where, link, branch, merger>>

\* The spawn waits for a directory with a log. A child that died first, or a
\* wait that runs out, is a lane that failed to start: the child may live on.
Locate(id) ==
    /\ thread[id] = "locate"
    /\ \/ Logged(id) /\ Goes(id, "link") /\ UNCHANGED result
       \/ ~Logged(id) /\ Returns(id, "failed")
    /\ UNCHANGED <<coordVars, hadLink, laneVars, diskVars, merger, spent>>

\* symlink_lane raises where a real directory already has the link's name.
Link(id) ==
    /\ thread[id] = "link"
    /\ IF where[id] = "origin"
       THEN Goes(id, "raised") /\ UNCHANGED link
       ELSE Goes(id, "await") /\ link' = link \union {id}
    /\ UNCHANGED <<coordVars, hadLink, result, laneVars, clone, where, branch, merger, spent>>

\* A plain request lets the lane finish its turn and waits for that; `now`
\* hands its command back and waits the grace.
Await(id) ==
    /\ thread[id] = "await"
    /\ \/ Terminal(id) /\ Goes(id, "unlink")
       \/ ~Terminal(id) /\ ShouldStop(id) /\ ~StopIsNow(id) /\ Goes(id, "turn")
       \/ ~Terminal(id) /\ StopIsNow(id) /\ Goes(id, "drain")
    /\ UNCHANGED <<coordVars, hadLink, result, laneVars, diskVars, merger, spent>>

FinishTurn(id) ==
    /\ thread[id] = "turn"
    /\ \/ Terminal(id) /\ Goes(id, "unlink")
       \/ ~Terminal(id) /\ StopIsNow(id) /\ Goes(id, "drain")
    /\ UNCHANGED <<coordVars, hadLink, result, laneVars, diskVars, merger, spent>>

\* Mutant: Drain without its deadline.
DrainForEver(id) ==
    /\ thread[id] = "drain" /\ Terminal(id) /\ Goes(id, "unlink")
    /\ UNCHANGED <<coordVars, hadLink, result, laneVars, diskVars, merger, spent>>

\* Mutant: Drain that goes on to the import when its deadline passes.
DrainImports(id) ==
    /\ thread[id] = "drain" /\ Goes(id, "unlink")
    /\ UNCHANGED <<coordVars, hadLink, result, laneVars, diskVars, merger, spent>>

\* The grace runs out, or a teardown skips it: the lane keeps running and its
\* clone and link hold the only copy of its work.
Drain(id) ==
    /\ thread[id] = "drain"
    /\ \/ Terminal(id) /\ id[1] \notin hard /\ Goes(id, "unlink") /\ UNCHANGED result
       \/ Returns(id, "failed")
    /\ UNCHANGED <<coordVars, hadLink, laneVars, diskVars, merger, spent>>

\* import_lane drops the link before it waits for the import lock.
Unlink(id) ==
    /\ thread[id] = "unlink"
    /\ hadLink' = IF id \in link THEN hadLink \union {id} ELSE hadLink
    /\ link' = link \ {id}
    /\ Goes(id, "check")
    /\ UNCHANGED <<coordVars, result, laneVars, clone, where, branch, merger, spent>>

\* A refused import puts the link back, and raises where the directory has
\* meanwhile been imported by another.
Refuse(id) ==
    IF id \notin hadLink
    THEN Returns(id, "failed") /\ UNCHANGED link
    ELSE IF where[id] = "origin"
         THEN Goes(id, "raised") /\ UNCHANGED <<result, link>>
         ELSE Returns(id, "failed") /\ link' = link \union {id}

\* import_run's refusals, with the lock taken. Where the sweep has taken the
\* clone, git itself cannot be started, which nothing on the way catches.
Check(id) ==
    /\ thread[id] = "check" /\ Unlocked(id)
    /\ IF branch[id] # 0 \/ where[id] = "origin" \/ id \in link
       THEN Refuse(id)
       ELSE /\ Goes(id, IF id \in clone THEN "fetch" ELSE "raised")
            /\ UNCHANGED <<result, link>>
    /\ UNCHANGED <<coordVars, hadLink, laneVars, clone, where, branch, merger, spent>>

\* A lane that never committed has no branch to land.
Fetch(id) ==
    /\ thread[id] = "fetch"
    /\ \/ /\ Goes(id, "move")
          /\ branch' = [branch EXCEPT ![id] = tip[id]]
          /\ UNCHANGED <<result, link, spent>>
       \/ /\ tip[id] > 0 /\ Refuse(id)
          /\ Spend("faults")
          /\ UNCHANGED branch
    /\ UNCHANGED <<coordVars, hadLink, laneVars, clone, where, merger>>

\* The session directory takes the link's place. It cannot where the directory
\* is gone or the link has come back.
Moves(id) == where[id] = "clone" /\ id \notin link

Move(id) ==
    /\ thread[id] = "move"
    /\ \/ /\ Moves(id) /\ Goes(id, "tidy")
          /\ where' = [where EXCEPT ![id] = "origin"]
          /\ UNCHANGED spent
       \/ /\ Goes(id, "raised")
          /\ IF Moves(id) THEN Spend("faults") ELSE UNCHANGED spent
          /\ UNCHANGED where
    /\ UNCHANGED <<coordVars, hadLink, result, laneVars, clone, link, branch, merger>>

\* Memory and rulings are carried back, then the clone and its state directory
\* go. Only a lane that ended on purpose is a success.
Tidy(id) ==
    /\ thread[id] = "tidy"
    /\ \/ /\ clone' = clone \ {id}
          /\ where' = [where EXCEPT ![id] = IF @ = "clone" THEN "none" ELSE @]
          /\ Returns(id, IF Produced(id) THEN "ok" ELSE "failed")
          /\ UNCHANGED spent
       \/ /\ Goes(id, "raised") /\ Spend("faults")
          /\ UNCHANGED <<clone, where, result>>
    /\ UNCHANGED <<coordVars, hadLink, laneVars, link, branch, merger>>

ThreadStep(id) == \/ Clone(id) \/ Locate(id) \/ Link(id) \/ Await(id)
                  \/ FinishTurn(id) \/ Drain(id) \/ Unlink(id) \/ Check(id)
                  \/ Fetch(id) \/ Move(id) \/ Tidy(id)

Settled(id) == thread[id] \in {"done", "raised"}

-----------------------------------------------------------------------------
(* The coordinator: ParallelDispatcher.dispatch, at a steer boundary.      *)

\* Mutant: CountGroup without the save.
CountGroupInMemory ==
    /\ coord = "steer" /\ count < MaxGroups
    /\ count' = count + 1 /\ coord' = "counted"
    /\ UNCHANGED <<saved, cursor, node, chain, asked, hard, threadVars, laneVars, diskVars>>
    /\ UNCHANGED <<merger, spent>>

\* The group is counted, and the count saved, before anything of it exists.
CountGroup ==
    /\ coord = "steer" /\ count < MaxGroups
    /\ count' = count + 1 /\ saved' = count + 1
    /\ coord' = "counted"
    /\ UNCHANGED <<cursor, node, chain, asked, hard, threadVars, laneVars, diskVars, merger, spent>>

\* One node a task, then the group's threads; or the spawner refuses the
\* group before any clone, over the lane cap or for a model it cannot name.
SpawnGroup ==
    /\ coord = "counted"
    /\ \/ /\ coord' = "waiting"
          /\ node' = [nd \in DOMAIN node |-> IF nd[1] = count THEN "open" ELSE node[nd]]
          /\ thread' = [id \in Id |-> IF id[1] = count THEN "clone" ELSE thread[id]]
       \/ /\ coord' = "steer"
          /\ node' = [nd \in DOMAIN node |-> IF nd[1] = count THEN "failed" ELSE node[nd]]
          /\ UNCHANGED thread
    /\ UNCHANGED <<count, saved, cursor, chain, asked, hard, hadLink, result>>
    /\ UNCHANGED <<laneVars, diskVars, merger, spent>>

Returned == \A id \in OfGroup(count) : thread[id] = "done"

AllReturn ==
    /\ coord = "waiting" /\ Returned
    /\ coord' = "join" /\ cursor' = 1
    /\ UNCHANGED <<count, saved, node, chain, asked, hard>>
    /\ UNCHANGED <<threadVars, laneVars, diskVars, merger, spent>>

\* One thread that raises aborts the group: hard_stop tells the others, and
\* the dispatcher answers the steer with every node failed.
Abort ==
    /\ coord = "waiting"
    /\ \E id \in OfGroup(count) : thread[id] = "raised"
    /\ hard' = hard \union {count}
    /\ node' = [nd \in DOMAIN node |-> IF nd[1] = count THEN "failed" ELSE node[nd]]
    /\ coord' = "steer" /\ asked' = "none"
    /\ UNCHANGED <<count, saved, cursor, chain, threadVars, laneVars, diskVars, merger, spent>>

\* chain_merge of the lanes in order: the first one is a fast-forward, a later
\* one may conflict, and a lane with no branch has nothing to merge.
Join ==
    /\ coord = "join"
    /\ LET id == <<count, cursor>>
           first == chain \cap OfGroup(count) = {}
           mergeable == result[id] = "ok" /\ branch[id] > 0
       IN \/ mergeable /\ chain' = chain \union {id}
          \/ (~mergeable \/ ~first) /\ UNCHANGED chain
    /\ IF cursor < Tasks * Width
       THEN cursor' = cursor + 1 /\ UNCHANGED coord
       ELSE cursor' = 1 /\ coord' = "stamp"
    /\ UNCHANGED <<count, saved, node, asked, hard, threadVars, laneVars, diskVars, merger, spent>>

\* Mutant: StampOf with the cursor left at the first task's lanes.
StampOfFirst(t) == IF \E l \in LanesOf(1) : <<count, l>> \in chain THEN "passed" ELSE "failed"

\* segment_stamp: a task passes when any of its own lanes joined.
StampOf(t) == IF \E l \in LanesOf(t) : <<count, l>> \in chain THEN "passed" ELSE "failed"

\* The group done, the loop consumes the stop marker at its boundary.
Stamp ==
    /\ coord = "stamp"
    /\ node' = [node EXCEPT ![<<count, cursor>>] = StampOf(cursor)]
    /\ IF cursor < Tasks
       THEN cursor' = cursor + 1 /\ UNCHANGED <<coord, asked>>
       ELSE cursor' = 0 /\ coord' = "steer" /\ asked' = "none"
    /\ UNCHANGED <<count, saved, chain, hard, threadVars, laneVars, diskVars, merger, spent>>

\* Ctrl-C in the wait leaves the loop; the process then waits for its threads.
Interrupt ==
    /\ coord = "waiting" /\ Spend("stops")
    /\ hard' = hard \union {count} /\ coord' = "leaving"
    /\ UNCHANGED <<count, saved, cursor, node, chain, asked, threadVars, laneVars, diskVars, merger>>

Leave ==
    /\ coord = "leaving" /\ \A id \in OfGroup(count) : Settled(id)
    /\ coord' = "dead"
    /\ UNCHANGED <<count, saved, cursor, node, chain, asked, hard>>
    /\ UNCHANGED <<threadVars, laneVars, diskVars, merger, spent>>

\* A death takes the threads with it and leaves the detached lanes running.
Die ==
    /\ coord # "dead" /\ Spend("deaths")
    /\ coord' = "dead" /\ cursor' = 0
    /\ thread' = [id \in Id |-> IF thread[id] = "idle" \/ Settled(id) THEN thread[id] ELSE "dead"]
    /\ UNCHANGED <<count, saved, node, chain, asked, hard, hadLink, result>>
    /\ UNCHANGED <<laneVars, diskVars, merger>>

Resume ==
    /\ coord = "dead"
    /\ coord' = "steer" /\ count' = saved /\ asked' = "none"
    /\ UNCHANGED <<saved, cursor, node, chain, hard, threadVars, laneVars, diskVars, merger, spent>>

CoordinatorStep == SpawnGroup \/ AllReturn \/ Abort \/ Join \/ Stamp \/ Leave

-----------------------------------------------------------------------------
(* The operator, beside the coordinator.                                   *)

AskStop ==
    /\ coord # "dead" /\ Spend("stops")
    /\ \E how \in {"plain", "now"} : asked' = IF asked = "now" THEN "now" ELSE how
    /\ UNCHANGED <<coord, count, saved, cursor, node, chain, hard>>
    /\ UNCHANGED <<threadVars, laneVars, diskVars, merger>>

\* `sessions merge` adopts a lane that is not live, whose branch the origin
\* lacks and whose clone has it, through the link the coordinator left.
MergeLooks(id) ==
    /\ merger = <<"idle">> /\ Spend("merges")
    /\ id \in link /\ ~Alive(id) /\ branch[id] = 0
    /\ id \in clone /\ tip[id] > 0
    /\ merger' = <<"unlink", id>>
    /\ UNCHANGED <<coordVars, threadVars, laneVars, diskVars>>

MergeUnlinks(id) ==
    /\ merger = <<"unlink", id>>
    /\ merger' = IF id \in link THEN <<"check", id>> ELSE <<"idle">>
    /\ link' = link \ {id}
    /\ UNCHANGED <<coordVars, threadVars, laneVars, clone, where, branch, spent>>

MergeChecks(id) ==
    /\ merger = <<"check", id>>
    /\ IF branch[id] # 0 \/ where[id] = "origin" \/ id \in link
       THEN /\ merger' = <<"idle">>
            /\ link' = IF where[id] = "clone" THEN link \union {id} ELSE link
       ELSE /\ merger' = IF id \in clone THEN <<"fetch", id>> ELSE <<"idle">>
            /\ UNCHANGED link
    /\ UNCHANGED <<coordVars, threadVars, laneVars, clone, where, branch, spent>>

MergeFetches(id) ==
    /\ merger = <<"fetch", id>>
    /\ IF id \in clone
       THEN /\ branch' = [branch EXCEPT ![id] = tip[id]]
            /\ merger' = <<"move", id>>
            /\ UNCHANGED link
       ELSE /\ merger' = <<"idle">>
            /\ link' = IF where[id] = "clone" THEN link \union {id} ELSE link
            /\ UNCHANGED branch
    /\ UNCHANGED <<coordVars, threadVars, laneVars, clone, where, spent>>

MergeMoves(id) ==
    /\ merger = <<"move", id>>
    /\ merger' = <<"idle">>
    /\ where' = [where EXCEPT ![id] = IF Moves(id) THEN "origin" ELSE @]
    /\ UNCHANGED <<coordVars, threadVars, laneVars, clone, link, branch, spent>>

MergeStep(id) == \/ MergeLooks(id) \/ MergeUnlinks(id) \/ MergeChecks(id)
                 \/ MergeFetches(id) \/ MergeMoves(id)

\* A clone may go when the origin reaches its commits, or when it has none and
\* its session is on record and not live.
MayGo(id) == IF tip[id] > 0 THEN branch[id] = tip[id]
                            ELSE where[id] = "clone" /\ ~Alive(id)

\* The sweep takes a group's clones together, or none of them.
Sweep(g) ==
    LET clones == clone \cap OfGroup(g)
    IN /\ clones # {} /\ \A id \in clones : MayGo(id)
       /\ clone' = clone \ clones
       /\ Spend("sweeps")
       /\ UNCHANGED <<coordVars, threadVars, laneVars, where, link, branch, merger>>

-----------------------------------------------------------------------------
Init ==
    /\ coord = "steer" /\ count = 0 /\ saved = 0 /\ cursor = 0
    /\ node = [nd \in Group \X Task |-> "none"]
    /\ chain = {} /\ asked = "none" /\ hard = {}
    /\ thread = [id \in Id |-> "idle"] /\ hadLink = {}
    /\ result = [id \in Id |-> "none"]
    /\ clone = {} /\ worker = [id \in Id |-> "none"]
    /\ outcome = [id \in Id |-> "none"] /\ tip = [id \in Id |-> 0]
    /\ where = [id \in Id |-> "none"] /\ link = {}
    /\ branch = [id \in Id |-> 0]
    /\ merger = <<"idle">>
    /\ spent = [what \in DOMAIN Bounds |-> 0]

Machine == CoordinatorStep \/ \E id \in Id : ThreadStep(id)

Next ==
    \/ Machine
    \/ CountGroup \/ Interrupt \/ Die \/ Resume \/ AskStop
    \/ \E id \in Id : LaneStep(id) \/ MergeStep(id)
    \/ \E g \in Group : Sweep(g)

Spec == Init /\ [][Next]_vars

\* The coordinator and its threads keep running: their loops poll and every
\* wait of theirs but the one on a lane has an end. Lanes may hang for ever.
FairSpec == Spec /\ WF_vars(Machine)

-----------------------------------------------------------------------------
\* Every variable stays in its range.
TypeOK ==
    /\ coord \in {"steer", "counted", "waiting", "join", "stamp", "leaving", "dead"}
    /\ count \in 0..MaxGroups /\ saved \in 0..MaxGroups /\ cursor \in 0..(Tasks * Width)
    /\ node \in [Group \X Task -> {"none", "open", "passed", "failed"}]
    /\ chain \subseteq Id /\ asked \in {"none", "plain", "now"} /\ hard \subseteq Group
    /\ thread \in [Id -> {"idle", "clone", "locate", "link", "await", "turn", "drain", "unlink",
                          "check", "fetch", "move", "tidy", "done", "raised", "dead"}]
    /\ hadLink \subseteq Id /\ result \in [Id -> {"none", "ok", "failed"}]
    /\ clone \subseteq Id /\ link \subseteq Id
    /\ worker \in [Id -> {"none", "booting", "made", "running", "ended", "gone", "stillborn"}]
    /\ outcome \in [Id -> {"none", "result"}]
    /\ tip \in [Id -> 0..MaxCommits] /\ branch \in [Id -> 0..MaxCommits]
    /\ where \in [Id -> {"none", "clone", "origin"}]
    /\ merger \in {<<"idle">>} \union ({"unlink", "check", "fetch", "move"} \X Id)
    /\ spent \in [DOMAIN Bounds -> Nat]

\* A lane's work has a home: its commits are all on the origin's branch or its
\* clone is still there, and a session directory it made is somewhere
\* (run_lane_to_completion, import_run, cleanup, sweep_fanout_clones).
WorkHasAHome ==
    \A id \in Id :
       /\ tip[id] > 0 => branch[id] = tip[id] \/ id \in clone
       /\ worker[id] \notin {"none", "booting", "stillborn"} => where[id] # "none"

\* The chain holds only whole, deliberate results, and a node that was stamped
\* says what its own lanes did (join_lane_result, segment_stamp).
StampsTellTheChain ==
    /\ \A id \in chain : branch[id] = tip[id] /\ Produced(id) /\ ~Alive(id)
    /\ \A nd \in DOMAIN node :
          LET joined == \E l \in LanesOf(nd[2]) : <<nd[1], l>> \in chain
          IN /\ node[nd] = "passed" => joined
             /\ node[nd] = "failed" => ~joined

\* A group's name is used once, whatever dies in between: a lane is never
\* cloned, named and branched over an earlier one (dispatch saves the count
\* before the group blocks).
NamesUsedOnce ==
    [][\A id \in Id : thread'[id] = "clone" /\ thread[id] # "clone" => thread[id] = "idle"]_vars

\* A lane's directory is moved, and its clone torn down, only when the lane
\* wrote its log and its process is gone (lane_terminal, drain_lane, cleanup).
TakenAtRest ==
    [][\A id \in Id :
          (where[id] # where'[id] /\ where'[id] = "origin") \/ (thread[id] = "tidy" /\ thread'[id] = "done")
          => worker[id] = "gone"]_vars

\* A stop with the `now` urgency gets the coordinator out of a group, however
\* its lanes hang (should_stop, stop_is_now, drain_lane).
NowEndsTheWait ==
    (coord = "waiting" /\ asked = "now") ~> (coord # "waiting")

\* The words of adopt_orphan_lane: a coordinator's death leaves a finished
\* lane's branch in its clone, with the origin still holding the link.
DeathLeavesTheLink ==
    \A id \in Id :
       coord = "dead" /\ worker[id] = "gone" /\ where[id] = "clone" /\ tip[id] > 0
       => id \in link
=============================================================================
