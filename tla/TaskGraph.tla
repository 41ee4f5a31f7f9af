---------------------------- MODULE TaskGraph ----------------------------
(***************************************************************************)
(* The task graph of one agent6 session: the curator that owns it          *)
(* (graph/curator.py), the files it keeps (graph/storage.py) and the       *)
(* rebuild of an older version for `fork --at-turn` (graph/replay.py).     *)
(*                                                                         *)
(* A mutation is one critical section under the session's flock.  It is    *)
(* validated against the nodes in memory, then makes its writes one by     *)
(* one: node files, the cursor file, and last the journal entry.  The      *)
(* writes still to make are `todo`; between any two of them the process    *)
(* can die, and any of them can fail.  A fork reads the files under the    *)
(* same flock, so it sees them only when `todo' is empty.                  *)
(***************************************************************************)
EXTENDS TaskOrder

CONSTANTS
    MaxTask,      \* bound: how many tasks a behaviour may create
    MaxVersion,   \* bound: how many mutations a behaviour may complete
    MaxCuts,      \* bound: how many mutations a fault or a crash may cut short
    MaxDeps,      \* bound: how many dependencies a draft may name
    Sha,          \* commits a task may be stamped with
    StatusInput,  \* the statuses callers ask for
    Draft,        \* the drafts callers ask for: [by, standing]
    Faults        \* which writes may fail besides a crash: "node", "entry", "torn"

NoSha == "no sha"
Task == 1..MaxTask
TaskOrNone == Task \cup {NoTask}

ASSUME BoundsAssumption == {MaxTask, MaxVersion, MaxCuts, MaxDeps} \subseteq Nat
ASSUME InputAssumption ==
    /\ StatusInput \subseteq Status
    /\ Draft \subseteq [by : Actor, standing : BOOLEAN]

Node == [parent : TaskOrNone, status : Status, deps : SUBSET Task, children : Seq(Task),
         standing : BOOLEAN, by : Actor, commit : Sha \cup {NoSha}, stamp : Nat]

Op == {"add_subtask", "update_status", "add_dependency", "record_commit", "set_cursor"}
Entry == [op : Op, id : TaskOrNone, ref : TaskOrNone,
          word : Status \cup Sha \cup {NoSha}, ver : Nat]

VARIABLES
    file,      \* node files: the tasks on disk
    journal,   \* graph.jsonl: its well-formed lines
    torn,      \* graph.jsonl ends in a line without its newline
    cursor,    \* cursor.json
    up,        \* a process has the curator open
    nodes,     \* the curator's nodes
    version,   \* the curator's graph_version
    todo,      \* the writes left in the mutation that holds the flock
    history,   \* the graph at the end of every completed mutation: what a
               \* checkpoint naming that version would want back
    lost,      \* tasks touched by a mutation whose journal entry is missing
    lostVer,   \* the numbers those mutations had stamped on node files
    cuts       \* how many mutations were cut short

disk == <<file, journal, torn, cursor>>
memory == <<up, nodes, version>>
ghosts == <<history, lost, lostVer, cuts>>
vars == <<disk, memory, todo, ghosts>>

IsGraph(g) ==
    /\ g = [t \in DOMAIN g |-> g[t]]
    /\ DOMAIN g \subseteq Task
    /\ \A t \in DOMAIN g : g[t] \in Node

NodeWrite(t, n) == [kind |-> "node", id |-> t, node |-> n]
CursorWrite(t) == [kind |-> "cursor", id |-> t]
EntryWrite(op, t, ref, word) ==
    [kind |-> "entry",
     entry |-> [op |-> op, id |-> t, ref |-> ref, word |-> word, ver |-> version + 1]]

-----------------------------------------------------------------------------
(* Loading.                                                                *)

With(g, t, n) == [u \in DOMAIN g \cup {t} |-> IF u = t THEN n ELSE g[u]]

\* A child whose parent's file is missing is re-rooted.
LoadGraph(f) ==
    [t \in DOMAIN f |->
        IF f[t].parent \in DOMAIN f THEN f[t] ELSE [f[t] EXCEPT !.parent = NoTask]]

SetMax(S, default) == IF S = {} THEN default ELSE CHOOSE m \in S : \A n \in S : n <= m

\* Mutant: the node count stands for the version.
ComputeGraphVersionByCount(j, g) == Cardinality(DOMAIN g)

\* The journal's highest version, else the node count.
ComputeGraphVersion(j, g) ==
    SetMax({j[i].ver : i \in DOMAIN j}, Cardinality(DOMAIN g))

\* Mutant: the node stamps are not looked at.
OpenVersionOfJournal(j, g) == ComputeGraphVersion(j, g)

\* Opening the curator continues from a node stamped newer than the journal.
OpenVersion(j, g) ==
    LET newest == SetMax({g[t].stamp : t \in DOMAIN g}, 0)
    IN  IF newest > ComputeGraphVersion(j, g) THEN newest ELSE ComputeGraphVersion(j, g)

-----------------------------------------------------------------------------
(* The operations: each validates its intent, then lines up its writes.    *)

Mutate(writes) ==
    /\ todo' = writes
    /\ UNCHANGED <<disk, memory, ghosts>>

Unlocked == up /\ todo = <<>> /\ version < MaxVersion

Stamped(n) == [n EXCEPT !.stamp = version + 1]

\* Mutant: the first id of an empty graph is zero.
NextTaskIdFromZero == SetMax(DOMAIN nodes, -1) + 1

NextTaskId == SetMax(DOMAIN nodes, 0) + 1

\* A new child goes after a named sibling, else last, ahead of a standing one.
Positions(p) == {i \in DOMAIN nodes[p].children :
                    /\ nodes[p].children[i] \in DOMAIN nodes
                    /\ nodes[nodes[p].children[i]].standing}

InsertAt(s, i, e) == SubSeq(s, 1, i - 1) \o <<e>> \o SubSeq(s, i, Len(s))

PlaceChild(p, id, after) ==
    LET children == nodes[p].children
    IN  IF after # NoTask
        THEN InsertAt(children, 1 + CHOOSE i \in DOMAIN children : children[i] = after, id)
        ELSE IF Positions(p) = {} THEN Append(children, id)
        ELSE InsertAt(children, CHOOSE i \in Positions(p) : \A j \in Positions(p) : i <= j, id)

\* Mutant: the parent's list is written before the child it names.
LinkWritesParentFirst(child, parent, entry) == <<parent, child, entry>>

\* The child is written before the parent's link, so a death between leaves an
\* orphan and never a dangling reference.
LinkWrites(child, parent, entry) == <<child, parent, entry>>

AddSubtask(p, draft, deps, after) ==
    LET id == NextTaskId
        child == [parent |-> p, status |-> "pending", deps |-> deps, children |-> <<>>,
                  standing |-> draft.standing /\ draft.by = "steering", by |-> draft.by,
                  commit |-> NoSha, stamp |-> version + 1]
        entry == EntryWrite("add_subtask", id, p, NoSha)
    IN  /\ Unlocked
        /\ id <= MaxTask
        /\ p \in DOMAIN nodes \cup {NoTask}
        /\ after # NoTask => p # NoTask /\ IsChildOf(after, nodes[p])
        /\ deps \subseteq DOMAIN nodes
        /\ Mutate(IF p = NoTask
                  THEN <<NodeWrite(id, child), entry>>
                  ELSE LinkWrites(NodeWrite(id, child),
                                  NodeWrite(p, Stamped([nodes[p] EXCEPT
                                     !.children = PlaceChild(p, id, after)])),
                                  entry))

\* Mutant: a retired task may be taken up again.
StatusAllowedAfterRetirement(t, s) ==
    /\ nodes[t].status = "passed" => s = "obsolete"
    /\ ~(nodes[t].standing /\ s = "passed")
    /\ s = "passed" /\ nodes[t].parent # NoTask => UnresolvedChildren(nodes, nodes[t]) = {}

\* An end is final, a standing task never passes, and a parent other than the
\* root passes over no unresolved child.
StatusAllowed(t, s) ==
    /\ nodes[t].status = "passed" => s = "obsolete"
    /\ nodes[t].status \in {"skipped", "obsolete"} => s = nodes[t].status
    /\ ~(nodes[t].standing /\ s = "passed")
    /\ s = "passed" /\ nodes[t].parent # NoTask => UnresolvedChildren(nodes, nodes[t]) = {}

UpdateStatus(t, s) ==
    LET update == NodeWrite(t, Stamped([nodes[t] EXCEPT !.status = s]))
        entry == EntryWrite("update_status", t, NoTask, s)
    IN  /\ Unlocked
        /\ t \in DOMAIN nodes
        /\ StatusAllowed(t, s)
        /\ Mutate(IF s = "in_progress"
                  THEN <<update, CursorWrite(t), entry>>
                  ELSE <<update, entry>>)

\* Mutant: only the edge straight back is a cycle.
WouldIntroduceShortCycle(t, d) == t = d \/ t \in nodes[d].deps

\* The walk from the new dependency reaches the task: every set of tasks that
\* has the dependency and is closed under depends_on has the task too.
WouldIntroduceCycle(t, d) ==
    \A S \in SUBSET Task :
        (d \in S /\ \A u \in S \cap DOMAIN nodes : nodes[u].deps \subseteq S) => t \in S

\* A dependency already present is a no-op.
AddDependency(t, d) ==
    /\ Unlocked
    /\ t \in DOMAIN nodes
    /\ d \in DOMAIN nodes
    /\ d \notin nodes[t].deps
    /\ ~WouldIntroduceCycle(t, d)
    /\ Mutate(<<NodeWrite(t, Stamped([nodes[t] EXCEPT !.deps = @ \cup {d}])),
                EntryWrite("add_dependency", t, d, NoSha)>>)

RecordCommit(t, sha) ==
    /\ Unlocked
    /\ t \in DOMAIN nodes
    /\ Mutate(<<NodeWrite(t, Stamped([nodes[t] EXCEPT !.commit = sha])),
                EntryWrite("record_commit", t, NoTask, sha)>>)

SetCursor(t) ==
    /\ Unlocked
    /\ t \in DOMAIN nodes \cup {NoTask}
    /\ Mutate(<<CursorWrite(t), EntryWrite("set_cursor", t, NoTask, NoSha)>>)

-----------------------------------------------------------------------------
(* The writes.                                                             *)

\* The tasks this mutation has already put on disk.
Touched(f) == {t \in DOMAIN f : f[t].stamp = version + 1}

Lose(f) ==
    /\ lost' = lost \cup Touched(f)
    /\ lostVer' = lostVer \cup (IF Touched(f) = {} THEN {} ELSE {version + 1})

WriteNode ==
    /\ todo # <<>> /\ Head(todo).kind = "node"
    /\ nodes' = With(nodes, Head(todo).id, Head(todo).node)
    /\ file' = With(file, Head(todo).id, Head(todo).node)
    /\ todo' = Tail(todo)
    /\ UNCHANGED <<journal, torn, cursor, up, version, ghosts>>

WriteCursor ==
    /\ todo # <<>> /\ Head(todo).kind = "cursor"
    /\ cursor' = Head(todo).id
    /\ todo' = Tail(todo)
    /\ UNCHANGED <<file, journal, torn, memory, ghosts>>

\* The version is bumped and the stamped entry appended.  An append onto a torn
\* line joins it, and the joined line is skipped by every reader.
PostMutation ==
    /\ todo # <<>> /\ Head(todo).kind = "entry"
    /\ version' = version + 1
    /\ IF torn THEN UNCHANGED journal /\ Lose(file)
               ELSE journal' = Append(journal, Head(todo).entry) /\ UNCHANGED <<lost, lostVer>>
    /\ torn' = FALSE
    /\ history' = history \cup {[ver |-> version + 1, nodes |-> nodes, cursor |-> cursor]}
    /\ todo' = Tail(todo)
    /\ UNCHANGED <<file, cursor, up, nodes, cuts>>

\* Mutant: the nodes in memory are left as the failed write had made them.
ReloadNothing(f, j) ==
    /\ nodes' = IF Head(todo).kind = "node"
                THEN With(nodes, Head(todo).id, Head(todo).node) ELSE nodes
    /\ todo' = <<>>
    /\ UNCHANGED <<up, version, history>>

CutShort ==
    /\ cuts < MaxCuts
    /\ cuts' = cuts + 1

\* A write raised.  The curator reloads the graph and recounts the version
\* before it lets go of the flock.
Reload(f, j) ==
    /\ nodes' = LoadGraph(f)
    /\ version' = ComputeGraphVersion(j, LoadGraph(f))
    /\ todo' = <<>>
    /\ UNCHANGED <<up, history>>

\* The node's file is replaced atomically: the fault came before or after.
NodeFault ==
    /\ "node" \in Faults
    /\ todo # <<>> /\ Head(todo).kind = "node"
    /\ CutShort
    /\ \E f \in {file, With(file, Head(todo).id, Head(todo).node)} :
          file' = f /\ Lose(f) /\ Reload(f, journal)
    /\ UNCHANGED <<journal, torn, cursor>>

CursorFault ==
    /\ "node" \in Faults
    /\ todo # <<>> /\ Head(todo).kind = "cursor"
    /\ CutShort
    /\ cursor' \in {cursor, Head(todo).id}
    /\ Lose(file)
    /\ Reload(file, journal)
    /\ UNCHANGED <<file, journal, torn>>

\* The append failed with nothing written, or in the fsync after the write.
EntryFault ==
    /\ "entry" \in Faults
    /\ todo # <<>> /\ Head(todo).kind = "entry"
    /\ CutShort
    /\ \/ UNCHANGED <<journal, torn>> /\ Lose(file) /\ Reload(file, journal)
       \/ /\ ~torn
          /\ journal' = Append(journal, Head(todo).entry)
          /\ UNCHANGED <<torn, lost, lostVer>>
          /\ Reload(file, journal')
    /\ UNCHANGED <<file, cursor>>

\* The append failed part way through the line.
TornFault ==
    /\ "torn" \in Faults
    /\ todo # <<>> /\ Head(todo).kind = "entry"
    /\ CutShort
    /\ torn' = TRUE
    /\ Lose(file)
    /\ Reload(file, journal)
    /\ UNCHANGED <<file, journal, cursor>>

-----------------------------------------------------------------------------
(* The process dies, and a resume opens the curator again.                 *)

Crash ==
    /\ up
    /\ up' = FALSE
    /\ nodes' = <<>>
    /\ version' = 0
    /\ todo' = <<>>
    /\ \/ UNCHANGED torn
       \/ "torn" \in Faults /\ todo # <<>> /\ Head(todo).kind = "entry" /\ torn' = TRUE
    /\ IF todo = <<>> THEN UNCHANGED <<lost, lostVer, cuts>> ELSE Lose(file) /\ CutShort
    /\ UNCHANGED <<file, journal, cursor, history>>

Open ==
    /\ ~up
    /\ up' = TRUE
    /\ nodes' = LoadGraph(file)
    /\ version' = OpenVersion(journal, LoadGraph(file))
    /\ UNCHANGED <<disk, todo, ghosts>>

-----------------------------------------------------------------------------

Init ==
    /\ file = <<>> /\ journal = <<>> /\ torn = FALSE /\ cursor = NoTask
    /\ up = FALSE /\ nodes = <<>> /\ version = 0
    /\ todo = <<>>
    /\ history = {} /\ lost = {} /\ lostVer = {} /\ cuts = 0

Operation ==
    \/ \E p, after \in TaskOrNone, draft \in Draft, deps \in SUBSET Task :
          Cardinality(deps) <= MaxDeps /\ AddSubtask(p, draft, deps, after)
    \/ \E t \in Task, s \in StatusInput : UpdateStatus(t, s)
    \/ \E t, d \in Task : AddDependency(t, d)
    \/ \E t \in Task, sha \in Sha : RecordCommit(t, sha)
    \/ \E t \in TaskOrNone : SetCursor(t)

Write == WriteNode \/ WriteCursor \/ PostMutation
Fault == NodeFault \/ CursorFault \/ EntryFault \/ TornFault

Next == Operation \/ Write \/ Fault \/ Crash \/ Open

Spec == Init /\ [][Next]_vars

-----------------------------------------------------------------------------
(* Rebuilding an older version (graph/replay.py).                          *)

\* The members of S in a sequence, in its order: a filter the proofs can unfold.
SelectedTo(s, S) ==
    LET sel[i \in 0..Len(s)] ==
            IF i = 0 THEN <<>>
            ELSE IF s[i] \in S THEN Append(sel[i - 1], s[i]) ELSE sel[i - 1]
    IN  sel
Select(s, S) == SelectedTo(s, S)[Len(s)]

EntriesTo(j, v) == {j[i] : i \in {k \in DOMAIN j : j[k].ver <= v}}
Prefix(j, v) == Select(j, EntriesTo(j, v))

\* The last of the entries with this op and this task, or the default.
LastWord(j, op, t, default) ==
    LET hits == {i \in DOMAIN j : j[i].op = op /\ j[i].id = t}
    IN  IF hits = {} THEN default ELSE j[SetMax(hits, 0)].word

BornAfter(j, t, v) == \E i \in DOMAIN j : j[i].op = "add_subtask" /\ j[i].id = t /\ j[i].ver > v

\* Mutant: today's status stands in for the one a task was created with.
BornUnseen(j, t) == FALSE

Born(j, t) == \E i \in DOMAIN j : j[i].op = "add_subtask" /\ j[i].id = t

\* Mutant: the target version's own edge is undone too.
DepsAddedFrom(j, t, v) ==
    {j[i].ref : i \in {k \in DOMAIN j : j[k].op = "add_dependency" /\ j[k].id = t /\ j[k].ver >= v}}

DepsAddedAfter(j, t, v) ==
    {j[i].ref : i \in {k \in DOMAIN j : j[k].op = "add_dependency" /\ j[k].id = t /\ j[k].ver > v}}

\* Mutant: a node keeps the stamp of its last write.
StampKept(s, v) == s

StampAt(s, v) == IF s < v THEN s ELSE v

GraphAtVersion(g, j, v) ==
    LET at == Prefix(j, v)
        kept == {t \in DOMAIN g : ~BornAfter(j, t, v)}
    IN  [t \in kept |->
           [g[t] EXCEPT
              !.status = LastWord(at, "update_status", t, IF Born(j, t) THEN "pending" ELSE @),
              !.commit = LastWord(at, "record_commit", t, IF Born(j, t) THEN NoSha ELSE @),
              !.deps = @ \ DepsAddedAfter(j, t, v),
              !.children = Select(@, kept),
              !.stamp = StampAt(@, v)]]

\* The last recorded focus, else none, else (no focus ever recorded) today's.
CursorAtVersion(g, j, v, current) ==
    LET moves(k) == {i \in DOMAIN k : k[i].op = "set_cursor"}
        at == Prefix(j, v)
        focus == IF moves(at) # {} THEN at[SetMax(moves(at), 0)].id
                 ELSE IF moves(j) # {} THEN NoTask ELSE current
    IN  IF focus \in DOMAIN GraphAtVersion(g, j, v) THEN focus ELSE NoTask

\* What a fork at a version gets: it reads under the flock.
ForkAt(v) == GraphAtVersion(LoadGraph(file), journal, v)
ForkCursor(v) == CursorAtVersion(LoadGraph(file), journal, v, cursor)

-----------------------------------------------------------------------------
(* Properties.                                                             *)

Writes == [kind : {"node"}, id : Task, node : Node]
          \cup [kind : {"cursor"}, id : TaskOrNone]
          \cup [kind : {"entry"}, entry : Entry]

\* Every variable has its type; a closed curator holds nothing.
TypeOK ==
    /\ IsGraph(file)
    /\ journal \in Seq(Entry)
    /\ torn \in BOOLEAN
    /\ cursor \in TaskOrNone
    /\ up \in BOOLEAN
    /\ IsGraph(nodes)
    /\ version \in Nat
    /\ todo \in Seq(Writes)
    /\ ~up => nodes = <<>> /\ version = 0 /\ todo = <<>>
    /\ lost \subseteq Task
    /\ lostVer \subseteq Nat
    /\ cuts \in 0..MaxCuts

\* `_mutating`: a fault half way never leaves a read of the curator (the focus,
\* the finish gate, list_tasks) showing a node or a status that is not on disk.
MemoryIsDisk == up => nodes = LoadGraph(file)

\* `add_subtask`, `_place`: whatever is cut short, the files form a tree.  A
\* listed child exists, names the lister as its parent and is listed once; a
\* task is in its parent's list unless the mutation that added it never ended.
TreeConsistent ==
    \A t \in DOMAIN file :
        /\ \A i \in DOMAIN file[t].children :
              /\ file[t].children[i] \in DOMAIN file
              /\ file[file[t].children[i]].parent = t
              /\ \A k \in DOMAIN file[t].children :
                    file[t].children[i] = file[t].children[k] => i = k
        /\ file[t].parent # NoTask =>
              /\ file[t].parent \in DOMAIN file
              /\ \/ IsChildOf(t, file[file[t].parent])
                 \/ t \in lost
                 \/ todo # <<>> /\ file[t].stamp = version + 1

\* `_post_mutation`, `_compute_graph_version`: the journal's versions strictly
\* increase across crashes, faults and reopenings, and the counter is never
\* behind what the journal records.
VersionsIncrease ==
    /\ \A i, k \in DOMAIN journal : i < k => journal[i].ver < journal[k].ver
    /\ up => \A i \in DOMAIN journal : journal[i].ver <= version

\* GraphCurator.__init__: the number of a mutation that died between its node
\* write and its journal entry is never taken by another mutation.
LostNumberNeverReused == \A i \in DOMAIN journal : journal[i].ver \notin lostVer

Acyclic(g) ==
    \A S \in SUBSET DOMAIN g : S # {} => \E t \in S : g[t].deps \cap S = {}

\* `_would_introduce_cycle`: no set of tasks waits on itself, in memory or on
\* disk, at any point of any mutation.
DepsAcyclic == Acyclic(file) /\ Acyclic(nodes)

\* `update_status`: an end is final.  A retired task keeps its status and a
\* passed one may only become obsolete, over crashes, faults and reloads.
EndsAreFinal ==
    [][\A t \in DOMAIN file :
          /\ t \in DOMAIN file'
          /\ file[t].status \in {"skipped", "obsolete"} => file'[t].status = file[t].status
          /\ file[t].status = "passed" => file'[t].status \in {"passed", "obsolete"}]_vars

Unstamped(g) == [t \in DOMAIN g |-> [g[t] EXCEPT !.stamp = 0]]

\* `graph_at_version`, fork --at-turn: whatever happened since, a rebuild of a
\* version gives back every task as that version had it, and no later task,
\* apart from the tasks whose own mutation lost its journal entry.
ReplayUntouched ==
    todo = <<>> =>
      \A h \in history :
        LET g == Unstamped(ForkAt(h.ver))
            then == Unstamped(h.nodes)
        IN  /\ DOMAIN g \ lost = DOMAIN then \ lost
            /\ \A t \in DOMAIN then \ lost : g[t] = then[t]

\* `_copy_dag`: a fork's files are a well-formed graph of that version: every
\* parent resolves (but that of an orphan no journal entry dates), every listed
\* child is there, and the fork's curator numbers on from the version without
\* taking a stamp for a lost journal tail.
ForkOpens ==
    todo = <<>> =>
      \A h \in history :
        LET g == ForkAt(h.ver)
        IN  /\ \A t \in DOMAIN g \ lost : g[t].parent \in DOMAIN g \cup {NoTask}
            /\ \A t \in DOMAIN g : \A i \in DOMAIN g[t].children : g[t].children[i] \in DOMAIN g
            /\ OpenVersion(Prefix(journal, h.ver), g) <= h.ver

\* A fork ships the prefix of the journal: forking the fork at an earlier
\* version gives what forking the source there gives.
ForkOfFork ==
    todo = <<>> =>
      \A h, k \in history :
        k.ver <= h.ver =>
          LET again == Unstamped(GraphAtVersion(ForkAt(h.ver), Prefix(journal, h.ver), k.ver))
              once == Unstamped(ForkAt(k.ver))
          IN  \A t \in DOMAIN once \ lost : t \in DOMAIN again /\ again[t] = once[t]

\* What a fork ships is a session like any other: it opens, and it forks.
ForkSound == ForkOpens /\ ForkOfFork

-----------------------------------------------------------------------------
(* What the repository says and the code does not do.                      *)

\* tests/unit/test_fork_checkpoint.py: "A fork replays the cursor like every
\* other fact, never the source's current one."
ForkKeepsCursor ==
    todo = <<>> =>
      \A h \in history : h.ver = version /\ lost = {} => ForkCursor(h.ver) = h.cursor

=============================================================================
