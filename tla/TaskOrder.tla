---------------------------- MODULE TaskOrder ----------------------------
(***************************************************************************)
(* How agent6 reads a task graph: what "open" and "done" mean, which task  *)
(* is ready, the order the tree is walked in and the task the harness      *)
(* focuses (graph/order.py, harness/dag_focus.py).                         *)
(*                                                                         *)
(* A graph is a function from task ids to nodes.  Ids are the numbers the  *)
(* curator hands out, so the order of creation is the order of Nat.        *)
(***************************************************************************)
EXTENDS Integers, Sequences, FiniteSets

NoTask == 0

Status == {"pending", "in_progress", "passed", "failed", "skipped", "obsolete"}
OpenStatuses == {"pending", "in_progress"}
DoneStatuses == {"passed", "skipped", "obsolete"}
Actor == {"user", "steering", "worker", "planner"}

IsChildOf(c, node) == \E i \in DOMAIN node.children : node.children[i] = c

HasOpenChild(nodes, node) ==
    \E c \in DOMAIN nodes : IsChildOf(c, node) /\ nodes[c].status \in OpenStatuses

\* The children that are open, or failed and never retired.
UnresolvedChildren(nodes, node) ==
    {c \in DOMAIN nodes : IsChildOf(c, node) /\ nodes[c].status \notin DoneStatuses}

ReadySubtask(nodes, t) ==
    /\ nodes[t].parent # NoTask
    /\ nodes[t].status \in OpenStatuses
    /\ \A d \in nodes[t].deps : d \in DOMAIN nodes /\ nodes[d].status \in DoneStatuses
    /\ ~HasOpenChild(nodes, nodes[t])

IsFocusable(nodes, t) == ~nodes[t].standing /\ ReadySubtask(nodes, t)

(***************************************************************************)
(* The depth-first walk.  It starts at the roots, in id order, then at the *)
(* tasks no parent lists (their link was lost), in id order.  A task's     *)
(* place is where its walk started followed by the child indices that lead *)
(* down to it, so the walk is the lexicographic order of the places.       *)
(***************************************************************************)
IsHead(nodes, t) ==
    \/ nodes[t].parent \notin DOMAIN nodes
    \/ ~IsChildOf(t, nodes[nodes[t].parent])

IndexIn(siblings, t) == CHOOSE i \in DOMAIN siblings : siblings[i] = t

ChildIndex(nodes, t) == IndexIn(nodes[nodes[t].parent].children, t)

StartPlace(nodes, s) == <<IF nodes[s].parent = NoTask THEN 0 ELSE 1, s>>

\* The places one level further down than these.
Deeper(nodes, above) ==
    [s \in DOMAIN nodes |->
        IF IsHead(nodes, s) THEN StartPlace(nodes, s)
        ELSE Append(above[nodes[s].parent], ChildIndex(nodes, s))]

Places(nodes) ==
    LET down[n \in 0..Cardinality(DOMAIN nodes)] ==
            IF n = 0 THEN [s \in DOMAIN nodes |-> StartPlace(nodes, s)]
                     ELSE Deeper(nodes, down[n - 1])
    IN  down

\* No walk is deeper than the graph has tasks.
Place(nodes, t) == Places(nodes)[Cardinality(DOMAIN nodes)][t]

Before(p, q) ==
    \/ \E i \in DOMAIN p \cap DOMAIN q :
          p[i] < q[i] /\ \A j \in 1..(i - 1) : p[j] = q[j]
    \/ Len(p) < Len(q) /\ \A j \in DOMAIN p : p[j] = q[j]

TreeBefore(nodes, a, b) == Before(Place(nodes, a), Place(nodes, b))

\* The tasks of S that no other one of S comes before.
Foremost(nodes, S) == {t \in S : \A u \in S : ~TreeBefore(nodes, u, t)}

FirstInTree(nodes, S) ==
    IF S = {} THEN NoTask ELSE CHOOSE t \in S : t \in Foremost(nodes, S)

\* The first focusable subtask, else the first ready standing task.
FirstReadySubtask(nodes) ==
    LET ordinary == {t \in DOMAIN nodes : IsFocusable(nodes, t)}
        standing == {t \in DOMAIN nodes : nodes[t].standing /\ ReadySubtask(nodes, t)}
    IN  FirstInTree(nodes, IF ordinary # {} THEN ordinary ELSE standing)

\* The cursor wins while it points at a focusable subtask.
CurrentTask(nodes, cursor) ==
    IF cursor \in DOMAIN nodes /\ IsFocusable(nodes, cursor)
    THEN cursor
    ELSE FirstReadySubtask(nodes)
==========================================================================
