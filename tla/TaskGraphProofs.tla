------------------------- MODULE TaskGraphProofs -------------------------
(***************************************************************************)
(* What holds of the task graph for every number of tasks, versions and    *)
(* faults: the types, that memory is what the disk holds, that versions    *)
(* increase, that no set of tasks waits on itself, that an end is final,   *)
(* that the files form a tree; and, when a mutation is only ever cut short *)
(* by a death, that a lost number is never reused, a rebuild gives back    *)
(* the version it names, and a fork opens and forks like its source.       *)
(*                                                                         *)
(* The files alone do not explain why a write keeps these facts: the       *)
(* mutation was validated when it took the flock, several writes ago. The  *)
(* inductive invariant therefore says what the writes still lined up in    *)
(* `todo' may do to the graph as it stands (IInv's Planned), what graph    *)
(* they will leave (Treed, over Done), what becomes of the numbers they    *)
(* stamp (Counted), and that the journal with the entry they end in tells  *)
(* that graph (Chronicled): every state in mid-mutation is described by    *)
(* the state it is on its way to.                                          *)
(***************************************************************************)
EXTENDS TaskGraph, InductionFacts, FiniteSetTheorems, SequenceTheorems

-----------------------------------------------------------------------------
(* Greatest elements.                                                      *)

Less == {ss \in Nat \X Nat : ss[1] < ss[2]}

\* The order of the naturals, as a relation, is well founded.
LEMMA LessWellFounded == IsWellFoundedOn(Less, Nat)
  BY NatLessThanWellFounded DEF Less, OpToRel

\* A non-empty bounded set of naturals has a greatest element.
LEMMA BoundedHasMax ==
  ASSUME NEW S \in SUBSET Nat, NEW b \in Nat, S # {}, \A n \in S : n <= b
  PROVE  \E m \in S : \A n \in S : n <= m
<1> DEFINE D == {k \in Nat : \E n \in S : k = b - n}
<1>1. D \subseteq Nat /\ D # {}
  <2>1. PICK n \in S : TRUE
    OBVIOUS
  <2>2. b - n \in Nat
    OBVIOUS
  <2> QED BY <2>1, <2>2
<1>2. \E x \in D : \A y \in D : ~(<<y, x>> \in Less)
  <2> HIDE DEF D
  <2> QED BY <1>1, LessWellFounded, WFMin
<1>3. PICK x \in D : \A y \in D : ~(y < x)
  BY <1>1, <1>2 DEF Less
<1>4. PICK m \in S : x = b - m
  OBVIOUS
<1>5. ASSUME NEW n \in S PROVE n <= m
  <2>1. b - n \in D
    OBVIOUS
  <2>2. ~(b - n < b - m)
    BY <1>3, <1>4, <2>1
  <2> QED BY <2>2
<1> QED BY <1>5

\* SetMax is the greatest element of a bounded set, and the default of none.
LEMMA SetMaxIsMax ==
  ASSUME NEW S \in SUBSET Nat, NEW b \in Nat, \A n \in S : n <= b, NEW default \in Nat
  PROVE  /\ SetMax(S, default) \in Nat
         /\ \A n \in S : n <= SetMax(S, default)
         /\ S = {} => SetMax(S, default) = default
         /\ S # {} => SetMax(S, default) \in S
<1>1. CASE S = {}
  BY <1>1 DEF SetMax
<1>2. CASE S # {}
  <2>1. \E m \in S : \A n \in S : n <= m
    BY <1>2, BoundedHasMax
  <2> QED BY <1>2, <2>1 DEF SetMax
<1> QED BY <1>1, <1>2

\* The bounds are naturals.
LEMMA Bounds == MaxTask \in Nat /\ MaxVersion \in Nat /\ MaxCuts \in Nat
  BY BoundsAssumption

-----------------------------------------------------------------------------
(* The inductive invariant.                                                *)

\* Every parent and every dependency of a graph is one of its tasks.
Resolved(g) ==
    \A t \in DOMAIN g : g[t].parent \in DOMAIN g \cup {NoTask} /\ g[t].deps \subseteq DOMAIN g

EndKept(old, new) ==
    /\ old \in {"skipped", "obsolete"} => new = old
    /\ old = "passed" => new \in {"passed", "obsolete"}

PlannedNode(g, w, i) ==
    LET t == w[i].id
        n == w[i].node
    IN  /\ n.parent \in DOMAIN g \cup {NoTask}
        /\ n.deps \subseteq DOMAIN g
        /\ n.stamp <= MaxVersion
        /\ i = 1 => Acyclic(With(g, t, n))
        /\ i # 1 => t \in DOMAIN g /\ n.deps = g[t].deps
        /\ t \in DOMAIN g => EndKept(g[t].status, n.status)
        /\ \A k \in DOMAIN w : k # i /\ w[k].kind = "node" => w[k].id # t
        /\ \A k \in DOMAIN w : k < i => w[k].kind = "node"

\* What the writes lined up will do to the graph, and the version they carry.
PlannedWrites(g, v, w) ==
    /\ \A i \in DOMAIN w : w[i].kind = "node" => PlannedNode(g, w, i)
    /\ \A i \in DOMAIN w :
          w[i].kind = "entry" => w[i].entry.ver = v + 1 /\ i = Len(w)

Planned ==
    /\ todo # <<>> => up /\ version < MaxVersion
    /\ PlannedWrites(nodes, version, todo)

DiskInv ==
    /\ Resolved(file)
    /\ Acyclic(file)
    /\ \A t \in DOMAIN file : file[t].stamp <= MaxVersion

IInv ==
    /\ TypeOK
    /\ up => nodes = file
    /\ DiskInv
    /\ VersionsIncrease
    /\ Planned

-----------------------------------------------------------------------------
(* Graphs.                                                                 *)

\* A graph whose parents all resolve is loaded as it is.
LEMMA LoadResolved ==
  ASSUME NEW f, IsGraph(f), Resolved(f)
  PROVE  LoadGraph(f) = f
<1>1. ASSUME NEW t \in DOMAIN f PROVE LoadGraph(f)[t] = f[t]
  <2>1. f[t] \in Node /\ f[t].parent \in DOMAIN f \cup {NoTask}
    BY DEF IsGraph, Resolved
  <2>2. CASE f[t].parent \in DOMAIN f
    BY <2>2 DEF LoadGraph
  <2>3. CASE f[t].parent \notin DOMAIN f
    <3>1. [f[t] EXCEPT !.parent = NoTask] = f[t]
      BY <2>1, <2>3 DEF Node
    <3> QED BY <2>3, <3>1 DEF LoadGraph
  <2> QED BY <2>2, <2>3
<1>2. DOMAIN LoadGraph(f) = DOMAIN f /\ LoadGraph(f) = [t \in DOMAIN f |-> LoadGraph(f)[t]]
  BY DEF LoadGraph
<1> QED BY <1>1, <1>2 DEF IsGraph

\* Writing a node of the right type keeps a graph a graph.
LEMMA WithIsGraph ==
  ASSUME NEW g, IsGraph(g), NEW t \in Task, NEW n \in Node
  PROVE  /\ IsGraph(With(g, t, n))
         /\ DOMAIN With(g, t, n) = DOMAIN g \cup {t}
         /\ With(g, t, n)[t] = n
         /\ \A u \in DOMAIN g \ {t} : With(g, t, n)[u] = g[u]
  BY DEF IsGraph, With

\* Acyclicity looks at the tasks and their dependencies only.
LEMMA AcyclicByDeps ==
  ASSUME NEW g, NEW h, Acyclic(g), DOMAIN h = DOMAIN g,
         \A t \in DOMAIN g : h[t].deps = g[t].deps
  PROVE  Acyclic(h)
  BY DEF Acyclic

\* A new task that waits on existing tasks only closes no cycle.
LEMMA AcyclicNewTask ==
  ASSUME NEW g, NEW t, NEW n, Acyclic(g), Resolved(g), t \notin DOMAIN g, n.deps \subseteq DOMAIN g
  PROVE  Acyclic(With(g, t, n))
<1>0. DOMAIN With(g, t, n) = DOMAIN g \cup {t}
  BY DEF With
<1> SUFFICES ASSUME NEW S \in SUBSET (DOMAIN g \cup {t}), S # {}
             PROVE  \E u \in S : With(g, t, n)[u].deps \cap S = {}
  BY <1>0 DEF Acyclic
<1>1. \A u \in DOMAIN g : With(g, t, n)[u] = g[u] /\ g[u].deps \subseteq DOMAIN g
  BY DEF With, Resolved
<1>2. With(g, t, n)[t] = n
  BY DEF With
<1>3. CASE S \ {t} = {}
  BY <1>2, <1>3
<1>4. CASE S \ {t} # {}
  <2>1. PICK u \in S \ {t} : g[u].deps \cap (S \ {t}) = {}
    BY <1>4 DEF Acyclic
  <2> QED BY <1>1, <2>1
<1> QED BY <1>3, <1>4

\* An edge the cycle check lets through closes no cycle: the closed set that
\* has the dependency and not the task separates them.
LEMMA AcyclicNewEdge ==
  ASSUME NEW g, IsGraph(g), Acyclic(g), NEW t \in DOMAIN g, NEW d \in DOMAIN g, NEW n,
         n.deps = g[t].deps \cup {d},
         NEW C \in SUBSET Task, d \in C, t \notin C,
         \A u \in C \cap DOMAIN g : g[u].deps \subseteq C
  PROVE  Acyclic(With(g, t, n))
<1>0. DOMAIN With(g, t, n) = DOMAIN g
  BY DEF With
<1> SUFFICES ASSUME NEW S \in SUBSET DOMAIN g, S # {}
             PROVE  \E u \in S : With(g, t, n)[u].deps \cap S = {}
  BY <1>0 DEF Acyclic
<1>1. \A u \in DOMAIN g \ {t} : With(g, t, n)[u] = g[u]
  BY DEF With
<1>2. With(g, t, n)[t] = n
  BY DEF With
<1>3. CASE S \cap C # {}
  <2>1. PICK u \in S \cap C : g[u].deps \cap (S \cap C) = {}
    BY <1>3 DEF Acyclic
  <2>2. g[u].deps \subseteq C /\ u # t
    BY <2>1
  <2> QED BY <1>1, <2>1, <2>2
<1>4. CASE S \cap C = {}
  <2>1. PICK u \in S : g[u].deps \cap S = {}
    BY DEF Acyclic
  <2>2. CASE u = t
    BY <1>2, <1>4, <2>1, <2>2
  <2>3. CASE u # t
    BY <1>1, <2>1, <2>3
  <2> QED BY <2>2, <2>3
<1> QED BY <1>3, <1>4

-----------------------------------------------------------------------------
(* Versions.                                                               *)

\* Every journal entry carries a version.
LEMMA EntryVersions ==
  ASSUME NEW j \in Seq(Entry), NEW i \in DOMAIN j
  PROVE  j[i] \in Entry /\ j[i].ver \in Nat
<1>1. j[i] \in Entry
  BY ElementOfSeq, LenProperties
<1> QED BY <1>1 DEF Entry

\* The type of the journal's highest version, and that it is one: the journal
\* increases, so its last entry bounds it.
LEMMA ComputedVersion ==
  ASSUME NEW j \in Seq(Entry), NEW f, IsGraph(f),
         \A i, k \in DOMAIN j : i < k => j[i].ver < j[k].ver
  PROVE  /\ ComputeGraphVersion(j, f) \in Nat
         /\ \A i \in DOMAIN j : j[i].ver <= ComputeGraphVersion(j, f)
<1> DEFINE V == {j[i].ver : i \in DOMAIN j}
<1>1. Cardinality(DOMAIN f) \in Nat
  <2>1. IsFiniteSet(1..MaxTask)
    BY Bounds, FS_Interval
  <2>2. DOMAIN f \in SUBSET (1..MaxTask)
    BY DEF IsGraph, Task
  <2>3. IsFiniteSet(DOMAIN f)
    BY <2>1, <2>2, FS_Subset
  <2> QED BY <2>3, FS_CardinalityType
<1>0. \A i \in DOMAIN j : j[i].ver \in Nat
  BY EntryVersions
<1>2. V \subseteq Nat
  BY <1>0
<1>3. \E b \in Nat : \A n \in V : n <= b
  <2>1. CASE j = <<>>
    BY <2>1
  <2>2. CASE j # <<>>
    <3>1. Len(j) \in DOMAIN j /\ j[Len(j)].ver \in Nat
      BY <1>0, <2>2, LenProperties, EmptySeq
    <3>2. \A i \in DOMAIN j : j[i].ver <= j[Len(j)].ver
      BY <1>0, <3>1, LenProperties
    <3> QED BY <3>1, <3>2
  <2> QED BY <2>1, <2>2
<1>4. /\ SetMax(V, Cardinality(DOMAIN f)) \in Nat
      /\ \A n \in V : n <= SetMax(V, Cardinality(DOMAIN f))
  <2> HIDE DEF V
  <2> QED BY <1>1, <1>2, <1>3, SetMaxIsMax
<1> QED BY <1>4 DEF ComputeGraphVersion

\* Opening the curator never starts behind the journal.
LEMMA OpenedVersion ==
  ASSUME NEW j \in Seq(Entry), NEW f, IsGraph(f),
         \A i, k \in DOMAIN j : i < k => j[i].ver < j[k].ver,
         \A t \in DOMAIN f : f[t].stamp <= MaxVersion
  PROVE  /\ OpenVersion(j, f) \in Nat
         /\ \A i \in DOMAIN j : j[i].ver <= OpenVersion(j, f)
<1> DEFINE S == {f[t].stamp : t \in DOMAIN f}
<1>0. \A t \in DOMAIN f : f[t].stamp \in Nat
  BY DEF IsGraph, Node
<1>1. S \in SUBSET Nat /\ (\A n \in S : n <= MaxVersion) /\ MaxVersion \in Nat
  BY <1>0, Bounds
<1>2. SetMax(S, 0) \in Nat
  <2> HIDE DEF S
  <2> QED BY <1>1, SetMaxIsMax
<1>3. /\ ComputeGraphVersion(j, f) \in Nat
      /\ \A i \in DOMAIN j : j[i].ver <= ComputeGraphVersion(j, f)
  BY ComputedVersion
<1>4. \A i \in DOMAIN j : j[i].ver \in Nat
  BY EntryVersions
<1>5. OpenVersion(j, f) = IF SetMax(S, 0) > ComputeGraphVersion(j, f)
                          THEN SetMax(S, 0) ELSE ComputeGraphVersion(j, f)
  BY DEF OpenVersion
<1> HIDE DEF S
<1> QED BY <1>2, <1>3, <1>4, <1>5

\* The next id is free and positive.
LEMMA NextTaskIdIsFree ==
  ASSUME IsGraph(nodes)
  PROVE  NextTaskId \in Nat \ {0} /\ NextTaskId \notin DOMAIN nodes
<1>1. DOMAIN nodes \in SUBSET Nat /\ (\A n \in DOMAIN nodes : n <= MaxTask) /\ MaxTask \in Nat
  BY Bounds DEF IsGraph, Task
<1>2. SetMax(DOMAIN nodes, 0) \in Nat /\ \A n \in DOMAIN nodes : n <= SetMax(DOMAIN nodes, 0)
  BY <1>1, SetMaxIsMax
<1> QED BY <1>1, <1>2 DEF NextTaskId

-----------------------------------------------------------------------------
(* The initial state.                                                      *)

\* Nothing on disk and no curator satisfies the invariant.
LEMMA InitIInv == Init => IInv
<1> SUFFICES ASSUME Init PROVE IInv
  OBVIOUS
<1> USE DEF Init
<1>1. IsGraph(file) /\ IsGraph(nodes)
  BY DEF IsGraph
<1>2. TypeOK
  <2>1. journal \in Seq(Entry) /\ todo \in Seq(Writes)
    BY EmptySeq
  <2>2. cuts \in 0..MaxCuts /\ cursor \in TaskOrNone
    BY Bounds DEF TaskOrNone
  <2> QED BY <1>1, <2>1, <2>2 DEF TypeOK
<1>3. DiskInv
  BY DEF DiskInv, Resolved, Acyclic
<1>4. VersionsIncrease /\ Planned
  BY DEF VersionsIncrease, Planned, PlannedWrites
<1> QED BY <1>2, <1>3, <1>4 DEF IInv

-----------------------------------------------------------------------------
(* Lining up a mutation.                                                   *)

\* The list new is the list old with c put in at i.
Inserted(old, new, i, c) ==
    /\ new \in Seq(Task) /\ Len(new) = Len(old) + 1
    /\ new[i] = c
    /\ \A k \in 1..(i - 1) : new[k] = old[k]
    /\ \A k \in (i + 1)..(Len(old) + 1) : new[k] = old[k - 1]

\* Inserting into a list of tasks gives a list of tasks, the old ones in their order.
LEMMA InsertAtInserts ==
  ASSUME NEW s \in Seq(Task), NEW i \in 1..(Len(s) + 1), NEW e \in Task
  PROVE  Inserted(s, InsertAt(s, i, e), i, e)
<1> DEFINE a == SubSeq(s, 1, i - 1)
           b == SubSeq(s, i, Len(s))
           m == a \o <<e>>
<1>1. Len(s) \in Nat /\ i - 1 \in 0..Len(s) /\ i \in Nat
  BY LenProperties
<1>2. a \in Seq(Task) /\ Len(a) = i - 1 /\ \A k \in 1..(i - 1) : a[k] = s[k]
  BY <1>1, SubSeqProperties, LenProperties, ElementOfSeq
<1>3. b \in Seq(Task) /\ Len(b) = Len(s) + 1 - i /\ \A k \in 1..(Len(s) + 1 - i) : b[k] = s[i + k - 1]
  BY <1>1, SubSeqProperties, LenProperties, ElementOfSeq
<1>4. <<e>> \in Seq(Task) /\ Len(<<e>>) = 1 /\ <<e>>[1] = e
  OBVIOUS
<1> HIDE DEF a, b
<1>5. /\ m \in Seq(Task) /\ Len(m) = i /\ m[i] = e
      /\ \A k \in 1..(i - 1) : m[k] = s[k]
  BY <1>1, <1>2, <1>4, ConcatProperties
<1> HIDE DEF m
<1>6. /\ m \o b \in Seq(Task) /\ Len(m \o b) = Len(s) + 1
      /\ \A k \in 1..i : (m \o b)[k] = m[k]
      /\ \A k \in (i + 1)..(Len(s) + 1) : (m \o b)[k] = b[k - i]
  BY <1>1, <1>3, <1>5, ConcatProperties
<1>7. InsertAt(s, i, e) = m \o b
  BY DEF InsertAt, m, a, b
<1>8. \A k \in (i + 1)..(Len(s) + 1) : (m \o b)[k] = s[k - 1]
  <2> TAKE k \in (i + 1)..(Len(s) + 1)
  <2>1. (m \o b)[k] = b[k - i] /\ k - i \in 1..(Len(s) + 1 - i) /\ i + (k - i) - 1 = k - 1
    BY <1>1, <1>6
  <2> QED BY <1>3, <2>1
<1>9. \A k \in 1..(i - 1) : (m \o b)[k] = s[k]
  <2> TAKE k \in 1..(i - 1)
  <2>1. k \in 1..i
    BY <1>1
  <2> QED BY <1>5, <1>6, <2>1
<1>10. (m \o b)[i] = e
  BY <1>1, <1>5, <1>6
<1> QED BY <1>6, <1>7, <1>8, <1>9, <1>10 DEF Inserted

\* The new child goes somewhere in the parent's list.
LEMMA PlaceChildInserts ==
  ASSUME IsGraph(nodes), NEW p \in DOMAIN nodes, NEW id \in Task, NEW after,
         after # NoTask => IsChildOf(after, nodes[p])
  PROVE  \E i \in 1..(Len(nodes[p].children) + 1) :
            Inserted(nodes[p].children, PlaceChild(p, id, after), i, id)
<1> DEFINE c == nodes[p].children
<1>1. c \in Seq(Task) /\ Len(c) \in Nat /\ DOMAIN c = 1..Len(c)
  BY LenProperties DEF IsGraph, Node
<1>2. CASE after # NoTask
  <2>1. (CHOOSE i \in DOMAIN c : c[i] = after) \in DOMAIN c
    BY <1>2 DEF IsChildOf
  <2> DEFINE m == CHOOSE i \in DOMAIN c : c[i] = after
  <2>2. 1 + m \in 1..(Len(c) + 1)
    BY <1>1, <2>1
  <2>3. PlaceChild(p, id, after) = InsertAt(c, 1 + m, id)
    BY <1>2 DEF PlaceChild
  <2> HIDE DEF c, m
  <2>4. Inserted(c, PlaceChild(p, id, after), 1 + m, id)
    BY <1>1, <2>2, <2>3, InsertAtInserts
  <2> QED BY <2>2, <2>4 DEF c
<1>3. CASE after = NoTask /\ Positions(p) = {}
  <2>1. PlaceChild(p, id, after) = Append(c, id)
    BY <1>3 DEF PlaceChild
  <2>2. Inserted(c, PlaceChild(p, id, after), Len(c) + 1, id)
    <3> HIDE DEF c
    <3>1. /\ Append(c, id) \in Seq(Task) /\ Len(Append(c, id)) = Len(c) + 1
          /\ \A k \in 1..Len(c) : Append(c, id)[k] = c[k]
          /\ Append(c, id)[Len(c) + 1] = id
      BY <1>1, AppendProperties
    <3> QED BY <1>1, <2>1, <3>1 DEF Inserted
  <2>3. Len(c) + 1 \in 1..(Len(c) + 1)
    BY <1>1
  <2> QED BY <2>2, <2>3
<1>4. CASE after = NoTask /\ Positions(p) # {}
  <2> DEFINE m == CHOOSE i \in Positions(p) : \A j \in Positions(p) : i <= j
  <2>1. \E i \in Positions(p) : \A j \in Positions(p) : i <= j
    <3>1. Positions(p) \in SUBSET Nat
      BY <1>1 DEF Positions
    <3>2. \E x \in Positions(p) : \A y \in Positions(p) : ~(<<y, x>> \in Less)
      BY <1>4, <3>1, LessWellFounded, WFMin
    <3>3. PICK x \in Positions(p) : \A y \in Positions(p) : ~(<<y, x>> \in Less)
      BY <3>2
    <3>4. \A y \in Positions(p) : x \in Nat /\ y \in Nat /\ ~(y < x)
      BY <3>1, <3>3 DEF Less
    <3> QED BY <3>4
  <2>2. m \in Positions(p)
    BY <2>1
  <2>3. m \in 1..(Len(c) + 1)
    BY <1>1, <2>2 DEF Positions
  <2>4. PlaceChild(p, id, after) = InsertAt(c, m, id)
    BY <1>4 DEF PlaceChild
  <2> HIDE DEF c, m
  <2>5. Inserted(c, PlaceChild(p, id, after), m, id)
    BY <1>1, <2>3, <2>4, InsertAtInserts
  <2> QED BY <2>3, <2>5 DEF c
<1> QED BY <1>2, <1>3, <1>4

\* A well-formed list of writes may be lined up when the flock is free.
LEMMA MutateIInv ==
  ASSUME IInv, Unlocked, NEW w \in Seq(Writes), Mutate(w), PlannedWrites(nodes, version, w)
  PROVE  IInv'
<1> USE DEF Mutate, disk, memory, ghosts
<1>1. TypeOK'
  BY DEF IInv, TypeOK, Unlocked, IsGraph
<1>2. (up => nodes = file)' /\ DiskInv' /\ VersionsIncrease'
  BY DEF IInv, DiskInv, Resolved, Acyclic, VersionsIncrease
<1>3. todo' = w /\ nodes' = nodes /\ version' = version /\ up' = up
  OBVIOUS
<1>4. up /\ version < MaxVersion
  BY DEF Unlocked
<1>5. Planned'
  BY <1>3, <1>4 DEF Planned, PlannedWrites, PlannedNode
<1> QED BY <1>1, <1>2, <1>5 DEF IInv

\* The type of the node a mutation rewrites, and of its journal entry.
LEMMA EntryWriteType ==
  ASSUME NEW op \in Op, NEW t \in TaskOrNone, NEW ref \in TaskOrNone,
         NEW word \in Status \cup Sha \cup {NoSha}, version \in Nat
  PROVE  /\ EntryWrite(op, t, ref, word) \in Writes
         /\ EntryWrite(op, t, ref, word).kind = "entry"
         /\ EntryWrite(op, t, ref, word).entry.ver = version + 1
<1> DEFINE e == [op |-> op, id |-> t, ref |-> ref, word |-> word, ver |-> version + 1]
<1>1. e \in Entry /\ e.ver = version + 1
  BY DEF Entry
<1>2. EntryWrite(op, t, ref, word) = [kind |-> "entry", entry |-> e]
  BY DEF EntryWrite
<1> HIDE DEF e
<1> QED BY <1>1, <1>2 DEF Writes

\* A node write is a write.
LEMMA NodeWriteType ==
  ASSUME NEW t \in Task, NEW n \in Node
  PROVE  /\ NodeWrite(t, n) \in Writes
         /\ NodeWrite(t, n).kind = "node"
         /\ NodeWrite(t, n).id = t
         /\ NodeWrite(t, n).node = n
  BY DEF NodeWrite, Writes

\* Rewriting one task: its dependencies close no cycle and its end is kept.
LEMMA OneNodePlanned ==
  ASSUME IInv, Unlocked, NEW t \in DOMAIN nodes, NEW n \in Node, NEW e \in Writes,
         e.kind = "entry", e.entry.ver = version + 1,
         n.parent = nodes[t].parent, n.stamp <= MaxVersion,
         n.deps \subseteq DOMAIN nodes, Acyclic(With(nodes, t, n)),
         EndKept(nodes[t].status, n.status)
  PROVE  /\ <<NodeWrite(t, n), e>> \in Seq(Writes)
         /\ PlannedWrites(nodes, version, <<NodeWrite(t, n), e>>)
         /\ <<NodeWrite(t, n), CursorWrite(t), e>> \in Seq(Writes)
         /\ PlannedWrites(nodes, version, <<NodeWrite(t, n), CursorWrite(t), e>>)
<1>1. t \in Task /\ nodes[t].parent \in DOMAIN nodes \cup {NoTask}
  BY DEF IInv, TypeOK, IsGraph, DiskInv, Resolved, Unlocked
<1>2. CursorWrite(t) \in Writes /\ CursorWrite(t).kind = "cursor"
  BY <1>1 DEF CursorWrite, Writes, TaskOrNone
<1>3. /\ NodeWrite(t, n) \in Writes /\ NodeWrite(t, n).kind = "node"
      /\ NodeWrite(t, n).id = t /\ NodeWrite(t, n).node = n
  BY <1>1, NodeWriteType
<1>4. PlannedWrites(nodes, version, <<NodeWrite(t, n), e>>)
  BY <1>1, <1>3 DEF PlannedWrites, PlannedNode
<1>5. PlannedWrites(nodes, version, <<NodeWrite(t, n), CursorWrite(t), e>>)
  BY <1>1, <1>2, <1>3 DEF PlannedWrites, PlannedNode
<1> QED BY <1>2, <1>3, <1>4, <1>5

-----------------------------------------------------------------------------
(* Every operation lines up a well-formed mutation.                        *)

\* A stamp changes nothing else of a node.
LEMMA StampedNode ==
  ASSUME NEW r \in Node, version \in Nat
  PROVE  /\ Stamped(r) \in Node /\ Stamped(r).stamp = version + 1
         /\ Stamped(r).parent = r.parent /\ Stamped(r).deps = r.deps
         /\ Stamped(r).status = r.status /\ Stamped(r).children = r.children
         /\ Stamped(r).standing = r.standing /\ Stamped(r).by = r.by /\ Stamped(r).commit = r.commit
  BY DEF Stamped, Node

\* add_subtask: the new task waits on existing tasks only, and the parent's
\* rewrite keeps its dependencies and its status.
LEMMA AddSubtaskIInv ==
  ASSUME IInv, NEW p \in TaskOrNone, NEW draft \in Draft, NEW deps \in SUBSET Task,
         NEW after \in TaskOrNone, AddSubtask(p, draft, deps, after)
  PROVE  IInv'
<1> DEFINE id == NextTaskId
           child == [parent |-> p, status |-> "pending", deps |-> deps, children |-> <<>>,
                     standing |-> draft.standing /\ draft.by = "steering", by |-> draft.by,
                     commit |-> NoSha, stamp |-> version + 1]
           linked == Stamped([nodes[p] EXCEPT !.children = PlaceChild(p, id, after)])
           entry == EntryWrite("add_subtask", id, p, NoSha)
<1>1. /\ Unlocked /\ id <= MaxTask /\ p \in DOMAIN nodes \cup {NoTask}
      /\ after # NoTask => p # NoTask /\ IsChildOf(after, nodes[p])
      /\ deps \subseteq DOMAIN nodes
  BY DEF AddSubtask
<1>2. IsGraph(nodes) /\ version \in Nat /\ Resolved(nodes) /\ Acyclic(nodes)
  BY <1>1 DEF IInv, TypeOK, DiskInv, Unlocked
<1>3. id \in Task /\ id \notin DOMAIN nodes
  BY <1>1, <1>2, NextTaskIdIsFree, Bounds DEF Task
<1>4. child \in Node
  <2>1. draft.standing \in BOOLEAN /\ draft.by \in Actor
    BY InputAssumption
  <2>2. version + 1 \in Nat /\ "pending" \in Status /\ <<>> \in Seq(Task)
    BY <1>2 DEF Status
  <2> QED BY <2>1, <2>2 DEF Node
<1>5. /\ entry \in Writes /\ entry.kind = "entry" /\ entry.entry.ver = version + 1
  BY <1>2, <1>3, EntryWriteType DEF Op, TaskOrNone
<1>6. /\ NodeWrite(id, child) \in Writes /\ NodeWrite(id, child).kind = "node"
      /\ NodeWrite(id, child).id = id /\ NodeWrite(id, child).node = child
  BY <1>3, <1>4, NodeWriteType
<1>7. /\ child.parent = p /\ child.deps = deps /\ child.stamp <= MaxVersion
  BY <1>1, <1>2, Bounds DEF Unlocked
<1>8. Acyclic(With(nodes, id, child))
  BY <1>1, <1>2, <1>3, <1>7, AcyclicNewTask
<1>9. CASE p = NoTask
  <2>1. Mutate(<<NodeWrite(id, child), entry>>)
    BY <1>9 DEF AddSubtask
  <2> HIDE DEF id, child, entry
  <2>2. PlannedWrites(nodes, version, <<NodeWrite(id, child), entry>>)
    BY <1>1, <1>3, <1>5, <1>6, <1>7, <1>8 DEF PlannedWrites, PlannedNode
  <2>3. <<NodeWrite(id, child), entry>> \in Seq(Writes)
    BY <1>5, <1>6
  <2> QED BY <1>1, <2>1, <2>2, <2>3, MutateIInv
<1>10. CASE p # NoTask
  <2>1. p \in DOMAIN nodes /\ p \in Task /\ nodes[p] \in Node
    BY <1>1, <1>2, <1>10 DEF IsGraph
  <2>2. PlaceChild(p, id, after) \in Seq(Task)
    BY <1>1, <1>2, <1>3, <2>1, PlaceChildInserts DEF Inserted
  <2>3. /\ linked \in Node /\ linked.deps = nodes[p].deps /\ linked.stamp = version + 1
        /\ linked.parent = nodes[p].parent /\ linked.status = nodes[p].status
    <3> DEFINE r == [nodes[p] EXCEPT !.children = PlaceChild(p, id, after)]
    <3>1. r \in Node /\ r.parent = nodes[p].parent /\ r.deps = nodes[p].deps
          /\ r.status = nodes[p].status
      <4> HIDE DEF id
      <4> QED BY <2>1, <2>2 DEF Node
    <3> HIDE DEF r
    <3>2. /\ Stamped(r) \in Node /\ Stamped(r).stamp = version + 1
          /\ Stamped(r).parent = r.parent /\ Stamped(r).deps = r.deps
          /\ Stamped(r).status = r.status
      BY <1>2, <3>1, StampedNode
    <3> QED BY <3>1, <3>2 DEF r
  <2>4. /\ NodeWrite(p, linked) \in Writes /\ NodeWrite(p, linked).kind = "node"
        /\ NodeWrite(p, linked).id = p /\ NodeWrite(p, linked).node = linked
    BY <2>1, <2>3, NodeWriteType
  <2>5. linked.parent \in DOMAIN nodes \cup {NoTask} /\ linked.deps \subseteq DOMAIN nodes
    BY <1>2, <2>1, <2>3 DEF Resolved
  <2>6. Mutate(<<NodeWrite(id, child), NodeWrite(p, linked), entry>>)
    BY <1>10 DEF AddSubtask, LinkWrites
  <2> HIDE DEF id, child, linked, entry
  <2> DEFINE w == <<NodeWrite(id, child), NodeWrite(p, linked), entry>>
  <2>7. w \in Seq(Writes)
    BY <1>5, <1>6, <2>4
  <2>8. linked.stamp <= MaxVersion
    BY <1>1, <1>2, <2>3, Bounds DEF Unlocked
  <2>9. PlannedWrites(nodes, version, w)
    BY <1>1, <1>3, <1>5, <1>6, <1>7, <1>8, <2>1, <2>3, <2>4, <2>5, <2>8
       DEF PlannedWrites, PlannedNode, EndKept
  <2> QED BY <1>1, <2>6, <2>7, <2>9, MutateIInv
<1> QED BY <1>9, <1>10

\* What a rewrite of one task may lean on.
LEMMA RewrittenTask ==
  ASSUME IInv, Unlocked, NEW t \in DOMAIN nodes
  PROVE  /\ nodes[t] \in Node /\ t \in Task /\ version \in Nat /\ version + 1 <= MaxVersion
         /\ nodes[t].deps \subseteq DOMAIN nodes
         /\ IsGraph(nodes) /\ Resolved(nodes) /\ Acyclic(nodes)
<1>1. IsGraph(nodes) /\ Resolved(nodes) /\ Acyclic(nodes) /\ version \in Nat
  BY DEF IInv, TypeOK, DiskInv, Unlocked
<1>2. version + 1 <= MaxVersion
  BY <1>1, Bounds DEF Unlocked
<1> QED BY <1>1, <1>2 DEF IsGraph, Resolved

\* A rewrite that keeps the dependencies closes no cycle.
LEMMA SameDepsAcyclic ==
  ASSUME NEW g, Acyclic(g), NEW t \in DOMAIN g, NEW n, n.deps = g[t].deps
  PROVE  Acyclic(With(g, t, n))
<1>1. DOMAIN With(g, t, n) = DOMAIN g
  BY DEF With
<1>2. \A u \in DOMAIN g : With(g, t, n)[u].deps = g[u].deps
  BY DEF With
<1> QED BY <1>1, <1>2, AcyclicByDeps

\* update_status: the guard keeps an end.
LEMMA UpdateStatusIInv ==
  ASSUME IInv, NEW t \in Task, NEW s \in StatusInput, UpdateStatus(t, s)
  PROVE  IInv'
<1> DEFINE n == Stamped([nodes[t] EXCEPT !.status = s])
           entry == EntryWrite("update_status", t, NoTask, s)
<1>1. Unlocked /\ t \in DOMAIN nodes /\ StatusAllowed(t, s)
  BY DEF UpdateStatus
<1>2. /\ nodes[t] \in Node /\ version \in Nat /\ version + 1 <= MaxVersion
      /\ nodes[t].deps \subseteq DOMAIN nodes /\ Acyclic(nodes)
  BY <1>1, RewrittenTask
<1>3. s \in Status
  BY InputAssumption
<1>4. /\ n \in Node /\ n.parent = nodes[t].parent /\ n.deps = nodes[t].deps
      /\ n.status = s /\ n.stamp = version + 1
  <2> DEFINE r == [nodes[t] EXCEPT !.status = s]
  <2>1. r \in Node /\ r.parent = nodes[t].parent /\ r.deps = nodes[t].deps /\ r.status = s
    BY <1>2, <1>3 DEF Node
  <2> HIDE DEF r
  <2>2. /\ Stamped(r) \in Node /\ Stamped(r).stamp = version + 1
        /\ Stamped(r).parent = r.parent /\ Stamped(r).deps = r.deps
        /\ Stamped(r).status = r.status
    BY <1>2, <2>1, StampedNode
  <2> QED BY <2>1, <2>2 DEF r
<1>5. EndKept(nodes[t].status, n.status)
  BY <1>1, <1>4 DEF StatusAllowed, EndKept
<1>6. entry \in Writes /\ entry.kind = "entry" /\ entry.entry.ver = version + 1
  BY <1>2, <1>3, EntryWriteType DEF Op, TaskOrNone
<1>7. \/ Mutate(<<NodeWrite(t, n), CursorWrite(t), entry>>)
      \/ Mutate(<<NodeWrite(t, n), entry>>)
  BY DEF UpdateStatus
<1> HIDE DEF n, entry
<1>8. Acyclic(With(nodes, t, n))
  BY <1>1, <1>2, <1>4, SameDepsAcyclic
<1>9. /\ <<NodeWrite(t, n), entry>> \in Seq(Writes)
      /\ PlannedWrites(nodes, version, <<NodeWrite(t, n), entry>>)
      /\ <<NodeWrite(t, n), CursorWrite(t), entry>> \in Seq(Writes)
      /\ PlannedWrites(nodes, version, <<NodeWrite(t, n), CursorWrite(t), entry>>)
  BY <1>1, <1>2, <1>4, <1>5, <1>6, <1>8, OneNodePlanned
<1> QED BY <1>1, <1>7, <1>9, MutateIInv

\* add_dependency: the cycle check separates the task from the dependency.
LEMMA AddDependencyIInv ==
  ASSUME IInv, NEW t \in Task, NEW d \in Task, AddDependency(t, d)
  PROVE  IInv'
<1> DEFINE n == Stamped([nodes[t] EXCEPT !.deps = @ \cup {d}])
           entry == EntryWrite("add_dependency", t, d, NoSha)
<1>1. Unlocked /\ t \in DOMAIN nodes /\ d \in DOMAIN nodes /\ ~WouldIntroduceCycle(t, d)
  BY DEF AddDependency
<1>2. /\ nodes[t] \in Node /\ version \in Nat /\ version + 1 <= MaxVersion
      /\ nodes[t].deps \subseteq DOMAIN nodes /\ Acyclic(nodes) /\ IsGraph(nodes)
  BY <1>1, RewrittenTask
<1>3. /\ n \in Node /\ n.parent = nodes[t].parent /\ n.deps = nodes[t].deps \cup {d}
      /\ n.status = nodes[t].status /\ n.stamp = version + 1
  <2> DEFINE r == [nodes[t] EXCEPT !.deps = @ \cup {d}]
  <2>1. r \in Node /\ r.parent = nodes[t].parent /\ r.deps = nodes[t].deps \cup {d}
        /\ r.status = nodes[t].status
    BY <1>2 DEF Node
  <2> HIDE DEF r
  <2>2. /\ Stamped(r) \in Node /\ Stamped(r).stamp = version + 1
        /\ Stamped(r).parent = r.parent /\ Stamped(r).deps = r.deps
        /\ Stamped(r).status = r.status
    BY <1>2, <2>1, StampedNode
  <2> QED BY <2>1, <2>2 DEF r
<1>4. entry \in Writes /\ entry.kind = "entry" /\ entry.entry.ver = version + 1
  BY <1>2, EntryWriteType DEF Op, TaskOrNone
<1>5. Mutate(<<NodeWrite(t, n), entry>>)
  BY DEF AddDependency
<1> HIDE DEF n, entry
<1>6. PICK C \in SUBSET Task : /\ d \in C /\ t \notin C
                               /\ \A u \in C \cap DOMAIN nodes : nodes[u].deps \subseteq C
  BY <1>1 DEF WouldIntroduceCycle
<1>7. Acyclic(With(nodes, t, n))
  BY <1>1, <1>2, <1>3, <1>6, AcyclicNewEdge
<1>8. /\ <<NodeWrite(t, n), entry>> \in Seq(Writes)
      /\ PlannedWrites(nodes, version, <<NodeWrite(t, n), entry>>)
  BY <1>1, <1>2, <1>3, <1>4, <1>7, OneNodePlanned DEF EndKept
<1> QED BY <1>1, <1>5, <1>8, MutateIInv

\* record_commit rewrites the commit alone.
LEMMA RecordCommitIInv ==
  ASSUME IInv, NEW t \in Task, NEW sha \in Sha, RecordCommit(t, sha)
  PROVE  IInv'
<1> DEFINE n == Stamped([nodes[t] EXCEPT !.commit = sha])
           entry == EntryWrite("record_commit", t, NoTask, sha)
<1>1. Unlocked /\ t \in DOMAIN nodes
  BY DEF RecordCommit
<1>2. /\ nodes[t] \in Node /\ version \in Nat /\ version + 1 <= MaxVersion
      /\ nodes[t].deps \subseteq DOMAIN nodes /\ Acyclic(nodes)
  BY <1>1, RewrittenTask
<1>3. /\ n \in Node /\ n.parent = nodes[t].parent /\ n.deps = nodes[t].deps
      /\ n.status = nodes[t].status /\ n.stamp = version + 1
  <2> DEFINE r == [nodes[t] EXCEPT !.commit = sha]
  <2>1. r \in Node /\ r.parent = nodes[t].parent /\ r.deps = nodes[t].deps /\ r.status = nodes[t].status
    BY <1>2 DEF Node
  <2> HIDE DEF r
  <2>2. /\ Stamped(r) \in Node /\ Stamped(r).stamp = version + 1
        /\ Stamped(r).parent = r.parent /\ Stamped(r).deps = r.deps
        /\ Stamped(r).status = r.status
    BY <1>2, <2>1, StampedNode
  <2> QED BY <2>1, <2>2 DEF r
<1>4. entry \in Writes /\ entry.kind = "entry" /\ entry.entry.ver = version + 1
  BY <1>2, EntryWriteType DEF Op, TaskOrNone
<1>5. Mutate(<<NodeWrite(t, n), entry>>)
  BY DEF RecordCommit
<1> HIDE DEF n, entry
<1>6. Acyclic(With(nodes, t, n))
  BY <1>1, <1>2, <1>3, SameDepsAcyclic
<1>7. /\ <<NodeWrite(t, n), entry>> \in Seq(Writes)
      /\ PlannedWrites(nodes, version, <<NodeWrite(t, n), entry>>)
  BY <1>1, <1>2, <1>3, <1>4, <1>6, OneNodePlanned DEF EndKept
<1> QED BY <1>1, <1>5, <1>7, MutateIInv

\* set_cursor writes no node.
LEMMA SetCursorIInv ==
  ASSUME IInv, NEW t \in TaskOrNone, SetCursor(t)
  PROVE  IInv'
<1> DEFINE entry == EntryWrite("set_cursor", t, NoTask, NoSha)
<1>1. Unlocked /\ Mutate(<<CursorWrite(t), entry>>) /\ version \in Nat
  BY DEF SetCursor, IInv, TypeOK
<1>2. entry \in Writes /\ entry.kind = "entry" /\ entry.entry.ver = version + 1
  BY <1>1, EntryWriteType DEF Op, TaskOrNone
<1>3. CursorWrite(t) \in Writes /\ CursorWrite(t).kind = "cursor"
  BY DEF CursorWrite, Writes
<1> HIDE DEF entry
<1>4. <<CursorWrite(t), entry>> \in Seq(Writes) /\ PlannedWrites(nodes, version, <<CursorWrite(t), entry>>)
  BY <1>2, <1>3 DEF PlannedWrites
<1> QED BY <1>1, <1>4, MutateIInv

-----------------------------------------------------------------------------
(* Every write carries out what was planned.                               *)

\* A process that is up reads what the disk holds.
LEMMA UpReadsDisk ==
  ASSUME IInv, todo # <<>>
  PROVE  /\ up /\ nodes = file /\ version < MaxVersion /\ version \in Nat
         /\ todo \in Seq(Writes) /\ 1 \in DOMAIN todo /\ Head(todo) = todo[1]
         /\ IsGraph(file) /\ Resolved(file) /\ Acyclic(file)
         /\ \A t \in DOMAIN file : file[t].stamp <= MaxVersion
         /\ PlannedWrites(nodes, version, todo)
<1>1. todo \in Seq(Writes)
  BY DEF IInv, TypeOK
<1>2. 1 \in DOMAIN todo /\ Head(todo) = todo[1]
  BY <1>1, EmptySeq, LenProperties
<1> QED BY <1>1, <1>2 DEF IInv, TypeOK, DiskInv, Planned

\* The node write at the head: what it writes, and what it does to the graph.
LEMMA HeadNodeWrite ==
  ASSUME IInv, todo # <<>>, Head(todo).kind = "node"
  PROVE  /\ Head(todo).id \in Task /\ Head(todo).node \in Node
         /\ LET g == With(file, Head(todo).id, Head(todo).node)
            IN  /\ IsGraph(g) /\ Resolved(g) /\ Acyclic(g)
                /\ \A t \in DOMAIN g : g[t].stamp <= MaxVersion
                /\ DOMAIN g = DOMAIN file \cup {Head(todo).id}
                /\ g[Head(todo).id] = Head(todo).node
                /\ \A t \in DOMAIN file \ {Head(todo).id} : g[t] = file[t]
                /\ \A t \in DOMAIN file : EndKept(file[t].status, g[t].status)
<1> DEFINE t == Head(todo).id
           n == Head(todo).node
           g == With(file, t, n)
<1>1. /\ nodes = file /\ todo \in Seq(Writes) /\ 1 \in DOMAIN todo /\ Head(todo) = todo[1]
      /\ IsGraph(file) /\ Resolved(file) /\ PlannedWrites(nodes, version, todo)
      /\ \A u \in DOMAIN file : file[u].stamp <= MaxVersion
  BY UpReadsDisk
<1>2. todo[1] \in Writes
  BY <1>1, ElementOfSeq, LenProperties
<1>3. t \in Task /\ n \in Node
  BY <1>1, <1>2 DEF Writes
<1>4. PlannedNode(nodes, todo, 1)
  BY <1>1 DEF PlannedWrites
<1>5. /\ n.parent \in DOMAIN file \cup {NoTask} /\ n.deps \subseteq DOMAIN file
      /\ n.stamp <= MaxVersion /\ Acyclic(g)
      /\ t \in DOMAIN file => EndKept(file[t].status, n.status)
  BY <1>1, <1>4 DEF PlannedNode
<1> HIDE DEF t, n
<1>6. /\ IsGraph(g) /\ DOMAIN g = DOMAIN file \cup {t} /\ g[t] = n
      /\ \A u \in DOMAIN file \ {t} : g[u] = file[u]
  <2>1. IsGraph(file)
    BY <1>1
  <2>2. g = With(file, t, n)
    OBVIOUS
  <2> HIDE DEF g
  <2>3. DOMAIN With(file, t, n) = DOMAIN file \cup {t} /\ With(file, t, n)[t] = n
    BY <1>3, <2>1, WithIsGraph
  <2>4. \A u \in DOMAIN file \ {t} : With(file, t, n)[u] = file[u]
    BY <1>3, <2>1, WithIsGraph
  <2>5. IsGraph(With(file, t, n))
    BY <1>3, <2>1, WithIsGraph
  <2> QED BY <2>2, <2>3, <2>4, <2>5
<1> HIDE DEF g
<1>7. Resolved(g)
  BY <1>1, <1>5, <1>6 DEF Resolved
<1>8. \A u \in DOMAIN g : g[u].stamp <= MaxVersion
  BY <1>1, <1>5, <1>6
<1>9. \A u \in DOMAIN file : EndKept(file[u].status, g[u].status)
  BY <1>5, <1>6 DEF EndKept
<1> QED BY <1>3, <1>5, <1>6, <1>7, <1>8, <1>9 DEF t, n, g

\* Taking the head off leaves a planned list, once the head is carried out.
LEMMA TailOfTodo ==
  ASSUME IInv, todo # <<>>
  PROVE  /\ Tail(todo) \in Seq(Writes) /\ Len(Tail(todo)) = Len(todo) - 1 /\ Len(todo) \in Nat
         /\ \A i \in DOMAIN Tail(todo) : i + 1 \in DOMAIN todo /\ i + 1 # 1
                                         /\ Tail(todo)[i] = todo[i + 1] /\ i \in Nat
<1>1. todo \in Seq(Writes)
  BY UpReadsDisk
<1>2. /\ Tail(todo) \in Seq(Writes) /\ Len(Tail(todo)) = Len(todo) - 1
      /\ \A i \in 1..Len(Tail(todo)) : Tail(todo)[i] = todo[i + 1]
  BY <1>1, HeadTailProperties
<1>3. DOMAIN todo = 1..Len(todo) /\ Len(todo) \in Nat
  BY <1>1, LenProperties
<1>4. DOMAIN Tail(todo) = 1..Len(Tail(todo)) /\ Len(Tail(todo)) \in Nat
  BY <1>2, LenProperties
<1>5. ASSUME NEW i \in DOMAIN Tail(todo)
      PROVE  i + 1 \in DOMAIN todo /\ i + 1 # 1 /\ Tail(todo)[i] = todo[i + 1] /\ i \in Nat
  BY <1>2, <1>3, <1>4
<1> QED BY <1>2, <1>3, <1>5

\* A node write keeps the invariant: its own plan becomes the graph, and the
\* plans behind it name other tasks.
LEMMA WriteNodeIInv ==
  ASSUME IInv, WriteNode
  PROVE  IInv'
<1> DEFINE t == Head(todo).id
           n == Head(todo).node
           g == With(file, t, n)
<1> USE DEF memory, ghosts, disk
<1>1. todo # <<>> /\ Head(todo).kind = "node"
  BY DEF WriteNode
<1>2. /\ up /\ nodes = file /\ version < MaxVersion /\ version \in Nat
      /\ todo \in Seq(Writes) /\ 1 \in DOMAIN todo /\ Head(todo) = todo[1] /\ PlannedWrites(nodes, version, todo)
  BY <1>1, UpReadsDisk
<1>3. /\ IsGraph(g) /\ Resolved(g) /\ Acyclic(g)
      /\ \A u \in DOMAIN g : g[u].stamp <= MaxVersion
      /\ DOMAIN g = DOMAIN file \cup {t} /\ g[t] = n
      /\ \A u \in DOMAIN file \ {t} : g[u] = file[u]
  BY <1>1, HeadNodeWrite
<1>4. /\ Tail(todo) \in Seq(Writes)
      /\ \A i \in DOMAIN Tail(todo) : i + 1 \in DOMAIN todo /\ i + 1 # 1
                                      /\ Tail(todo)[i] = todo[i + 1] /\ i \in Nat
  BY <1>1, TailOfTodo
<1>5. file' = g /\ nodes' = g /\ todo' = Tail(todo) /\ version' = version /\ up' = up
  BY <1>2 DEF WriteNode
<1>6. TypeOK'
  BY <1>2, <1>3, <1>4, <1>5 DEF IInv, TypeOK, WriteNode
<1>7. DiskInv' /\ (up => nodes = file)'
  BY <1>3, <1>5 DEF DiskInv
<1>8. VersionsIncrease'
  BY <1>5 DEF IInv, VersionsIncrease, WriteNode
<1>9. ASSUME NEW i \in DOMAIN Tail(todo), Tail(todo)[i].kind = "node"
      PROVE  PlannedNode(g, Tail(todo), i)
  <2> DEFINE u == todo[i + 1].id
             m == todo[i + 1].node
  <2>1. PlannedNode(nodes, todo, i + 1) /\ todo[i + 1].kind = "node" /\ i + 1 # 1 /\ i + 1 \in DOMAIN todo
    BY <1>2, <1>4, <1>9 DEF PlannedWrites
  <2>2. /\ m.parent \in DOMAIN file \cup {NoTask} /\ m.deps \subseteq DOMAIN file
        /\ m.stamp <= MaxVersion /\ u \in DOMAIN file /\ m.deps = file[u].deps
        /\ EndKept(file[u].status, m.status)
        /\ \A k \in DOMAIN todo : k # i + 1 /\ todo[k].kind = "node" => todo[k].id # u
        /\ \A k \in DOMAIN todo : k < i + 1 => todo[k].kind = "node"
    BY <1>2, <2>1 DEF PlannedNode
  <2>3. u # t
    BY <1>1, <1>2, <2>1, <2>2
  <2>4. u \in DOMAIN g /\ g[u] = file[u]
    BY <1>3, <2>2, <2>3
  <2>5. \A k \in DOMAIN Tail(todo) :
           /\ k # i /\ Tail(todo)[k].kind = "node" => Tail(todo)[k].id # u
           /\ k < i => Tail(todo)[k].kind = "node"
    BY <1>4, <2>2
  <2>6. Tail(todo)[i].id = u /\ Tail(todo)[i].node = m
    BY <1>4
  <2> HIDE DEF u, m, g
  <2>7. Acyclic(With(g, u, m))
    BY <1>3, <2>2, <2>4, SameDepsAcyclic
  <2>8. /\ m.parent \in DOMAIN g \cup {NoTask} /\ m.deps \subseteq DOMAIN g
        /\ m.deps = g[u].deps /\ EndKept(g[u].status, m.status)
    BY <1>3, <2>2, <2>4
  <2> QED BY <1>5, <2>2, <2>4, <2>5, <2>6, <2>7, <2>8 DEF PlannedNode
<1>10. \A i \in DOMAIN Tail(todo) :
          Tail(todo)[i].kind = "entry" => Tail(todo)[i].entry.ver = version + 1
  BY <1>2, <1>4 DEF PlannedWrites
<1>11. Planned'
  BY <1>2, <1>5, <1>9, <1>10 DEF Planned, PlannedWrites
<1> QED BY <1>6, <1>7, <1>8, <1>11 DEF IInv

\* Once the head is no node write none is left, and no entry is behind one.
LEMMA RestOfTodo ==
  ASSUME IInv, todo # <<>>, Head(todo).kind # "node"
  PROVE  /\ \A i \in DOMAIN Tail(todo) : Tail(todo)[i].kind # "node"
         /\ \A i \in DOMAIN Tail(todo) : Tail(todo)[i].kind = "entry" =>
               Tail(todo)[i].entry.ver = version + 1 /\ i = Len(Tail(todo))
         /\ Head(todo).kind = "entry" => Tail(todo) = <<>>
<1>1. PlannedWrites(nodes, version, todo) /\ 1 \in DOMAIN todo /\ Head(todo) = todo[1]
  BY UpReadsDisk
<1>2. /\ Tail(todo) \in Seq(Writes) /\ Len(Tail(todo)) = Len(todo) - 1 /\ Len(todo) \in Nat
      /\ \A i \in DOMAIN Tail(todo) : i + 1 \in DOMAIN todo /\ i + 1 # 1
                                      /\ Tail(todo)[i] = todo[i + 1] /\ i \in Nat
  BY TailOfTodo
<1>3. ASSUME NEW i \in DOMAIN Tail(todo), Tail(todo)[i].kind = "node"
      PROVE  FALSE
  <2>1. PlannedNode(nodes, todo, i + 1)
    BY <1>1, <1>2, <1>3 DEF PlannedWrites
  <2>2. 1 < i + 1
    BY <1>2, LenProperties
  <2> QED BY <1>1, <2>1, <2>2 DEF PlannedNode
<1>4. \A i \in DOMAIN Tail(todo) : Tail(todo)[i].kind = "entry" =>
        Tail(todo)[i].entry.ver = version + 1 /\ i = Len(Tail(todo))
  BY <1>1, <1>2 DEF PlannedWrites
<1>5. Head(todo).kind = "entry" => Tail(todo) = <<>>
  <2>1. Head(todo).kind = "entry" => Len(todo) = 1
    BY <1>1 DEF PlannedWrites
  <2>2. Len(Tail(todo)) = 0 => Tail(todo) = <<>>
    BY <1>2, EmptySeq
  <2> QED BY <1>2, <2>1, <2>2
<1> QED BY <1>3, <1>4, <1>5

\* A cursor write touches no task.
LEMMA WriteCursorIInv ==
  ASSUME IInv, WriteCursor
  PROVE  IInv'
<1> USE DEF memory, ghosts, disk
<1>1. todo # <<>> /\ Head(todo).kind = "cursor"
  BY DEF WriteCursor
<1>2. up /\ version < MaxVersion /\ todo \in Seq(Writes) /\ 1 \in DOMAIN todo /\ Head(todo) = todo[1]
  BY <1>1, UpReadsDisk
<1>3. /\ \A i \in DOMAIN Tail(todo) : Tail(todo)[i].kind # "node"
      /\ \A i \in DOMAIN Tail(todo) : Tail(todo)[i].kind = "entry" =>
            Tail(todo)[i].entry.ver = version + 1 /\ i = Len(Tail(todo))
      /\ Tail(todo) \in Seq(Writes)
  BY <1>1, RestOfTodo, TailOfTodo
<1>4. Head(todo).id \in TaskOrNone
  <2>1. todo[1] \in Writes
    BY <1>2, ElementOfSeq, LenProperties
  <2> QED BY <1>1, <1>2, <2>1 DEF Writes
<1>5. TypeOK'
  BY <1>2, <1>3, <1>4 DEF IInv, TypeOK, WriteCursor, IsGraph
<1>6. (up => nodes = file)' /\ DiskInv' /\ VersionsIncrease'
  BY DEF IInv, DiskInv, Resolved, Acyclic, VersionsIncrease, WriteCursor
<1>7. Planned'
  BY <1>2, <1>3 DEF Planned, PlannedWrites, WriteCursor
<1> QED BY <1>5, <1>6, <1>7 DEF IInv

\* Appending an entry with a greater version keeps the journal increasing.
LEMMA AppendIncreases ==
  ASSUME NEW j \in Seq(Entry), NEW e \in Entry,
         \A i, k \in DOMAIN j : i < k => j[i].ver < j[k].ver,
         \A i \in DOMAIN j : j[i].ver < e.ver
  PROVE  /\ Append(j, e) \in Seq(Entry)
         /\ \A i, k \in DOMAIN Append(j, e) : i < k => Append(j, e)[i].ver < Append(j, e)[k].ver
         /\ \A i \in DOMAIN Append(j, e) : Append(j, e)[i].ver <= e.ver
<1>1. /\ Append(j, e) \in Seq(Entry) /\ Len(Append(j, e)) = Len(j) + 1
      /\ \A i \in 1..Len(j) : Append(j, e)[i] = j[i]
      /\ Append(j, e)[Len(j) + 1] = e
  BY AppendProperties
<1>2. DOMAIN j = 1..Len(j) /\ Len(j) \in Nat /\ DOMAIN Append(j, e) = 1..(Len(j) + 1)
  BY <1>1, LenProperties
<1>3. e.ver \in Nat /\ \A i \in DOMAIN j : j[i].ver \in Nat
  BY EntryVersions DEF Entry
<1> QED BY <1>1, <1>2, <1>3

\* The entry at the head of a mutation.
LEMMA HeadEntry ==
  ASSUME IInv, todo # <<>>, Head(todo).kind = "entry"
  PROVE  /\ Head(todo).entry \in Entry /\ Head(todo).entry.ver = version + 1
         /\ Tail(todo) = <<>>
         /\ \A i \in DOMAIN journal : journal[i].ver < Head(todo).entry.ver
<1>1. /\ todo \in Seq(Writes) /\ 1 \in DOMAIN todo /\ Head(todo) = todo[1]
      /\ PlannedWrites(nodes, version, todo) /\ up /\ version \in Nat
  BY UpReadsDisk
<1>2. todo[1] \in Writes
  BY <1>1, ElementOfSeq, LenProperties
<1>3. Head(todo).entry \in Entry /\ Head(todo).entry.ver = version + 1
  BY <1>1, <1>2 DEF Writes, PlannedWrites
<1>4. \A i \in DOMAIN journal : journal[i].ver \in Nat /\ journal[i].ver <= version
  BY <1>1, EntryVersions DEF IInv, TypeOK, VersionsIncrease
<1> QED BY <1>1, <1>3, <1>4, RestOfTodo

\* The journal entry ends the mutation.
LEMMA PostMutationIInv ==
  ASSUME IInv, PostMutation
  PROVE  IInv'
<1>1. todo # <<>> /\ Head(todo).kind = "entry"
  BY DEF PostMutation
<1>2. /\ up /\ version < MaxVersion /\ version \in Nat /\ IsGraph(file)
      /\ \A t \in DOMAIN file : file[t].stamp <= MaxVersion
  BY <1>1, UpReadsDisk
<1>3. /\ Head(todo).entry \in Entry /\ Head(todo).entry.ver = version + 1 /\ Tail(todo) = <<>>
      /\ \A i \in DOMAIN journal : journal[i].ver < Head(todo).entry.ver
  BY <1>1, HeadEntry
<1>4. journal \in Seq(Entry) /\ \A i, k \in DOMAIN journal : i < k => journal[i].ver < journal[k].ver
  BY DEF IInv, TypeOK, VersionsIncrease
<1>5. /\ journal' \in Seq(Entry)
      /\ \A i, k \in DOMAIN journal' : i < k => journal'[i].ver < journal'[k].ver
      /\ \A i \in DOMAIN journal' : journal'[i].ver <= version + 1
  <2>1. CASE torn
    <3>1. journal' = journal
      BY <2>1 DEF PostMutation
    <3>2. \A i \in DOMAIN journal : journal[i].ver <= version + 1
      BY <1>2, <1>3, <1>4, EntryVersions
    <3> QED BY <1>4, <3>1, <3>2
  <2>2. CASE ~torn
    <3>1. journal' = Append(journal, Head(todo).entry)
      BY <2>2 DEF PostMutation
    <3> QED BY <1>3, <1>4, <3>1, AppendIncreases
  <2> QED BY <2>1, <2>2
<1>6. lost' \subseteq Task /\ lostVer' \subseteq Nat
  BY <1>2 DEF IInv, TypeOK, PostMutation, Lose, Touched, IsGraph
<1>7. /\ version' = version + 1 /\ todo' = <<>> /\ torn' = FALSE
      /\ UNCHANGED <<file, cursor, up, nodes, cuts>>
  BY <1>3 DEF PostMutation
<1>8. TypeOK'
  <2>1. <<>> \in Seq(Writes)
    BY EmptySeq
  <2>2. IsGraph(file)' /\ IsGraph(nodes)' /\ cursor' \in TaskOrNone /\ cuts' \in 0..MaxCuts
          /\ up' \in BOOLEAN
    BY <1>7 DEF IInv, TypeOK, IsGraph
  <2>3. version' \in Nat /\ todo' \in Seq(Writes)
    BY <1>2, <1>7, <2>1
  <2>4. torn' \in BOOLEAN
    BY <1>7
  <2>5. up' = up
    BY <1>7
  <2>6. up'
    BY <1>2, <2>5, Zenon
  <2> QED BY <1>5, <1>6, <2>2, <2>3, <2>4, <2>6 DEF TypeOK
<1>9. (up => nodes = file)' /\ DiskInv'
  BY <1>7 DEF IInv, DiskInv, Resolved, Acyclic
<1>10. VersionsIncrease' /\ Planned'
  BY <1>5, <1>7 DEF VersionsIncrease, Planned, PlannedWrites
<1> QED BY <1>8, <1>9, <1>10 DEF IInv

-----------------------------------------------------------------------------
(* Faults, crashes, reopening.                                             *)

\* What a fault leaves: a good disk, reloaded.
LEMMA ReloadIInv ==
  ASSUME IInv, NEW f, IsGraph(f), Resolved(f), Acyclic(f),
         \A t \in DOMAIN f : f[t].stamp <= MaxVersion,
         file' = f, up, UNCHANGED up,
         journal' \in Seq(Entry),
         \A i, k \in DOMAIN journal' : i < k => journal'[i].ver < journal'[k].ver,
         Reload(f, journal'), torn' \in BOOLEAN, cursor' \in TaskOrNone,
         lost' \subseteq Task, lostVer' \subseteq Nat, cuts' \in 0..MaxCuts
  PROVE  IInv'
<1>1. LoadGraph(f) = f
  BY LoadResolved
<1>2. nodes' = f /\ version' = ComputeGraphVersion(journal', f) /\ todo' = <<>>
  BY <1>1 DEF Reload
<1>3. /\ ComputeGraphVersion(journal', f) \in Nat
      /\ \A i \in DOMAIN journal' : journal'[i].ver <= ComputeGraphVersion(journal', f)
  BY ComputedVersion
<1>4. up' = TRUE
  <2>1. up' = up
    OBVIOUS
  <2>2. up = TRUE
    BY DEF IInv, TypeOK
  <2> QED BY <2>1, <2>2
<1>5. TypeOK'
  <2>1. todo' \in Seq(Writes)
    BY <1>2, EmptySeq
  <2>2. IsGraph(file') /\ IsGraph(nodes')
    BY <1>2
  <2>3. version' \in Nat
    BY <1>2, <1>3
  <2> QED BY <1>4, <2>1, <2>2, <2>3 DEF TypeOK
<1>6. DiskInv'
  BY DEF DiskInv
<1>7. VersionsIncrease'
  BY <1>2, <1>3 DEF VersionsIncrease
<1>8. Planned'
  BY <1>2 DEF Planned, PlannedWrites
<1> QED BY <1>2, <1>5, <1>6, <1>7, <1>8 DEF IInv

\* The ghosts keep their types when a mutation is cut short.
LEMMA CutShortTypes ==
  ASSUME IInv, NEW f, IsGraph(f), Lose(f), CutShort
  PROVE  lost' \subseteq Task /\ lostVer' \subseteq Nat /\ cuts' \in 0..MaxCuts
<1>1. lost \subseteq Task /\ lostVer \subseteq Nat /\ cuts \in 0..MaxCuts /\ version \in Nat
  BY DEF IInv, TypeOK
<1>2. DOMAIN f \subseteq Task
  BY DEF IsGraph
<1>3. lost' \subseteq Task /\ lostVer' \subseteq Nat
  <2>1. Touched(f) \subseteq Task
    BY <1>2 DEF Touched
  <2>2. lost' \subseteq Task
    BY <1>1, <2>1 DEF Lose
  <2>3. version + 1 \in Nat
    BY <1>1
  <2>4. (IF Touched(f) = {} THEN {} ELSE {version + 1}) \subseteq Nat
    BY <2>3
  <2>5. lostVer' \subseteq Nat
    BY <1>1, <2>4 DEF Lose
  <2> QED BY <2>2, <2>5
<1>4. cuts' \in 0..MaxCuts
  BY <1>1, Bounds DEF CutShort
<1> QED BY <1>3, <1>4

\* A fault on a node write: the file is the old one or the new one.
LEMMA NodeFaultIInv ==
  ASSUME IInv, NodeFault
  PROVE  IInv'
<1>1. todo # <<>> /\ Head(todo).kind = "node" /\ CutShort /\ UNCHANGED <<journal, torn, cursor>>
  BY DEF NodeFault
<1>2. PICK f \in {file, With(file, Head(todo).id, Head(todo).node)} :
         file' = f /\ Lose(f) /\ Reload(f, journal)
  BY DEF NodeFault
<1>3. /\ up /\ IsGraph(file) /\ Resolved(file) /\ Acyclic(file)
      /\ \A t \in DOMAIN file : file[t].stamp <= MaxVersion
  BY <1>1, UpReadsDisk
<1>4. /\ IsGraph(f) /\ Resolved(f) /\ Acyclic(f)
      /\ \A t \in DOMAIN f : f[t].stamp <= MaxVersion
  <2>1. CASE f = file
    BY <1>3, <2>1
  <2>2. CASE f = With(file, Head(todo).id, Head(todo).node)
    <3> DEFINE g == With(file, Head(todo).id, Head(todo).node)
    <3>1. IsGraph(g) /\ Resolved(g) /\ Acyclic(g) /\ \A t \in DOMAIN g : g[t].stamp <= MaxVersion
      BY <1>1, HeadNodeWrite
    <3> QED BY <2>2, <3>1
  <2> QED BY <2>1, <2>2
<1>5. /\ journal' = journal /\ journal \in Seq(Entry)
      /\ \A i, k \in DOMAIN journal : i < k => journal[i].ver < journal[k].ver
      /\ torn' \in BOOLEAN /\ cursor' \in TaskOrNone
  BY <1>1 DEF IInv, TypeOK, VersionsIncrease
<1>6. lost' \subseteq Task /\ lostVer' \subseteq Nat /\ cuts' \in 0..MaxCuts
  BY <1>1, <1>2, <1>4, CutShortTypes
<1>7. Reload(f, journal') /\ UNCHANGED up
  BY <1>2, <1>5 DEF Reload
<1> QED BY <1>2, <1>3, <1>4, <1>5, <1>6, <1>7, ReloadIInv

\* A fault on the cursor write: no task moved.
LEMMA CursorFaultIInv ==
  ASSUME IInv, CursorFault
  PROVE  IInv'
<1>1. /\ todo # <<>> /\ Head(todo).kind = "cursor" /\ CutShort /\ UNCHANGED <<file, journal, torn>>
      /\ cursor' \in {cursor, Head(todo).id} /\ Lose(file) /\ Reload(file, journal)
  BY DEF CursorFault
<1>2. /\ up /\ IsGraph(file) /\ Resolved(file) /\ Acyclic(file)
      /\ \A t \in DOMAIN file : file[t].stamp <= MaxVersion
      /\ todo \in Seq(Writes) /\ 1 \in DOMAIN todo /\ Head(todo) = todo[1]
  BY <1>1, UpReadsDisk
<1>3. cursor' \in TaskOrNone
  <2>1. todo[1] \in Writes
    BY <1>2, ElementOfSeq, LenProperties
  <2> QED BY <1>1, <1>2, <2>1 DEF Writes, IInv, TypeOK
<1>4. /\ journal' = journal /\ journal \in Seq(Entry)
      /\ \A i, k \in DOMAIN journal : i < k => journal[i].ver < journal[k].ver
      /\ torn' \in BOOLEAN
  BY <1>1 DEF IInv, TypeOK, VersionsIncrease
<1>5. lost' \subseteq Task /\ lostVer' \subseteq Nat /\ cuts' \in 0..MaxCuts
  BY <1>1, <1>2, CutShortTypes
<1>6. Reload(file, journal') /\ UNCHANGED up /\ file' = file
  BY <1>1, <1>4 DEF Reload
<1> QED BY <1>2, <1>3, <1>4, <1>5, <1>6, ReloadIInv

\* A fault on the journal append: the entry is there or it is not.
LEMMA EntryFaultIInv ==
  ASSUME IInv, EntryFault \/ TornFault
  PROVE  IInv'
<1>1. /\ todo # <<>> /\ Head(todo).kind = "entry" /\ CutShort /\ UNCHANGED <<file, cursor>>
      /\ \/ journal' = journal /\ Lose(file)
         \/ journal' = Append(journal, Head(todo).entry) /\ UNCHANGED <<lost, lostVer>>
      /\ Reload(file, journal')
  BY DEF EntryFault, TornFault
<1>2. torn' \in BOOLEAN /\ cursor' \in TaskOrNone
  BY DEF EntryFault, TornFault, IInv, TypeOK
<1>3. /\ up /\ IsGraph(file) /\ Resolved(file) /\ Acyclic(file)
      /\ \A t \in DOMAIN file : file[t].stamp <= MaxVersion
  BY <1>1, UpReadsDisk
<1>4. /\ Head(todo).entry \in Entry
      /\ \A i \in DOMAIN journal : journal[i].ver < Head(todo).entry.ver
  BY <1>1, HeadEntry
<1>5. journal \in Seq(Entry) /\ \A i, k \in DOMAIN journal : i < k => journal[i].ver < journal[k].ver
  BY DEF IInv, TypeOK, VersionsIncrease
<1>6. /\ journal' \in Seq(Entry)
      /\ \A i, k \in DOMAIN journal' : i < k => journal'[i].ver < journal'[k].ver
  BY <1>1, <1>4, <1>5, AppendIncreases
<1>7. lost' \subseteq Task /\ lostVer' \subseteq Nat /\ cuts' \in 0..MaxCuts
  <2>1. CASE Lose(file)
    BY <1>1, <1>3, <2>1, CutShortTypes
  <2>2. CASE UNCHANGED <<lost, lostVer>>
    BY <1>1, <2>2, Bounds DEF IInv, TypeOK, CutShort
  <2> QED BY <1>1, <2>1, <2>2
<1>8. UNCHANGED up /\ file' = file
  BY <1>1 DEF Reload
<1> QED BY <1>1, <1>2, <1>3, <1>6, <1>7, <1>8, ReloadIInv

\* A crash loses the memory and the plan, never the files.
LEMMA CrashIInv ==
  ASSUME IInv, Crash
  PROVE  IInv'
<1>1. /\ up' = FALSE /\ nodes' = <<>> /\ version' = 0 /\ todo' = <<>>
      /\ UNCHANGED <<file, journal, cursor, history>>
      /\ \/ UNCHANGED <<lost, lostVer, cuts>>
         \/ Lose(file) /\ CutShort
      /\ torn' \in BOOLEAN
  BY DEF Crash, IInv, TypeOK
<1>2. IsGraph(file) /\ IsGraph(nodes')
  BY <1>1 DEF IInv, TypeOK, IsGraph
<1>3. lost' \subseteq Task /\ lostVer' \subseteq Nat /\ cuts' \in 0..MaxCuts
  <2>1. CASE UNCHANGED <<lost, lostVer, cuts>>
    BY <2>1 DEF IInv, TypeOK
  <2>2. CASE Lose(file) /\ CutShort
    BY <1>2, <2>2, CutShortTypes
  <2> QED BY <1>1, <2>1, <2>2
<1>4. TypeOK'
  <2>1. todo' \in Seq(Writes) /\ journal' \in Seq(Entry) /\ cursor' \in TaskOrNone
    BY <1>1, EmptySeq DEF IInv, TypeOK
  <2>2. IsGraph(file')
    BY <1>1, <1>2
  <2> QED BY <1>1, <1>2, <1>3, <2>1, <2>2 DEF TypeOK
<1>5. DiskInv' /\ VersionsIncrease'
  BY <1>1 DEF IInv, DiskInv, Resolved, Acyclic, VersionsIncrease
<1>6. Planned'
  BY <1>1 DEF Planned, PlannedWrites
<1> QED BY <1>1, <1>4, <1>5, <1>6 DEF IInv

\* Opening reads the files back.
LEMMA OpenIInv ==
  ASSUME IInv, Open
  PROVE  IInv'
<1> USE DEF disk, ghosts
<1>1. /\ IsGraph(file) /\ Resolved(file) /\ journal \in Seq(Entry)
      /\ \A t \in DOMAIN file : file[t].stamp <= MaxVersion
      /\ \A i, k \in DOMAIN journal : i < k => journal[i].ver < journal[k].ver
  BY DEF IInv, TypeOK, DiskInv, VersionsIncrease
<1>2. LoadGraph(file) = file
  BY <1>1, LoadResolved
<1>3. /\ OpenVersion(journal, file) \in Nat
      /\ \A i \in DOMAIN journal : journal[i].ver <= OpenVersion(journal, file)
  BY <1>1, OpenedVersion
<1>4. /\ up' = TRUE /\ nodes' = file /\ version' = OpenVersion(journal, file) /\ todo' = <<>>
      /\ UNCHANGED <<file, journal, torn, cursor, lost, lostVer, cuts>>
  BY <1>2 DEF Open, IInv, TypeOK
<1>5. TypeOK'
  <2>1. IsGraph(file') /\ IsGraph(nodes') /\ version' \in Nat
    BY <1>1, <1>3, <1>4
  <2>2. todo' \in Seq(Writes)
    BY <1>4, EmptySeq
  <2> QED BY <1>4, <2>1, <2>2 DEF IInv, TypeOK
<1>6. DiskInv'
  BY <1>4 DEF IInv, DiskInv, Resolved, Acyclic
<1>7. VersionsIncrease' /\ Planned'
  BY <1>1, <1>3, <1>4 DEF VersionsIncrease, Planned, PlannedWrites
<1> QED BY <1>4, <1>5, <1>6, <1>7 DEF IInv

-----------------------------------------------------------------------------
(* The theorems.                                                           *)

\* The invariant is inductive.
LEMMA NextIInv == IInv /\ [Next]_vars => IInv'
<1> SUFFICES ASSUME IInv, [Next]_vars PROVE IInv'
  OBVIOUS
<1>1. CASE Operation
  <2>1. ASSUME NEW p \in TaskOrNone, NEW after \in TaskOrNone, NEW draft \in Draft,
               NEW deps \in SUBSET Task, AddSubtask(p, draft, deps, after)
        PROVE  IInv'
    BY <2>1, AddSubtaskIInv
  <2>2. ASSUME NEW t \in Task, NEW s \in StatusInput, UpdateStatus(t, s)
        PROVE  IInv'
    BY <2>2, UpdateStatusIInv
  <2>3. ASSUME NEW t \in Task, NEW d \in Task, AddDependency(t, d)
        PROVE  IInv'
    BY <2>3, AddDependencyIInv
  <2>4. ASSUME NEW t \in Task, NEW sha \in Sha, RecordCommit(t, sha)
        PROVE  IInv'
    BY <2>4, RecordCommitIInv
  <2>5. ASSUME NEW t \in TaskOrNone, SetCursor(t)
        PROVE  IInv'
    BY <2>5, SetCursorIInv
  <2> QED BY <1>1, <2>1, <2>2, <2>3, <2>4, <2>5 DEF Operation
<1>2. CASE Write
  BY <1>2, WriteNodeIInv, WriteCursorIInv, PostMutationIInv DEF Write
<1>3. CASE Fault
  BY <1>3, NodeFaultIInv, CursorFaultIInv, EntryFaultIInv DEF Fault
<1>4. CASE Crash
  BY <1>4, CrashIInv
<1>5. CASE Open
  BY <1>5, OpenIInv
<1>6. CASE UNCHANGED vars
  <2> USE DEF vars, disk, memory, ghosts
  <2>1. /\ file' = file /\ journal' = journal /\ torn' = torn /\ cursor' = cursor
        /\ up' = up /\ nodes' = nodes /\ version' = version /\ todo' = todo
        /\ lost' = lost /\ lostVer' = lostVer /\ cuts' = cuts
    BY <1>6
  <2>2. TypeOK'
    BY <2>1 DEF IInv, TypeOK, IsGraph
  <2>3. (up => nodes = file)'
    BY <2>1 DEF IInv
  <2>4. DiskInv' /\ VersionsIncrease'
    BY <2>1 DEF IInv, DiskInv, Resolved, Acyclic, VersionsIncrease
  <2>5. Planned'
    <3>1. Planned
      BY DEF IInv
    <3> QED BY <2>1, <3>1 DEF Planned, PlannedWrites, PlannedNode, With
  <2> QED BY <2>2, <2>3, <2>4, <2>5 DEF IInv
<1> QED BY <1>1, <1>2, <1>3, <1>4, <1>5, <1>6 DEF Next

\* The inductive invariant holds throughout.
THEOREM Invariance == Spec => []IInv
  BY InitIInv, NextIInv, PTL DEF Spec

\* Every variable keeps its type, over every fault and crash.
THEOREM TypeCorrect == Spec => []TypeOK
<1>1. IInv => TypeOK
  BY DEF IInv
<1> QED BY <1>1, Invariance, PTL

\* `_mutating`: a read of the curator never shows what is not on disk.
THEOREM MemoryMatches == Spec => []MemoryIsDisk
<1>1. IInv => MemoryIsDisk
  BY LoadResolved DEF IInv, TypeOK, DiskInv, MemoryIsDisk
<1> QED BY <1>1, Invariance, PTL

\* The journal's versions strictly increase.
THEOREM VersionsOrdered == Spec => []VersionsIncrease
<1>1. IInv => VersionsIncrease
  BY DEF IInv
<1> QED BY <1>1, Invariance, PTL

\* No set of tasks waits on itself, in memory or on disk.
THEOREM NoDependencyCycle == Spec => []DepsAcyclic
<1>1. IInv => DepsAcyclic
  <2> SUFFICES ASSUME IInv PROVE DepsAcyclic
    OBVIOUS
  <2>1. CASE up
    BY <2>1 DEF IInv, DiskInv, DepsAcyclic
  <2>2. CASE ~up
    BY <2>2 DEF IInv, TypeOK, DiskInv, DepsAcyclic, Acyclic
  <2> QED BY <2>1, <2>2
<1> QED BY <1>1, Invariance, PTL

\* An end is final: no step of any mutation, fault, crash or reopening takes a
\* retired task out of its status or a passed one back to open work.
THEOREM EndsStay == Spec => EndsAreFinal
<1> DEFINE A == \A t \in DOMAIN file :
                   /\ t \in DOMAIN file'
                   /\ file[t].status \in {"skipped", "obsolete"} => file'[t].status = file[t].status
                   /\ file[t].status = "passed" => file'[t].status \in {"passed", "obsolete"}
<1>1. IInv /\ [Next]_vars => [A]_vars
  <2> SUFFICES ASSUME IInv, [Next]_vars PROVE A
    OBVIOUS
  <2>1. CASE file' = file
    BY <2>1
  <2>2. CASE file' = With(file, Head(todo).id, Head(todo).node)
             /\ todo # <<>> /\ Head(todo).kind = "node"
    <3> DEFINE g == With(file, Head(todo).id, Head(todo).node)
    <3>1. /\ DOMAIN g = DOMAIN file \cup {Head(todo).id}
          /\ \A t \in DOMAIN file : EndKept(file[t].status, g[t].status)
      BY <2>2, HeadNodeWrite
    <3> QED BY <2>2, <3>1 DEF EndKept
  <2>3. \/ file' = file
        \/ file' = With(file, Head(todo).id, Head(todo).node)
           /\ todo # <<>> /\ Head(todo).kind = "node"
    BY DEF Next, Operation, AddSubtask, UpdateStatus, AddDependency, RecordCommit, SetCursor, Mutate,
           Write, WriteNode, WriteCursor, PostMutation, Fault, NodeFault, CursorFault, EntryFault,
           TornFault, Crash, Open, vars, disk
  <2> QED BY <2>1, <2>2, <2>3
<1>2. Spec => [][Next]_vars
  BY DEF Spec
<1> QED BY <1>1, <1>2, Invariance, PTL DEF EndsAreFinal

-----------------------------------------------------------------------------
(* What the writes still lined up will have done.                          *)

NodeWrites(w) == {i \in DOMAIN w : w[i].kind = "node"}
Rewrites(w) == {w[i].id : i \in NodeWrites(w)}

\* The graph once every write of w is made.
Done(g, w) == [t \in DOMAIN g \cup Rewrites(w) |->
                  IF t \in Rewrites(w) THEN w[CHOOSE i \in NodeWrites(w) : w[i].id = t].node
                                       ELSE g[t]]

\* Every listed child is there, names its lister and is listed once.
Listed(g) ==
    \A t \in DOMAIN g : \A i \in DOMAIN g[t].children :
        /\ g[t].children[i] \in DOMAIN g
        /\ g[g[t].children[i]].parent = t
        /\ \A k \in DOMAIN g[t].children : g[t].children[i] = g[t].children[k] => i = k

\* The parent does not list it.
Orphan(g, t) == g[t].parent # NoTask /\ ~IsChildOf(t, g[g[t].parent])

\* One write: its stamp, the place it leaves a task it rewrites, the children it names.
LinedNode(g, v, w, i) ==
    /\ w[i].node.stamp = v + 1
    /\ w[i].id \in DOMAIN g =>
          /\ w[i].node.parent = g[w[i].id].parent
          /\ \A c \in Task : IsChildOf(c, g[w[i].id]) => IsChildOf(c, w[i].node)
    /\ \A c \in Task : IsChildOf(c, w[i].node) =>
          c \in DOMAIN g \/ \E k \in NodeWrites(w) : k < i /\ w[k].id = c

\* A mutation ends in its entry, and every node write before it is well placed.
Lined(g, v, w) ==
    /\ w # <<>> => w[Len(w)].kind = "entry"
    /\ \A i \in NodeWrites(w) : LinedNode(g, v, w, i)

\* The files form a tree, and will when the mutation is done.
Treed ==
    /\ Lined(file, version, todo)
    /\ Listed(file)
    /\ \A t \in DOMAIN file :
          Orphan(file, t) => t \in lost \/ (todo # <<>> /\ file[t].stamp = version + 1)
    /\ todo # <<>> =>
          /\ Listed(Done(file, todo))
          /\ \A t \in DOMAIN Done(file, todo) : Orphan(Done(file, todo), t) => t \in lost

-----------------------------------------------------------------------------
(* The numbers of the versions.                                            *)

\* A lost number is on a node file, no journal entry has it, and the counter of an
\* open curator is past it.
Counted ==
    /\ ~torn
    /\ \A i \in DOMAIN journal : journal[i].ver \notin lostVer
    /\ \A v \in lostVer : \E t \in DOMAIN file : v <= file[t].stamp
    /\ up => /\ \A v \in lostVer : v <= version
             /\ \A t \in DOMAIN file : file[t].stamp <= version
                                       \/ (todo # <<>> /\ file[t].stamp = version + 1)

-----------------------------------------------------------------------------
(* What the journal tells.                                                 *)

\* The tasks the journal does not date after v.
BornBy(j, v) == {c \in Task : ~BornAfter(j, c, v)}

\* Undoing what j tells after v of a task that is now n gives m.
AsOf(n, j, t, v, m) ==
    /\ m.parent = n.parent /\ m.standing = n.standing /\ m.by = n.by
    /\ m.status = LastWord(Prefix(j, v), "update_status", t, "pending")
    /\ m.commit = LastWord(Prefix(j, v), "record_commit", t, NoSha)
    /\ m.deps = n.deps \ DepsAddedAfter(j, t, v)
    /\ m.children = Select(n.children, BornBy(j, v))

\* The journal j tells all of task t, which is now n: its birth, its status, its
\* commit and how it stood at the end of every mutation.
Told(n, j, t) ==
    /\ Born(j, t)
    /\ n.status = LastWord(j, "update_status", t, "pending")
    /\ n.commit = LastWord(j, "record_commit", t, NoSha)
    /\ \A h \in history :
          /\ t \in DOMAIN h.nodes <=> ~BornAfter(j, t, h.ver)
          /\ t \in DOMAIN h.nodes => AsOf(n, j, t, h.ver, h.nodes[t])

\* The journal as it will be once the mutation under way has appended its entry.
Pending == Append(journal, todo[Len(todo)].entry)

\* What a checkpoint remembers is in the journal j, and its tasks are still there.
Remembered(j) ==
    \A h \in history :
        /\ \E i \in DOMAIN j : j[i].ver = h.ver
        /\ IsGraph(h.nodes) /\ Resolved(h.nodes)
        /\ \A t \in DOMAIN h.nodes : t \in DOMAIN file /\ ~BornAfter(j, t, h.ver)

\* The journal tells the files, but for the tasks of cut mutations and those the
\* one under way has written; what it will be tells what they will be.
Chronicled ==
    /\ \A i \in DOMAIN journal : journal[i].id \in DOMAIN file \cup {NoTask}
    /\ Remembered(journal)
    /\ \A t \in DOMAIN file \ lost :
          (todo # <<>> => file[t].stamp # version + 1) => Told(file[t], journal, t)
    /\ todo # <<>> =>
          /\ Remembered(Pending)
          /\ todo[Len(todo)].entry.id \in DOMAIN Done(file, todo) \cup {NoTask}
          /\ \A t \in DOMAIN Done(file, todo) \ lost : Told(Done(file, todo)[t], Pending, t)

-----------------------------------------------------------------------------
(* The graph that will be.                                                 *)

\* Done rewrites what the writes name and keeps the rest.
LEMMA DoneIs ==
  ASSUME NEW g, NEW v, NEW w, PlannedWrites(g, v, w)
  PROVE  /\ DOMAIN Done(g, w) = DOMAIN g \cup Rewrites(w)
         /\ \A i \in NodeWrites(w) : Done(g, w)[w[i].id] = w[i].node
         /\ \A t \in DOMAIN g \ Rewrites(w) : Done(g, w)[t] = g[t]
<1>1. DOMAIN Done(g, w) = DOMAIN g \cup Rewrites(w)
  BY DEF Done
<1>2. ASSUME NEW i \in NodeWrites(w) PROVE Done(g, w)[w[i].id] = w[i].node
  <2>1. w[i].id \in Rewrites(w)
    BY DEF Rewrites
  <2>2. \A k \in NodeWrites(w) : w[k].id = w[i].id => k = i
    BY DEF PlannedWrites, PlannedNode, NodeWrites
  <2>3. (CHOOSE k \in NodeWrites(w) : w[k].id = w[i].id) = i
    BY <2>2
  <2> QED BY <2>1, <2>3 DEF Done
<1>3. \A t \in DOMAIN g \ Rewrites(w) : Done(g, w)[t] = g[t]
  BY DEF Done
<1> QED BY <1>1, <1>2, <1>3

\* Nothing to rewrite, nothing done.
LEMMA DoneNothing ==
  ASSUME NEW g, IsGraph(g), NEW w, NodeWrites(w) = {}
  PROVE  Done(g, w) = g
<1>1. g = [t \in DOMAIN g |-> g[t]] /\ Rewrites(w) = {}
  BY DEF IsGraph, Rewrites
<1>2. Done(g, w) = [t \in DOMAIN g |-> g[t]]
  BY <1>1 DEF Done
<1> QED BY <1>1, <1>2

\* The node writes behind the head.
LEMMA TailWrites ==
  ASSUME IInv, todo # <<>>
  PROVE  /\ \A i : i \in NodeWrites(Tail(todo)) <=> i + 1 \in NodeWrites(todo) /\ i \in Nat \ {0}
         /\ \A i \in NodeWrites(Tail(todo)) : Tail(todo)[i] = todo[i + 1]
         /\ 1 \in NodeWrites(todo) <=> Head(todo).kind = "node"
         /\ \A i \in NodeWrites(todo) : i \in Nat \ {0}
         /\ Tail(todo) # <<>> => Tail(todo)[Len(Tail(todo))] = todo[Len(todo)]
<1>1. todo \in Seq(Writes) /\ 1 \in DOMAIN todo /\ Head(todo) = todo[1]
  BY UpReadsDisk
<1>2. /\ Tail(todo) \in Seq(Writes) /\ Len(Tail(todo)) = Len(todo) - 1 /\ Len(todo) \in Nat
      /\ \A i \in DOMAIN Tail(todo) : i + 1 \in DOMAIN todo /\ i + 1 # 1
                                      /\ Tail(todo)[i] = todo[i + 1] /\ i \in Nat
  BY TailOfTodo
<1>3. DOMAIN todo = 1..Len(todo) /\ DOMAIN Tail(todo) = 1..(Len(todo) - 1)
  BY <1>1, <1>2, LenProperties
<1>4. \A i : i \in NodeWrites(Tail(todo)) <=> i + 1 \in NodeWrites(todo) /\ i \in Nat \ {0}
  <2>1. ASSUME NEW i \in NodeWrites(Tail(todo)) PROVE i + 1 \in NodeWrites(todo) /\ i \in Nat \ {0}
    BY <1>2, <1>3 DEF NodeWrites
  <2>2. ASSUME NEW i \in Nat \ {0}, i + 1 \in NodeWrites(todo) PROVE i \in NodeWrites(Tail(todo))
    <3>1. i \in DOMAIN Tail(todo)
      BY <1>2, <1>3, <2>2 DEF NodeWrites
    <3> QED BY <1>2, <2>2, <3>1 DEF NodeWrites
  <2> QED BY <2>1, <2>2
<1>5. \A i \in NodeWrites(Tail(todo)) : Tail(todo)[i] = todo[i + 1]
  BY <1>2 DEF NodeWrites
<1>6. 1 \in NodeWrites(todo) <=> Head(todo).kind = "node"
  BY <1>1 DEF NodeWrites
<1>7. \A i \in NodeWrites(todo) : i \in Nat \ {0}
  BY <1>2, <1>3 DEF NodeWrites
<1>8. Tail(todo) # <<>> => Tail(todo)[Len(Tail(todo))] = todo[Len(todo)]
  <2> SUFFICES ASSUME Tail(todo) # <<>> PROVE Tail(todo)[Len(Tail(todo))] = todo[Len(todo)]
    OBVIOUS
  <2>1. Len(Tail(todo)) # 0
    BY <1>2, EmptySeq
  <2>2. Len(Tail(todo)) \in DOMAIN Tail(todo)
    BY <1>2, <1>3, <2>1
  <2> QED BY <1>2, <2>2
<1> QED BY <1>4, <1>5, <1>6, <1>7, <1>8

\* Making the first write brings the graph that will be no nearer and no farther.
LEMMA DoneHead ==
  ASSUME IInv, todo # <<>>, Head(todo).kind = "node"
  PROVE  Done(With(file, Head(todo).id, Head(todo).node), Tail(todo)) = Done(file, todo)
<1> DEFINE t == Head(todo).id
           n == Head(todo).node
           g == With(file, t, n)
           w == Tail(todo)
<1>1. nodes = file /\ 1 \in DOMAIN todo /\ Head(todo) = todo[1] /\ PlannedWrites(file, version, todo)
  BY UpReadsDisk
<1>2. /\ \A i : i \in NodeWrites(w) <=> i + 1 \in NodeWrites(todo) /\ i \in Nat \ {0}
      /\ \A i \in NodeWrites(w) : w[i] = todo[i + 1]
      /\ 1 \in NodeWrites(todo) /\ \A i \in NodeWrites(todo) : i \in Nat \ {0}
  BY TailWrites
<1>3. /\ DOMAIN g = DOMAIN file \cup {t} /\ g[t] = n
      /\ \A u \in DOMAIN file \ {t} : g[u] = file[u]
  BY HeadNodeWrite
<1>4. \A i, k \in NodeWrites(todo) : todo[i].id = todo[k].id => i = k
  BY <1>1 DEF PlannedWrites, PlannedNode, NodeWrites
<1>5. Rewrites(todo) = Rewrites(w) \cup {t} /\ t \notin Rewrites(w)
  <2>1. ASSUME NEW u \in Rewrites(todo) PROVE u \in Rewrites(w) \cup {t}
    <3>1. PICK i \in NodeWrites(todo) : u = todo[i].id
      BY DEF Rewrites
    <3>2. CASE i = 1
      BY <1>1, <3>1, <3>2
    <3>3. CASE i # 1
      <4>1. (i - 1) + 1 \in NodeWrites(todo) /\ i - 1 \in Nat \ {0} /\ (i - 1) + 1 = i
        BY <1>2, <3>3
      <4>2. i - 1 \in NodeWrites(w) /\ w[i - 1] = todo[i]
        BY <1>2, <4>1
      <4> QED BY <3>1, <4>2 DEF Rewrites
    <3> QED BY <3>2, <3>3
  <2>2. ASSUME NEW u \in Rewrites(w) PROVE u \in Rewrites(todo) /\ u # t
    <3>1. PICK i \in NodeWrites(w) : u = w[i].id
      BY DEF Rewrites
    <3>2. i + 1 \in NodeWrites(todo) /\ i \in Nat \ {0} /\ w[i] = todo[i + 1]
      BY <1>2, Zenon
    <3>3. i \in Nat /\ i # 0
      BY <3>2, Zenon
    <3>4. i + 1 # 1
      BY <3>3
    <3>5. u # t
      BY <1>1, <1>2, <1>4, <3>1, <3>2, <3>4
    <3> QED BY <3>1, <3>2, <3>5 DEF Rewrites
  <2>3. t \in Rewrites(todo)
    BY <1>1, <1>2 DEF Rewrites
  <2> QED BY <2>1, <2>2, <2>3
<1>6. ASSUME NEW u \in Rewrites(w)
      PROVE  w[CHOOSE i \in NodeWrites(w) : w[i].id = u].node
             = todo[CHOOSE i \in NodeWrites(todo) : todo[i].id = u].node
  <2>1. PICK i \in NodeWrites(w) : u = w[i].id
    BY DEF Rewrites
  <2>2. i + 1 \in NodeWrites(todo) /\ todo[i + 1] = w[i]
    BY <1>2
  <2>3. (CHOOSE k \in NodeWrites(todo) : todo[k].id = u) = i + 1
    BY <1>4, <2>1, <2>2
  <2>4. ASSUME NEW k \in NodeWrites(w), w[k].id = u PROVE k = i
    <3>1. k + 1 \in NodeWrites(todo) /\ todo[k + 1] = w[k] /\ k \in Nat
      BY <1>2
    <3>2. k + 1 = i + 1
      BY <1>4, <2>1, <2>2, <2>4, <3>1
    <3>3. i \in Nat
      BY <1>2
    <3> QED BY <3>1, <3>2, <3>3
  <2>5. (CHOOSE k \in NodeWrites(w) : w[k].id = u) = i
    BY <2>1, <2>4
  <2> QED BY <2>2, <2>3, <2>5
<1>7. todo[CHOOSE i \in NodeWrites(todo) : todo[i].id = t].node = n
  <2>1. (CHOOSE i \in NodeWrites(todo) : todo[i].id = t) = 1
    BY <1>1, <1>2, <1>4
  <2> QED BY <1>1, <2>1
<1> HIDE DEF t, n, g, w
<1>8. DOMAIN g \cup Rewrites(w) = DOMAIN file \cup Rewrites(todo)
  BY <1>3, <1>5
<1>9. ASSUME NEW u \in DOMAIN g \cup Rewrites(w)
      PROVE  Done(g, w)[u] = Done(file, todo)[u]
  <2>1. CASE u \in Rewrites(w)
    <3>1. Done(g, w)[u] = w[CHOOSE i \in NodeWrites(w) : w[i].id = u].node
      BY <2>1 DEF Done
    <3>2. u \in Rewrites(todo)
      BY <1>5, <2>1
    <3>3. Done(file, todo)[u] = todo[CHOOSE i \in NodeWrites(todo) : todo[i].id = u].node
      BY <3>2 DEF Done
    <3> QED BY <1>6, <2>1, <3>1, <3>3, Zenon
  <2>2. CASE u = t
    BY <1>3, <1>5, <1>7, <1>8, <2>2 DEF Done
  <2>3. CASE u \notin Rewrites(w) /\ u # t
    BY <1>3, <1>5, <1>8, <2>3 DEF Done
  <2> QED BY <2>1, <2>2, <2>3
<1>10. Done(g, w) = Done(file, todo)
  <2>1. Done(g, w) = [u \in DOMAIN g \cup Rewrites(w) |-> Done(g, w)[u]]
    BY DEF Done
  <2>2. Done(file, todo) = [u \in DOMAIN g \cup Rewrites(w) |-> Done(file, todo)[u]]
    BY <1>8 DEF Done
  <2> QED BY <1>9, <2>1, <2>2
<1> QED BY <1>10 DEF t, n, g, w

\* Behind a write of another kind no task is written any more.
LEMMA DoneRest ==
  ASSUME IInv, todo # <<>>, Head(todo).kind # "node"
  PROVE  NodeWrites(todo) = {} /\ NodeWrites(Tail(todo)) = {} /\ Done(file, todo) = file
         /\ Done(file, Tail(todo)) = file
<1>1. NodeWrites(Tail(todo)) = {}
  BY RestOfTodo DEF NodeWrites
<1>2. NodeWrites(todo) = {}
  <2>1. ASSUME NEW i \in NodeWrites(todo) PROVE FALSE
    <3>1. i \in Nat \ {0} /\ i # 1
      BY TailWrites
    <3>2. (i - 1) + 1 = i /\ i - 1 \in Nat \ {0}
      BY <3>1
    <3>3. i - 1 \in NodeWrites(Tail(todo))
      BY <3>2, TailWrites
    <3> QED BY <1>1, <3>3
  <2> QED BY <2>1
<1>3. IsGraph(file)
  BY UpReadsDisk
<1> QED BY <1>1, <1>2, <1>3, DoneNothing

-----------------------------------------------------------------------------
(* The files form a tree.                                                  *)

\* Rewriting one task, or adding one, is the graph that will be.
LEMMA DoneOne ==
  ASSUME NEW g, IsGraph(g), NEW v, NEW t \in Task, NEW n \in Node, NEW e, e.kind = "entry",
         NEW w, w = <<NodeWrite(t, n), e>> \/ w = <<NodeWrite(t, n), CursorWrite(t), e>>,
         PlannedWrites(g, v, w)
  PROVE  /\ NodeWrites(w) = {1} /\ w[1] = NodeWrite(t, n)
         /\ w # <<>> /\ w[Len(w)] = e
         /\ Done(g, w) = With(g, t, n)
<1>1. NodeWrite(t, n).kind = "node" /\ NodeWrite(t, n).id = t /\ NodeWrite(t, n).node = n
  BY NodeWriteType
<1>2. CursorWrite(t).kind = "cursor"
  BY DEF CursorWrite
<1>3. NodeWrites(w) = {1} /\ w[1] = NodeWrite(t, n) /\ w # <<>> /\ w[Len(w)] = e
  <2>1. CASE w = <<NodeWrite(t, n), e>>
    BY <1>1, <2>1 DEF NodeWrites
  <2>2. CASE w = <<NodeWrite(t, n), CursorWrite(t), e>>
    <3>1. \A i \in DOMAIN w : i \in {1, 2, 3}
      BY <2>2
    <3>2. w[1] = NodeWrite(t, n) /\ w[2] = CursorWrite(t) /\ w[3] = e /\ 1 \in DOMAIN w /\ Len(w) = 3
      BY <2>2
    <3>3. NodeWrites(w) = {1}
      BY <1>1, <1>2, <3>1, <3>2 DEF NodeWrites
    <3> QED BY <2>2, <3>2, <3>3
  <2> QED BY <2>1, <2>2
<1>4. Rewrites(w) = {t}
  BY <1>1, <1>3 DEF Rewrites
<1>5. /\ DOMAIN Done(g, w) = DOMAIN g \cup {t}
      /\ Done(g, w)[t] = n
      /\ \A u \in DOMAIN g \ {t} : Done(g, w)[u] = g[u]
  <2>1. /\ DOMAIN Done(g, w) = DOMAIN g \cup Rewrites(w)
        /\ \A i \in NodeWrites(w) : Done(g, w)[w[i].id] = w[i].node
        /\ \A u \in DOMAIN g \ Rewrites(w) : Done(g, w)[u] = g[u]
    BY DoneIs
  <2>2. Done(g, w)[w[1].id] = w[1].node
    BY <1>3, <2>1
  <2> QED BY <1>1, <1>3, <1>4, <2>1, <2>2
<1>6. Done(g, w) = [u \in DOMAIN g \cup {t} |-> Done(g, w)[u]]
  BY <1>4 DEF Done
<1>7. With(g, t, n) = [u \in DOMAIN g \cup {t} |-> IF u = t THEN n ELSE g[u]]
  BY DEF With
<1>8. \A u \in DOMAIN g \cup {t} : Done(g, w)[u] = IF u = t THEN n ELSE g[u]
  BY <1>5
<1> HIDE DEF NodeWrites
<1>9. Done(g, w) = With(g, t, n)
  BY <1>6, <1>7, <1>8
<1> QED BY <1>3, <1>9

\* The writes w add n as t and rewrite p as m, with the entry e behind them.
AddsTwo(g, t, n, p, m, e, w) ==
    /\ NodeWrites(w) = {1, 2} /\ w[1] = NodeWrite(t, n) /\ w[2] = NodeWrite(p, m)
    /\ w # <<>> /\ w[Len(w)] = e
    /\ DOMAIN Done(g, w) = DOMAIN g \cup {t}
    /\ Done(g, w)[t] = n /\ Done(g, w)[p] = m
    /\ \A u \in DOMAIN g \ {t, p} : Done(g, w)[u] = g[u]

\* Adding one task under another is two of them.
LEMMA DoneTwo ==
  ASSUME NEW g, IsGraph(g), NEW v, NEW t \in Task, NEW n \in Node, NEW p \in DOMAIN g,
         NEW m \in Node, NEW e, e.kind = "entry",
         NEW w, w = <<NodeWrite(t, n), NodeWrite(p, m), e>>, PlannedWrites(g, v, w), t # p
  PROVE  AddsTwo(g, t, n, p, m, e, w)
<1>1. NodeWrite(t, n).kind = "node" /\ NodeWrite(t, n).id = t /\ NodeWrite(t, n).node = n
  BY NodeWriteType
<1>2. NodeWrite(p, m).kind = "node" /\ NodeWrite(p, m).id = p /\ NodeWrite(p, m).node = m
  BY NodeWriteType DEF IsGraph
<1>3. /\ NodeWrites(w) = {1, 2} /\ w[1] = NodeWrite(t, n) /\ w[2] = NodeWrite(p, m)
      /\ w # <<>> /\ w[Len(w)] = e
  BY <1>1, <1>2 DEF NodeWrites
<1>4. Rewrites(w) = {t, p}
  BY <1>1, <1>2, <1>3 DEF Rewrites
<1>5. /\ DOMAIN Done(g, w) = DOMAIN g \cup Rewrites(w)
      /\ \A i \in NodeWrites(w) : Done(g, w)[w[i].id] = w[i].node
      /\ \A u \in DOMAIN g \ Rewrites(w) : Done(g, w)[u] = g[u]
  <2>1. PlannedWrites(g, v, w)
    OBVIOUS
  <2> QED BY ONLY <2>1, DoneIs
<1>6. Done(g, w)[w[1].id] = w[1].node /\ Done(g, w)[w[2].id] = w[2].node
  BY <1>3, <1>5
<1>7. DOMAIN Done(g, w) = DOMAIN g \cup {t}
  BY <1>4, <1>5
<1> QED BY <1>1, <1>2, <1>3, <1>4, <1>5, <1>6, <1>7 DEF AddsTwo

\* The parents and the lists of children make the tree.
LEMMA SameTree ==
  ASSUME NEW f, NEW g, DOMAIN g = DOMAIN f, Resolved(f), Listed(f),
         \A t \in DOMAIN f : g[t].parent = f[t].parent /\ g[t].children = f[t].children
  PROVE  Listed(g) /\ \A t \in DOMAIN g : Orphan(g, t) => Orphan(f, t)
<1>1. Listed(g)
  BY DEF Listed
<1>2. ASSUME NEW t \in DOMAIN g, Orphan(g, t) PROVE Orphan(f, t)
  <2>1. f[t].parent # NoTask /\ f[t].parent \in DOMAIN f
    BY <1>2 DEF Orphan, Resolved
  <2> QED BY <1>2, <2>1 DEF Orphan, IsChildOf
<1> QED BY <1>1, <1>2

\* What the head of the writes leaves of the tree.
LEMMA HeadWriteTree ==
  ASSUME IInv, Treed, todo # <<>>, Head(todo).kind = "node"
  PROVE  LET g == With(file, Head(todo).id, Head(todo).node)
         IN  /\ Listed(g) /\ Lined(g, version, Tail(todo))
             /\ \A t \in DOMAIN g : Orphan(g, t) => t \in lost \/ g[t].stamp = version + 1
<1> DEFINE t == Head(todo).id
           n == Head(todo).node
           g == With(file, t, n)
           d == Done(file, todo)
<1>1. /\ nodes = file /\ 1 \in DOMAIN todo /\ Head(todo) = todo[1] /\ PlannedWrites(file, version, todo)
      /\ IsGraph(file) /\ Resolved(file)
  BY UpReadsDisk
<1>2. /\ \A i : i \in NodeWrites(Tail(todo)) <=> i + 1 \in NodeWrites(todo) /\ i \in Nat \ {0}
      /\ \A i \in NodeWrites(Tail(todo)) : Tail(todo)[i] = todo[i + 1]
      /\ 1 \in NodeWrites(todo) /\ \A i \in NodeWrites(todo) : i \in Nat \ {0}
      /\ Tail(todo) # <<>> => Tail(todo)[Len(Tail(todo))] = todo[Len(todo)]
  BY TailWrites
<1>3. /\ t \in Task /\ n \in Node /\ IsGraph(g)
      /\ DOMAIN g = DOMAIN file \cup {t} /\ g[t] = n
      /\ \A u \in DOMAIN file \ {t} : g[u] = file[u]
  BY HeadNodeWrite
<1>4. LinedNode(file, version, todo, 1)
  BY <1>2 DEF Treed, Lined
<1>5. /\ n.stamp = version + 1
      /\ t \in DOMAIN file => n.parent = file[t].parent
      /\ t \in DOMAIN file => \A c \in Task : IsChildOf(c, file[t]) => IsChildOf(c, n)
      /\ \A c \in Task : IsChildOf(c, n) => c \in DOMAIN file
  <2>1. \A k \in NodeWrites(todo) : ~(k < 1)
    BY <1>2
  <2> QED BY <1>1, <1>4, <2>1 DEF LinedNode
<1>6. /\ Listed(d) /\ d[t] = n /\ t \in DOMAIN d
      /\ \A u \in DOMAIN file : u \in DOMAIN d /\ d[u].parent = file[u].parent
  <2>1. Listed(d)
    BY DEF Treed
  <2>2. /\ DOMAIN d = DOMAIN file \cup Rewrites(todo)
        /\ \A i \in NodeWrites(todo) : d[todo[i].id] = todo[i].node
        /\ \A u \in DOMAIN file \ Rewrites(todo) : d[u] = file[u]
    BY <1>1, DoneIs
  <2>3. d[t] = n /\ t \in DOMAIN d
    BY <1>1, <1>2, <2>2 DEF Rewrites
  <2>4. ASSUME NEW u \in DOMAIN file, u \in Rewrites(todo) PROVE d[u].parent = file[u].parent
    <3>1. PICK i \in NodeWrites(todo) : u = todo[i].id
      BY <2>4 DEF Rewrites
    <3>2. LinedNode(file, version, todo, i)
      BY DEF Treed, Lined
    <3> QED BY <2>2, <3>1, <3>2 DEF LinedNode
  <2> HIDE DEF d
  <2> QED BY <2>1, <2>2, <2>3, <2>4
<1> HIDE DEF t, n, g, d
<1>7. \A c \in DOMAIN file : g[c].parent = file[c].parent
  BY <1>3, <1>5
<1>8. \A u \in DOMAIN g : g[u].children \in Seq(Task)
  BY <1>3 DEF IsGraph, Node
<1>9. ASSUME NEW u \in DOMAIN g, NEW i \in DOMAIN g[u].children
      PROVE  /\ g[u].children[i] \in DOMAIN g
             /\ g[g[u].children[i]].parent = u
             /\ \A k \in DOMAIN g[u].children : g[u].children[i] = g[u].children[k] => i = k
  <2> DEFINE c == g[u].children[i]
  <2>1. CASE u = t
    <3>1. c \in Task /\ IsChildOf(c, n)
      BY <1>3, <1>8, <2>1, ElementOfSeq, LenProperties DEF IsChildOf
    <3>2. c \in DOMAIN file
      BY <1>5, <3>1
    <3>3. d[c].parent = t /\ \A k \in DOMAIN n.children : c = n.children[k] => i = k
      BY <1>3, <1>6, <2>1 DEF Listed
    <3> QED BY <1>3, <1>6, <1>7, <2>1, <3>2, <3>3
  <2>2. CASE u # t
    <3>1. u \in DOMAIN file /\ g[u] = file[u]
      BY <1>3, <2>2
    <3>2. /\ c \in DOMAIN file /\ file[c].parent = u
          /\ \A k \in DOMAIN g[u].children : c = g[u].children[k] => i = k
      BY <3>1 DEF Treed, Listed
    <3> QED BY <1>3, <1>7, <3>2
  <2> QED BY <2>1, <2>2
<1>10. Listed(g)
  BY <1>9 DEF Listed
<1>11. ASSUME NEW u \in DOMAIN g, Orphan(g, u) PROVE u \in lost \/ g[u].stamp = version + 1
  <2>1. CASE u = t
    BY <1>3, <1>5, <2>1
  <2>2. CASE u # t
    <3>1. u \in DOMAIN file /\ g[u] = file[u] /\ u \in Task
      BY <1>1, <1>3, <2>2 DEF IsGraph
    <3>2. file[u].parent \in DOMAIN file /\ file[u].parent # NoTask
      BY <1>1, <1>11, <3>1 DEF Orphan, Resolved
    <3>3. ~IsChildOf(u, g[file[u].parent])
      BY <1>11, <3>1 DEF Orphan
    <3>4. ~IsChildOf(u, file[file[u].parent])
      BY <1>3, <1>5, <3>1, <3>2, <3>3
    <3>5. Orphan(file, u)
      BY <3>2, <3>4 DEF Orphan
    <3> QED BY <3>1, <3>5 DEF Treed
  <2> QED BY <2>1, <2>2
<1>12. ASSUME NEW i \in NodeWrites(Tail(todo)) PROVE LinedNode(g, version, Tail(todo), i)
  <2>1. i + 1 \in NodeWrites(todo) /\ i \in Nat \ {0} /\ Tail(todo)[i] = todo[i + 1]
    BY <1>2, Zenon
  <2>2. LinedNode(file, version, todo, i + 1)
    BY <2>1 DEF Treed, Lined
  <2>3. todo[i + 1].id # t
    <3>1. 1 # i + 1
      BY <2>1
    <3> QED BY <1>1, <1>2, <2>1, <3>1 DEF PlannedWrites, PlannedNode, NodeWrites, t
  <2>4. todo[i + 1].id \in DOMAIN g => todo[i + 1].id \in DOMAIN file /\ g[todo[i + 1].id] = file[todo[i + 1].id]
    BY <1>3, <2>3
  <2>5. ASSUME NEW c \in Task, IsChildOf(c, todo[i + 1].node)
        PROVE  c \in DOMAIN g \/ \E k \in NodeWrites(Tail(todo)) : k < i /\ Tail(todo)[k].id = c
    <3>1. CASE c \in DOMAIN file
      BY <1>3, <3>1
    <3>2. ASSUME NEW k \in NodeWrites(todo), k < i + 1, todo[k].id = c
          PROVE  c \in DOMAIN g \/ \E l \in NodeWrites(Tail(todo)) : l < i /\ Tail(todo)[l].id = c
      <4>1. CASE k = 1
        BY <1>1, <1>3, <3>2, <4>1 DEF t
      <4>2. CASE k # 1
        <5>1. k \in Nat /\ k # 0
          BY <1>2
        <5>2. (k - 1) + 1 = k /\ k - 1 \in Nat \ {0} /\ k - 1 < i
          BY <2>1, <3>2, <4>2, <5>1
        <5>3. k - 1 \in NodeWrites(Tail(todo))
          BY <1>2, <5>2
        <5>4. Tail(todo)[k - 1] = todo[k]
          BY <1>2, <5>2, <5>3
        <5> QED BY <3>2, <5>2, <5>3, <5>4
      <4> QED BY <4>1, <4>2
    <3> QED BY <2>2, <2>5, <3>1, <3>2 DEF LinedNode
  <2> QED BY <2>1, <2>2, <2>4, <2>5 DEF LinedNode
<1>13. Lined(g, version, Tail(todo))
  BY <1>2, <1>12 DEF Treed, Lined
<1> QED BY <1>10, <1>11, <1>13 DEF t, n, g

-----------------------------------------------------------------------------
(* Every step keeps the tree.                                              *)

\* Nothing is lined up: the files are a tree and what hangs loose is lost.
LEMMA RestTreed ==
  ASSUME todo' = <<>>, Listed(file)', \A t \in DOMAIN file' : Orphan(file', t) => t \in lost'
  PROVE  Treed'
<1>1. NodeWrites(<<>>) = {}
  BY DEF NodeWrites
<1>2. Lined(file', version', <<>>)
  BY <1>1 DEF Lined
<1>3. Lined(file, version, todo)'
  BY <1>2 DEF Lined, LinedNode, NodeWrites
<1> QED BY <1>3 DEF Treed, Orphan

\* A mutation may be lined up if the graph it makes is a tree.
LEMMA MutateTreed ==
  ASSUME IInv, Treed, Unlocked, NEW w, Mutate(w), Lined(file, version, w),
         Listed(Done(file, w)), \A t \in DOMAIN Done(file, w) : Orphan(Done(file, w), t) => t \in lost
  PROVE  Treed'
<1>1. /\ todo = <<>> /\ todo' = w
      /\ file' = file /\ version' = version /\ lost' = lost
  BY DEF Unlocked, Mutate, disk, memory, ghosts
<1>2. Lined(file, version, todo)' /\ Listed(file)'
  BY <1>1 DEF Treed, Listed, Lined, LinedNode, NodeWrites
<1>3. \A t \in DOMAIN file : Orphan(file, t) => t \in lost
  BY <1>1 DEF Treed
<1>4. \A t \in DOMAIN file' : Orphan(file', t) => t \in lost'
  BY <1>1, <1>3
<1>5. Done(file, todo)' = Done(file, w)
  BY <1>1 DEF Done, Rewrites, NodeWrites
<1>6. Listed(Done(file, todo))'
  BY <1>5 DEF Listed
<1>7. \A t \in DOMAIN Done(file, todo)' : Orphan(Done(file, todo)', t) => t \in lost'
  BY <1>1, <1>5
<1> QED BY <1>2, <1>4, <1>6, <1>7 DEF Treed, Orphan

\* What an operation starts from.
LEMMA UnlockedDisk ==
  ASSUME IInv, Unlocked
  PROVE  /\ nodes = file /\ version \in Nat /\ todo = <<>>
         /\ IsGraph(file) /\ Resolved(file)
BY DEF IInv, Unlocked, TypeOK, DiskInv

\* A mutation that leaves every parent and every list alone.
LEMMA SameTreeTreed ==
  ASSUME IInv, IInv', Treed, Unlocked, NEW t \in DOMAIN nodes, NEW n \in Node, NEW e, e.kind = "entry",
         NEW w, w = <<NodeWrite(t, n), e>> \/ w = <<NodeWrite(t, n), CursorWrite(t), e>>,
         Mutate(w), n.stamp = version + 1,
         n.parent = nodes[t].parent, n.children = nodes[t].children
  PROVE  Treed'
<1>1. nodes = file /\ IsGraph(file) /\ Resolved(file)
  BY UnlockedDisk
<1>2. PlannedWrites(file, version, w)
  <2>1. PlannedWrites(nodes', version', todo')
    BY DEF IInv, Planned
  <2>2. nodes' = nodes /\ version' = version /\ todo' = w
    BY DEF Mutate, memory
  <2> QED BY <1>1, <2>1, <2>2
<1>3. t \in Task /\ file[t] \in Node
  BY <1>1 DEF IsGraph
<1>4. /\ NodeWrites(w) = {1} /\ w[1] = NodeWrite(t, n) /\ w # <<>> /\ w[Len(w)] = e
      /\ Done(file, w) = With(file, t, n)
  <2>1. IsGraph(file) /\ t \in Task /\ n \in Node /\ e.kind = "entry" /\ PlannedWrites(file, version, w)
        /\ (w = <<NodeWrite(t, n), e>> \/ w = <<NodeWrite(t, n), CursorWrite(t), e>>)
    BY <1>1, <1>2, <1>3
  <2> QED BY ONLY <2>1, DoneOne
<1>5. w[1].id = t /\ w[1].node = n
  BY <1>3, <1>4, NodeWriteType
<1>6. LinedNode(file, version, w, 1)
  <2>1. \A c \in Task : IsChildOf(c, file[t]) <=> IsChildOf(c, n)
    BY <1>1 DEF IsChildOf
  <2>2. \A c \in Task : IsChildOf(c, file[t]) => c \in DOMAIN file
    BY <1>1 DEF Treed, Listed, IsChildOf
  <2> QED BY <1>1, <1>5, <2>1, <2>2 DEF LinedNode
<1>7. Lined(file, version, w)
  BY <1>4, <1>6 DEF Lined
<1>8. /\ DOMAIN With(file, t, n) = DOMAIN file
      /\ \A u \in DOMAIN file : /\ With(file, t, n)[u].parent = file[u].parent
                                /\ With(file, t, n)[u].children = file[u].children
  BY <1>1 DEF With
<1>9. Listed(file) /\ \A u \in DOMAIN file : Orphan(file, u) => u \in lost
  BY DEF Treed, Unlocked
<1>10. /\ Listed(With(file, t, n))
       /\ \A u \in DOMAIN With(file, t, n) : Orphan(With(file, t, n), u) => u \in lost
  <2> DEFINE g == With(file, t, n)
  <2> HIDE DEF g
  <2>1. Listed(g) /\ \A u \in DOMAIN g : Orphan(g, u) => Orphan(file, u)
    BY <1>1, <1>8, <1>9, SameTree DEF g
  <2> QED BY <1>8, <1>9, <2>1 DEF g
<1> QED BY <1>4, <1>7, <1>10, MutateTreed

\* update_status, add_dependency and record_commit move no task.
LEMMA RewriteTreed ==
  ASSUME IInv, IInv', Treed, NEW t \in Task,
         \/ \E s \in StatusInput : UpdateStatus(t, s)
         \/ \E d \in Task : AddDependency(t, d)
         \/ \E sha \in Sha : RecordCommit(t, sha)
  PROVE  Treed'
<1>1. Unlocked /\ t \in DOMAIN nodes
  BY DEF UpdateStatus, AddDependency, RecordCommit
<1>2. nodes[t] \in Node /\ version \in Nat
  BY <1>1, RewrittenTask
<1>3. \A op, ref, word : EntryWrite(op, t, ref, word).kind = "entry"
  BY DEF EntryWrite
<1>4. ASSUME NEW s \in StatusInput, UpdateStatus(t, s) PROVE Treed'
  <2> DEFINE n == Stamped([nodes[t] EXCEPT !.status = s])
             e == EntryWrite("update_status", t, NoTask, s)
  <2>1. n \in Node /\ n.stamp = version + 1 /\ n.parent = nodes[t].parent /\ n.children = nodes[t].children
    <3> DEFINE r == [nodes[t] EXCEPT !.status = s]
    <3>1. r \in Node /\ r.parent = nodes[t].parent /\ r.children = nodes[t].children
      BY <1>2, InputAssumption DEF Node
    <3> HIDE DEF r
    <3>2. /\ Stamped(r) \in Node /\ Stamped(r).stamp = version + 1
          /\ Stamped(r).parent = r.parent /\ Stamped(r).children = r.children
      BY <1>2, <3>1, StampedNode
    <3> QED BY <3>1, <3>2 DEF r
  <2>2. Mutate(<<NodeWrite(t, n), CursorWrite(t), e>>) \/ Mutate(<<NodeWrite(t, n), e>>)
    BY <1>4 DEF UpdateStatus
  <2>3. e.kind = "entry"
    BY <1>3
  <2> HIDE DEF n, e
  <2> QED BY <1>1, <2>1, <2>2, <2>3, SameTreeTreed
<1>5. ASSUME NEW d \in Task, AddDependency(t, d) PROVE Treed'
  <2> DEFINE n == Stamped([nodes[t] EXCEPT !.deps = @ \cup {d}])
             e == EntryWrite("add_dependency", t, d, NoSha)
  <2>1. n \in Node /\ n.stamp = version + 1 /\ n.parent = nodes[t].parent /\ n.children = nodes[t].children
    <3> DEFINE r == [nodes[t] EXCEPT !.deps = @ \cup {d}]
    <3>1. r \in Node /\ r.parent = nodes[t].parent /\ r.children = nodes[t].children
      BY <1>2 DEF Node
    <3> HIDE DEF r
    <3>2. /\ Stamped(r) \in Node /\ Stamped(r).stamp = version + 1
          /\ Stamped(r).parent = r.parent /\ Stamped(r).children = r.children
      BY <1>2, <3>1, StampedNode
    <3> QED BY <3>1, <3>2 DEF r
  <2>2. Mutate(<<NodeWrite(t, n), e>>)
    BY <1>5 DEF AddDependency
  <2>3. e.kind = "entry"
    BY <1>3
  <2> HIDE DEF n, e
  <2> QED BY <1>1, <2>1, <2>2, <2>3, SameTreeTreed
<1>6. ASSUME NEW sha \in Sha, RecordCommit(t, sha) PROVE Treed'
  <2> DEFINE n == Stamped([nodes[t] EXCEPT !.commit = sha])
             e == EntryWrite("record_commit", t, NoTask, sha)
  <2>1. n \in Node /\ n.stamp = version + 1 /\ n.parent = nodes[t].parent /\ n.children = nodes[t].children
    <3> DEFINE r == [nodes[t] EXCEPT !.commit = sha]
    <3>1. r \in Node /\ r.parent = nodes[t].parent /\ r.children = nodes[t].children
      BY <1>2 DEF Node
    <3> HIDE DEF r
    <3>2. /\ Stamped(r) \in Node /\ Stamped(r).stamp = version + 1
          /\ Stamped(r).parent = r.parent /\ Stamped(r).children = r.children
      BY <1>2, <3>1, StampedNode
    <3> QED BY <3>1, <3>2 DEF r
  <2>2. Mutate(<<NodeWrite(t, n), e>>)
    BY <1>6 DEF RecordCommit
  <2>3. e.kind = "entry"
    BY <1>3
  <2> HIDE DEF n, e
  <2> QED BY <1>1, <2>1, <2>2, <2>3, SameTreeTreed
<1> QED BY <1>4, <1>5, <1>6

\* set_cursor writes no task.
LEMMA SetCursorTreed ==
  ASSUME IInv, Treed, NEW t \in TaskOrNone, SetCursor(t)
  PROVE  Treed'
<1> DEFINE e == EntryWrite("set_cursor", t, NoTask, NoSha)
           w == <<CursorWrite(t), e>>
<1>1. Unlocked /\ Mutate(w)
  BY DEF SetCursor
<1>2. CursorWrite(t).kind = "cursor" /\ e.kind = "entry"
  BY DEF CursorWrite, EntryWrite
<1> HIDE DEF e
<1>3. NodeWrites(w) = {} /\ w # <<>> /\ w[Len(w)] = e
  BY <1>2 DEF NodeWrites
<1> HIDE DEF w
<1>4. IsGraph(file)
  BY <1>1, UnlockedDisk
<1>5. Done(file, w) = file
  BY <1>3, <1>4, DoneNothing
<1>6. Lined(file, version, w)
  BY <1>2, <1>3 DEF Lined
<1>7. Listed(file) /\ \A u \in DOMAIN file : Orphan(file, u) => u \in lost
  BY <1>1 DEF Treed, Unlocked
<1> QED BY <1>1, <1>5, <1>6, <1>7, MutateTreed

-----------------------------------------------------------------------------
(* A new name in a list.                                                   *)

\* What a list has once a new name is put in.
LEMMA InsertedList ==
  ASSUME NEW old \in Seq(Task), NEW new, NEW i \in 1..(Len(old) + 1), NEW c, Inserted(old, new, i, c),
         \A k \in DOMAIN old : old[k] # c,
         \A k, m \in DOMAIN old : old[k] = old[m] => k = m
  PROVE  /\ i \in DOMAIN new /\ new[i] = c
         /\ \A k \in DOMAIN new : new[k] = c \/ \E m \in DOMAIN old : new[k] = old[m]
         /\ \A m \in DOMAIN old : \E k \in DOMAIN new : new[k] = old[m]
         /\ \A k, m \in DOMAIN new : new[k] = new[m] => k = m
<1>1. /\ Len(old) \in Nat /\ DOMAIN old = 1..Len(old) /\ DOMAIN new = 1..(Len(old) + 1)
      /\ new[i] = c /\ i \in Nat
      /\ \A k \in 1..(i - 1) : new[k] = old[k]
      /\ \A k \in (i + 1)..(Len(old) + 1) : new[k] = old[k - 1]
  BY LenProperties DEF Inserted
<1>2. ASSUME NEW k \in DOMAIN new, k < i PROVE k \in DOMAIN old /\ new[k] = old[k]
  BY <1>1, <1>2
<1>3. ASSUME NEW k \in DOMAIN new, k > i PROVE k - 1 \in DOMAIN old /\ new[k] = old[k - 1]
  BY <1>1, <1>3
<1>4. \A k \in DOMAIN new : new[k] = c \/ \E m \in DOMAIN old : new[k] = old[m]
  BY <1>1, <1>2, <1>3
<1>5. ASSUME NEW m \in DOMAIN old PROVE \E k \in DOMAIN new : new[k] = old[m]
  <2>1. CASE m < i
    BY <1>1, <2>1
  <2>2. CASE ~(m < i)
    <3>1. m + 1 \in DOMAIN new /\ m + 1 > i /\ (m + 1) - 1 = m
      BY <1>1, <2>2
    <3> QED BY <1>3, <3>1
  <2> QED BY <2>1, <2>2
<1>6. ASSUME NEW k \in DOMAIN new, NEW m \in DOMAIN new, new[k] = new[m] PROVE k = m
  <2>1. k \in Nat /\ m \in Nat
    BY <1>1
  <2>2. CASE k = i
    <3>1. ~(m < i) /\ ~(m > i)
      BY <1>1, <1>2, <1>3, <1>6, <2>2
    <3> QED BY <1>1, <2>1, <2>2, <3>1
  <2>3. CASE m = i
    <3>1. ~(k < i) /\ ~(k > i)
      BY <1>1, <1>2, <1>3, <1>6, <2>3
    <3> QED BY <1>1, <2>1, <2>3, <3>1
  <2>4. CASE k < i /\ m < i
    BY <1>2, <1>6, <2>4
  <2>5. CASE k > i /\ m > i
    <3>1. k - 1 = m - 1
      BY <1>3, <1>6, <2>5
    <3> QED BY <2>1, <3>1
  <2>6. CASE k < i /\ m > i
    <3>1. k = m - 1
      BY <1>2, <1>3, <1>6, <2>6
    <3> QED BY <1>1, <2>1, <2>6, <3>1
  <2>7. CASE k > i /\ m < i
    <3>1. k - 1 = m
      BY <1>2, <1>3, <1>6, <2>7
    <3> QED BY <1>1, <2>1, <2>7, <3>1
  <2> QED BY <1>1, <2>1, <2>2, <2>3, <2>4, <2>5, <2>6, <2>7
<1> QED BY <1>1, <1>4, <1>5, <1>6

Child(p, draft, deps) ==
    [parent |-> p, status |-> "pending", deps |-> deps, children |-> <<>>,
     standing |-> draft.standing /\ draft.by = "steering", by |-> draft.by,
     commit |-> NoSha, stamp |-> version + 1]

\* What add_subtask lines up, and the graph it makes.
LEMMA Added ==
  ASSUME IInv, IInv', Listed(file), NEW p \in TaskOrNone, NEW draft \in Draft, NEW deps \in SUBSET Task,
         NEW after \in TaskOrNone, AddSubtask(p, draft, deps, after)
  PROVE  LET id == NextTaskId
             child == Child(p, draft, deps)
             d == Done(file, todo')
         IN  /\ Unlocked /\ Mutate(todo') /\ id \in Task /\ id \notin DOMAIN file /\ p \in DOMAIN file \cup {NoTask}
             /\ DOMAIN d = DOMAIN file \cup {id} /\ d[id] = child
             /\ \A u \in DOMAIN file \ {p} : d[u] = file[u]
             /\ todo' # <<>> /\ todo'[Len(todo')] = EntryWrite("add_subtask", id, p, NoSha)
             /\ todo'[1] = NodeWrite(id, child)
             /\ p = NoTask => NodeWrites(todo') = {1}
             /\ p # NoTask =>
                   /\ NodeWrites(todo') = {1, 2} /\ todo'[2] = NodeWrite(p, d[p])
                   /\ d[p] = Stamped([file[p] EXCEPT !.children = d[p].children])
                   /\ \E i \in 1..(Len(file[p].children) + 1) :
                         Inserted(file[p].children, d[p].children, i, id)
<1> DEFINE id == NextTaskId
           child == Child(p, draft, deps)
           entry == EntryWrite("add_subtask", id, p, NoSha)
           list == PlaceChild(p, id, after)
           linked == Stamped([nodes[p] EXCEPT !.children = list])
<1>1. /\ Unlocked /\ id <= MaxTask /\ p \in DOMAIN nodes \cup {NoTask}
      /\ after # NoTask => p # NoTask /\ IsChildOf(after, nodes[p])
      /\ deps \subseteq DOMAIN nodes
  BY DEF AddSubtask
<1>2. nodes = file /\ version \in Nat /\ IsGraph(file) /\ Resolved(file)
  BY <1>1, UnlockedDisk
<1>3. id \in Task /\ id \notin DOMAIN file
  BY <1>1, <1>2, NextTaskIdIsFree, Bounds DEF Task
<1>4. child \in Node
  <2>1. draft.standing \in BOOLEAN /\ draft.by \in Actor
    BY InputAssumption
  <2>2. version + 1 \in Nat /\ "pending" \in Status /\ <<>> \in Seq(Task)
    BY <1>2 DEF Status
  <2> QED BY <2>1, <2>2 DEF Node, Child
<1>5. entry.kind = "entry"
  BY DEF EntryWrite
<1>6. PlannedWrites(file, version, todo') /\ nodes' = nodes /\ version' = version
  <2>1. PlannedWrites(nodes', version', todo')
    BY DEF IInv, Planned
  <2>2. nodes' = nodes /\ version' = version
    BY DEF AddSubtask, Mutate, memory
  <2> QED BY <1>2, <2>1, <2>2
<1>7. Mutate(todo')
  BY DEF AddSubtask, Mutate
<1>8. CASE p = NoTask
  <2>1. todo' = <<NodeWrite(id, child), entry>>
    BY <1>8 DEF AddSubtask, Mutate, Child
  <2> HIDE DEF id, child, entry
  <2>2. IsGraph(file) /\ id \in Task /\ child \in Node /\ entry.kind = "entry" /\ PlannedWrites(file, version, todo')
        /\ (todo' = <<NodeWrite(id, child), entry>> \/ todo' = <<NodeWrite(id, child), CursorWrite(id), entry>>)
    BY <1>2, <1>3, <1>4, <1>5, <1>6, <2>1
  <2>3. /\ NodeWrites(todo') = {1} /\ todo'[1] = NodeWrite(id, child) /\ todo' # <<>> /\ todo'[Len(todo')] = entry
        /\ Done(file, todo') = With(file, id, child)
    BY ONLY <2>2, DoneOne
  <2>4. /\ DOMAIN With(file, id, child) = DOMAIN file \cup {id}
        /\ With(file, id, child)[id] = child
        /\ \A u \in DOMAIN file \ {id} : With(file, id, child)[u] = file[u]
    BY DEF With
  <2>5. p \notin DOMAIN file
    BY <1>2, <1>8 DEF IsGraph, Task, NoTask
  <2>6. \A u \in DOMAIN file \ {p} : Done(file, todo')[u] = file[u]
    BY <1>3, <2>3, <2>4
  <2> QED BY <1>1, <1>2, <1>3, <1>7, <1>8, <2>3, <2>4, <2>6 DEF id, child, entry
<1>9. CASE p # NoTask
  <2>1. p \in DOMAIN file /\ p \in Task /\ file[p] \in Node
    BY <1>1, <1>2, <1>9 DEF IsGraph
  <2>2. \E i \in 1..(Len(file[p].children) + 1) : Inserted(file[p].children, list, i, id)
    BY <1>1, <1>2, <1>3, <2>1, PlaceChildInserts
  <2>3. list \in Seq(Task)
    BY <2>2 DEF Inserted
  <2>4. linked \in Node /\ linked.children = list
    <3> DEFINE r == [nodes[p] EXCEPT !.children = list]
    <3> HIDE DEF list
    <3>1. r \in Node /\ r.children = list
      BY <1>2, <2>1, <2>3 DEF Node
    <3> HIDE DEF r
    <3>2. Stamped(r) \in Node /\ Stamped(r).children = r.children
      BY <1>2, <3>1, StampedNode
    <3> QED BY <3>1, <3>2 DEF r
  <2>5. todo' = <<NodeWrite(id, child), NodeWrite(p, linked), entry>>
    BY <1>9 DEF AddSubtask, LinkWrites, Mutate, Child
  <2> HIDE DEF id, child, entry, linked
  <2>6. IsGraph(file) /\ id \in Task /\ child \in Node /\ p \in DOMAIN file /\ linked \in Node
        /\ entry.kind = "entry" /\ todo' = <<NodeWrite(id, child), NodeWrite(p, linked), entry>>
        /\ PlannedWrites(file, version, todo') /\ id # p
    BY <1>2, <1>3, <1>4, <1>5, <1>6, <2>1, <2>4, <2>5
  <2>7. AddsTwo(file, id, child, p, linked, entry, todo')
    BY ONLY <2>6, DoneTwo
  <2>8. linked = Stamped([file[p] EXCEPT !.children = linked.children])
    BY <1>2, <2>4 DEF linked
  <2>9. \A u \in DOMAIN file \ {p} : Done(file, todo')[u] = file[u]
    BY <1>3, <2>7 DEF AddsTwo
  <2>10. \E i \in 1..(Len(file[p].children) + 1) : Inserted(file[p].children, linked.children, i, id)
    BY <2>2, <2>4
  <2>11. p \in DOMAIN file \cup {NoTask}
    BY <2>1
  <2> HIDE DEF list
  <2> QED BY <1>1, <1>3, <1>7, <1>9, <2>7, <2>8, <2>9, <2>10, <2>11 DEF id, child, entry, AddsTwo
<1> QED BY <1>8, <1>9

-----------------------------------------------------------------------------
(* A new task in the tree.                                                 *)

\* add_subtask hangs the new task where it says, once.
LEMMA AddSubtaskTreed ==
  ASSUME IInv, IInv', Treed, NEW p \in TaskOrNone, NEW draft \in Draft, NEW deps \in SUBSET Task,
         NEW after \in TaskOrNone, AddSubtask(p, draft, deps, after)
  PROVE  Treed'
<1> DEFINE id == NextTaskId
           child == Child(p, draft, deps)
           w == todo'
           d == Done(file, w)
<1>1. Listed(file) /\ Unlocked /\ \A u \in DOMAIN file : Orphan(file, u) => u \in lost
  BY DEF Treed, AddSubtask, Unlocked
<1>2. /\ Mutate(w) /\ id \in Task /\ id \notin DOMAIN file /\ p \in DOMAIN file \cup {NoTask}
      /\ DOMAIN d = DOMAIN file \cup {id} /\ d[id] = child
      /\ \A u \in DOMAIN file \ {p} : d[u] = file[u]
      /\ w # <<>> /\ w[Len(w)] = EntryWrite("add_subtask", id, p, NoSha)
      /\ w[1] = NodeWrite(id, child)
      /\ p = NoTask => NodeWrites(w) = {1}
  BY <1>1, Added
<1>3. p # NoTask =>
         /\ NodeWrites(w) = {1, 2} /\ w[2] = NodeWrite(p, d[p])
         /\ d[p] = Stamped([file[p] EXCEPT !.children = d[p].children])
         /\ \E i \in 1..(Len(file[p].children) + 1) : Inserted(file[p].children, d[p].children, i, id)
  BY <1>1, Added
<1>4. /\ w[1].id = id /\ w[1].node = child /\ EntryWrite("add_subtask", id, p, NoSha).kind = "entry"
      /\ child.parent = p /\ child.children = <<>> /\ child.stamp = version + 1
  BY <1>2 DEF NodeWrite, EntryWrite, Child
<1> HIDE DEF child, w, d, id
<1>5. IsGraph(file) /\ Resolved(file) /\ version \in Nat /\ nodes = file
  BY <1>1, UnlockedDisk
<1>6. LinedNode(file, version, w, 1)
  BY <1>2, <1>4 DEF LinedNode, IsChildOf
<1>7. CASE p = NoTask
  <2>1. Lined(file, version, w)
    BY <1>2, <1>4, <1>6, <1>7 DEF Lined
  <2>2. \A u \in DOMAIN file : d[u] = file[u]
    BY <1>2, <1>5, <1>7 DEF IsGraph, Task, NoTask
  <2>3. Listed(d)
    BY <1>1, <1>2, <1>4, <2>2 DEF Listed
  <2>4. ASSUME NEW u \in DOMAIN d, Orphan(d, u) PROVE u \in lost
    <3>1. u # id /\ u \in DOMAIN file
      BY <1>2, <1>4, <1>7, <2>4 DEF Orphan
    <3>2. Orphan(file, u)
      BY <1>5, <2>2, <2>4, <3>1 DEF Orphan, Resolved
    <3> QED BY <1>1, <3>1, <3>2
  <2> QED BY <1>1, <1>2, <2>1, <2>3, <2>4, MutateTreed DEF w, d
<1>8. CASE p # NoTask
  <2>1. p \in DOMAIN file /\ file[p] \in Node /\ p # id
    BY <1>2, <1>5, <1>8 DEF IsGraph
  <2>2. PICK i \in 1..(Len(file[p].children) + 1) : Inserted(file[p].children, d[p].children, i, id)
    BY <1>3, <1>8
  <2>3. d[p].parent = file[p].parent /\ d[p].stamp = version + 1 /\ d[p].children \in Seq(Task)
    <3> DEFINE r == [file[p] EXCEPT !.children = d[p].children]
    <3>1. d[p].children \in Seq(Task)
      BY <2>2 DEF Inserted
    <3>2. r \in Node /\ r.parent = file[p].parent
      BY <2>1, <3>1 DEF Node
    <3> HIDE DEF r
    <3>3. d[p] = Stamped(r)
      BY <1>3, <1>8 DEF r
    <3> QED BY <1>5, <3>1, <3>2, <3>3, StampedNode
  <2>4. file[p].children \in Seq(Task)
    BY <2>1 DEF Node
  <2>5. /\ \A k \in DOMAIN file[p].children : file[p].children[k] # id
        /\ \A k, m \in DOMAIN file[p].children : file[p].children[k] = file[p].children[m] => k = m
    BY <1>1, <1>2, <2>1 DEF Listed
  <2>6. /\ i \in DOMAIN d[p].children /\ d[p].children[i] = id
        /\ \A k \in DOMAIN d[p].children :
              d[p].children[k] = id \/ \E m \in DOMAIN file[p].children : d[p].children[k] = file[p].children[m]
        /\ \A m \in DOMAIN file[p].children : \E k \in DOMAIN d[p].children : d[p].children[k] = file[p].children[m]
        /\ \A k, m \in DOMAIN d[p].children : d[p].children[k] = d[p].children[m] => k = m
    BY <2>2, <2>4, <2>5, InsertedList
  <2>7. LinedNode(file, version, w, 2)
    <3>1. w[2].id = p /\ w[2].node = d[p]
      BY <1>3, <1>8 DEF NodeWrite
    <3>2. \A c \in Task : IsChildOf(c, file[p]) => IsChildOf(c, d[p])
      BY <2>6 DEF IsChildOf
    <3>3. \A c \in Task : IsChildOf(c, d[p]) => c = id \/ c \in DOMAIN file
      BY <1>1, <2>1, <2>6 DEF IsChildOf, Listed
    <3>4. 1 \in NodeWrites(w) /\ 1 < 2
      BY <1>3, <1>8
    <3> QED BY <1>4, <2>3, <3>1, <3>2, <3>3, <3>4 DEF LinedNode
  <2>8. Lined(file, version, w)
    BY <1>2, <1>3, <1>4, <1>6, <1>8, <2>7 DEF Lined
  <2>9. \A u \in DOMAIN file : d[u].parent = file[u].parent
    BY <1>2, <2>3
  <2>10. ASSUME NEW u \in DOMAIN d, NEW k \in DOMAIN d[u].children
         PROVE  /\ d[u].children[k] \in DOMAIN d
                /\ d[d[u].children[k]].parent = u
                /\ \A m \in DOMAIN d[u].children : d[u].children[k] = d[u].children[m] => k = m
    <3>1. CASE u = id
      BY <1>2, <1>4, <3>1
    <3>2. CASE u = p
      <4>1. CASE d[p].children[k] = id
        BY <1>2, <1>4, <2>6, <3>2, <4>1
      <4>2. CASE d[p].children[k] # id
        <5>1. PICK m \in DOMAIN file[p].children : d[p].children[k] = file[p].children[m]
          BY <2>6, <3>2, <4>2
        <5>2. file[p].children[m] \in DOMAIN file /\ file[file[p].children[m]].parent = p
          BY <1>1, <2>1 DEF Listed
        <5> QED BY <1>2, <2>6, <2>9, <3>2, <5>1, <5>2
      <4> QED BY <4>1, <4>2
    <3>3. CASE u # id /\ u # p
      <4>1. u \in DOMAIN file /\ d[u] = file[u]
        BY <1>2, <3>3
      <4>2. /\ d[u].children[k] \in DOMAIN file /\ file[d[u].children[k]].parent = u
            /\ \A m \in DOMAIN d[u].children : d[u].children[k] = d[u].children[m] => k = m
        BY <1>1, <4>1 DEF Listed
      <4> QED BY <1>2, <2>9, <4>2
    <3> QED BY <3>1, <3>2, <3>3
  <2>11. Listed(d)
    BY <2>10 DEF Listed
  <2>12. ASSUME NEW u \in DOMAIN d, Orphan(d, u) PROVE u \in lost
    <3>1. u # id
      BY <1>4, <1>2, <2>6, <2>12 DEF Orphan, IsChildOf
    <3>2. u \in DOMAIN file /\ u \in Task
      BY <1>2, <1>5, <3>1 DEF IsGraph
    <3>3. file[u].parent # NoTask /\ file[u].parent \in DOMAIN file /\ ~IsChildOf(u, d[file[u].parent])
      BY <1>5, <2>9, <2>12, <3>2 DEF Orphan, Resolved
    <3>4. ~IsChildOf(u, file[file[u].parent])
      <4>1. CASE file[u].parent = p
        BY <2>6, <3>3, <4>1 DEF IsChildOf
      <4>2. CASE file[u].parent # p
        BY <1>2, <3>3, <4>2
      <4> QED BY <4>1, <4>2
    <3> QED BY <1>1, <3>2, <3>3, <3>4 DEF Orphan
  <2> QED BY <1>1, <1>2, <2>8, <2>11, <2>12, MutateTreed DEF w, d
<1> QED BY <1>7, <1>8

-----------------------------------------------------------------------------
(* Every write, cut and reopening keeps the tree.                          *)

\* A mutation that has more than its entry to write is not over with its head.
LEMMA MoreToDo ==
  ASSUME IInv, Treed, todo # <<>>, Head(todo).kind # "entry"
  PROVE  Tail(todo) # <<>>
<1>1. todo[Len(todo)].kind = "entry"
  BY DEF Treed, Lined
<1>2. todo \in Seq(Writes) /\ Head(todo) = todo[1]
  BY UpReadsDisk
<1>3. Len(todo) # 1
  BY <1>1, <1>2
<1>4. Len(Tail(todo)) = Len(todo) - 1 /\ Len(todo) \in Nat /\ Len(todo) # 0
  BY <1>2, TailOfTodo, EmptySeq
<1>5. Len(Tail(todo)) # 0
  BY <1>3, <1>4
<1>6. Len(<<>>) = 0
  OBVIOUS
<1>7. ASSUME Tail(todo) = <<>> PROVE FALSE
  BY ONLY <1>5, <1>6, <1>7
<1> QED BY <1>7

\* What a step leaves to do is done over the files it leaves.
LEMMA SameDone ==
  ASSUME NEW f, NEW w, file' = f, todo' = w
  PROVE  Done(file, todo)' = Done(f, w)
<1>1. (NodeWrites(todo))' = NodeWrites(w)
  BY DEF NodeWrites
<1>2. (Rewrites(todo))' = Rewrites(w)
  BY <1>1 DEF Rewrites
<1> QED BY <1>1, <1>2 DEF Done

\* The writes keep the tree.
LEMMA WriteTreed ==
  ASSUME IInv, Treed, Write
  PROVE  Treed'
<1>1. ASSUME WriteNode PROVE Treed'
  <2> DEFINE g == With(file, Head(todo).id, Head(todo).node)
  <2>1. todo # <<>> /\ Head(todo).kind = "node" /\ nodes = file
    BY <1>1, UpReadsDisk DEF WriteNode
  <2>2. /\ Listed(g) /\ Lined(g, version, Tail(todo))
        /\ \A t \in DOMAIN g : Orphan(g, t) => t \in lost \/ g[t].stamp = version + 1
    BY <2>1, HeadWriteTree
  <2>3. Done(g, Tail(todo)) = Done(file, todo) /\ Tail(todo) # <<>>
    BY <2>1, DoneHead, MoreToDo
  <2>4. file' = g /\ todo' = Tail(todo) /\ version' = version /\ lost' = lost
    BY <1>1 DEF WriteNode, ghosts
  <2> HIDE DEF g
  <2>5. Lined(file, version, todo)' /\ Listed(file)'
    BY <2>2, <2>4 DEF Lined, LinedNode, NodeWrites, Listed
  <2>6. \A t \in DOMAIN file' : Orphan(file, t)' => t \in lost' \/ (todo' # <<>> /\ file'[t].stamp = version' + 1)
    BY <2>2, <2>3, <2>4 DEF Orphan
  <2>7. Done(file, todo)' = Done(file, todo)
    <3>1. Done(file, todo)' = Done(g, Tail(todo))
      BY <2>4, SameDone
    <3> QED BY <2>3, <3>1
  <2>8. Listed(Done(file, todo)) /\ \A t \in DOMAIN Done(file, todo) : Orphan(Done(file, todo), t) => t \in lost
    BY <2>1 DEF Treed
  <2>9. Listed(Done(file, todo))'
    BY <2>7, <2>8 DEF Listed
  <2>10. \A t \in DOMAIN Done(file, todo)' : Orphan(Done(file, todo), t)' => t \in lost'
    BY <2>4, <2>7, <2>8 DEF Orphan
  <2> QED BY <2>5, <2>6, <2>9, <2>10 DEF Treed
<1>2. ASSUME WriteCursor PROVE Treed'
  <2>1. todo # <<>> /\ Head(todo).kind = "cursor"
    BY <1>2 DEF WriteCursor
  <2>2. /\ NodeWrites(todo) = {} /\ NodeWrites(Tail(todo)) = {}
        /\ Done(file, todo) = file /\ Done(file, Tail(todo)) = file
    BY <2>1, DoneRest
  <2>3. Tail(todo) # <<>> /\ Tail(todo)[Len(Tail(todo))] = todo[Len(todo)]
    BY <2>1, MoreToDo, TailWrites
  <2>4. file' = file /\ todo' = Tail(todo) /\ version' = version /\ lost' = lost
    BY <1>2 DEF WriteCursor, ghosts, memory
  <2>5. NodeWrites(todo)' = {}
    BY <2>2, <2>4 DEF NodeWrites
  <2>6. todo[Len(todo)].kind = "entry" /\ Listed(file)
        /\ \A t \in DOMAIN file : Orphan(file, t) => t \in lost
    BY <2>1, <2>2 DEF Treed, Lined
  <2>7. Lined(file, version, todo)' /\ Listed(file)'
    BY <2>3, <2>4, <2>5, <2>6 DEF Lined, Listed
  <2>8. \A t \in DOMAIN file' : Orphan(file, t)' => t \in lost'
    BY <2>4, <2>6 DEF Orphan
  <2>9. Done(file, todo)' = file
    <3>1. Done(file, todo)' = Done(file, Tail(todo))
      BY <2>4, SameDone
    <3> QED BY <2>2, <3>1
  <2>10. Listed(Done(file, todo))'
    BY <2>6, <2>9 DEF Listed
  <2>11. \A t \in DOMAIN Done(file, todo)' : Orphan(Done(file, todo), t)' => t \in lost'
    BY <2>4, <2>6, <2>9 DEF Orphan
  <2> QED BY <2>7, <2>8, <2>10, <2>11 DEF Treed
<1>3. ASSUME PostMutation PROVE Treed'
  <2>1. todo # <<>> /\ Head(todo).kind = "entry"
    BY <1>3 DEF PostMutation
  <2>2. Done(file, todo) = file
    BY <2>1, DoneRest
  <2>3. Listed(file) /\ \A t \in DOMAIN file : Orphan(file, t) => t \in lost
    BY <2>1, <2>2 DEF Treed
  <2>4. todo' = <<>> /\ file' = file /\ lost \subseteq lost'
    BY <1>3, <2>1, HeadEntry DEF PostMutation, Lose
  <2>5. Listed(file)' /\ \A t \in DOMAIN file' : Orphan(file', t) => t \in lost'
    BY <2>3, <2>4 DEF Listed
  <2> QED BY <2>4, <2>5, RestTreed
<1> QED BY <1>1, <1>2, <1>3 DEF Write

\* What is left when a mutation is cut short: the loose tasks are the touched ones.
LEMMA CutTreed ==
  ASSUME NEW f, Listed(f), \A t \in DOMAIN f : Orphan(f, t) => t \in lost \/ f[t].stamp = version + 1,
         Lose(f), file' = f, todo' = <<>>
  PROVE  Treed'
<1>1. \A t \in DOMAIN f : Orphan(f, t) => t \in lost'
  BY DEF Lose, Touched
<1>2. Listed(file)' /\ \A t \in DOMAIN file' : Orphan(file', t) => t \in lost'
  BY <1>1 DEF Listed
<1> QED BY <1>2, RestTreed

\* Faults, deaths and reopenings keep the tree.
LEMMA FaultTreed ==
  ASSUME IInv, Treed, Fault \/ Crash \/ Open
  PROVE  Treed'
<1>1. Listed(file) /\ \A t \in DOMAIN file : Orphan(file, t) => t \in lost \/ (todo # <<>> /\ file[t].stamp = version + 1)
  BY DEF Treed
<1>2. ASSUME NodeFault PROVE Treed'
  <2> DEFINE g == With(file, Head(todo).id, Head(todo).node)
  <2>1. todo # <<>> /\ Head(todo).kind = "node"
    BY <1>2 DEF NodeFault
  <2>2. Listed(g) /\ \A t \in DOMAIN g : Orphan(g, t) => t \in lost \/ g[t].stamp = version + 1
    BY <2>1, HeadWriteTree
  <2> HIDE DEF g
  <2>3. PICK f \in {file, g} : file' = f /\ Lose(f) /\ todo' = <<>>
    BY <1>2 DEF NodeFault, Reload, g
  <2>4. Listed(f) /\ \A t \in DOMAIN f : Orphan(f, t) => t \in lost \/ f[t].stamp = version + 1
    BY <1>1, <2>2
  <2> QED BY <2>3, <2>4, CutTreed
<1>3. ASSUME CursorFault \/ TornFault PROVE Treed'
  <2>1. file' = file /\ Lose(file) /\ todo' = <<>>
    BY <1>3 DEF CursorFault, TornFault, Reload
  <2> QED BY <1>1, <2>1, CutTreed
<1>4. ASSUME EntryFault PROVE Treed'
  <2>1. file' = file /\ todo' = <<>> /\ (Lose(file) \/ lost' = lost) /\ todo # <<>> /\ Head(todo).kind = "entry"
    BY <1>4 DEF EntryFault, Reload
  <2>2. CASE Lose(file)
    BY <1>1, <2>1, <2>2, CutTreed
  <2>3. CASE lost' = lost
    <3>1. Done(file, todo) = file
      BY <2>1, DoneRest
    <3>2. \A t \in DOMAIN file : Orphan(file, t) => t \in lost
      BY <2>1, <3>1 DEF Treed
    <3>3. Listed(file)' /\ \A t \in DOMAIN file' : Orphan(file', t) => t \in lost'
      BY <1>1, <2>1, <2>3, <3>2 DEF Listed
    <3> QED BY <2>1, <3>3, RestTreed
  <2> QED BY <2>1, <2>2, <2>3
<1>5. ASSUME Crash PROVE Treed'
  <2>1. file' = file /\ todo' = <<>>
    BY <1>5 DEF Crash
  <2>2. CASE todo = <<>>
    <3>1. lost' = lost
      BY <1>5, <2>2 DEF Crash
    <3>2. Listed(file)' /\ \A t \in DOMAIN file' : Orphan(file', t) => t \in lost'
      BY <1>1, <2>1, <2>2, <3>1 DEF Listed
    <3> QED BY <2>1, <3>2, RestTreed
  <2>3. CASE todo # <<>>
    <3>1. Lose(file)
      BY <1>5, <2>3 DEF Crash
    <3> QED BY <1>1, <2>1, <3>1, CutTreed
  <2> QED BY <2>2, <2>3
<1>6. ASSUME Open PROVE Treed'
  <2>1. file' = file /\ todo' = <<>> /\ todo = <<>> /\ lost' = lost
    BY <1>6 DEF Open, disk, ghosts, IInv, TypeOK
  <2>2. Listed(file)' /\ \A t \in DOMAIN file' : Orphan(file', t) => t \in lost'
    BY <1>1, <2>1 DEF Listed
  <2> QED BY <2>1, <2>2, RestTreed
<1> QED BY <1>2, <1>3, <1>4, <1>5, <1>6 DEF Fault

\* Every step keeps the tree.
LEMMA NextTreed == IInv /\ IInv' /\ Treed /\ [Next]_vars => Treed'
<1> SUFFICES ASSUME IInv, IInv', Treed, [Next]_vars PROVE Treed'
  OBVIOUS
<1>1. CASE Operation
  <2>1. ASSUME NEW p \in TaskOrNone, NEW after \in TaskOrNone, NEW draft \in Draft,
               NEW deps \in SUBSET Task, AddSubtask(p, draft, deps, after)
        PROVE  Treed'
    BY <2>1, AddSubtaskTreed
  <2>2. ASSUME NEW t \in Task, NEW s \in StatusInput, UpdateStatus(t, s) PROVE Treed'
    BY <2>2, RewriteTreed
  <2>3. ASSUME NEW t \in Task, NEW d \in Task, AddDependency(t, d) PROVE Treed'
    BY <2>3, RewriteTreed
  <2>4. ASSUME NEW t \in Task, NEW sha \in Sha, RecordCommit(t, sha) PROVE Treed'
    BY <2>4, RewriteTreed
  <2>5. ASSUME NEW t \in TaskOrNone, SetCursor(t) PROVE Treed'
    BY <2>5, SetCursorTreed
  <2> QED BY <1>1, <2>1, <2>2, <2>3, <2>4, <2>5 DEF Operation
<1>2. CASE Write
  BY <1>2, WriteTreed
<1>3. CASE Fault \/ Crash \/ Open
  BY <1>3, FaultTreed
<1>4. CASE UNCHANGED vars
  <2>1. file' = file /\ todo' = todo /\ version' = version /\ lost' = lost
    BY <1>4 DEF vars, disk, memory, ghosts
  <2>2. Done(file, todo)' = Done(file, todo)
    BY <2>1, SameDone
  <2>3. (NodeWrites(todo))' = NodeWrites(todo)
    BY <2>1 DEF NodeWrites
  <2>4. Lined(file, version, todo)' /\ Listed(file)'
    BY <2>1, <2>3 DEF Treed, Lined, LinedNode, Listed
  <2>5. \A t \in DOMAIN file' : Orphan(file, t)' => t \in lost' \/ (todo' # <<>> /\ file'[t].stamp = version' + 1)
    BY <2>1 DEF Treed, Orphan
  <2>6. todo' # <<>> => Listed(Done(file, todo))'
    BY <2>1, <2>2 DEF Treed, Listed
  <2>7. todo' # <<>> => \A t \in DOMAIN Done(file, todo)' : Orphan(Done(file, todo), t)' => t \in lost'
    BY <2>1, <2>2 DEF Treed, Orphan
  <2> QED BY <2>4, <2>5, <2>6, <2>7 DEF Treed
<1> QED BY <1>1, <1>2, <1>3, <1>4 DEF Next

\* The tree holds in every state.
THEOREM TreeInvariance == Spec => [](IInv /\ Treed)
<1>1. Init => Treed
  <2> SUFFICES ASSUME Init PROVE Treed
    OBVIOUS
  <2>1. NodeWrites(<<>>) = {} /\ todo = <<>> /\ file = <<>>
    BY DEF NodeWrites, Init
  <2> QED BY <2>1 DEF Treed, Lined, Listed
<1>2. IInv /\ IInv' /\ Treed /\ [Next]_vars => Treed'
  BY NextTreed
<1> QED BY <1>1, <1>2, Invariance, PTL DEF Spec

\* `add_subtask': whatever is cut short, the files form a tree.
THEOREM TreeHolds == Spec => []TreeConsistent
<1>1. IInv /\ Treed => TreeConsistent
  <2> SUFFICES ASSUME IInv, Treed PROVE TreeConsistent
    OBVIOUS
  <2>1. Resolved(file) /\ Listed(file)
    BY DEF IInv, DiskInv, Treed
  <2>2. \A t \in DOMAIN file : Orphan(file, t) => t \in lost \/ (todo # <<>> /\ file[t].stamp = version + 1)
    BY DEF Treed
  <2> QED BY <2>1, <2>2 DEF TreeConsistent, Listed, Orphan, Resolved
<1> QED BY <1>1, TreeInvariance, PTL

-----------------------------------------------------------------------------
(* Numbers.                                                                *)

\* Opening the curator never starts behind a stamp.
LEMMA OpenedStamps ==
  ASSUME NEW j \in Seq(Entry), NEW f, IsGraph(f),
         \A i, k \in DOMAIN j : i < k => j[i].ver < j[k].ver,
         \A t \in DOMAIN f : f[t].stamp <= MaxVersion
  PROVE  \A t \in DOMAIN f : f[t].stamp <= OpenVersion(j, f)
<1> DEFINE S == {f[t].stamp : t \in DOMAIN f}
<1>0. \A t \in DOMAIN f : f[t].stamp \in Nat
  BY DEF IsGraph, Node
<1>1. S \in SUBSET Nat /\ (\A n \in S : n <= MaxVersion) /\ MaxVersion \in Nat
  BY <1>0, Bounds
<1>2. SetMax(S, 0) \in Nat /\ \A n \in S : n <= SetMax(S, 0)
  <2> HIDE DEF S
  <2> QED BY <1>1, SetMaxIsMax
<1>3. \A t \in DOMAIN f : f[t].stamp <= SetMax(S, 0)
  BY <1>2
<1>4. ComputeGraphVersion(j, f) \in Nat
  BY ComputedVersion
<1>5. OpenVersion(j, f) = IF SetMax(S, 0) > ComputeGraphVersion(j, f)
                          THEN SetMax(S, 0) ELSE ComputeGraphVersion(j, f)
  BY DEF OpenVersion
<1> HIDE DEF S
<1> QED BY <1>0, <1>2, <1>3, <1>4, <1>5

\* Without write faults every step keeps the numbers apart.
LEMMA NextCounted == Faults = {} /\ IInv /\ Treed /\ Counted /\ [Next]_vars => Counted'
<1> SUFFICES ASSUME Faults = {}, IInv, Treed, Counted, [Next]_vars PROVE Counted'
  OBVIOUS
<1>0. /\ IsGraph(file) /\ Resolved(file) /\ journal \in Seq(Entry) /\ lostVer \subseteq Nat
      /\ version \in Nat /\ (todo # <<>> => up)
      /\ \A t \in DOMAIN file : file[t].stamp \in Nat /\ file[t].stamp <= MaxVersion
      /\ \A i \in DOMAIN journal : journal[i].ver \in Nat
      /\ \A i, k \in DOMAIN journal : i < k => journal[i].ver < journal[k].ver
      /\ up => \A i \in DOMAIN journal : journal[i].ver <= version
  <2>1. /\ IsGraph(file) /\ Resolved(file) /\ journal \in Seq(Entry) /\ lostVer \subseteq Nat
        /\ version \in Nat /\ (todo # <<>> => up)
        /\ \A t \in DOMAIN file : file[t].stamp <= MaxVersion
        /\ \A i, k \in DOMAIN journal : i < k => journal[i].ver < journal[k].ver
        /\ up => \A i \in DOMAIN journal : journal[i].ver <= version
    BY DEF IInv, TypeOK, DiskInv, VersionsIncrease
  <2>2. \A t \in DOMAIN file : file[t].stamp \in Nat
    BY <2>1 DEF IsGraph, Node
  <2>3. \A i \in DOMAIN journal : journal[i].ver \in Nat
    BY <2>1, EntryVersions
  <2> QED BY <2>1, <2>2, <2>3
<1>1. CASE Operation
  <2>1. todo = <<>> /\ file' = file /\ journal' = journal /\ torn' = torn /\ up' = up /\ version' = version /\ lostVer' = lostVer
    BY <1>1 DEF Operation, AddSubtask, UpdateStatus, AddDependency, RecordCommit, SetCursor,
                Unlocked, Mutate, disk, memory, ghosts
  <2> QED BY <2>1 DEF Counted
<1>2. CASE WriteNode
  <2> DEFINE g == With(file, Head(todo).id, Head(todo).node)
  <2>1. todo # <<>> /\ Head(todo).kind = "node"
    BY <1>2 DEF WriteNode
  <2>2. /\ file' = g /\ journal' = journal /\ torn' = torn /\ up' = up /\ version' = version
        /\ lostVer' = lostVer /\ todo' = Tail(todo)
    BY <1>2 DEF WriteNode, ghosts
  <2>3. Tail(todo) # <<>>
    BY <2>1, MoreToDo
  <2>4. Head(todo).node.stamp = version + 1
    <3>1. 1 \in NodeWrites(todo) /\ Head(todo) = todo[1]
      BY <2>1, UpReadsDisk DEF NodeWrites
    <3> QED BY <3>1 DEF Treed, Lined, LinedNode
  <2>5. /\ DOMAIN g = DOMAIN file \cup {Head(todo).id}
        /\ g[Head(todo).id].stamp = version + 1
        /\ \A t \in DOMAIN file \ {Head(todo).id} : g[t] = file[t]
    BY <2>1, <2>4, HeadNodeWrite
  <2>6. up /\ \A v \in lostVer : v \in Nat /\ v <= version
    BY <1>0, <2>1 DEF Counted
  <2> HIDE DEF g
  <2>7. \A t \in DOMAIN g : g[t].stamp <= version \/ g[t].stamp = version + 1
    BY <2>5, <2>6 DEF Counted
  <2>8. \A v \in lostVer : \E t \in DOMAIN g : v <= g[t].stamp
    <3>1. Head(todo).id \in DOMAIN g
      BY <2>5
    <3>2. \A v \in lostVer : v <= g[Head(todo).id].stamp
      BY <1>0, <2>5, <2>6
    <3> QED BY <3>1, <3>2
  <2>9. ~torn /\ \A i \in DOMAIN journal : journal[i].ver \notin lostVer
    BY DEF Counted
  <2> QED BY <2>2, <2>3, <2>6, <2>7, <2>8, <2>9 DEF Counted
<1>3. CASE WriteCursor
  <2>1. todo # <<>> /\ Head(todo).kind = "cursor"
    BY <1>3 DEF WriteCursor
  <2>2. Tail(todo) # <<>>
    BY <2>1, MoreToDo
  <2>3. /\ file' = file /\ journal' = journal /\ torn' = torn /\ up' = up /\ version' = version
        /\ lostVer' = lostVer /\ todo' = Tail(todo)
    BY <1>3 DEF WriteCursor, ghosts, memory
  <2> QED BY <2>1, <2>2, <2>3 DEF Counted
<1>4. CASE PostMutation
  <2> DEFINE e == Head(todo).entry
  <2>1. todo # <<>> /\ Head(todo).kind = "entry"
    BY <1>4 DEF PostMutation
  <2>2. up /\ e \in Entry /\ e.ver = version + 1
    BY <1>0, <2>1, HeadEntry
  <2>3. ~torn /\ torn' = FALSE /\ up' = up /\ version' = version + 1 /\ file' = file
        /\ lostVer' = lostVer /\ journal' = Append(journal, e)
    BY <1>4 DEF PostMutation, Counted
  <2> HIDE DEF e
  <2>4. \A v \in lostVer : v <= version /\ v \in Nat
    BY <1>0, <2>2 DEF Counted
  <2>5. \A i \in DOMAIN journal' : journal'[i] = e \/ \E k \in DOMAIN journal : journal'[i] = journal[k]
    <3>1. /\ Len(Append(journal, e)) = Len(journal) + 1 /\ Append(journal, e) \in Seq(Entry)
          /\ \A i \in 1..Len(journal) : Append(journal, e)[i] = journal[i]
          /\ Append(journal, e)[Len(journal) + 1] = e
      BY <1>0, <2>2, AppendProperties
    <3>2. DOMAIN journal = 1..Len(journal) /\ Len(journal) \in Nat
          /\ DOMAIN Append(journal, e) = 1..(Len(journal) + 1)
      BY <1>0, <3>1, LenProperties
    <3> QED BY <2>3, <3>1, <3>2
  <2>6. e.ver \notin lostVer
    BY <1>0, <2>2, <2>4
  <2>7. \A i \in DOMAIN journal' : journal'[i].ver \notin lostVer
    BY <2>5, <2>6 DEF Counted
  <2>8. \A t \in DOMAIN file : file[t].stamp <= version + 1
    BY <1>0, <2>2 DEF Counted
  <2>9. \A v \in lostVer : v <= version + 1
    BY <1>0, <2>4
  <2>10. \A v \in lostVer : \E t \in DOMAIN file : v <= file[t].stamp
    BY DEF Counted
  <2> QED BY <2>3, <2>7, <2>8, <2>9, <2>10 DEF Counted
<1>5. CASE Fault
  BY <1>5 DEF Fault, NodeFault, CursorFault, EntryFault, TornFault
<1>6. CASE Crash
  <2>1. file' = file /\ journal' = journal /\ torn' = torn /\ up' = FALSE
    BY <1>6 DEF Crash
  <2>2. ~torn /\ (\A i \in DOMAIN journal : journal[i].ver \notin lostVer)
        /\ \A v \in lostVer : \E t \in DOMAIN file : v <= file[t].stamp
    BY DEF Counted
  <2>3. CASE lostVer' = lostVer
    BY <2>1, <2>2, <2>3 DEF Counted
  <2>4. CASE lostVer' # lostVer
    <3>1. todo # <<>> /\ Lose(file)
      BY <1>6, <2>4 DEF Crash
    <3>2. lostVer' = lostVer \cup {version + 1} /\ Touched(file) # {}
      BY <2>4, <3>1 DEF Lose
    <3>3. up /\ version + 1 \in Nat /\ \A i \in DOMAIN journal : journal[i].ver # version + 1
      BY <1>0, <3>1
    <3>4. \E t \in DOMAIN file : version + 1 <= file[t].stamp
      BY <1>0, <3>2 DEF Touched
    <3> QED BY <2>1, <2>2, <3>2, <3>3, <3>4 DEF Counted
  <2> QED BY <2>3, <2>4
<1>7. CASE Open
  <2>1. LoadGraph(file) = file
    BY <1>0, LoadResolved
  <2>2. version' = OpenVersion(journal, file) /\ file' = file /\ journal' = journal /\ torn' = torn /\ lostVer' = lostVer
    BY <1>7, <2>1 DEF Open, disk, ghosts
  <2>3. OpenVersion(journal, file) \in Nat /\ \A t \in DOMAIN file : file[t].stamp <= OpenVersion(journal, file)
    BY <1>0, OpenedVersion, OpenedStamps
  <2>4. \A v \in lostVer : v <= OpenVersion(journal, file)
    BY <1>0, <2>3 DEF Counted
  <2> QED BY <2>2, <2>3, <2>4 DEF Counted
<1>8. CASE UNCHANGED vars
  BY <1>8 DEF Counted, vars, disk, memory, ghosts
<1> QED BY <1>1, <1>2, <1>3, <1>4, <1>5, <1>6, <1>7, <1>8 DEF Next, Write

\* GraphCurator.__init__: a process that dies between writes, at any point and
\* any number of times, loses a number for good; no later mutation takes it.
THEOREM LostNumberHolds ==
  ASSUME Faults = {}
  PROVE  Spec => []LostNumberNeverReused
<1>1. Init => Counted
  BY DEF Init, Counted
<1>2. IInv /\ Treed /\ Counted /\ [Next]_vars => Counted'
  BY NextCounted
<1>3. Counted => LostNumberNeverReused
  BY DEF Counted, LostNumberNeverReused
<1> QED BY <1>1, <1>2, <1>3, TreeInvariance, PTL DEF Spec

-----------------------------------------------------------------------------
(* Filtering a sequence.                                                   *)

\* The recursive definition holds of what it defines.
LEMMA SelectUnfolds ==
  ASSUME NEW s, NEW S, Len(s) \in Nat
  PROVE  SelectedTo(s, S) =
           [i \in 0..Len(s) |->
              IF i = 0 THEN <<>>
              ELSE IF s[i] \in S THEN Append(SelectedTo(s, S)[i - 1], s[i])
                                 ELSE SelectedTo(s, S)[i - 1]]
<1> DEFINE Longer(r, i) == IF s[i] \in S THEN Append(r, s[i]) ELSE r
           Goes(g, k) == g = [i \in 0..k |-> IF i = 0 THEN <<>> ELSE Longer(g[i - 1], i)]
           K == {k \in Nat : \E g : Goes(g, k)}
<1> HIDE DEF Longer
<1>1. 0 \in K
  <2> DEFINE g == [i \in 0..0 |-> <<>>]
  <2>1. Goes(g, 0)
    OBVIOUS
  <2> QED BY <2>1
<1>2. ASSUME NEW k \in Nat, k \in K PROVE k + 1 \in K
  <2>1. PICK g : Goes(g, k)
    BY <1>2
  <2> DEFINE h == [i \in 0..(k + 1) |-> IF i = k + 1 THEN Longer(g[k], k + 1) ELSE g[i]]
  <2>2. \A i \in 0..(k + 1) : h[i] = IF i = 0 THEN <<>> ELSE Longer(h[i - 1], i)
    <3> TAKE i \in 0..(k + 1)
    <3>0. g = [m \in 0..k |-> IF m = 0 THEN <<>> ELSE Longer(g[m - 1], m)]
      BY <2>1
    <3>1. CASE i = k + 1
      <4>1. h[i] = Longer(g[k], k + 1) /\ h[k] = g[k] /\ i # 0 /\ i - 1 = k
        BY <3>1
      <4> HIDE DEF h
      <4> QED BY <3>1, <4>1
    <3>2. CASE i # k + 1
      <4>1. i \in 0..k /\ h[i] = g[i] /\ (i # 0 => h[i - 1] = g[i - 1])
        BY <3>2
      <4> HIDE DEF h
      <4>2. g[i] = IF i = 0 THEN <<>> ELSE Longer(g[i - 1], i)
        BY <3>0, <4>1
      <4> QED BY <4>1, <4>2
    <3> QED BY <3>1, <3>2
  <2>3. Goes(h, k + 1)
    <3>1. h = [i \in 0..(k + 1) |-> h[i]]
      OBVIOUS
    <3> HIDE DEF h
    <3> QED BY <2>2, <3>1
  <2> HIDE DEF Goes, h
  <2> QED BY <2>3
<1>3. Len(s) \in K
  <2> HIDE DEF K
  <2> QED BY <1>1, <1>2, SetInduction
<1>4. \E g : Goes(g, Len(s))
  BY <1>3
<1>5. SelectedTo(s, S) = CHOOSE g : Goes(g, Len(s))
  BY DEF SelectedTo, Longer
<1>6. Goes(SelectedTo(s, S), Len(s))
  <2> HIDE DEF Goes
  <2> QED BY <1>4, <1>5
<1> QED BY <1>6 DEF Longer

\* One step of the filter.
LEMMA SelectStep ==
  ASSUME NEW X, NEW s \in Seq(X), NEW S
  PROVE  /\ Len(s) \in Nat
         /\ SelectedTo(s, S)[0] = <<>>
         /\ \A i \in 1..Len(s) :
               SelectedTo(s, S)[i] = IF s[i] \in S THEN Append(SelectedTo(s, S)[i - 1], s[i])
                                                   ELSE SelectedTo(s, S)[i - 1]
<1>1. Len(s) \in Nat
  BY LenProperties
<1> DEFINE f == SelectedTo(s, S)
<1>2. f = [i \in 0..Len(s) |-> IF i = 0 THEN <<>>
                               ELSE IF s[i] \in S THEN Append(f[i - 1], s[i]) ELSE f[i - 1]]
  BY <1>1, SelectUnfolds
<1> HIDE DEF f
<1>3. f[0] = <<>>
  BY <1>1, <1>2
<1>4. ASSUME NEW i \in 1..Len(s)
      PROVE  f[i] = IF s[i] \in S THEN Append(f[i - 1], s[i]) ELSE f[i - 1]
  <2>1. i \in 0..Len(s) /\ i # 0
    BY <1>1
  <2> QED BY <1>2, <2>1
<1> QED BY <1>1, <1>3, <1>4 DEF f

\* What is kept is of the sequence and of the set.
LEMMA SelectType ==
  ASSUME NEW X, NEW s \in Seq(X), NEW S
  PROVE  /\ \A i \in 0..Len(s) : SelectedTo(s, S)[i] \in Seq(X \cap S)
         /\ Select(s, S) \in Seq(X \cap S)
<1> DEFINE K == {i \in Nat : i <= Len(s) => SelectedTo(s, S)[i] \in Seq(X \cap S)}
<1>1. /\ Len(s) \in Nat
      /\ SelectedTo(s, S)[0] = <<>>
      /\ \A i \in 1..Len(s) :
            SelectedTo(s, S)[i] = IF s[i] \in S THEN Append(SelectedTo(s, S)[i - 1], s[i])
                                                ELSE SelectedTo(s, S)[i - 1]
  BY SelectStep
<1>2. 0 \in K
  BY <1>1, EmptySeq
<1>3. ASSUME NEW i \in Nat, i \in K PROVE i + 1 \in K
  <2>1. SUFFICES ASSUME i + 1 <= Len(s) PROVE SelectedTo(s, S)[i + 1] \in Seq(X \cap S)
    OBVIOUS
  <2>2. i + 1 \in 1..Len(s) /\ (i + 1) - 1 = i /\ SelectedTo(s, S)[i] \in Seq(X \cap S)
    BY <1>1, <1>3, <2>1
  <2>3. s[i + 1] \in X
    BY <2>2, ElementOfSeq
  <2>4. CASE s[i + 1] \in S
    <3>1. SelectedTo(s, S)[i + 1] = Append(SelectedTo(s, S)[i], s[i + 1])
      BY <1>1, <2>2, <2>4
    <3> QED BY <2>2, <2>3, <2>4, <3>1, AppendProperties
  <2>5. CASE s[i + 1] \notin S
    BY <1>1, <2>2, <2>5
  <2> QED BY <2>4, <2>5
<1>4. \A i \in Nat : i \in K
  <2> HIDE DEF K
  <2> QED BY <1>2, <1>3, SetInduction
<1>5. \A i \in 0..Len(s) : SelectedTo(s, S)[i] \in Seq(X \cap S)
  BY <1>1, <1>4
<1> QED BY <1>1, <1>5 DEF Select

\* Two sequences that agree up to n, and two sets that agree on that much of them.
LEMMA SelectSame ==
  ASSUME NEW X, NEW r \in Seq(X), NEW s \in Seq(X), NEW A, NEW B,
         NEW n \in Nat, n <= Len(r), n <= Len(s),
         \A i \in 1..n : r[i] = s[i] /\ (s[i] \in A <=> s[i] \in B)
  PROVE  \A i \in 0..n : SelectedTo(r, A)[i] = SelectedTo(s, B)[i]
<1> DEFINE K == {i \in Nat : i <= n => SelectedTo(r, A)[i] = SelectedTo(s, B)[i]}
<1>1. /\ Len(r) \in Nat
      /\ SelectedTo(r, A)[0] = <<>>
      /\ \A i \in 1..Len(r) :
            SelectedTo(r, A)[i] = IF r[i] \in A THEN Append(SelectedTo(r, A)[i - 1], r[i])
                                                ELSE SelectedTo(r, A)[i - 1]
  BY SelectStep
<1>2. /\ Len(s) \in Nat
      /\ SelectedTo(s, B)[0] = <<>>
      /\ \A i \in 1..Len(s) :
            SelectedTo(s, B)[i] = IF s[i] \in B THEN Append(SelectedTo(s, B)[i - 1], s[i])
                                                ELSE SelectedTo(s, B)[i - 1]
  BY SelectStep
<1>3. 0 \in K
  BY <1>1, <1>2
<1>4. ASSUME NEW i \in Nat, i \in K PROVE i + 1 \in K
  <2>1. SUFFICES ASSUME i + 1 <= n PROVE SelectedTo(r, A)[i + 1] = SelectedTo(s, B)[i + 1]
    OBVIOUS
  <2>2. /\ i + 1 \in 1..Len(r) /\ i + 1 \in 1..Len(s) /\ i + 1 \in 1..n /\ (i + 1) - 1 = i
        /\ SelectedTo(r, A)[i] = SelectedTo(s, B)[i]
    BY <1>1, <1>2, <1>4, <2>1
  <2> QED BY <1>1, <1>2, <2>2
<1>5. \A i \in Nat : i \in K
  <2> HIDE DEF K
  <2> QED BY <1>3, <1>4, SetInduction
<1> QED BY <1>5

\* Sets that agree on a sequence's members keep the same of it.
LEMMA SelectAgrees ==
  ASSUME NEW X, NEW s \in Seq(X), NEW A, NEW B, \A i \in DOMAIN s : s[i] \in A <=> s[i] \in B
  PROVE  Select(s, A) = Select(s, B)
<1>1. Len(s) \in Nat /\ DOMAIN s = 1..Len(s)
  BY LenProperties
<1>2. \A i \in 0..Len(s) : SelectedTo(s, A)[i] = SelectedTo(s, B)[i]
  BY <1>1, SelectSame
<1> QED BY <1>1, <1>2 DEF Select

\* When the kept members are the first k, what is kept is the sequence cut there.
LEMMA SelectCuts ==
  ASSUME NEW X, NEW s \in Seq(X), NEW S, NEW k \in 0..Len(s),
         \A i \in 1..k : s[i] \in S, \A i \in (k + 1)..Len(s) : s[i] \notin S
  PROVE  Select(s, S) = SubSeq(s, 1, k)
<1> DEFINE K == {i \in Nat : i <= Len(s) =>
                     SelectedTo(s, S)[i] = SubSeq(s, 1, IF i <= k THEN i ELSE k)}
<1>1. /\ Len(s) \in Nat
      /\ SelectedTo(s, S)[0] = <<>>
      /\ \A i \in 1..Len(s) :
            SelectedTo(s, S)[i] = IF s[i] \in S THEN Append(SelectedTo(s, S)[i - 1], s[i])
                                                ELSE SelectedTo(s, S)[i - 1]
  BY SelectStep
<1>2. 0 \in K
  <2>1. SubSeq(s, 1, 0) = <<>>
    BY SubSeqEmpty
  <2>2. (IF 0 <= k THEN 0 ELSE k) = 0
    BY <1>1
  <2>3. SelectedTo(s, S)[0] = SubSeq(s, 1, IF 0 <= k THEN 0 ELSE k)
    BY <1>1, <2>1, <2>2
  <2> QED BY <2>3
<1>3. ASSUME NEW i \in Nat, i \in K PROVE i + 1 \in K
  <2>1. SUFFICES ASSUME i + 1 <= Len(s)
                 PROVE  SelectedTo(s, S)[i + 1] = SubSeq(s, 1, IF i + 1 <= k THEN i + 1 ELSE k)
    OBVIOUS
  <2>2. /\ i + 1 \in 1..Len(s) /\ (i + 1) - 1 = i
        /\ SelectedTo(s, S)[i] = SubSeq(s, 1, IF i <= k THEN i ELSE k)
    BY <1>1, <1>3, <2>1
  <2>3. CASE i + 1 <= k
    <3>1. s[i + 1] \in S /\ s[i + 1] \in X /\ SelectedTo(s, S)[i] = SubSeq(s, 1, i)
      BY <2>2, <2>3, ElementOfSeq
    <3>2. SelectedTo(s, S)[i + 1] = Append(SubSeq(s, 1, i), s[i + 1])
      BY <1>1, <2>2, <3>1
    <3>3. SubSeq(s, 1, i) \in Seq(X)
      <4>1. \A m \in 1..i : s[m] \in X
        BY <1>1, <2>2, ElementOfSeq
      <4> QED BY <4>1, SubSeqProperties
    <3>4. SubSeq(s, 1, i + 1) = SubSeq(s, 1, (i + 1) - 1) \o <<s[i + 1]>>
      BY <1>1, <2>2, SubSeqRecursiveSecond
    <3>5. Append(SubSeq(s, 1, i), s[i + 1]) = SubSeq(s, 1, i) \o <<s[i + 1]>>
      BY <3>1, <3>3, AppendIsConcat
    <3> QED BY <2>2, <2>3, <3>2, <3>4, <3>5
  <2>4. CASE ~(i + 1 <= k)
    <3>1. s[i + 1] \notin S /\ (IF i <= k THEN i ELSE k) = k
      BY <1>1, <2>2, <2>4
    <3> QED BY <1>1, <2>2, <2>4, <3>1
  <2> QED BY <2>3, <2>4
<1>4. \A i \in Nat : i \in K
  <2> HIDE DEF K
  <2> QED BY <1>2, <1>3, SetInduction
<1>5. SelectedTo(s, S)[Len(s)] = SubSeq(s, 1, k)
  BY <1>1, <1>4
<1> QED BY <1>5 DEF Select

\* A set with every member keeps the whole.
LEMMA SelectAll ==
  ASSUME NEW X, NEW s \in Seq(X), NEW S, \A i \in DOMAIN s : s[i] \in S
  PROVE  Select(s, S) = s
<1>1. Len(s) \in Nat /\ DOMAIN s = 1..Len(s)
  BY LenProperties
<1>2. Select(s, S) = SubSeq(s, 1, Len(s))
  BY <1>1, SelectCuts
<1> QED BY <1>2, SubSeqFull

\* A member outside the set makes no difference where it is put in.
LEMMA SelectInserted ==
  ASSUME NEW old \in Seq(Task), NEW new, NEW i \in 1..(Len(old) + 1), NEW c, Inserted(old, new, i, c),
         NEW S, c \notin S
  PROVE  Select(new, S) = Select(old, S)
<1>1. /\ new \in Seq(Task) /\ Len(new) = Len(old) + 1 /\ new[i] = c /\ i \in Nat /\ i >= 1
      /\ \A k \in 1..(i - 1) : new[k] = old[k]
      /\ \A k \in (i + 1)..(Len(old) + 1) : new[k] = old[k - 1]
  BY LenProperties DEF Inserted
<1>2. /\ Len(new) \in Nat
      /\ \A k \in 1..Len(new) :
            SelectedTo(new, S)[k] = IF new[k] \in S THEN Append(SelectedTo(new, S)[k - 1], new[k])
                                                    ELSE SelectedTo(new, S)[k - 1]
  BY <1>1, SelectStep
<1>3. /\ Len(old) \in Nat
      /\ \A k \in 1..Len(old) :
            SelectedTo(old, S)[k] = IF old[k] \in S THEN Append(SelectedTo(old, S)[k - 1], old[k])
                                                    ELSE SelectedTo(old, S)[k - 1]
  BY SelectStep
<1>4. SelectedTo(new, S)[i - 1] = SelectedTo(old, S)[i - 1]
  <2>1. i - 1 \in Nat /\ i - 1 <= Len(new) /\ i - 1 <= Len(old)
        /\ \A k \in 1..(i - 1) : new[k] = old[k] /\ (old[k] \in S <=> old[k] \in S)
    BY <1>1, <1>3
  <2>2. \A k \in 0..(i - 1) : SelectedTo(new, S)[k] = SelectedTo(old, S)[k]
    BY ONLY <1>1, <2>1, old \in Seq(Task), SelectSame
  <2> QED BY <1>1, <2>2
<1> DEFINE K == {k \in Nat : i + k <= Len(new) =>
                     SelectedTo(new, S)[i + k] = SelectedTo(old, S)[i + k - 1]}
<1>5. 0 \in K
  <2>1. i \in 1..Len(new) /\ new[i] \notin S
    BY <1>1, <1>3
  <2> QED BY <1>1, <1>2, <1>4, <2>1
<1>6. ASSUME NEW k \in Nat, k \in K PROVE k + 1 \in K
  <2>1. SUFFICES ASSUME i + k + 1 <= Len(new)
                 PROVE  SelectedTo(new, S)[i + k + 1] = SelectedTo(old, S)[i + k]
    BY <1>1
  <2>2. /\ i + k + 1 \in 1..Len(new) /\ i + k \in 1..Len(old) /\ i + k + 1 \in (i + 1)..(Len(old) + 1)
        /\ (i + k + 1) - 1 = i + k
    BY <1>1, <1>2, <1>3, <2>1
  <2>3. new[i + k + 1] = old[i + k]
    BY <1>1, <2>2
  <2>4. SelectedTo(new, S)[i + k] = SelectedTo(old, S)[i + k - 1]
    BY <1>1, <1>2, <1>6, <2>1
  <2>5. SelectedTo(new, S)[i + k + 1] = IF new[i + k + 1] \in S THEN Append(SelectedTo(new, S)[i + k], new[i + k + 1])
                                                    ELSE SelectedTo(new, S)[i + k]
    BY <1>2, <2>2
  <2>6. SelectedTo(old, S)[i + k] = IF old[i + k] \in S THEN Append(SelectedTo(old, S)[i + k - 1], old[i + k])
                                                    ELSE SelectedTo(old, S)[i + k - 1]
    BY <1>3, <2>2
  <2> QED BY <2>3, <2>4, <2>5, <2>6
<1>7. \A k \in Nat : k \in K
  <2> HIDE DEF K
  <2> QED BY <1>5, <1>6, SetInduction
<1>8. Len(new) - i \in Nat /\ i + (Len(new) - i) = Len(new) /\ i + (Len(new) - i) - 1 = Len(old)
  BY <1>1, <1>2, <1>3
<1>9. SelectedTo(new, S)[Len(new)] = SelectedTo(old, S)[Len(old)]
  <2> DEFINE d == Len(new) - i
  <2>1. d \in K
    BY <1>7, <1>8
  <2>2. i + d <= Len(new) => SelectedTo(new, S)[i + d] = SelectedTo(old, S)[i + d - 1]
    BY <2>1
  <2>3. i + d = Len(new) /\ i + d - 1 = Len(old)
    BY <1>8
  <2> HIDE DEF d
  <2>4. SelectedTo(new, S)[i + d] = SelectedTo(old, S)[i + d - 1]
    BY <1>2, <2>2, <2>3
  <2> QED BY ONLY <2>3, <2>4
<1> QED BY <1>9 DEF Select

\* Filtering an appended sequence.
LEMMA SelectAppend ==
  ASSUME NEW X, NEW s \in Seq(X), NEW x \in X, NEW S
  PROVE  Select(Append(s, x), S) = IF x \in S THEN Append(Select(s, S), x) ELSE Select(s, S)
<1> DEFINE r == Append(s, x)
<1>1. /\ r \in Seq(X) /\ Len(r) = Len(s) + 1 /\ Len(s) \in Nat /\ r[Len(s) + 1] = x
      /\ \A i \in 1..Len(s) : r[i] = s[i]
  BY AppendProperties, LenProperties
<1> HIDE DEF r
<1>2. \A i \in 0..Len(s) : SelectedTo(r, S)[i] = SelectedTo(s, S)[i]
  <2>1. Len(s) <= Len(r) /\ Len(s) <= Len(s) /\ \A i \in 1..Len(s) : r[i] = s[i] /\ (s[i] \in S <=> s[i] \in S)
    BY <1>1
  <2> QED BY ONLY <1>1, <2>1, s \in Seq(X), SelectSame
<1>3. SelectedTo(r, S)[Len(r)] = IF r[Len(r)] \in S THEN Append(SelectedTo(r, S)[Len(r) - 1], r[Len(r)])
                                                    ELSE SelectedTo(r, S)[Len(r) - 1]
  <2>1. Len(r) \in 1..Len(r)
    BY <1>1
  <2> QED BY <1>1, <2>1, SelectStep
<1>4. Len(r) - 1 = Len(s) /\ Len(s) \in 0..Len(s)
  BY <1>1
<1> QED BY <1>1, <1>2, <1>3, <1>4 DEF Select, r

\* Filtering twice is filtering once by what both keep.
LEMMA SelectTwice ==
  ASSUME NEW X, NEW s \in Seq(X), NEW A, NEW B
  PROVE  Select(Select(s, A), B) = Select(s, A \cap B)
<1> DEFINE C == A \cap B
           K == {i \in Nat : i <= Len(s) => Select(SelectedTo(s, A)[i], B) = SelectedTo(s, C)[i]}
<1>1. /\ Len(s) \in Nat
      /\ SelectedTo(s, A)[0] = <<>>
      /\ \A i \in 1..Len(s) :
            SelectedTo(s, A)[i] = IF s[i] \in A THEN Append(SelectedTo(s, A)[i - 1], s[i])
                                                ELSE SelectedTo(s, A)[i - 1]
  BY SelectStep
<1>2. /\ SelectedTo(s, C)[0] = <<>>
      /\ \A i \in 1..Len(s) :
            SelectedTo(s, C)[i] = IF s[i] \in C THEN Append(SelectedTo(s, C)[i - 1], s[i])
                                                ELSE SelectedTo(s, C)[i - 1]
  <2> HIDE DEF C
  <2> QED BY SelectStep
<1>3. 0 \in K
  <2>1. Select(<<>>, B) = <<>>
    <3>1. Len(<<>>) = 0 /\ <<>> \in Seq(X)
      BY EmptySeq
    <3>2. SelectedTo(<<>>, B)[0] = <<>>
      BY <3>1, SelectStep
    <3> QED BY <3>1, <3>2 DEF Select
  <2> QED BY <1>1, <1>2, <2>1
<1>4. ASSUME NEW i \in Nat, i \in K PROVE i + 1 \in K
  <2>1. SUFFICES ASSUME i + 1 <= Len(s) PROVE Select(SelectedTo(s, A)[i + 1], B) = SelectedTo(s, C)[i + 1]
    OBVIOUS
  <2>2. /\ i + 1 \in 1..Len(s) /\ (i + 1) - 1 = i /\ i \in 0..Len(s)
        /\ Select(SelectedTo(s, A)[i], B) = SelectedTo(s, C)[i]
    BY <1>1, <1>4, <2>1
  <2>3. s[i + 1] \in X /\ SelectedTo(s, A)[i] \in Seq(X \cap A)
    BY <2>2, ElementOfSeq, SelectType
  <2>4. CASE s[i + 1] \in A
    <3>1. SelectedTo(s, A)[i + 1] = Append(SelectedTo(s, A)[i], s[i + 1])
      BY <1>1, <2>2, <2>4
    <3>2. s[i + 1] \in X \cap A
      BY <2>3, <2>4
    <3>3. Select(Append(SelectedTo(s, A)[i], s[i + 1]), B)
             = IF s[i + 1] \in B THEN Append(Select(SelectedTo(s, A)[i], B), s[i + 1])
                                 ELSE Select(SelectedTo(s, A)[i], B)
      <4> DEFINE Y == X \cap A
                 r == SelectedTo(s, A)[i]
                 x == s[i + 1]
      <4>1. r \in Seq(Y) /\ x \in Y
        BY <2>3, <3>2
      <4> HIDE DEF Y, r, x
      <4>2. Select(Append(r, x), B) = IF x \in B THEN Append(Select(r, B), x) ELSE Select(r, B)
        BY <4>1, SelectAppend
      <4> QED BY <4>2 DEF r, x
    <3>4. s[i + 1] \in C <=> s[i + 1] \in B
      BY <2>4
    <3> HIDE DEF C
    <3> QED BY <1>2, <2>2, <3>1, <3>3, <3>4
  <2>5. CASE s[i + 1] \notin A
    <3>1. s[i + 1] \notin C
      BY <2>5
    <3> HIDE DEF C
    <3> QED BY <1>1, <1>2, <2>2, <2>5, <3>1
  <2> QED BY <2>4, <2>5
<1>5. \A i \in Nat : i \in K
  <2> HIDE DEF K
  <2> QED BY <1>3, <1>4, SetInduction
<1>6. Select(SelectedTo(s, A)[Len(s)], B) = SelectedTo(s, C)[Len(s)]
  <2>1. Len(s) \in K
    BY <1>1, <1>5
  <2> HIDE DEF C
  <2>2. Len(s) <= Len(s) => Select(SelectedTo(s, A)[Len(s)], B) = SelectedTo(s, C)[Len(s)]
    BY <2>1
  <2> QED BY <1>1, <2>2
<1> QED BY <1>6 DEF Select

-----------------------------------------------------------------------------
(* What a journal says, and what one more line adds.                       *)

Increasing(j) == \A i, k \in DOMAIN j : i < k => j[i].ver < j[k].ver

\* An appended journal has the old lines and the new one.
LEMMA Lines ==
  ASSUME NEW j \in Seq(Entry), NEW e \in Entry
  PROVE  /\ Append(j, e) \in Seq(Entry)
         /\ Len(j) \in Nat /\ Len(Append(j, e)) = Len(j) + 1
         /\ DOMAIN j = 1..Len(j) /\ DOMAIN Append(j, e) = 1..(Len(j) + 1)
         /\ \A i \in 1..Len(j) : Append(j, e)[i] = j[i]
         /\ Append(j, e)[Len(j) + 1] = e
<1>1. /\ Append(j, e) \in Seq(Entry) /\ Len(Append(j, e)) = Len(j) + 1
      /\ \A i \in 1..Len(j) : Append(j, e)[i] = j[i]
      /\ Append(j, e)[Len(j) + 1] = e
  BY AppendProperties
<1>2. DOMAIN j = 1..Len(j) /\ Len(j) \in Nat /\ DOMAIN Append(j, e) = 1..Len(Append(j, e))
  BY <1>1, LenProperties
<1> QED BY <1>1, <1>2

\* Births.
LEMMA BirthAdded ==
  ASSUME NEW j \in Seq(Entry), NEW e \in Entry, NEW t, NEW v
  PROVE  /\ Born(Append(j, e), t) <=> Born(j, t) \/ (e.op = "add_subtask" /\ e.id = t)
         /\ BornAfter(Append(j, e), t, v)
              <=> BornAfter(j, t, v) \/ (e.op = "add_subtask" /\ e.id = t /\ e.ver > v)
<1> DEFINE P == Append(j, e)
<1>1. /\ Len(j) \in Nat /\ DOMAIN j = 1..Len(j) /\ DOMAIN P = 1..(Len(j) + 1)
      /\ (\A i \in 1..Len(j) : P[i] = j[i]) /\ P[Len(j) + 1] = e
  BY Lines
<1> HIDE DEF P
<1>2. \A i \in DOMAIN P : i \in DOMAIN j \/ i = Len(j) + 1
  BY <1>1
<1>3. Len(j) + 1 \in DOMAIN P /\ \A i \in DOMAIN j : i \in DOMAIN P
  BY <1>1
<1>4. Born(P, t) <=> Born(j, t) \/ (e.op = "add_subtask" /\ e.id = t)
  BY <1>1, <1>2, <1>3 DEF Born
<1>5. BornAfter(P, t, v) <=> BornAfter(j, t, v) \/ (e.op = "add_subtask" /\ e.id = t /\ e.ver > v)
  BY <1>1, <1>2, <1>3 DEF BornAfter
<1> QED BY <1>4, <1>5 DEF P

\* Dependencies.
LEMMA DepAdded ==
  ASSUME NEW j \in Seq(Entry), NEW e \in Entry, NEW t, NEW v
  PROVE  DepsAddedAfter(Append(j, e), t, v)
           = DepsAddedAfter(j, t, v)
             \cup (IF e.op = "add_dependency" /\ e.id = t /\ e.ver > v THEN {e.ref} ELSE {})
<1> DEFINE P == Append(j, e)
<1>1. /\ Len(j) \in Nat /\ DOMAIN j = 1..Len(j) /\ DOMAIN P = 1..(Len(j) + 1)
      /\ (\A i \in 1..Len(j) : P[i] = j[i]) /\ P[Len(j) + 1] = e
  BY Lines
<1> HIDE DEF P
<1>2. \A i \in DOMAIN P : i \in DOMAIN j \/ i = Len(j) + 1
  BY <1>1
<1>3. Len(j) + 1 \in DOMAIN P /\ \A i \in DOMAIN j : i \in DOMAIN P
  BY <1>1
<1>4. ASSUME NEW d
      PROVE  d \in DepsAddedAfter(P, t, v) <=>
               d \in DepsAddedAfter(j, t, v) \/ (e.op = "add_dependency" /\ e.id = t /\ e.ver > v /\ d = e.ref)
  <2>1. d \in DepsAddedAfter(P, t, v) <=>
          \E i \in DOMAIN P : P[i].op = "add_dependency" /\ P[i].id = t /\ P[i].ver > v /\ d = P[i].ref
    BY DEF DepsAddedAfter
  <2>2. d \in DepsAddedAfter(j, t, v) <=>
          \E i \in DOMAIN j : j[i].op = "add_dependency" /\ j[i].id = t /\ j[i].ver > v /\ d = j[i].ref
    BY DEF DepsAddedAfter
  <2> QED BY <1>1, <1>2, <1>3, <2>1, <2>2
<1> QED BY <1>4 DEF P

\* The last word is the new line's, when it is about it.
LEMMA WordAdded ==
  ASSUME NEW j \in Seq(Entry), NEW e \in Entry, NEW op, NEW t, NEW default
  PROVE  LastWord(Append(j, e), op, t, default)
           = IF e.op = op /\ e.id = t THEN e.word ELSE LastWord(j, op, t, default)
<1> DEFINE P == Append(j, e)
           H(s) == {i \in DOMAIN s : s[i].op = op /\ s[i].id = t}
<1>1. /\ Len(j) \in Nat /\ DOMAIN j = 1..Len(j) /\ DOMAIN P = 1..(Len(j) + 1)
      /\ (\A i \in 1..Len(j) : P[i] = j[i]) /\ P[Len(j) + 1] = e
  BY Lines
<1> HIDE DEF P
<1>2. \A s : LastWord(s, op, t, default) = IF H(s) = {} THEN default ELSE s[SetMax(H(s), 0)].word
  BY DEF LastWord
<1>3. CASE e.op = op /\ e.id = t
  <2>1. Len(j) + 1 \in H(P) /\ H(P) \subseteq Nat /\ \A i \in H(P) : i <= Len(j) + 1
    BY <1>1, <1>3
  <2>2. SetMax(H(P), 0) \in H(P) /\ \A i \in H(P) : i <= SetMax(H(P), 0)
    <3> HIDE DEF H
    <3>1. H(P) # {} /\ Len(j) + 1 \in Nat /\ 0 \in Nat
      BY <1>1, <2>1
    <3> QED BY <2>1, <3>1, SetMaxIsMax
  <2> HIDE DEF H
  <2>3. SetMax(H(P), 0) = Len(j) + 1
    BY <1>1, <2>1, <2>2
  <2> QED BY <1>1, <1>2, <1>3, <2>1, <2>3 DEF P
<1>4. CASE ~(e.op = op /\ e.id = t)
  <2>1. H(P) = H(j) /\ H(j) \subseteq Nat /\ \A i \in H(j) : i <= Len(j) /\ P[i] = j[i]
    BY <1>1, <1>4
  <2>2. H(j) # {} => SetMax(H(j), 0) \in H(j)
    <3> HIDE DEF H
    <3> QED BY <1>1, <2>1, SetMaxIsMax
  <2> HIDE DEF H
  <2>3. H(j) # {} => P[SetMax(H(j), 0)] = j[SetMax(H(j), 0)]
    BY <2>1, <2>2
  <2>4. LastWord(P, op, t, default) = LastWord(j, op, t, default)
    BY <1>2, <2>1, <2>3
  <2> QED BY <1>4, <2>4 DEF P
<1> QED BY <1>3, <1>4

\* Of what no line is about, the last word is the default.
LEMMA NoWord ==
  ASSUME NEW j, NEW op, NEW t, NEW default, \A i \in DOMAIN j : j[i].op = op => j[i].id # t
  PROVE  LastWord(j, op, t, default) = default
  BY DEF LastWord

-----------------------------------------------------------------------------
(* The prefix of a journal.                                                *)

\* The lines up to version v are the first k.
CutAt(j, v, k) ==
    /\ k \in 0..Len(j)
    /\ \A i \in 1..k : j[i].ver <= v
    /\ \A i \in (k + 1)..Len(j) : j[i].ver > v

\* A journal whose versions increase can be cut at every version.
LEMMA CutExists ==
  ASSUME NEW j \in Seq(Entry), Increasing(j), NEW v \in Nat
  PROVE  \E k : CutAt(j, v, k)
<1> DEFINE T == {k \in 0..Len(j) : k = 0 \/ j[k].ver <= v}
<1>1. Len(j) \in Nat /\ DOMAIN j = 1..Len(j) /\ \A i \in DOMAIN j : j[i].ver \in Nat
  BY LenProperties, EntryVersions
<1>2. PICK k \in T : \A i \in T : i <= k
  <2>1. T \subseteq 0..Len(j) /\ T # {}
    <3>1. 0 \in T
      BY <1>1
    <3> QED BY <3>1
  <2> HIDE DEF T
  <2> QED BY <1>1, <2>1, GreatestElement
<1>3. ASSUME NEW i \in 1..k PROVE j[i].ver <= v
  <2>1. k \in 1..Len(j) /\ i \in 1..Len(j) /\ j[k].ver <= v
    BY <1>1, <1>2
  <2>2. i = k \/ j[i].ver < j[k].ver
    BY <1>1, <2>1 DEF Increasing
  <2> QED BY <1>1, <2>1, <2>2
<1>4. ASSUME NEW i \in (k + 1)..Len(j) PROVE j[i].ver > v
  <2>1. i \in 1..Len(j) /\ i \notin T
    BY <1>1, <1>2
  <2> QED BY <1>1, <2>1
<1> QED BY <1>2, <1>3, <1>4 DEF CutAt

\* The prefix is the journal cut there.
LEMMA PrefixIsCut ==
  ASSUME NEW j \in Seq(Entry), NEW v \in Nat, NEW k, CutAt(j, v, k)
  PROVE  /\ Prefix(j, v) \in Seq(Entry) /\ Len(Prefix(j, v)) = k /\ DOMAIN Prefix(j, v) = 1..k
         /\ \A i \in 1..k : Prefix(j, v)[i] = j[i]
<1>1. Len(j) \in Nat /\ DOMAIN j = 1..Len(j) /\ k \in 0..Len(j) /\ \A i \in DOMAIN j : j[i].ver \in Nat
  BY LenProperties, EntryVersions DEF CutAt
<1>2. \A i \in 1..k : j[i] \in EntriesTo(j, v)
  BY <1>1 DEF CutAt, EntriesTo
<1>3. \A i \in (k + 1)..Len(j) : j[i] \notin EntriesTo(j, v)
  <2> SUFFICES ASSUME NEW i \in (k + 1)..Len(j), NEW m \in DOMAIN j, j[m].ver <= v, j[i] = j[m] PROVE FALSE
    BY DEF EntriesTo
  <2>1. i \in DOMAIN j /\ j[i].ver > v
    BY <1>1 DEF CutAt
  <2> QED BY <1>1, <2>1
<1>4. Select(j, EntriesTo(j, v)) = SubSeq(j, 1, k)
  BY <1>1, <1>2, <1>3, SelectCuts
<1>5. /\ SubSeq(j, 1, k) \in Seq(Entry) /\ Len(SubSeq(j, 1, k)) = k
      /\ \A i \in 1..k : SubSeq(j, 1, k)[i] = j[i]
  <2>1. \A i \in 1..k : j[i] \in Entry
    BY <1>1, ElementOfSeq
  <2> QED BY <1>1, <2>1, SubSeqProperties
<1>6. DOMAIN SubSeq(j, 1, k) = 1..k
  BY <1>5, LenProperties
<1>7. Prefix(j, v) = SubSeq(j, 1, k)
  BY <1>4 DEF Prefix
<1> QED BY <1>5, <1>6, <1>7

\* A later line leaves the prefix as it was.
LEMMA PrefixAppended ==
  ASSUME NEW j \in Seq(Entry), Increasing(j), NEW e \in Entry, NEW v \in Nat, e.ver > v
  PROVE  Prefix(Append(j, e), v) = Prefix(j, v)
<1> DEFINE P == Append(j, e)
<1>1. /\ P \in Seq(Entry) /\ Len(j) \in Nat /\ Len(P) = Len(j) + 1
      /\ (\A i \in 1..Len(j) : P[i] = j[i]) /\ P[Len(j) + 1] = e
  BY Lines
<1> HIDE DEF P
<1>2. PICK k : CutAt(j, v, k)
  BY CutExists
<1>3. CutAt(P, v, k)
  <2>1. k \in 0..Len(P) /\ \A i \in 1..k : P[i].ver <= v
    BY <1>1, <1>2 DEF CutAt
  <2>2. ASSUME NEW i \in (k + 1)..Len(P) PROVE P[i].ver > v
    <3>1. i \in (k + 1)..Len(j) \/ i = Len(j) + 1
      BY <1>1, <1>2 DEF CutAt
    <3>2. i \in (k + 1)..Len(j) => P[i] = j[i] /\ j[i].ver > v
      BY <1>1, <1>2 DEF CutAt
    <3> QED BY <1>1, <3>1, <3>2
  <2> QED BY <2>1, <2>2 DEF CutAt
<1>4. /\ Prefix(j, v) \in Seq(Entry) /\ Len(Prefix(j, v)) = k
      /\ \A i \in 1..k : Prefix(j, v)[i] = j[i]
  BY <1>2, PrefixIsCut
<1>5. /\ Prefix(P, v) \in Seq(Entry) /\ Len(Prefix(P, v)) = k
      /\ \A i \in 1..k : Prefix(P, v)[i] = P[i]
  BY <1>1, <1>3, PrefixIsCut
<1>6. \A i \in 1..k : P[i] = j[i]
  BY <1>1, <1>2 DEF CutAt
<1>7. Len(Prefix(P, v)) = Len(Prefix(j, v)) /\ \A i \in 1..Len(Prefix(P, v)) : Prefix(P, v)[i] = Prefix(j, v)[i]
  BY <1>4, <1>5, <1>6
<1>8. Prefix(P, v) = Prefix(j, v)
  BY ONLY <1>4, <1>5, <1>7, SeqEqual
<1> QED BY <1>8 DEF P

\* A journal with no later line is its own prefix.
LEMMA PrefixWhole ==
  ASSUME NEW j \in Seq(Entry), NEW v, \A i \in DOMAIN j : j[i].ver <= v
  PROVE  Prefix(j, v) = j
<1>1. \A i \in DOMAIN j : j[i] \in EntriesTo(j, v)
  BY DEF EntriesTo
<1> QED BY <1>1, SelectAll DEF Prefix

\* The lines of a prefix are those up to its version, in their order.
LEMMA PrefixLines ==
  ASSUME NEW j \in Seq(Entry), Increasing(j), NEW v \in Nat
  PROVE  /\ Prefix(j, v) \in Seq(Entry) /\ Increasing(Prefix(j, v))
         /\ \A i \in DOMAIN Prefix(j, v) : \E m \in DOMAIN j : Prefix(j, v)[i] = j[m] /\ j[m].ver <= v
         /\ \A m \in DOMAIN j : j[m].ver <= v => \E i \in DOMAIN Prefix(j, v) : Prefix(j, v)[i] = j[m]
<1> DEFINE p == Prefix(j, v)
<1>1. PICK k : CutAt(j, v, k)
  BY CutExists
<1>2. p \in Seq(Entry) /\ Len(p) = k /\ DOMAIN p = 1..k /\ \A i \in 1..k : p[i] = j[i]
  BY <1>1, PrefixIsCut
<1> HIDE DEF p
<1>3. Len(j) \in Nat /\ DOMAIN j = 1..Len(j) /\ \A i \in DOMAIN j : j[i].ver \in Nat
  BY LenProperties, EntryVersions
<1>4. /\ k \in 0..Len(j) /\ (\A i \in 1..k : j[i].ver <= v) /\ \A i \in (k + 1)..Len(j) : j[i].ver > v
  BY <1>1 DEF CutAt
<1>5. \A i \in DOMAIN p : i \in DOMAIN j /\ p[i] = j[i] /\ j[i].ver <= v
  BY <1>2, <1>3, <1>4
<1>6. \A m \in DOMAIN j : j[m].ver <= v => m \in DOMAIN p
  BY <1>2, <1>3, <1>4
<1>7. Increasing(p)
  BY <1>5 DEF Increasing
<1> QED BY <1>2, <1>5, <1>6, <1>7 DEF p

\* The prefix of a prefix.
LEMMA PrefixTwice ==
  ASSUME NEW j \in Seq(Entry), Increasing(j), NEW v \in Nat, NEW w \in Nat, v <= w
  PROVE  Prefix(Prefix(j, w), v) = Prefix(j, v)
<1> DEFINE p == Prefix(j, w)
<1>1. PICK k : CutAt(j, w, k)
  BY CutExists
<1>2. PICK m : CutAt(j, v, m)
  BY CutExists
<1>3. p \in Seq(Entry) /\ Len(p) = k /\ \A i \in 1..k : p[i] = j[i]
  BY <1>1, PrefixIsCut
<1> HIDE DEF p
<1>4. Len(j) \in Nat /\ DOMAIN j = 1..Len(j) /\ \A i \in DOMAIN j : j[i].ver \in Nat
  BY LenProperties, EntryVersions
<1>5. k \in 0..Len(j) /\ m \in 0..Len(j)
  BY <1>1, <1>2 DEF CutAt
<1>6. m <= k
  <2>1. SUFFICES ASSUME m > k PROVE FALSE
    BY <1>4, <1>5
  <2>2. m \in (k + 1)..Len(j) /\ m \in 1..m /\ m \in DOMAIN j
    BY <1>4, <1>5, <2>1
  <2>3. j[m].ver > w /\ j[m].ver <= v
    BY <1>1, <1>2, <2>2 DEF CutAt
  <2> QED BY <1>4, <2>2, <2>3
<1>7. CutAt(p, v, m)
  <2>1. m \in 0..k /\ \A i \in 1..m : i \in 1..k
    BY <1>4, <1>5, <1>6
  <2>2. \A i \in (m + 1)..k : i \in (m + 1)..Len(j) /\ i \in 1..k
    BY <1>4, <1>5, <1>6
  <2> QED BY <1>2, <1>3, <2>1, <2>2 DEF CutAt
<1>8. /\ Prefix(p, v) \in Seq(Entry) /\ Len(Prefix(p, v)) = m
      /\ \A i \in 1..m : Prefix(p, v)[i] = p[i]
  BY <1>3, <1>7, PrefixIsCut
<1>9. /\ Prefix(j, v) \in Seq(Entry) /\ Len(Prefix(j, v)) = m
      /\ \A i \in 1..m : Prefix(j, v)[i] = j[i]
  BY <1>2, PrefixIsCut
<1>10. \A i \in 1..m : p[i] = j[i]
  BY <1>3, <1>4, <1>5, <1>6
<1>11. Len(Prefix(p, v)) = Len(Prefix(j, v)) /\ \A i \in 1..Len(Prefix(p, v)) : Prefix(p, v)[i] = Prefix(j, v)[i]
  BY <1>8, <1>9, <1>10
<1>12. Prefix(p, v) = Prefix(j, v)
  BY ONLY <1>8, <1>9, <1>11, SeqEqual
<1> QED BY <1>12 DEF p

\* What happened after v happened after w, or in the prefix to w after v.
LEMMA AfterPrefix ==
  ASSUME NEW j \in Seq(Entry), Increasing(j), NEW v \in Nat, NEW w \in Nat, v <= w, NEW t
  PROVE  /\ BornAfter(j, t, v) <=> BornAfter(j, t, w) \/ BornAfter(Prefix(j, w), t, v)
         /\ DepsAddedAfter(j, t, v) = DepsAddedAfter(j, t, w) \cup DepsAddedAfter(Prefix(j, w), t, v)
         /\ Born(j, t) => BornAfter(j, t, w) \/ Born(Prefix(j, w), t)
<1> DEFINE p == Prefix(j, w)
<1>1. /\ \A i \in DOMAIN p : \E m \in DOMAIN j : p[i] = j[m] /\ j[m].ver <= w
      /\ \A m \in DOMAIN j : j[m].ver <= w => \E i \in DOMAIN p : p[i] = j[m]
  BY PrefixLines
<1>2. \A i \in DOMAIN j : j[i].ver \in Nat
  BY EntryVersions
<1> HIDE DEF p
<1>3. \A m \in DOMAIN j : j[m].ver > w => j[m].ver > v
  BY <1>2
<1>4. \A m \in DOMAIN j : j[m].ver > w \/ \E i \in DOMAIN p : p[i] = j[m]
  BY <1>1, <1>2
<1>5. BornAfter(j, t, v) <=> BornAfter(j, t, w) \/ BornAfter(p, t, v)
  BY <1>1, <1>3, <1>4 DEF BornAfter
<1>6. Born(j, t) => BornAfter(j, t, w) \/ Born(p, t)
  BY <1>4 DEF Born, BornAfter
<1>7. ASSUME NEW d
      PROVE  d \in DepsAddedAfter(j, t, v) <=> d \in DepsAddedAfter(j, t, w) \/ d \in DepsAddedAfter(p, t, v)
  <2> DEFINE Adds(s, n) == \E i \in DOMAIN s : s[i].op = "add_dependency" /\ s[i].id = t /\ s[i].ver > n /\ d = s[i].ref
  <2>1. \A s, n : d \in DepsAddedAfter(s, t, n) <=> Adds(s, n)
    BY DEF DepsAddedAfter
  <2>2. Adds(j, v) <=> Adds(j, w) \/ Adds(p, v)
    BY <1>1, <1>3, <1>4
  <2> HIDE DEF Adds
  <2> QED BY <2>1, <2>2
<1> QED BY <1>5, <1>6, <1>7 DEF p

-----------------------------------------------------------------------------
(* The journal tells the graph.                                            *)

\* How a task that was n becomes m by what the entry e says.
Tells(e, t, n, m) ==
    /\ ~(e.op = "add_subtask" /\ e.id = t)
    /\ m.parent = n.parent /\ m.standing = n.standing /\ m.by = n.by
    /\ m.status = IF e.op = "update_status" /\ e.id = t THEN e.word ELSE n.status
    /\ m.commit = IF e.op = "record_commit" /\ e.id = t THEN e.word ELSE n.commit
    /\ IF e.op = "add_dependency" /\ e.id = t
       THEN e.ref \notin n.deps /\ m.deps = n.deps \cup {e.ref}
       ELSE m.deps = n.deps
    /\ IF e.op = "add_subtask"
       THEN /\ \A k \in DOMAIN n.children : n.children[k] # e.id
            /\ \/ m.children = n.children
               \/ \E i \in 1..(Len(n.children) + 1) : Inserted(n.children, m.children, i, e.id)
       ELSE m.children = n.children

\* What is remembered is numbered by the journal.
LEMMA HistoryNumbered ==
  ASSUME IInv, Remembered(journal)
  PROVE  /\ journal \in Seq(Entry) /\ Increasing(journal)
         /\ \A h \in history : h.ver \in Nat
         /\ up => version \in Nat /\ (\A h \in history : h.ver <= version)
                  /\ \A i \in DOMAIN journal : journal[i].ver <= version
<1>1. journal \in Seq(Entry) /\ Increasing(journal) /\ version \in Nat
  BY DEF IInv, TypeOK, VersionsIncrease, Increasing
<1>2. \A i \in DOMAIN journal : journal[i].ver \in Nat
  BY <1>1, EntryVersions
<1>3. \A h \in history : \E i \in DOMAIN journal : journal[i].ver = h.ver
  BY DEF Remembered
<1>4. up => \A i \in DOMAIN journal : journal[i].ver <= version
  BY DEF IInv, VersionsIncrease
<1> QED BY <1>1, <1>2, <1>3, <1>4

\* An entry that tells what became of a task keeps all of it told.
LEMMA ToldOn ==
  ASSUME NEW j \in Seq(Entry), Increasing(j), NEW e \in Entry,
         \A h \in history : h.ver \in Nat /\ e.ver > h.ver,
         NEW t, NEW n, NEW m, n.children \in Seq(Task), Told(n, j, t), Tells(e, t, n, m)
  PROVE  Told(m, Append(j, e), t)
<1> DEFINE P == Append(j, e)
<1>1. Born(P, t)
  BY BirthAdded DEF Told
<1>2. m.status = LastWord(P, "update_status", t, "pending")
  BY WordAdded DEF Told, Tells
<1>3. m.commit = LastWord(P, "record_commit", t, NoSha)
  BY WordAdded DEF Told, Tells
<1>4. ASSUME NEW h \in history PROVE t \in DOMAIN h.nodes <=> ~BornAfter(P, t, h.ver)
  BY BirthAdded DEF Told, Tells
<1>5. ASSUME NEW h \in history, t \in DOMAIN h.nodes PROVE AsOf(m, P, t, h.ver, h.nodes[t])
  <2> DEFINE v == h.ver
             o == h.nodes[t]
             A == BornBy(j, v)
             B == BornBy(P, v)
  <2>1. AsOf(n, j, t, v, o)
    BY <1>5 DEF Told
  <2>2. v \in Nat /\ e.ver > v
    OBVIOUS
  <2>3. Prefix(P, v) = Prefix(j, v)
    BY <2>2, PrefixAppended
  <2>4. n.deps \ DepsAddedAfter(j, t, v) = m.deps \ DepsAddedAfter(P, t, v)
    <3>1. DepsAddedAfter(P, t, v) = DepsAddedAfter(j, t, v)
             \cup (IF e.op = "add_dependency" /\ e.id = t /\ e.ver > v THEN {e.ref} ELSE {})
      BY DepAdded
    <3>2. CASE e.op = "add_dependency" /\ e.id = t
      <4>1. e.ref \notin n.deps /\ m.deps = n.deps \cup {e.ref}
        BY <3>2 DEF Tells
      <4>2. DepsAddedAfter(P, t, v) = DepsAddedAfter(j, t, v) \cup {e.ref}
        BY <2>2, <3>1, <3>2
      <4> QED BY <4>1, <4>2
    <3>3. CASE ~(e.op = "add_dependency" /\ e.id = t)
      <4>1. m.deps = n.deps /\ DepsAddedAfter(P, t, v) = DepsAddedAfter(j, t, v)
        BY <3>1, <3>3 DEF Tells
      <4> QED BY <4>1
    <3> QED BY <3>2, <3>3
  <2>5. \A c \in Task : c \in B <=> c \in A /\ ~(e.op = "add_subtask" /\ e.id = c)
    BY <2>2, BirthAdded DEF BornBy
  <2>6. \A k \in DOMAIN n.children : n.children[k] \in Task
    BY ElementOfSeq, LenProperties
  <2> HIDE DEF A, B
  <2>7. Select(n.children, A) = Select(n.children, B)
    <3>1. \A k \in DOMAIN n.children : e.op = "add_subtask" => n.children[k] # e.id
      BY DEF Tells
    <3>2. \A k \in DOMAIN n.children : n.children[k] \in A <=> n.children[k] \in B
      BY <2>5, <2>6, <3>1
    <3>3. n.children \in Seq(Task)
      OBVIOUS
    <3> QED BY ONLY <3>2, <3>3, SelectAgrees
  <2>8. Select(m.children, B) = Select(n.children, B)
    <3>1. CASE m.children = n.children
      BY <3>1
    <3>2. CASE m.children # n.children
      <4>1. e.op = "add_subtask" /\ \E i \in 1..(Len(n.children) + 1) : Inserted(n.children, m.children, i, e.id)
        BY <3>2 DEF Tells
      <4>2. PICK i \in 1..(Len(n.children) + 1) : Inserted(n.children, m.children, i, e.id)
        BY <4>1
      <4>3. e.id \notin B
        <5>1. BornAfter(P, e.id, v)
          BY <2>2, <4>1, BirthAdded
        <5> QED BY <5>1 DEF B, BornBy
      <4> QED BY <4>2, <4>3, SelectInserted
    <3> QED BY <3>1, <3>2
  <2>9. o.children = Select(m.children, B)
    BY <2>1, <2>7, <2>8 DEF AsOf, A
  <2>10. m.parent = n.parent /\ m.standing = n.standing /\ m.by = n.by
    BY DEF Tells
  <2> HIDE DEF P, o, v
  <2> QED BY <2>1, <2>3, <2>4, <2>9, <2>10 DEF AsOf, B, o, v
<1> QED BY <1>1, <1>2, <1>3, <1>4, <1>5 DEF Told

\* The entry that creates a task tells all of it.
LEMMA ToldNew ==
  ASSUME NEW j \in Seq(Entry), NEW e \in Entry, NEW t, e.op = "add_subtask", e.id = t,
         \A i \in DOMAIN j : j[i].id # t,
         \A h \in history : e.ver > h.ver /\ t \notin DOMAIN h.nodes,
         NEW n, n.status = "pending", n.commit = NoSha
  PROVE  Told(n, Append(j, e), t)
<1> DEFINE P == Append(j, e)
<1>1. Born(P, t)
  BY BirthAdded
<1>2. LastWord(P, "update_status", t, "pending") = "pending"
  <2>1. LastWord(P, "update_status", t, "pending") = LastWord(j, "update_status", t, "pending")
    BY WordAdded
  <2> QED BY <2>1, NoWord
<1>3. LastWord(P, "record_commit", t, NoSha) = NoSha
  <2>1. LastWord(P, "record_commit", t, NoSha) = LastWord(j, "record_commit", t, NoSha)
    BY WordAdded
  <2> QED BY <2>1, NoWord
<1>4. ASSUME NEW h \in history PROVE BornAfter(P, t, h.ver)
  BY BirthAdded
<1> QED BY <1>1, <1>2, <1>3, <1>4 DEF Told

\* An entry that creates no known task leaves what is remembered in place.
LEMMA RememberedOn ==
  ASSUME IInv, Remembered(journal), NEW e \in Entry, e.op = "add_subtask" => e.id \notin DOMAIN file
  PROVE  Remembered(Append(journal, e))
<1> DEFINE P == Append(journal, e)
<1>1. journal \in Seq(Entry)
  BY HistoryNumbered
<1>2. /\ Len(journal) \in Nat /\ DOMAIN journal = 1..Len(journal) /\ DOMAIN P = 1..(Len(journal) + 1)
      /\ \A i \in 1..Len(journal) : P[i] = journal[i]
  BY <1>1, Lines
<1> HIDE DEF P
<1>3. \A i \in DOMAIN journal : i \in DOMAIN P /\ P[i] = journal[i]
  BY <1>2
<1>4. ASSUME NEW h \in history
      PROVE  /\ \E i \in DOMAIN P : P[i].ver = h.ver
             /\ IsGraph(h.nodes) /\ Resolved(h.nodes)
             /\ \A t \in DOMAIN h.nodes : t \in DOMAIN file /\ ~BornAfter(P, t, h.ver)
  <2>1. /\ \E i \in DOMAIN journal : journal[i].ver = h.ver
        /\ IsGraph(h.nodes) /\ Resolved(h.nodes)
        /\ \A t \in DOMAIN h.nodes : t \in DOMAIN file /\ ~BornAfter(journal, t, h.ver)
    BY DEF Remembered
  <2>2. ASSUME NEW t \in DOMAIN h.nodes PROVE ~BornAfter(P, t, h.ver)
    BY <1>1, <2>1, BirthAdded DEF P
  <2> QED BY <1>3, <2>1, <2>2
<1>5. Remembered(P)
  BY <1>4 DEF Remembered
<1> QED BY <1>5 DEF P

\* A mutation may be lined up if its entry tells the graph it makes.
LEMMA MutateChronicled ==
  ASSUME IInv, Chronicled, Unlocked, NEW w, Mutate(w), w # <<>>, NEW e \in Entry, w[Len(w)].entry = e,
         e.op = "add_subtask" => e.id \notin DOMAIN file,
         e.id \in DOMAIN Done(file, w) \cup {NoTask},
         \A t \in DOMAIN Done(file, w) \ lost : Told(Done(file, w)[t], Append(journal, e), t)
  PROVE  Chronicled'
<1>1. /\ todo = <<>> /\ todo' = w
      /\ file' = file /\ journal' = journal /\ version' = version /\ lost' = lost /\ history' = history
  BY DEF Unlocked, Mutate, disk, memory, ghosts
<1>2. Remembered(journal) /\ Remembered(Append(journal, e))
  BY RememberedOn DEF Chronicled
<1>3. Pending' = Append(journal, e)
  BY <1>1 DEF Pending
<1>4. Done(file, todo)' = Done(file, w)
  BY <1>1, SameDone
<1>5. Remembered(journal)' /\ Remembered(Pending)'
  BY <1>1, <1>2, <1>3 DEF Remembered
<1>6. \A t \in DOMAIN Done(file, todo)' \ lost' : Told(Done(file, todo)[t], Pending, t)'
  BY <1>1, <1>3, <1>4 DEF Told
<1>7. (todo[Len(todo)].entry.id)' \in DOMAIN Done(file, todo)' \cup {NoTask}
  BY <1>1, <1>4
<1>8. \A t \in DOMAIN file' \ lost' : Told(file[t], journal, t)'
  BY <1>1 DEF Chronicled, Told
<1>9. \A i \in DOMAIN journal' : journal'[i].id \in DOMAIN file' \cup {NoTask}
  BY <1>1 DEF Chronicled
<1> QED BY <1>5, <1>6, <1>7, <1>8, <1>9 DEF Chronicled

-----------------------------------------------------------------------------
(* Every operation's entry tells what it does.                             *)

\* What an entry write carries.
LEMMA EntryOf ==
  ASSUME NEW op \in Op, NEW t \in TaskOrNone, NEW ref \in TaskOrNone,
         NEW word \in Status \cup Sha \cup {NoSha}, version \in Nat
  PROVE  LET e == EntryWrite(op, t, ref, word).entry
         IN  /\ e \in Entry /\ e.op = op /\ e.id = t /\ e.ref = ref /\ e.word = word /\ e.ver = version + 1
             /\ EntryWrite(op, t, ref, word).kind = "entry"
<1> DEFINE e == [op |-> op, id |-> t, ref |-> ref, word |-> word, ver |-> version + 1]
<1>1. e \in Entry /\ e.op = op /\ e.id = t /\ e.ref = ref /\ e.word = word /\ e.ver = version + 1
  BY DEF Entry
<1>2. EntryWrite(op, t, ref, word) = [kind |-> "entry", entry |-> e]
  BY DEF EntryWrite
<1> HIDE DEF e
<1> QED BY <1>1, <1>2

\* An entry about something else leaves a task as it was.
LEMMA TellsNothing ==
  ASSUME NEW e, NEW t, NEW n, e.op # "add_subtask", e.id # t \/ e.op = "set_cursor"
  PROVE  Tells(e, t, n, n)
  BY DEF Tells

\* A rewrite of one task that its entry tells.
LEMMA RewrittenChronicled ==
  ASSUME IInv, IInv', Chronicled, Unlocked, NEW t \in DOMAIN nodes, NEW n \in Node,
         NEW ew, ew.kind = "entry", ew.entry \in Entry,
         ew.entry.id = t, ew.entry.ver = version + 1, ew.entry.op # "add_subtask",
         NEW w, w = <<NodeWrite(t, n), ew>> \/ w = <<NodeWrite(t, n), CursorWrite(t), ew>>,
         Mutate(w), Tells(ew.entry, t, nodes[t], n)
  PROVE  Chronicled'
<1> DEFINE e == ew.entry
<1>1. nodes = file /\ IsGraph(file) /\ up /\ todo = <<>>
  BY UnlockedDisk DEF Unlocked
<1>2. PlannedWrites(file, version, w)
  <2>1. PlannedWrites(nodes', version', todo')
    BY DEF IInv, Planned
  <2>2. nodes' = nodes /\ version' = version /\ todo' = w
    BY DEF Mutate, memory
  <2> QED BY <1>1, <2>1, <2>2
<1>3. t \in Task /\ \A u \in DOMAIN file : file[u] \in Node
  BY <1>1 DEF IsGraph
<1>4. w # <<>> /\ w[Len(w)] = ew /\ Done(file, w) = With(file, t, n)
  <2>1. IsGraph(file) /\ t \in Task /\ n \in Node /\ ew.kind = "entry" /\ PlannedWrites(file, version, w)
        /\ (w = <<NodeWrite(t, n), ew>> \/ w = <<NodeWrite(t, n), CursorWrite(t), ew>>)
    BY <1>1, <1>2, <1>3
  <2> QED BY ONLY <2>1, DoneOne
<1>5. /\ journal \in Seq(Entry) /\ Increasing(journal)
      /\ \A h \in history : h.ver \in Nat /\ e.ver > h.ver
  <2>1. Remembered(journal)
    BY DEF Chronicled
  <2> QED BY <1>1, <2>1, HistoryNumbered
<1>6. /\ DOMAIN Done(file, w) = DOMAIN file /\ Done(file, w)[t] = n
      /\ \A u \in DOMAIN file \ {t} : Done(file, w)[u] = file[u]
  <2>1. t \in DOMAIN file
    BY <1>1
  <2>2. /\ DOMAIN With(file, t, n) = DOMAIN file /\ With(file, t, n)[t] = n
        /\ \A u \in DOMAIN file \ {t} : With(file, t, n)[u] = file[u]
    BY ONLY <2>1 DEF With
  <2> QED BY <1>4, <2>2
<1> HIDE DEF e
<1>7. ASSUME NEW u \in DOMAIN file \ lost PROVE Told(Done(file, w)[u], Append(journal, e), u)
  <2>1. Told(file[u], journal, u)
    BY <1>1 DEF Chronicled
  <2>2. Tells(e, u, file[u], Done(file, w)[u])
    <3>1. CASE u = t
      BY <1>1, <1>6, <3>1 DEF e
    <3>2. CASE u # t
      BY <1>6, <3>2, TellsNothing DEF e
    <3> QED BY <3>1, <3>2
  <2>3. file[u].children \in Seq(Task) /\ e \in Entry
    BY <1>3 DEF Node, e
  <2> QED BY <1>5, <2>1, <2>2, <2>3, ToldOn
<1> QED BY <1>1, <1>4, <1>6, <1>7, MutateChronicled DEF e

\* update_status, add_dependency and record_commit.
LEMMA RewriteChronicled ==
  ASSUME IInv, IInv', Chronicled, NEW t \in Task,
         \/ \E s \in StatusInput : UpdateStatus(t, s)
         \/ \E d \in Task : AddDependency(t, d)
         \/ \E sha \in Sha : RecordCommit(t, sha)
  PROVE  Chronicled'
<1>1. Unlocked /\ t \in DOMAIN nodes
  BY DEF UpdateStatus, AddDependency, RecordCommit
<1>2. nodes[t] \in Node /\ version \in Nat
  BY <1>1, RewrittenTask
<1>3. t \in TaskOrNone /\ NoTask \in TaskOrNone
  BY DEF TaskOrNone
<1>4. ASSUME NEW s \in StatusInput, UpdateStatus(t, s) PROVE Chronicled'
  <2> DEFINE n == Stamped([nodes[t] EXCEPT !.status = s])
             ew == EntryWrite("update_status", t, NoTask, s)
  <2>1. /\ ew.entry \in Entry /\ ew.entry.op = "update_status" /\ ew.entry.id = t
        /\ ew.entry.word = s /\ ew.entry.ver = version + 1 /\ ew.kind = "entry"
    <3>1. s \in Status \cup Sha \cup {NoSha} /\ "update_status" \in Op
      BY InputAssumption DEF Op
    <3> QED BY <1>2, <1>3, <3>1, EntryOf
  <2>2. /\ n \in Node /\ n.status = s /\ n.parent = nodes[t].parent /\ n.children = nodes[t].children
        /\ n.standing = nodes[t].standing /\ n.by = nodes[t].by /\ n.commit = nodes[t].commit
        /\ n.deps = nodes[t].deps
    <3> DEFINE r == [nodes[t] EXCEPT !.status = s]
    <3>1. /\ r \in Node /\ r.status = s /\ r.parent = nodes[t].parent /\ r.children = nodes[t].children
          /\ r.standing = nodes[t].standing /\ r.by = nodes[t].by /\ r.commit = nodes[t].commit
          /\ r.deps = nodes[t].deps
      BY <1>2, InputAssumption DEF Node
    <3> HIDE DEF r
    <3>2. /\ Stamped(r) \in Node /\ Stamped(r).status = r.status /\ Stamped(r).parent = r.parent
          /\ Stamped(r).children = r.children /\ Stamped(r).standing = r.standing
          /\ Stamped(r).by = r.by /\ Stamped(r).commit = r.commit /\ Stamped(r).deps = r.deps
      BY <1>2, <3>1, StampedNode
    <3> QED BY <3>1, <3>2 DEF r
  <2>3. Mutate(<<NodeWrite(t, n), CursorWrite(t), ew>>) \/ Mutate(<<NodeWrite(t, n), ew>>)
    BY <1>4 DEF UpdateStatus
  <2> HIDE DEF n, ew
  <2>4. Tells(ew.entry, t, nodes[t], n)
    BY <2>1, <2>2 DEF Tells
  <2> QED BY <1>1, <2>1, <2>2, <2>3, <2>4, RewrittenChronicled
<1>5. ASSUME NEW d \in Task, AddDependency(t, d) PROVE Chronicled'
  <2> DEFINE n == Stamped([nodes[t] EXCEPT !.deps = @ \cup {d}])
             ew == EntryWrite("add_dependency", t, d, NoSha)
  <2>1. /\ ew.entry \in Entry /\ ew.entry.op = "add_dependency" /\ ew.entry.id = t
        /\ ew.entry.ref = d /\ ew.entry.ver = version + 1 /\ ew.kind = "entry"
    <3>1. d \in TaskOrNone /\ "add_dependency" \in Op
      BY DEF Op, TaskOrNone
    <3> QED BY <1>2, <1>3, <3>1, EntryOf
  <2>2. /\ n \in Node /\ n.status = nodes[t].status /\ n.parent = nodes[t].parent /\ n.children = nodes[t].children
        /\ n.standing = nodes[t].standing /\ n.by = nodes[t].by /\ n.commit = nodes[t].commit
        /\ n.deps = nodes[t].deps \cup {d}
    <3> DEFINE r == [nodes[t] EXCEPT !.deps = @ \cup {d}]
    <3>1. /\ r \in Node /\ r.status = nodes[t].status /\ r.parent = nodes[t].parent /\ r.children = nodes[t].children
          /\ r.standing = nodes[t].standing /\ r.by = nodes[t].by /\ r.commit = nodes[t].commit
          /\ r.deps = nodes[t].deps \cup {d}
      BY <1>2 DEF Node
    <3> HIDE DEF r
    <3>2. /\ Stamped(r) \in Node /\ Stamped(r).status = r.status /\ Stamped(r).parent = r.parent
          /\ Stamped(r).children = r.children /\ Stamped(r).standing = r.standing
          /\ Stamped(r).by = r.by /\ Stamped(r).commit = r.commit /\ Stamped(r).deps = r.deps
      BY <1>2, <3>1, StampedNode
    <3> QED BY <3>1, <3>2 DEF r
  <2>3. Mutate(<<NodeWrite(t, n), ew>>) /\ d \notin nodes[t].deps
    BY <1>5 DEF AddDependency
  <2> HIDE DEF n, ew
  <2>4. Tells(ew.entry, t, nodes[t], n)
    BY <2>1, <2>2, <2>3 DEF Tells
  <2> QED BY <1>1, <2>1, <2>2, <2>3, <2>4, RewrittenChronicled
<1>6. ASSUME NEW sha \in Sha, RecordCommit(t, sha) PROVE Chronicled'
  <2> DEFINE n == Stamped([nodes[t] EXCEPT !.commit = sha])
             ew == EntryWrite("record_commit", t, NoTask, sha)
  <2>1. /\ ew.entry \in Entry /\ ew.entry.op = "record_commit" /\ ew.entry.id = t
        /\ ew.entry.word = sha /\ ew.entry.ver = version + 1 /\ ew.kind = "entry"
    <3>1. sha \in Status \cup Sha \cup {NoSha} /\ "record_commit" \in Op
      BY DEF Op
    <3> QED BY <1>2, <1>3, <3>1, EntryOf
  <2>2. /\ n \in Node /\ n.status = nodes[t].status /\ n.parent = nodes[t].parent /\ n.children = nodes[t].children
        /\ n.standing = nodes[t].standing /\ n.by = nodes[t].by /\ n.commit = sha
        /\ n.deps = nodes[t].deps
    <3> DEFINE r == [nodes[t] EXCEPT !.commit = sha]
    <3>1. /\ r \in Node /\ r.status = nodes[t].status /\ r.parent = nodes[t].parent /\ r.children = nodes[t].children
          /\ r.standing = nodes[t].standing /\ r.by = nodes[t].by /\ r.commit = sha
          /\ r.deps = nodes[t].deps
      BY <1>2 DEF Node
    <3> HIDE DEF r
    <3>2. /\ Stamped(r) \in Node /\ Stamped(r).status = r.status /\ Stamped(r).parent = r.parent
          /\ Stamped(r).children = r.children /\ Stamped(r).standing = r.standing
          /\ Stamped(r).by = r.by /\ Stamped(r).commit = r.commit /\ Stamped(r).deps = r.deps
      BY <1>2, <3>1, StampedNode
    <3> QED BY <3>1, <3>2 DEF r
  <2>3. Mutate(<<NodeWrite(t, n), ew>>)
    BY <1>6 DEF RecordCommit
  <2> HIDE DEF n, ew
  <2>4. Tells(ew.entry, t, nodes[t], n)
    BY <2>1, <2>2 DEF Tells
  <2> QED BY <1>1, <2>1, <2>2, <2>3, <2>4, RewrittenChronicled
<1> QED BY <1>4, <1>5, <1>6

\* set_cursor tells of no task.
LEMMA SetCursorChronicled ==
  ASSUME IInv, Chronicled, NEW t \in TaskOrNone, SetCursor(t)
  PROVE  Chronicled'
<1> DEFINE ew == EntryWrite("set_cursor", t, NoTask, NoSha)
           w == <<CursorWrite(t), ew>>
           e == ew.entry
<1>1. Unlocked /\ Mutate(w) /\ t \in DOMAIN nodes \cup {NoTask}
  BY DEF SetCursor
<1>2. nodes = file /\ IsGraph(file) /\ up /\ todo = <<>> /\ version \in Nat
  BY <1>1, UnlockedDisk DEF Unlocked
<1>3. e \in Entry /\ e.op = "set_cursor" /\ e.id = t /\ e.ver = version + 1 /\ ew.kind = "entry"
  <2>1. NoTask \in TaskOrNone /\ "set_cursor" \in Op /\ NoSha \in Status \cup Sha \cup {NoSha}
    BY DEF Op, TaskOrNone
  <2> QED BY <1>2, <2>1, EntryOf
<1>4. CursorWrite(t).kind = "cursor"
  BY DEF CursorWrite
<1> HIDE DEF ew
<1>5. NodeWrites(w) = {} /\ w # <<>> /\ w[Len(w)] = ew
  BY <1>3, <1>4 DEF NodeWrites
<1> HIDE DEF w
<1>6. Done(file, w) = file
  BY <1>2, <1>5, DoneNothing
<1>7. /\ journal \in Seq(Entry) /\ Increasing(journal)
      /\ \A h \in history : h.ver \in Nat /\ e.ver > h.ver
  <2>1. Remembered(journal)
    BY DEF Chronicled
  <2> QED BY <1>2, <1>3, <2>1, HistoryNumbered
<1> HIDE DEF e
<1>8. ASSUME NEW u \in DOMAIN file \ lost PROVE Told(file[u], Append(journal, e), u)
  <2>1. Told(file[u], journal, u)
    BY <1>2 DEF Chronicled
  <2>2. Tells(e, u, file[u], file[u])
    BY <1>3, TellsNothing
  <2>3. file[u].children \in Seq(Task)
    BY <1>2 DEF Node, IsGraph
  <2> QED BY <1>3, <1>7, <2>1, <2>2, <2>3, ToldOn
<1> QED BY <1>1, <1>2, <1>3, <1>5, <1>6, <1>8, MutateChronicled DEF e

\* add_subtask tells of the new task, and of its parent by its name.
LEMMA AddSubtaskChronicled ==
  ASSUME IInv, IInv', Treed, Chronicled, NEW p \in TaskOrNone, NEW draft \in Draft,
         NEW deps \in SUBSET Task, NEW after \in TaskOrNone, AddSubtask(p, draft, deps, after)
  PROVE  Chronicled'
<1> DEFINE id == NextTaskId
           child == Child(p, draft, deps)
           w == todo'
           d == Done(file, w)
           ew == EntryWrite("add_subtask", id, p, NoSha)
           e == ew.entry
<1>1. Listed(file)
  BY DEF Treed
<1>2. /\ Unlocked /\ Mutate(w) /\ id \in Task /\ id \notin DOMAIN file /\ p \in DOMAIN file \cup {NoTask}
      /\ DOMAIN d = DOMAIN file \cup {id} /\ d[id] = child
      /\ \A u \in DOMAIN file \ {p} : d[u] = file[u]
      /\ w # <<>> /\ w[Len(w)] = ew
  BY <1>1, Added
<1>3. p # NoTask =>
         /\ d[p] = Stamped([file[p] EXCEPT !.children = d[p].children])
         /\ \E i \in 1..(Len(file[p].children) + 1) : Inserted(file[p].children, d[p].children, i, id)
  BY <1>1, Added
<1>4. child.status = "pending" /\ child.commit = NoSha
  BY DEF Child
<1>5. nodes = file /\ IsGraph(file) /\ up /\ todo = <<>> /\ version \in Nat
  BY <1>2, UnlockedDisk DEF Unlocked
<1>6. e \in Entry /\ e.op = "add_subtask" /\ e.id = id /\ e.ver = version + 1
  <2> HIDE DEF id
  <2>1. id \in TaskOrNone /\ "add_subtask" \in Op /\ NoSha \in Status \cup Sha \cup {NoSha}
    BY <1>2 DEF Op, TaskOrNone
  <2> QED BY <1>5, <2>1, EntryOf
<1> HIDE DEF child, w, d, ew, id
<1>7. Remembered(journal) /\ \A i \in DOMAIN journal : journal[i].id \in DOMAIN file \cup {NoTask}
  BY DEF Chronicled
<1>8. /\ journal \in Seq(Entry) /\ Increasing(journal)
      /\ \A h \in history : h.ver \in Nat /\ e.ver > h.ver
  BY <1>5, <1>6, <1>7, HistoryNumbered
<1> HIDE DEF e
<1>9. Told(d[id], Append(journal, e), id)
  <2>1. id # NoTask
    BY <1>2 DEF Task, NoTask
  <2>2. \A i \in DOMAIN journal : journal[i].id # id
    BY <1>2, <1>7, <2>1
  <2>3. \A h \in history : e.ver > h.ver /\ id \notin DOMAIN h.nodes
    BY <1>2, <1>7, <1>8 DEF Remembered
  <2>4. d[id].status = "pending" /\ d[id].commit = NoSha
    BY <1>2, <1>4
  <2> QED BY <1>6, <1>8, <2>2, <2>3, <2>4, ToldNew
<1>10. ASSUME NEW u \in DOMAIN file \ lost PROVE Told(d[u], Append(journal, e), u)
  <2>1. Told(file[u], journal, u)
    BY <1>5 DEF Chronicled
  <2>2. file[u] \in Node /\ file[u].children \in Seq(Task)
    BY <1>5 DEF Node, IsGraph
  <2>3. u # id /\ \A k \in DOMAIN file[u].children : file[u].children[k] # id
    BY <1>1, <1>2 DEF Listed
  <2>4. Tells(e, u, file[u], d[u])
    <3>1. CASE u # p
      <4>1. d[u] = file[u]
        BY <1>2, <3>1
      <4> QED BY <1>6, <2>3, <4>1 DEF Tells
    <3>2. CASE u = p
      <4>1. p # NoTask
        BY <1>5, <3>2 DEF IsGraph, Task, NoTask
      <4>2. PICK i \in 1..(Len(file[p].children) + 1) : Inserted(file[p].children, d[p].children, i, id)
        BY <1>3, <4>1
      <4>3. /\ d[p].parent = file[p].parent /\ d[p].standing = file[p].standing /\ d[p].by = file[p].by
            /\ d[p].status = file[p].status /\ d[p].commit = file[p].commit /\ d[p].deps = file[p].deps
        <5> DEFINE r == [file[p] EXCEPT !.children = d[p].children]
        <5>1. d[p].children \in Seq(Task)
          BY <4>2 DEF Inserted
        <5>2. /\ r \in Node /\ r.parent = file[p].parent /\ r.standing = file[p].standing /\ r.by = file[p].by
              /\ r.status = file[p].status /\ r.commit = file[p].commit /\ r.deps = file[p].deps
          BY <2>2, <3>2, <5>1 DEF Node
        <5> HIDE DEF r
        <5>3. d[p] = Stamped(r)
          BY <1>3, <4>1 DEF r
        <5> QED BY <1>5, <5>2, <5>3, StampedNode
      <4> QED BY <1>6, <2>3, <3>2, <4>2, <4>3 DEF Tells
    <3> QED BY <3>1, <3>2
  <2> QED BY <1>6, <1>8, <2>1, <2>2, <2>4, ToldOn
<1>11. \A u \in DOMAIN Done(file, w) \ lost : Told(Done(file, w)[u], Append(journal, e), u)
  BY <1>2, <1>9, <1>10 DEF d
<1>12. e.id \notin DOMAIN file /\ e.id \in DOMAIN Done(file, w) \cup {NoTask} /\ w[Len(w)].entry = e
  BY <1>2, <1>6 DEF d, e
<1> QED BY <1>2, <1>6, <1>11, <1>12, MutateChronicled

-----------------------------------------------------------------------------
(* Every write, crash and reopening keeps the journal telling the graph.   *)

\* A node write brings the task its entry will tell.
LEMMA WriteNodeChronicled ==
  ASSUME IInv, Treed, Chronicled, WriteNode
  PROVE  Chronicled'
<1> DEFINE g == With(file, Head(todo).id, Head(todo).node)
<1>1. todo # <<>> /\ Head(todo).kind = "node"
  BY DEF WriteNode
<1>2. /\ file' = g /\ todo' = Tail(todo) /\ journal' = journal /\ version' = version
      /\ lost' = lost /\ history' = history
  BY DEF WriteNode, ghosts
<1>3. Tail(todo) # <<>> /\ Tail(todo)[Len(Tail(todo))] = todo[Len(todo)]
  BY <1>1, MoreToDo, TailWrites
<1>4. Head(todo).node.stamp = version + 1
  <2>1. 1 \in NodeWrites(todo) /\ Head(todo) = todo[1]
    BY <1>1, UpReadsDisk DEF NodeWrites
  <2> QED BY <2>1 DEF Treed, Lined, LinedNode
<1>5. /\ DOMAIN g = DOMAIN file \cup {Head(todo).id} /\ g[Head(todo).id].stamp = version + 1
      /\ \A t \in DOMAIN file \ {Head(todo).id} : g[t] = file[t]
  BY <1>1, <1>4, HeadNodeWrite
<1>6. Done(file, todo)' = Done(file, todo)
  <2>1. Done(file, todo)' = Done(g, Tail(todo))
    BY <1>2, SameDone
  <2>2. Done(g, Tail(todo)) = Done(file, todo)
    BY <1>1, DoneHead
  <2> QED BY <2>1, <2>2
<1> HIDE DEF g
<1>7. Pending' = Pending /\ (todo[Len(todo)])' = todo[Len(todo)]
  BY <1>2, <1>3 DEF Pending
<1>8. \A i \in DOMAIN journal' : journal'[i].id \in DOMAIN file' \cup {NoTask}
  BY <1>2, <1>5 DEF Chronicled
<1>9. Remembered(journal)' /\ Remembered(Pending)'
  BY <1>1, <1>2, <1>5, <1>7 DEF Chronicled, Remembered
<1>10. ASSUME NEW t \in DOMAIN file' \ lost', file'[t].stamp # version' + 1
       PROVE  Told(file[t], journal, t)'
  <2>1. t # Head(todo).id /\ t \in DOMAIN file \ lost /\ file'[t] = file[t] /\ file[t].stamp # version + 1
    BY <1>2, <1>5, <1>10
  <2>2. Told(file[t], journal, t)
    BY <2>1 DEF Chronicled
  <2> QED BY <1>2, <2>1, <2>2 DEF Told
<1>11. /\ (todo[Len(todo)].entry.id)' \in DOMAIN Done(file, todo)' \cup {NoTask}
       /\ \A t \in DOMAIN Done(file, todo)' \ lost' : Told(Done(file, todo)[t], Pending, t)'
  <2>1. /\ todo[Len(todo)].entry.id \in DOMAIN Done(file, todo) \cup {NoTask}
        /\ \A t \in DOMAIN Done(file, todo) \ lost : Told(Done(file, todo)[t], Pending, t)
    BY <1>1 DEF Chronicled
  <2> QED BY <1>2, <1>6, <1>7, <2>1 DEF Told
<1>12. todo' # <<>>
  BY <1>2, <1>3
<1> QED BY <1>8, <1>9, <1>10, <1>11, <1>12 DEF Chronicled

\* The cursor file tells of no task.
LEMMA WriteCursorChronicled ==
  ASSUME IInv, Treed, Chronicled, WriteCursor
  PROVE  Chronicled'
<1>1. todo # <<>> /\ Head(todo).kind = "cursor"
  BY DEF WriteCursor
<1>2. /\ file' = file /\ todo' = Tail(todo) /\ journal' = journal /\ version' = version
      /\ lost' = lost /\ history' = history
  BY DEF WriteCursor, ghosts, memory
<1>3. Tail(todo) # <<>> /\ Tail(todo)[Len(Tail(todo))] = todo[Len(todo)]
  BY <1>1, MoreToDo, TailWrites
<1>4. Done(file, todo)' = Done(file, todo)
  <2>1. Done(file, todo)' = Done(file, Tail(todo))
    BY <1>2, SameDone
  <2>2. Done(file, Tail(todo)) = Done(file, todo)
    BY <1>1, DoneRest
  <2> QED BY <2>1, <2>2
<1>5. Pending' = Pending /\ (todo[Len(todo)])' = todo[Len(todo)] /\ todo' # <<>>
  BY <1>2, <1>3 DEF Pending
<1>6. \A i \in DOMAIN journal' : journal'[i].id \in DOMAIN file' \cup {NoTask}
  BY <1>2 DEF Chronicled
<1>7. Remembered(journal)' /\ Remembered(Pending)'
  BY <1>1, <1>2, <1>5 DEF Chronicled, Remembered
<1>8. ASSUME NEW t \in DOMAIN file' \ lost', file'[t].stamp # version' + 1
      PROVE  Told(file[t], journal, t)'
  <2>1. Told(file[t], journal, t)
    BY <1>2, <1>8 DEF Chronicled
  <2> QED BY <1>2, <2>1 DEF Told
<1>9. /\ (todo[Len(todo)].entry.id)' \in DOMAIN Done(file, todo)' \cup {NoTask}
      /\ \A t \in DOMAIN Done(file, todo)' \ lost' : Told(Done(file, todo)[t], Pending, t)'
  <2>1. /\ todo[Len(todo)].entry.id \in DOMAIN Done(file, todo) \cup {NoTask}
        /\ \A t \in DOMAIN Done(file, todo) \ lost : Told(Done(file, todo)[t], Pending, t)
    BY <1>1 DEF Chronicled
  <2> QED BY <1>2, <1>4, <1>5, <2>1 DEF Told
<1> QED BY <1>5, <1>6, <1>7, <1>8, <1>9 DEF Chronicled

\* What no later line touches is as it was then.
LEMMA ToldAsNow ==
  ASSUME NEW j \in Seq(Entry), NEW v \in Nat, \A i \in DOMAIN j : j[i].ver <= v,
         NEW t, NEW n \in Node,
         n.status = LastWord(j, "update_status", t, "pending"),
         n.commit = LastWord(j, "record_commit", t, NoSha)
  PROVE  ~BornAfter(j, t, v) /\ AsOf(n, j, t, v, n)
<1>1. \A i \in DOMAIN j : j[i].ver \in Nat /\ ~(j[i].ver > v)
  BY EntryVersions
<1>2. Prefix(j, v) = j
  BY PrefixWhole
<1>3. \A c : ~BornAfter(j, c, v)
  BY <1>1 DEF BornAfter
<1>4. DepsAddedAfter(j, t, v) = {}
  BY <1>1 DEF DepsAddedAfter
<1>5. n.children \in Seq(Task)
  BY DEF Node
<1>6. Select(n.children, BornBy(j, v)) = n.children
  <2>1. \A k \in DOMAIN n.children : n.children[k] \in Task
    BY <1>5, ElementOfSeq, LenProperties
  <2>2. \A k \in DOMAIN n.children : n.children[k] \in BornBy(j, v)
    BY <1>3, <2>1 DEF BornBy
  <2> QED BY ONLY <1>5, <2>2, SelectAll
<1> QED BY <1>2, <1>3, <1>4, <1>6 DEF AsOf

\* The entry ends the mutation, and the checkpoint is of what the journal tells.
LEMMA PostMutationChronicled ==
  ASSUME IInv, Counted, Chronicled, PostMutation
  PROVE  Chronicled'
<1> DEFINE e == Head(todo).entry
           v == version + 1
           new == [ver |-> v, nodes |-> nodes, cursor |-> cursor]
<1>1. todo # <<>> /\ Head(todo).kind = "entry" /\ ~torn
  BY DEF PostMutation, Counted
<1>2. /\ e \in Entry /\ e.ver = v /\ Tail(todo) = <<>>
      /\ \A i \in DOMAIN journal : journal[i].ver < e.ver
  BY <1>1, HeadEntry
<1>3. /\ up /\ nodes = file /\ version \in Nat /\ IsGraph(file) /\ Resolved(file)
      /\ todo \in Seq(Writes) /\ Head(todo) = todo[1]
  BY <1>1, UpReadsDisk
<1>4. Len(todo) = 1
  <2>1. Len(Tail(todo)) = Len(todo) - 1 /\ Len(todo) \in Nat
    BY <1>1, TailOfTodo
  <2>2. Len(Tail(todo)) = 0
    BY <1>2, EmptySeq
  <2> QED BY <2>1, <2>2
<1>5. Pending = Append(journal, e) /\ todo[Len(todo)].entry = e
  BY <1>3, <1>4 DEF Pending
<1>6. Done(file, todo) = file
  BY <1>1, DoneRest
<1>7. /\ journal' = Append(journal, e) /\ todo' = <<>> /\ file' = file /\ lost' = lost
      /\ history' = history \cup {new}
  BY <1>1, <1>2 DEF PostMutation
<1>8. journal \in Seq(Entry) /\ Increasing(journal) /\ v \in Nat
  BY <1>3 DEF IInv, TypeOK, VersionsIncrease, Increasing
<1>9. /\ Pending \in Seq(Entry) /\ \A i \in DOMAIN Pending : Pending[i].ver <= v
      /\ \E i \in DOMAIN Pending : Pending[i].ver = v
      /\ \A i \in DOMAIN Pending : Pending[i] = e \/ \E k \in DOMAIN journal : Pending[i] = journal[k]
  <2>1. /\ Pending \in Seq(Entry) /\ Len(journal) \in Nat
        /\ DOMAIN journal = 1..Len(journal) /\ DOMAIN Pending = 1..(Len(journal) + 1)
        /\ (\A i \in 1..Len(journal) : Pending[i] = journal[i]) /\ Pending[Len(journal) + 1] = e
    BY <1>2, <1>5, <1>8, Lines
  <2>2. \A i \in DOMAIN journal : journal[i].ver \in Nat
    BY <1>8, EntryVersions
  <2> HIDE DEF e, v
  <2>3. \A i \in DOMAIN Pending : Pending[i] = e \/ \E k \in DOMAIN journal : Pending[i] = journal[k]
    BY <2>1
  <2>4. \A i \in DOMAIN Pending : Pending[i].ver <= v
    BY <1>2, <1>8, <2>2, <2>3
  <2>5. Len(journal) + 1 \in DOMAIN Pending
    BY <2>1
  <2> QED BY <1>2, <2>1, <2>3, <2>4, <2>5
<1>10. new.ver = v /\ new.nodes = file
  BY <1>3
<1> HIDE DEF e, v, new
<1>11. /\ Remembered(Pending) /\ e.id \in DOMAIN file \cup {NoTask}
       /\ \A t \in DOMAIN file \ lost : Told(file[t], Pending, t)
       /\ \A i \in DOMAIN journal : journal[i].id \in DOMAIN file \cup {NoTask}
  BY <1>1, <1>5, <1>6 DEF Chronicled
<1>12. \A c : ~BornAfter(Pending, c, v)
  <2>1. \A i \in DOMAIN Pending : ~(Pending[i].ver > v)
    BY <1>8, <1>9, EntryVersions
  <2> QED BY <2>1 DEF BornAfter
<1>13. Remembered(journal)'
  <2> SUFFICES ASSUME NEW h \in history \cup {new}
               PROVE  /\ \E i \in DOMAIN Pending : Pending[i].ver = h.ver
                      /\ IsGraph(h.nodes) /\ Resolved(h.nodes)
                      /\ \A t \in DOMAIN h.nodes : t \in DOMAIN file /\ ~BornAfter(Pending, t, h.ver)
    BY <1>5, <1>7 DEF Remembered
  <2>1. CASE h \in history
    BY <1>11, <2>1 DEF Remembered
  <2>2. CASE h = new
    BY <1>3, <1>9, <1>10, <1>12, <2>2
  <2> QED BY <2>1, <2>2
<1>14. ASSUME NEW t \in DOMAIN file \ lost PROVE Told(file[t], journal, t)'
  <2>1. Told(file[t], Pending, t)
    BY <1>11
  <2>2. file[t] \in Node
    BY <1>3 DEF IsGraph
  <2>3. AsOf(file[t], Pending, t, v, file[t])
    BY <1>8, <1>9, <2>1, <2>2, ToldAsNow DEF Told
  <2>4. ASSUME NEW h \in history \cup {new}
        PROVE  /\ t \in DOMAIN h.nodes <=> ~BornAfter(Pending, t, h.ver)
               /\ t \in DOMAIN h.nodes => AsOf(file[t], Pending, t, h.ver, h.nodes[t])
    <3>1. CASE h \in history
      BY <2>1, <3>1 DEF Told
    <3>2. CASE h = new
      BY <1>10, <1>12, <2>3, <3>2
    <3> QED BY <3>1, <3>2
  <2>5. /\ Born(Pending, t)
        /\ file[t].status = LastWord(Pending, "update_status", t, "pending")
        /\ file[t].commit = LastWord(Pending, "record_commit", t, NoSha)
    BY <2>1 DEF Told
  <2>6. journal' = Pending /\ file' = file /\ history' = history \cup {new}
    BY <1>5, <1>7
  <2> QED BY <2>4, <2>5, <2>6 DEF Told
<1>15. \A i \in DOMAIN journal' : journal'[i].id \in DOMAIN file' \cup {NoTask}
  BY <1>5, <1>7, <1>9, <1>11
<1> QED BY <1>7, <1>13, <1>14, <1>15 DEF Chronicled

\* A death leaves the tasks it touched untold, and loses them.
LEMMA CrashChronicled ==
  ASSUME Chronicled, Crash
  PROVE  Chronicled'
<1>1. file' = file /\ journal' = journal /\ history' = history /\ todo' = <<>>
  BY DEF Crash
<1>2. ASSUME NEW t \in DOMAIN file, t \notin lost' PROVE t \notin lost /\ (todo # <<>> => file[t].stamp # version + 1)
  BY <1>2 DEF Crash, Lose, Touched
<1>3. ASSUME NEW t \in DOMAIN file' \ lost' PROVE Told(file[t], journal, t)'
  <2>1. Told(file[t], journal, t)
    BY <1>1, <1>2, <1>3 DEF Chronicled
  <2> QED BY <1>1, <2>1 DEF Told
<1>4. Remembered(journal)' /\ \A i \in DOMAIN journal' : journal'[i].id \in DOMAIN file' \cup {NoTask}
  BY <1>1 DEF Chronicled, Remembered
<1> QED BY <1>1, <1>3, <1>4 DEF Chronicled

\* A step that changes neither the files, the journal nor the history.
LEMMA StillChronicled ==
  ASSUME Chronicled, file' = file, journal' = journal, history' = history, lost' = lost,
         todo' = todo, version' = version \/ todo = <<>>
  PROVE  Chronicled'
<1>1. Done(file, todo)' = Done(file, todo) /\ Pending' = Pending
  BY SameDone DEF Pending
<1>2. Remembered(journal)' /\ \A i \in DOMAIN journal' : journal'[i].id \in DOMAIN file' \cup {NoTask}
  BY DEF Chronicled, Remembered
<1>3. ASSUME NEW t \in DOMAIN file' \ lost', todo' # <<>> => file'[t].stamp # version' + 1
      PROVE  Told(file[t], journal, t)'
  <2>1. Told(file[t], journal, t)
    BY <1>3 DEF Chronicled
  <2> QED BY <2>1 DEF Told
<1>4. ASSUME todo' # <<>>
      PROVE  /\ Remembered(Pending)'
             /\ (todo[Len(todo)].entry.id)' \in DOMAIN Done(file, todo)' \cup {NoTask}
             /\ \A t \in DOMAIN Done(file, todo)' \ lost' : Told(Done(file, todo)[t], Pending, t)'
  BY <1>1, <1>4 DEF Chronicled, Remembered, Told
<1> QED BY <1>2, <1>3, <1>4 DEF Chronicled

\* Without write faults every step keeps the journal telling the graph.
LEMMA NextChronicled ==
  Faults = {} /\ IInv /\ IInv' /\ Treed /\ Counted /\ Chronicled /\ [Next]_vars => Chronicled'
<1> SUFFICES ASSUME Faults = {}, IInv, IInv', Treed, Counted, Chronicled, [Next]_vars PROVE Chronicled'
  OBVIOUS
<1>1. CASE Operation
  <2>1. ASSUME NEW p \in TaskOrNone, NEW after \in TaskOrNone, NEW draft \in Draft,
               NEW deps \in SUBSET Task, AddSubtask(p, draft, deps, after)
        PROVE  Chronicled'
    BY <2>1, AddSubtaskChronicled
  <2>2. ASSUME NEW t \in Task, NEW s \in StatusInput, UpdateStatus(t, s) PROVE Chronicled'
    BY <2>2, RewriteChronicled
  <2>3. ASSUME NEW t \in Task, NEW d \in Task, AddDependency(t, d) PROVE Chronicled'
    BY <2>3, RewriteChronicled
  <2>4. ASSUME NEW t \in Task, NEW sha \in Sha, RecordCommit(t, sha) PROVE Chronicled'
    BY <2>4, RewriteChronicled
  <2>5. ASSUME NEW t \in TaskOrNone, SetCursor(t) PROVE Chronicled'
    BY <2>5, SetCursorChronicled
  <2> QED BY <1>1, <2>1, <2>2, <2>3, <2>4, <2>5 DEF Operation
<1>2. CASE Write
  BY <1>2, WriteNodeChronicled, WriteCursorChronicled, PostMutationChronicled DEF Write
<1>3. CASE Fault
  BY <1>3 DEF Fault, NodeFault, CursorFault, EntryFault, TornFault
<1>4. CASE Crash
  BY <1>4, CrashChronicled
<1>5. CASE Open
  <2>1. /\ file' = file /\ journal' = journal /\ history' = history /\ lost' = lost
        /\ todo' = todo /\ todo = <<>>
    BY <1>5 DEF Open, disk, ghosts, IInv, TypeOK
  <2> QED BY <2>1, StillChronicled
<1>6. CASE UNCHANGED vars
  <2>1. /\ file' = file /\ journal' = journal /\ history' = history /\ lost' = lost
        /\ todo' = todo /\ version' = version
    BY <1>6 DEF vars, disk, memory, ghosts
  <2> QED BY <2>1, StillChronicled
<1> QED BY <1>1, <1>2, <1>3, <1>4, <1>5, <1>6 DEF Next

\* While no write fails the journal tells the graph, the lost tasks apart.
THEOREM ChronicleInvariance ==
  ASSUME Faults = {}
  PROVE  Spec => [](IInv /\ Treed /\ Chronicled)
<1>1. Init => Counted /\ Chronicled
  BY DEF Init, Counted, Chronicled, Remembered
<1>2. IInv /\ Treed /\ Counted /\ [Next]_vars => Counted'
  BY NextCounted
<1>3. IInv /\ IInv' /\ Treed /\ Counted /\ Chronicled /\ [Next]_vars => Chronicled'
  BY NextChronicled
<1> QED BY <1>1, <1>2, <1>3, TreeInvariance, PTL DEF Spec

-----------------------------------------------------------------------------
(* The rebuild of an older version.                                        *)

\* n is a record with a node's fields.
Fielded(n) ==
    n = [parent |-> n.parent, status |-> n.status, deps |-> n.deps, children |-> n.children,
         standing |-> n.standing, by |-> n.by, commit |-> n.commit, stamp |-> n.stamp]

\* m is task t, now n, as the rebuild of v from the journal j has it.
Rebuilt(m, n, j, t, v, kept) ==
    /\ Fielded(m)
    /\ m.parent = n.parent /\ m.standing = n.standing /\ m.by = n.by
    /\ m.status = LastWord(Prefix(j, v), "update_status", t, IF Born(j, t) THEN "pending" ELSE n.status)
    /\ m.commit = LastWord(Prefix(j, v), "record_commit", t, IF Born(j, t) THEN NoSha ELSE n.commit)
    /\ m.deps = n.deps \ DepsAddedAfter(j, t, v)
    /\ m.children = Select(n.children, kept)
    /\ m.stamp = StampAt(n.stamp, v)

Kept(g, j, v) == {t \in DOMAIN g : ~BornAfter(j, t, v)}

\* A node has a node's fields.
LEMMA NodeFielded ==
  ASSUME NEW n \in Node
  PROVE  Fielded(n)
  BY DEF Node, Fielded

\* Five fields are rewritten and the others kept.
Rewritten(n, a, b, c, d, e) ==
    [n EXCEPT !.status = a, !.commit = b, !.deps = c, !.children = d, !.stamp = e]

RewrittenFrom(m, n, a, b, c, d, e) ==
    /\ Fielded(m) /\ m.parent = n.parent /\ m.standing = n.standing /\ m.by = n.by
    /\ m.status = a /\ m.commit = b /\ m.deps = c /\ m.children = d /\ m.stamp = e

\* A rewriting changes the five fields and nothing else.
LEMMA FiveFields ==
  ASSUME NEW n, Fielded(n), NEW a, NEW b, NEW c, NEW d, NEW e
  PROVE  RewrittenFrom(Rewritten(n, a, b, c, d, e), n, a, b, c, d, e)
<1> DEFINE s == [parent |-> n.parent, status |-> a, deps |-> c, children |-> d,
                 standing |-> n.standing, by |-> n.by, commit |-> b, stamp |-> e]
<1>1. ASSUME NEW m, m = [n EXCEPT !.status = a, !.commit = b, !.deps = c, !.children = d, !.stamp = e]
      PROVE  m = s
  BY <1>1 DEF Fielded
<1>3. Rewritten(n, a, b, c, d, e) = s
  BY <1>1 DEF Rewritten
<1>4. RewrittenFrom(s, n, a, b, c, d, e)
  BY DEF Fielded, RewrittenFrom
<1> HIDE DEF s
<1> QED BY <1>3, <1>4

\* Every kept task is rebuilt by itself.
LEMMA RebuiltGraph ==
  ASSUME NEW g, \A t \in DOMAIN g : Fielded(g[t]), NEW j, NEW v
  PROVE  /\ DOMAIN GraphAtVersion(g, j, v) = Kept(g, j, v)
         /\ \A t \in Kept(g, j, v) : Rebuilt(GraphAtVersion(g, j, v)[t], g[t], j, t, v, Kept(g, j, v))
<1> DEFINE K == Kept(g, j, v)
           st(t) == LastWord(Prefix(j, v), "update_status", t, IF Born(j, t) THEN "pending" ELSE g[t].status)
           co(t) == LastWord(Prefix(j, v), "record_commit", t, IF Born(j, t) THEN NoSha ELSE g[t].commit)
           de(t) == g[t].deps \ DepsAddedAfter(j, t, v)
           ch(t) == Select(g[t].children, K)
           sp(t) == StampAt(g[t].stamp, v)
           node(t) == Rewritten(g[t], st(t), co(t), de(t), ch(t), sp(t))
<1>1. GraphAtVersion(g, j, v) = [t \in K |-> node(t)]
  BY DEF GraphAtVersion, Kept, Rewritten
<1>2. ASSUME NEW t \in K PROVE Rebuilt(node(t), g[t], j, t, v, K)
  <2>1. Fielded(g[t])
    BY DEF Kept
  <2>2. RewrittenFrom(node(t), g[t], st(t), co(t), de(t), ch(t), sp(t))
    <3> HIDE DEF st, co, de, ch, sp
    <3> QED BY <2>1, FiveFields
  <2> HIDE DEF node
  <2> QED BY <2>2 DEF Rebuilt, RewrittenFrom
<1> HIDE DEF node, K
<1>3. DOMAIN GraphAtVersion(g, j, v) = K /\ \A t \in K : GraphAtVersion(g, j, v)[t] = node(t)
  BY <1>1
<1>4. DOMAIN GraphAtVersion(g, j, v) = K /\ \A t \in K : Rebuilt(GraphAtVersion(g, j, v)[t], g[t], j, t, v, K)
  BY <1>2, <1>3
<1> QED BY <1>4 DEF K

\* Nodes that agree on every other field are one but for the stamp.
LEMMA SameUnstamped ==
  ASSUME NEW m, NEW n, Fielded(m), Fielded(n),
         m.parent = n.parent, m.standing = n.standing, m.by = n.by, m.status = n.status,
         m.commit = n.commit, m.deps = n.deps, m.children = n.children
  PROVE  [m EXCEPT !.stamp = 0] = [n EXCEPT !.stamp = 0]
<1> DEFINE r(x) == [parent |-> x.parent, status |-> x.status, deps |-> x.deps, children |-> x.children,
                    standing |-> x.standing, by |-> x.by, commit |-> x.commit, stamp |-> x.stamp]
           s(x) == [parent |-> x.parent, status |-> x.status, deps |-> x.deps, children |-> x.children,
                    standing |-> x.standing, by |-> x.by, commit |-> x.commit, stamp |-> 0]
<1>1. \A x : [r(x) EXCEPT !.stamp = 0] = s(x)
  OBVIOUS
<1>2. m = r(m) /\ n = r(n) /\ s(m) = s(n)
  BY DEF Fielded
<1> HIDE DEF r, s
<1> QED BY <1>1, <1>2

\* The files at rest, and what is remembered of version h.
LEMMA AtRest ==
  ASSUME IInv, Treed, Chronicled, todo = <<>>, NEW h \in history
  PROVE  /\ LoadGraph(file) = file /\ IsGraph(file) /\ Listed(file)
         /\ journal \in Seq(Entry) /\ Increasing(journal) /\ h.ver \in Nat
         /\ \E i \in DOMAIN journal : journal[i].ver = h.ver
         /\ IsGraph(h.nodes) /\ Resolved(h.nodes)
         /\ \A t \in DOMAIN h.nodes : t \in Kept(file, journal, h.ver)
         /\ \A t \in DOMAIN file : Fielded(file[t]) /\ file[t] \in Node
         /\ \A t \in DOMAIN file \ lost : Told(file[t], journal, t)
<1>1. IsGraph(file) /\ Resolved(file)
  BY DEF IInv, TypeOK, DiskInv
<1>2. LoadGraph(file) = file
  BY <1>1, LoadResolved
<1>3. /\ Remembered(journal)
      /\ \A t \in DOMAIN file \ lost : Told(file[t], journal, t)
  BY DEF Chronicled
<1>4. journal \in Seq(Entry) /\ Increasing(journal) /\ h.ver \in Nat
  BY <1>3, HistoryNumbered
<1>5. \A t \in DOMAIN file : Fielded(file[t]) /\ file[t] \in Node
  BY <1>1, NodeFielded DEF IsGraph
<1>6. /\ \E i \in DOMAIN journal : journal[i].ver = h.ver
      /\ IsGraph(h.nodes) /\ Resolved(h.nodes)
      /\ \A t \in DOMAIN h.nodes : t \in DOMAIN file /\ ~BornAfter(journal, t, h.ver)
  BY <1>3 DEF Remembered
<1> QED BY <1>1, <1>2, <1>3, <1>4, <1>5, <1>6 DEF Kept, Treed

\* A task the journal tells all of is rebuilt as it was.
LEMMA RebuiltAsWas ==
  ASSUME IInv, Treed, Chronicled, todo = <<>>, NEW h \in history, NEW t \in DOMAIN h.nodes, t \notin lost,
         NEW m, Rebuilt(m, file[t], journal, t, h.ver, Kept(file, journal, h.ver))
  PROVE  [m EXCEPT !.stamp = 0] = [h.nodes[t] EXCEPT !.stamp = 0]
<1> DEFINE o == h.nodes[t]
           v == h.ver
           K == Kept(file, journal, v)
<1>1. /\ t \in DOMAIN file /\ file[t] \in Node /\ Listed(file) /\ IsGraph(file) /\ Told(file[t], journal, t)
      /\ IsGraph(h.nodes)
  BY AtRest DEF Kept
<1>2. Born(journal, t) /\ AsOf(file[t], journal, t, v, o)
  BY <1>1 DEF Told
<1>3. Fielded(o)
  BY <1>1, NodeFielded DEF IsGraph
<1>4. Select(file[t].children, K) = Select(file[t].children, BornBy(journal, v))
  <2>1. \A k \in DOMAIN file[t].children : file[t].children[k] \in DOMAIN file /\ file[t].children[k] \in Task
    BY <1>1 DEF Listed, IsGraph
  <2>2. \A k \in DOMAIN file[t].children : file[t].children[k] \in K <=> file[t].children[k] \in BornBy(journal, v)
    BY <2>1 DEF Kept, BornBy
  <2>3. file[t].children \in Seq(Task)
    BY <1>1 DEF Node
  <2> HIDE DEF K, v
  <2> QED BY ONLY <2>2, <2>3, SelectAgrees
<1> HIDE DEF o, K
<1>5. /\ Fielded(m) /\ m.parent = o.parent /\ m.standing = o.standing /\ m.by = o.by /\ m.status = o.status
      /\ m.commit = o.commit /\ m.deps = o.deps /\ m.children = o.children
  BY <1>2, <1>4 DEF Rebuilt, AsOf, K
<1>6. [m EXCEPT !.stamp = 0] = [o EXCEPT !.stamp = 0]
  BY <1>3, <1>5, SameUnstamped
<1> QED BY <1>6 DEF o

\* graph_at_version gives back every version as it was, the lost tasks apart.
LEMMA RebuildUntouched ==
  ASSUME IInv, Treed, Chronicled
  PROVE  ReplayUntouched
<1> SUFFICES ASSUME todo = <<>>, NEW h \in history
             PROVE  /\ DOMAIN Unstamped(ForkAt(h.ver)) \ lost = DOMAIN Unstamped(h.nodes) \ lost
                    /\ \A t \in DOMAIN Unstamped(h.nodes) \ lost :
                          Unstamped(ForkAt(h.ver))[t] = Unstamped(h.nodes)[t]
  BY DEF ReplayUntouched
<1> DEFINE G == ForkAt(h.ver)
           K == Kept(file, journal, h.ver)
<1>1. /\ LoadGraph(file) = file
      /\ \A t \in DOMAIN file : Fielded(file[t])
      /\ \A t \in DOMAIN h.nodes : t \in K
      /\ \A t \in DOMAIN file \ lost : Told(file[t], journal, t)
  BY AtRest
<1>2. DOMAIN G = K /\ \A t \in K : Rebuilt(G[t], file[t], journal, t, h.ver, K)
  BY <1>1, RebuiltGraph DEF ForkAt
<1> HIDE DEF G
<1>3. \A g : DOMAIN Unstamped(g) = DOMAIN g /\ \A t \in DOMAIN g : Unstamped(g)[t] = [g[t] EXCEPT !.stamp = 0]
  BY DEF Unstamped
<1>4. \A t \in K \ lost : t \in DOMAIN h.nodes
  BY <1>1 DEF Told, Kept
<1>5. ASSUME NEW t \in DOMAIN h.nodes \ lost PROVE [G[t] EXCEPT !.stamp = 0] = [h.nodes[t] EXCEPT !.stamp = 0]
  <2>1. Rebuilt(G[t], file[t], journal, t, h.ver, K)
    BY <1>1, <1>2
  <2> QED BY <2>1, RebuiltAsWas
<1> HIDE DEF K
<1>6. DOMAIN G \ lost = DOMAIN h.nodes \ lost
  BY <1>1, <1>2, <1>4
<1>7. /\ DOMAIN Unstamped(G) \ lost = DOMAIN Unstamped(h.nodes) \ lost
      /\ \A t \in DOMAIN Unstamped(h.nodes) \ lost : Unstamped(G)[t] = Unstamped(h.nodes)[t]
  <2>1. DOMAIN Unstamped(G) = DOMAIN G /\ DOMAIN Unstamped(h.nodes) = DOMAIN h.nodes
    BY <1>3
  <2>2. ASSUME NEW t \in DOMAIN h.nodes \ lost PROVE Unstamped(G)[t] = Unstamped(h.nodes)[t]
    <3>1. t \in DOMAIN G /\ t \in DOMAIN h.nodes
      BY <1>1, <1>2
    <3>2. Unstamped(G)[t] = [G[t] EXCEPT !.stamp = 0] /\ Unstamped(h.nodes)[t] = [h.nodes[t] EXCEPT !.stamp = 0]
      BY <1>3, <3>1, Zenon
    <3> QED BY <1>5, <3>2, Zenon
  <2> QED BY <1>6, <2>1, <2>2
<1> QED BY <1>7 DEF G

-----------------------------------------------------------------------------
(* What a fork ships.                                                      *)

\* A fork at version v is the rebuild of the files, task by task.
LEMMA ForkIsRebuild ==
  ASSUME IInv, Treed, Chronicled, todo = <<>>, NEW h \in history
  PROVE  /\ DOMAIN ForkAt(h.ver) = Kept(file, journal, h.ver)
         /\ \A t \in Kept(file, journal, h.ver) :
               Rebuilt(ForkAt(h.ver)[t], file[t], journal, t, h.ver, Kept(file, journal, h.ver))
<1>1. LoadGraph(file) = file /\ \A t \in DOMAIN file : Fielded(file[t])
  BY AtRest
<1> QED BY <1>1, RebuiltGraph DEF ForkAt

\* A kept task's parent is kept, the orphans of lost mutations apart.
LEMMA ForkParents ==
  ASSUME IInv, Treed, Chronicled, todo = <<>>, NEW h \in history,
         NEW t \in DOMAIN ForkAt(h.ver) \ lost
  PROVE  ForkAt(h.ver)[t].parent \in DOMAIN ForkAt(h.ver) \cup {NoTask}
<1> DEFINE K == Kept(file, journal, h.ver)
           G == ForkAt(h.ver)
<1>1. DOMAIN G = K /\ \A u \in K : Rebuilt(G[u], file[u], journal, u, h.ver, K)
  BY ForkIsRebuild
<1> HIDE DEF G
<1>2. /\ Resolved(h.nodes)
      /\ \A u \in DOMAIN h.nodes : u \in K
      /\ \A u \in DOMAIN file \ lost : Told(file[u], journal, u)
  BY AtRest
<1>3. t \in K \ lost
  BY <1>1 DEF G
<1>4. Told(file[t], journal, t) /\ ~BornAfter(journal, t, h.ver)
  BY <1>2, <1>3 DEF Kept
<1>5. t \in DOMAIN h.nodes /\ h.nodes[t].parent = file[t].parent
  BY <1>4 DEF Told, AsOf
<1>6. G[t].parent = file[t].parent
  BY <1>1, <1>3 DEF Rebuilt
<1> HIDE DEF K
<1>7. G[t].parent \in DOMAIN G \cup {NoTask}
  BY <1>1, <1>2, <1>5, <1>6 DEF Resolved
<1> QED BY <1>7 DEF G

\* A rebuilt list names rebuilt tasks.
LEMMA ForkChildren ==
  ASSUME IInv, Treed, Chronicled, todo = <<>>, NEW h \in history, NEW t \in DOMAIN ForkAt(h.ver)
  PROVE  \A i \in DOMAIN ForkAt(h.ver)[t].children : ForkAt(h.ver)[t].children[i] \in DOMAIN ForkAt(h.ver)
<1> DEFINE K == Kept(file, journal, h.ver)
           G == ForkAt(h.ver)
<1>1. DOMAIN G = K /\ \A u \in K : Rebuilt(G[u], file[u], journal, u, h.ver, K)
  BY ForkIsRebuild
<1>2. \A u \in DOMAIN file : file[u] \in Node
  BY AtRest
<1> HIDE DEF G
<1>3. G[t].children = Select(file[t].children, K) /\ file[t].children \in Seq(Task)
  BY <1>1, <1>2 DEF Rebuilt, Kept, Node, G
<1> HIDE DEF K
<1>4. G[t].children \in Seq(Task \cap K)
  BY <1>3, SelectType
<1>5. \A i \in DOMAIN G[t].children : G[t].children[i] \in Task \cap K
  BY <1>4, LenProperties, ElementOfSeq
<1>6. \A i \in DOMAIN G[t].children : G[t].children[i] \in DOMAIN G
  BY <1>1, <1>5
<1> QED BY <1>6 DEF G

\* A fork's curator numbers on from the fork's version.
LEMMA ForkNumbers ==
  ASSUME IInv, Treed, Chronicled, todo = <<>>, NEW h \in history
  PROVE  OpenVersion(Prefix(journal, h.ver), ForkAt(h.ver)) <= h.ver
<1> DEFINE K == Kept(file, journal, h.ver)
           G == ForkAt(h.ver)
           p == Prefix(journal, h.ver)
           V == {p[i].ver : i \in DOMAIN p}
           S == {G[t].stamp : t \in DOMAIN G}
<1>1. DOMAIN G = K /\ \A u \in K : Rebuilt(G[u], file[u], journal, u, h.ver, K)
  BY ForkIsRebuild
<1>2. /\ journal \in Seq(Entry) /\ Increasing(journal) /\ h.ver \in Nat /\ IsGraph(file)
      /\ \E m \in DOMAIN journal : journal[m].ver = h.ver
      /\ \A u \in DOMAIN file : file[u] \in Node
  BY AtRest
<1>3. \A u \in K : G[u].stamp = StampAt(file[u].stamp, h.ver) /\ file[u].stamp \in Nat
  BY <1>1, <1>2 DEF Rebuilt, Kept, Node
<1>4. S \in SUBSET Nat /\ \A n \in S : n <= h.ver
  BY <1>1, <1>2, <1>3 DEF StampAt
<1>5. /\ \A i \in DOMAIN p : \E m \in DOMAIN journal : p[i] = journal[m] /\ journal[m].ver <= h.ver
      /\ \A m \in DOMAIN journal : journal[m].ver <= h.ver => \E i \in DOMAIN p : p[i] = journal[m]
  BY <1>2, PrefixLines
<1>6. \A m \in DOMAIN journal : journal[m].ver \in Nat
  BY <1>2, EntryVersions
<1> HIDE DEF p
<1>7. V \in SUBSET Nat /\ (\A n \in V : n <= h.ver) /\ V # {}
  BY <1>2, <1>5, <1>6
<1>8. Cardinality(DOMAIN G) \in Nat
  <2>1. IsFiniteSet(1..MaxTask)
    BY Bounds, FS_Interval
  <2>2. DOMAIN G \in SUBSET (1..MaxTask)
    BY <1>1, <1>2 DEF Kept, IsGraph, Task
  <2>3. IsFiniteSet(DOMAIN G)
    BY <2>1, <2>2, FS_Subset
  <2> QED BY <2>3, FS_CardinalityType
<1> HIDE DEF G, S, V
<1>9. SetMax(S, 0) \in Nat /\ (S = {} => SetMax(S, 0) = 0) /\ (S # {} => SetMax(S, 0) \in S)
  BY <1>2, <1>4, SetMaxIsMax
<1>10. SetMax(V, Cardinality(DOMAIN G)) \in V
  BY <1>2, <1>7, <1>8, SetMaxIsMax
<1>11. SetMax(S, 0) <= h.ver /\ SetMax(V, Cardinality(DOMAIN G)) <= h.ver
  <2>1. SetMax(S, 0) <= h.ver
    <3>1. S = {} => SetMax(S, 0) <= h.ver
      BY <1>2, <1>9
    <3>2. S # {} => SetMax(S, 0) <= h.ver
      BY <1>4, <1>9
    <3> QED BY <3>1, <3>2
  <2>2. SetMax(V, Cardinality(DOMAIN G)) <= h.ver
    BY <1>7, <1>10
  <2> QED BY <2>1, <2>2
<1>12. ComputeGraphVersion(p, G) = SetMax(V, Cardinality(DOMAIN G))
  BY DEF ComputeGraphVersion, V
<1>13. OpenVersion(p, G) \in {SetMax(S, 0), ComputeGraphVersion(p, G)}
  BY DEF OpenVersion, S
<1>14. OpenVersion(p, G) <= h.ver
  BY <1>11, <1>12, <1>13
<1> QED BY <1>14 DEF p, G

\* One task, forked from a fork, is as a fork of the source has it.
LEMMA ForkedTwice ==
  ASSUME IInv, Treed, Chronicled, todo = <<>>, NEW h \in history, NEW k \in history, k.ver <= h.ver
  PROVE  LET again == GraphAtVersion(ForkAt(h.ver), Prefix(journal, h.ver), k.ver)
             once == ForkAt(k.ver)
         IN  /\ DOMAIN again = DOMAIN once
             /\ \A t \in DOMAIN once \ lost : [again[t] EXCEPT !.stamp = 0] = [once[t] EXCEPT !.stamp = 0]
<1> DEFINE v == h.ver
           w == k.ver
           G == ForkAt(v)
           once == ForkAt(w)
           p == Prefix(journal, v)
           again == GraphAtVersion(G, p, w)
           K == Kept(file, journal, v)
           J == Kept(file, journal, w)
<1>1. /\ journal \in Seq(Entry) /\ Increasing(journal) /\ v \in Nat /\ w \in Nat /\ w <= v
      /\ \A t \in DOMAIN file : file[t] \in Node
      /\ \A t \in DOMAIN file \ lost : Told(file[t], journal, t)
  BY AtRest
<1>2. DOMAIN G = K /\ \A t \in K : Rebuilt(G[t], file[t], journal, t, v, K)
  BY ForkIsRebuild
<1>3. DOMAIN once = J /\ \A t \in J : Rebuilt(once[t], file[t], journal, t, w, J)
  BY ForkIsRebuild
<1>4. \A t \in DOMAIN G : Fielded(G[t])
  BY <1>2 DEF Rebuilt
<1> HIDE DEF G, once
<1>5. DOMAIN again = Kept(G, p, w) /\ \A t \in Kept(G, p, w) : Rebuilt(again[t], G[t], p, t, w, Kept(G, p, w))
  BY <1>4, RebuiltGraph
<1> HIDE DEF again
<1>6. Prefix(p, w) = Prefix(journal, w)
  BY <1>1, PrefixTwice
<1>7. \A t : /\ BornAfter(journal, t, w) <=> BornAfter(journal, t, v) \/ BornAfter(p, t, w)
             /\ DepsAddedAfter(journal, t, w) = DepsAddedAfter(journal, t, v) \cup DepsAddedAfter(p, t, w)
             /\ Born(journal, t) => BornAfter(journal, t, v) \/ Born(p, t)
  BY <1>1, AfterPrefix
<1> HIDE DEF p, v, w
<1>8. Kept(G, p, w) = J /\ J \subseteq K
  BY <1>2, <1>7 DEF Kept
<1>9. ASSUME NEW t \in J \ lost PROVE [again[t] EXCEPT !.stamp = 0] = [once[t] EXCEPT !.stamp = 0]
  <2>1. /\ Rebuilt(again[t], G[t], p, t, w, J) /\ Rebuilt(once[t], file[t], journal, t, w, J)
        /\ Rebuilt(G[t], file[t], journal, t, v, K)
    BY <1>2, <1>3, <1>5, <1>8
  <2>2. t \in DOMAIN file /\ ~BornAfter(journal, t, v) /\ Told(file[t], journal, t)
    BY <1>1, <1>8 DEF Kept
  <2>3. Born(journal, t) /\ Born(p, t)
    BY <1>7, <2>2 DEF Told
  <2>4. Select(Select(file[t].children, K), J) = Select(file[t].children, J)
    <3>1. file[t].children \in Seq(Task)
      BY <1>1, <2>2 DEF Node
    <3>2. K \cap J = J
      BY <1>8
    <3> HIDE DEF K, J
    <3>3. Select(Select(file[t].children, K), J) = Select(file[t].children, K \cap J)
      BY <3>1, SelectTwice
    <3> QED BY <3>2, <3>3
  <2> HIDE DEF K, J
  <2>5. again[t].children = once[t].children
    BY <2>1, <2>4 DEF Rebuilt
  <2>6. again[t].deps = once[t].deps
    <3>1. /\ again[t].deps = G[t].deps \ DepsAddedAfter(p, t, w)
          /\ G[t].deps = file[t].deps \ DepsAddedAfter(journal, t, v)
          /\ once[t].deps = file[t].deps \ DepsAddedAfter(journal, t, w)
      BY <2>1 DEF Rebuilt
    <3>2. DepsAddedAfter(journal, t, w) = DepsAddedAfter(journal, t, v) \cup DepsAddedAfter(p, t, w)
      BY <1>7
    <3> QED BY <3>1, <3>2
  <2>7. again[t].status = once[t].status /\ again[t].commit = once[t].commit
    BY <1>6, <2>1, <2>3 DEF Rebuilt
  <2>8. /\ Fielded(again[t]) /\ Fielded(once[t]) /\ again[t].parent = once[t].parent
        /\ again[t].standing = once[t].standing /\ again[t].by = once[t].by
    BY <2>1 DEF Rebuilt
  <2> QED BY <2>5, <2>6, <2>7, <2>8, SameUnstamped
<1> HIDE DEF J
<1>10. DOMAIN again = DOMAIN once /\ \A t \in DOMAIN once \ lost :
          [again[t] EXCEPT !.stamp = 0] = [once[t] EXCEPT !.stamp = 0]
  BY <1>3, <1>5, <1>8, <1>9
<1> QED BY <1>10 DEF again, once, G, p, v, w

\* What a fork ships opens and forks like the source.
LEMMA ForksAreSound ==
  ASSUME IInv, Treed, Chronicled
  PROVE  ForkSound
<1>1. ForkOpens
  <2> SUFFICES ASSUME todo = <<>>, NEW h \in history
               PROVE  /\ \A t \in DOMAIN ForkAt(h.ver) \ lost :
                            ForkAt(h.ver)[t].parent \in DOMAIN ForkAt(h.ver) \cup {NoTask}
                      /\ \A t \in DOMAIN ForkAt(h.ver) : \A i \in DOMAIN ForkAt(h.ver)[t].children :
                            ForkAt(h.ver)[t].children[i] \in DOMAIN ForkAt(h.ver)
                      /\ OpenVersion(Prefix(journal, h.ver), ForkAt(h.ver)) <= h.ver
    BY DEF ForkOpens
  <2>1. \A t \in DOMAIN ForkAt(h.ver) \ lost :
           ForkAt(h.ver)[t].parent \in DOMAIN ForkAt(h.ver) \cup {NoTask}
    BY ForkParents
  <2>2. \A t \in DOMAIN ForkAt(h.ver) : \A i \in DOMAIN ForkAt(h.ver)[t].children :
           ForkAt(h.ver)[t].children[i] \in DOMAIN ForkAt(h.ver)
    BY ForkChildren
  <2> QED BY <2>1, <2>2, ForkNumbers
<1>2. ForkOfFork
  <2> SUFFICES ASSUME todo = <<>>, NEW h \in history, NEW k \in history, k.ver <= h.ver,
                      NEW t \in DOMAIN Unstamped(ForkAt(k.ver)) \ lost
               PROVE  /\ t \in DOMAIN Unstamped(GraphAtVersion(ForkAt(h.ver), Prefix(journal, h.ver), k.ver))
                      /\ Unstamped(GraphAtVersion(ForkAt(h.ver), Prefix(journal, h.ver), k.ver))[t]
                           = Unstamped(ForkAt(k.ver))[t]
    BY DEF ForkOfFork
  <2> DEFINE again == GraphAtVersion(ForkAt(h.ver), Prefix(journal, h.ver), k.ver)
             once == ForkAt(k.ver)
  <2>1. /\ DOMAIN again = DOMAIN once
        /\ \A u \in DOMAIN once \ lost : [again[u] EXCEPT !.stamp = 0] = [once[u] EXCEPT !.stamp = 0]
    BY ForkedTwice
  <2> HIDE DEF again, once
  <2>2. \A g : DOMAIN Unstamped(g) = DOMAIN g /\ \A u \in DOMAIN g : Unstamped(g)[u] = [g[u] EXCEPT !.stamp = 0]
    BY DEF Unstamped
  <2>3. t \in DOMAIN once \ lost
    BY <2>2 DEF once
  <2>4. /\ Unstamped(again)[t] = [again[t] EXCEPT !.stamp = 0]
        /\ Unstamped(once)[t] = [once[t] EXCEPT !.stamp = 0]
    <3>1. t \in DOMAIN again /\ t \in DOMAIN once
      BY <2>1, <2>3
    <3> QED BY <2>2, <3>1, Zenon
  <2>5. t \in DOMAIN Unstamped(again)
    BY <2>1, <2>2, <2>3
  <2>6. Unstamped(again)[t] = Unstamped(once)[t]
    <3>1. [again[t] EXCEPT !.stamp = 0] = [once[t] EXCEPT !.stamp = 0]
      BY <2>1, <2>3
    <3> QED BY <2>4, <3>1, Zenon
  <2> QED BY <2>5, <2>6 DEF again, once
<1> QED BY <1>1, <1>2 DEF ForkSound

\* Whatever happened since, a rebuild of a version gives back every task as that
\* version had it and no later one, the lost tasks apart (replay.py).
THEOREM ReplayHolds ==
  ASSUME Faults = {}
  PROVE  Spec => []ReplayUntouched
<1>1. Spec => [](IInv /\ Treed /\ Chronicled)
  BY ChronicleInvariance
<1>2. IInv /\ Treed /\ Chronicled => ReplayUntouched
  BY RebuildUntouched
<1> QED BY <1>1, <1>2, PTL

\* What a fork ships is a graph that opens, numbers on from its version and forks
\* to the same graphs as its source (fork.py `_copy_dag`).
THEOREM ForkSoundHolds ==
  ASSUME Faults = {}
  PROVE  Spec => []ForkSound
<1>1. Spec => [](IInv /\ Treed /\ Chronicled)
  BY ChronicleInvariance
<1>2. IInv /\ Treed /\ Chronicled => ForkSound
  BY ForksAreSound
<1> QED BY <1>1, <1>2, PTL
=============================================================================
