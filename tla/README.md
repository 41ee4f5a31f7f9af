# agent6 in TLA+

agent6 runs a coding agent for hours without anyone watching. What it must
never do is lose its place: it can be killed between any two writes, the
operator can answer, poke, steer or stop it at any moment, and the next process
starts from files alone; several processes, its own and the operator's, work on
the same files. This project models those files, the code that writes and
rereads them and the processes that meet in them, and checks and proves what
survives.

All paths below are under `src/src/agent6/` unless they say otherwise.

## 1. The system

| component | state it keeps | operations | hard because |
|---|---|---|---|
| task graph (`graph/`) | one file per task, `graph.jsonl`, `cursor.json`; the curator's nodes and version | add_subtask, update_status, add_dependency, record_commit, set_cursor; reload; open; replay of a version | a mutation is several writes; any can fail or be the last one; versions number checkpoints |
| fork (`app/fork.py`) | a new session rebuilt at an older version | copy of the graph, prefix of the journal | today's files and yesterday's journal are mixed |
| machine engine (`machine/engine.py`, `execution.py`, `journal.py`, `live_world.py`) | `journal.jsonl`, `wait.json`, `signal`, `signal.consuming`, `stop`, `data/poke.json`, snapshots | enter, run an agent or a tool, branch, wait, wake, end; replay | resumed by replay after a death anywhere; pokes and stops race it |
| machine run (`app/machine/run.py`, `crash_spend.py`) | state logs with running totals | refuse an ended instance, drop a stale stop, book a dead attempt, drive | money booked twice or never |
| machine language (`machine/schema.py`, `semantics.py`, `template.py`, `predicate.py`, `authoring.py`, `dryrun.py`) | the machine file | parse, check, render | text; sequential |
| machine agents and authoring (`app/machine/agent.py`, `create.py`, ...) | per-state session directories | run one state's agent, write a machine with a model | one harness execution per state |
| harness turn loop (`harness/loop*.py`) | `loop_state.json`, `turn_in_flight.json`, checkpoints; conversation, turn | snapshot, model call, dispatch, gates, results, stop checks, operator boundary, park, end, resume | a call's effect happens before its record; resumes must neither repeat nor forget |
| prompts to the operator (`tools/operator_prompts.py`, `app/resume_questions.py`, `sessions/ipc.py`) | `questions/*.answer`, the journal's prompts and answers | ask, queue, answer, collect, carry over, sweep | the answer comes when it likes, in another process's lifetime |
| task focus and finish gates (`harness/dag_focus.py`, `operator_tasks.py`, `standing_goal.py`, `finish_gates.py`, `tools/dag_tools.py`) | nudges, fruitless count, banner, request queue | surface, queue, retire, refuse a finish, re-enter a standing goal | the model and the operator edit one graph |
| verify, review and metric gates (`harness/verify_*.py`, `review_*.py`, `metric_*.py`, `judge.py`) | last verdict, tree it was of | run, adopt, judge | a verdict stale against the tree |
| context compaction (`harness/compaction_*.py`) | the conversation | elide, summarise, restart | size rules over text |
| provider calls (`harness/provider_call.py`, `providers/`) | tokens, streams | call, retry, refresh, cut | timeouts racing late answers |
| parallel lanes (`harness/parallel_dispatch.py`, `harness/subrun.py`, `app/lanes.py`, `lane_watch.py`, `workdirs.py`, `parallel*.py`) | groups, clones, live-view links, lane sessions, branches, the chain, results | clone, spawn, watch, stop, import, join, stamp, adopt, sweep | a coordinator with threads, detached processes and two operator commands over one set of directories |
| session locks and processes (`sessions/lock.py`, `process.py`, `app/stop.py`, `app/session_prune.py`, `ui/spawn.py`) | flocks, `worker.pid`, the prune receipt, the stop marker | acquire, hand over, release, stop and kill, prune | the owner changes between a read and its use |
| run lifecycle (`app/run.py`, `resume*.py`, `execution.py`, `finalize.py`, `merge.py`, `undo.py`) | manifest, worktree, chain ref | start, resume, end, merge, undo | git between two steps |
| tools and sandbox (`tools/`, `sandbox/`) | the working tree, background jobs | edits, commands, fetches | effects outside |
| budget, configuration, context, version control, read models, front-ends | settings, prices, prompts, commits, screens | parse, add, render | mostly sequential or pure |

How they interact. A session is owned by one process (a single-writer lock); it
calls the model, dispatches the calls to tools, and the tools mutate the task
graph through the curator under its own flock, so `fork` and front-ends in other
processes can read it. Front-ends never call the harness: they write files
(answers, steers, stops, requests) that the loop polls at its boundaries, and
read the journal back. The journal is also what a resume folds to learn which
questions are open. A machine instance is a supervisor above such executions,
with its own journal.

What makes each part correct:

* task graph: what the curator shows is on disk; versions grow; a lost number
  is never given again; no task waits on itself; an end stays; a fork of a
  version gives back the graph of that version.
* machine: the journal is one legal path within both budgets; a restart goes on
  exactly where the last durable step led; every poke is delivered; an armed
  wait keeps its instant; money is booked once.
* turn loop: the model is told of every call that ran and of none that did not;
  calls and results stay paired; an answer is told exactly once and before the
  run may finish; a stop ends the execution wherever it stands.
* task focus and gates: the banner of a call names the frontier; a run ends over
  open work only when it was asked back often enough; a standing goal is worked
  until it is retired by whoever set it.
* session processes: one writer per directory and per checkout; a running worker
  is on record; a stop kills whom it aimed at; transcript numbers run on.
* lanes: work that was committed is never lost; the graph says what reached the
  chain; nothing is taken from a live lane; a `now` stop gets through.

## 2. Modules

| module | models | notes |
|---|---|---|
| `TaskOrder` | statuses and the order and readiness of tasks (`graph/models.py`, `graph/order.py`, `harness/dag_focus.py`) | pure operators, used by TaskGraph and TaskTurns |
| `TaskGraph` | `graph/curator.py`, `storage.py`, `replay.py`, the graph half of `app/fork.py` | EXTENDS TaskOrder |
| `MCTaskGraph` | drafts for TLC | |
| `TaskGraphProofs` | theorems about TaskGraph | EXTENDS TaskGraph, InductionFacts |
| `InductionFacts` | induction over the naturals and least elements, said of sets | EXTENDS TLAPS |
| `MachineSpec` | a machine, a position on it, the effect of one fact (`machine/schema.py`, `execution.py` `reduce`, `route_branch`) | |
| `MachinePath` | the abstract specification: one path within both budgets, final | EXTENDS MachineSpec |
| `MachineEngine` | the supervisor, its files, the operator and the clock | EXTENDS MachineSpec, INSTANCE MachinePath |
| `MCMachine` | the two machines TLC runs | |
| `MachineJournal` | lemmas: what one append does to all that is read off a machine's journal | EXTENDS MachineEngine, InductionFacts |
| `MachineEngineProofs` | theorems about MachineEngine, the refinement among them | EXTENDS MachineJournal |
| `TurnLoop` | the executions of one run: turn pipeline, snapshot, marker, questions, stops, resumes | |
| `TurnLoopProofs` | theorems about TurnLoop | EXTENDS TurnLoop, InductionFacts |
| `TaskTurns` | who edits the task graph while a run goes on, and what the graph does to the run (`harness/operator_tasks.py`, `dag_focus.py`, `finish_gates.py`, `standing_goal.py`, `tools/dag_tools.py`, the check-off of `compaction_driver.py`) | EXTENDS TaskOrder; the curator is atomic here, its writes are in TaskGraph |
| `TaskTurnsProofs` | theorems about TaskTurns | EXTENDS TaskTurns, InductionFacts |
| `SessionLife` | the processes that meet in one session directory (`sessions/lock.py`, `process.py`, `app/run.py`, `resume.py`, `execution.py`, `stop.py`, `session_prune.py`, `ui/spawn.py`) | |
| `SessionLifeProofs` | theorems about SessionLife | EXTENDS SessionLife, TLAPS |
| `Lanes` | a /parallel directive: dispatcher, lane threads, lane processes, adopting merge, clone sweep | |
| `LanesProofs` | theorems about Lanes | EXTENDS Lanes, TLAPS |

The three views of an execution do not share state: TurnLoop keeps what a turn
owes the model and the operator's questions, TaskTurns what it owes the task
graph, SessionLife who may execute at all. Each one leaves out what the others
hold, and each has the deaths and resumes of its own part. Every module states
its `TypeOK`; TaskGraph's and MachineEngine's are proved, SessionLife's is part
of the invariant proved, the others document the state (the proofs about Lanes,
TaskTurns and TurnLoop carry what they need of it: `Shapes`; `Counters` and
`Shaped`; `Numbered`, `Typed` and `Turns`).

### TaskGraph

A mutation is one critical section. `Mutate(writes)` stands for validation
against the nodes in memory; the writes it lines up are `todo` and are made one
by one (`WriteNode`, `WriteCursor`, `PostMutation`, which also ends the
mutation). Between two of them `Crash` may come, and each may fail: a
`NodeFault` or `CursorFault` writes nothing, an `EntryFault` leaves the journal without the
entry, a `TornFault` leaves half a line. A fault runs `Reload`, which is what
`_mutating` does when an exception leaves the block. `Open` is `__init__`.
`GraphAtVersion` is `graph_at_version`; `ForkAt` is what `_copy_dag` makes of
it. `history`, `lost`, `lostVer` and `cuts` are history variables and no guard
but the bound on `cuts` reads them.

### MachineEngine

`pc` names the place between two durable writes. `RunMachine` takes the
instance lock; `Booking` is `book_crashed_attempt` in its two steps; `Enter`
emits the notification; `Executed` is the agent, tool or branch of the state;
`ArmWait`, `TakeSignal`, `Tick`, `StopWait` and `KeepSleeping` are
`arm_pending_wait`, `block_on_wait` and `fire_persisted_wait`; then
`MaterializePoke`, `JournalStep`, `ClearWait`, `AckSignal`, `Advance` are the
commit, in the order the code writes. An append may be cut, which leaves `Torn`
at the end; `HealTornTail` removes it at the next append. An agent attempt adds
to the state log turn by turn, so a death leaves spend nobody has journaled.
Each attempt's outcome is chosen freely, as is each poke and stop.

### TurnLoop

One run, one process at a time. `pc` walks through `_drive_loop`: `PreCall`
writes the snapshot, `Respond` is the model, `MarkTurn` the marker (before the
first call and after each), `Work`, `Finish`, `Queue`, `Ask` and `Skip` the
dispatch, `JudgeTurn` the gates, commit and results, `PostTurn` and
`ClearMarker` the snapshot and the marker's removal, `CheckStops` and the
collection `finishing` the late answers a finish waits for, `StopAt` and
`OperatorBoundary` the boundary, `parked` the park. A collection of answers is
four steps (`PeekNothing` or `JournalLateAnswer`, `ClearAnswer`, `Deliver`), as
a death between them is the interesting case. Every end goes through
`DropMarker` and `EmitEnd`; a detached one writes no end.

`Begin` and `Resume` open a process: the journal is folded (`CarriedPending`,
`LateIds`, `NextNumber` read `events` as `carried_questions` does), the bridge
files of the last execution are swept, the question about outside edits may be
asked, the interrupted turn is folded into the snapshot (`FoldInterruptedTurn`,
`DropFolded`) and the loop opens with the answers it missed (`OpenResumed`).

The conversation is a sequence of items: calls, results (returned, skipped,
interrupted) and late answers. Prose, notices and compaction are left out.
`minted`, `ran`, `noted`, `excused`, `heard`, `executions`, `stops` and `faults`
are history variables or bounds. A call is excused when the harness itself gave
it up: a turn cut by an operator command that cannot execute or by the commit
hook, or a write that failed.

### TaskTurns

`pc` walks through the steps of `_drive_loop` that touch the graph. `Take` is
`apply_operator_requests`: `DrainRequests` removes the files, then each request
is applied (`Queue`, `Retire`, `RetireGoal` and `SetStanding`, which retires the
old goal before it adds the new one) or refused; a death between loses what is
in hand, as it does in the code. `Summarise`, `ApplyCheckoff` and
`RestartConversation` are the restart from a summary, `SurfaceCurrentTask` the
banner. `Respond` opens a turn, whose calls are `Work`, `AddTask`, `UpdateTask`,
`AddDependency`, `FinishSession` or a `FailCall`. `FinishGates`, `AdviseAndCheck`
and `PostQuietTurn` decide whether the turn is an end: the refusals over open
tasks (`TaskFinishNudge`, at most `FinishPatience`) and the re-entry of the
standing goal (`StandingFinish`, through `Absorbs` and `Judge`).
`PassPendingRootTasks` is what an end leaves of the root. Whether the budget is
spent is chosen when the goal asks; a guard's stop (stuck, loop, no edits) is
chosen freely.

### SessionLife

`worker[p].pc` is where process `p` stands between two reads or writes of the
directory. A run goes checking, claiming, settling, writing, recording,
starting, ready, unparked, running; a resume reading, locking, scanning,
deciding, preflight, asking, running, or hands a parked task to the run's steps.
`Claim` is `acquire_single_writer`; `Settle` and `Scan` sweep the markers of
earlier executions and read the last transcript number; `TakeCheckout` is the
checkout's lock, `Park` what a busy one leads to. `EndExecution`, `ClearPid` and
`ReleaseLocks` are the teardown in its order. `Detach`, `SpawnResume`,
`HandedOver`, `HandoffFails` and `ClearAfterFailure` are the hand-off to a
background resume. The stop command is `StopLooks`, `StopAims` (it reads
`worker.pid`), `StopAsks`, `StopSeesEnd`, `StopTerms`, `StopKills`; the pruning
`PruneBegins`, `PruneMarks` (the receipt), `PruneRemoves`, `PruneEnds`.
`Interrupted` is Ctrl-C or SIGTERM before the execution, `Dies` a death anywhere,
after which the kernel frees the locks and nothing else. A launched process is
never launched again, so two processes show every meeting of two executions.

### Lanes

A lane is a pair of group and number: clone, session, branch and link take their
names from it. `ThreadStep` is `run_lane_to_completion`, one action per file or
git operation: `Clone`, `Locate`, `Link`, `Await`, `FinishTurn`, `Drain`,
`Unlink`, `Check`, `Fetch`, `Move`, `Tidy`. `LaneStep` is the detached process,
which boots, commits, ends and goes, or dies, or hangs. `CountGroup`,
`SpawnGroup`, `AllReturn`, `Abort`, `Join`, `Stamp`, `Interrupt` and `Leave` are
the dispatcher; `Die` takes the threads with it and leaves the lanes, `Resume`
reads the count of groups back. `MergeStep` is `sessions merge` as it adopts an
orphan, `Sweep` the clone sweep (one step: it holds no lock, and the window it
leaves before `worker.pid` is a note in PROJECT.json).

## 3. Runs

| run | asks | bounds and why they suffice |
|---|---|---|
| graph_writes | memory is the disk, the files form a tree, versions grow, dependencies stay acyclic, an end stays, whatever write fails or is the last | 3 tasks, so a dependency between siblings and a cycle no single call shows; 4 versions; one cut, which is a death or a fault of any kind, at any write of any mutation; the only draft is one by the model with the first dependency it may name |
| graph_forks | a fork at any version, a fork of it, numbers a death lost | 3 tasks, 4 versions, drafts of the model and of the operator, a commit stamp, one death; no failed appends (section 6 says what they do) |
| machine_path | replay, memory, spend, refinement of `MachinePath` | a machine with every kind of state, 4 transitions (the fifth is refused), a money cap of one turn, 2 deaths so a recovery dies too |
| machine_wait | pokes, the poke file, ticks, wakes; a stop parks a sleeping wait, a poke wakes it | two waits, one without a timer; 2 pokes, so one can replace the other; 2 deaths; 3 instants, so a delay passes twice |
| turn_again | pairing, ids, answers kept and told once, finishes that hear them | 3 executions of one turn of up to 2 calls, a death anywhere: the recovery dies and is recovered |
| turn_stop | what ran is told; a stop ends the execution | waiting asks, 2 questions, one stop, one failed write of a snapshot or marker |
| task_turns | the banner, ends over open work, the standing goal, who retires | 3 tasks (root, a goal or a queued task, one of the model's), one dependency, one call a turn and any number of turns, one request per drain, one refusal, the tightest patience, deaths at will |
| task_goal | the disagreement of section 6 about two goals | as task_turns |
| session_life | one writer, the record, the stop's victim, transcript numbers, prunings, the liveness of a stop | 2 processes (the second is a run, a resume or the hand-off of the first), 2 transcripts, 2 stops, 2 prunings, another session that wants the checkout |
| session_handoff | the disagreement about a live session that reads as not live | as session_life, without transcripts, stops and prunings |
| lanes | work, stamps, names, takings; the liveness of a `now` stop | one group of 2 tasks with a lane each, 2 commits a lane, two troubles together out of a death, a stop, a fault, a sweep and a merge |
| lanes_orphan | the disagreement about a finished lane without its link | 1 lane, 1 death |

Deadlock is not checked: a run, a machine and a graph at rest may stop for good.
Every passing property has a mutant in PROJECT.json, a named variation of one
definition with a plausible mistake in it, under which TLC finds the property
violated. Between them the runs take every action and every disjunct.

Fairness. `MachineEngine!FairSpec` is weak fairness of `Supervise`, the steps of
a live supervisor: its loop is sequential and each blocking step is a poll with
a bounded sleep. `TurnLoop!FairSpec` is weak fairness of `Drive`, what a live
harness process does by itself; the provider's answer counts as such a step,
for a call returns, fails or times out. `SessionLife!FairSpec` is weak fairness
of `StopCommand` alone: the command waits for bounded times, and the workers it
is aimed at may hang. `Lanes!FairSpec` is weak fairness of `Machine`, the
coordinator and its threads, whose every wait but the one on a lane has an end;
lanes may hang. Nothing restarts a dead process and no fairness is assumed of
the operator, the clock or a lock, so liveness claims end with "or the process
is down" where a process can die.

## 4. Proofs

Six modules hold theorems of the six specifications, and `InductionFacts` and
`MachineJournal` lemmas they rest on. All are of safety, for
every value of the constants. Every invariant and every action property the
passing runs check is a theorem, and so is the refinement. Only liveness stays
with TLC (the end of this section says which and why).

Recursion is written as recursive functions, which the provers can unfold once a
lemma has shown that the definition is one. What such a function computes is then
an induction over a set: `SetInduction` says that a set with zero and all
successors of its members has every natural, and the lemmas apply it to the set
of lengths for which they hold.

### The task graph

`TaskGraphProofs` proves, for every number of tasks, mutations, cuts and
dependencies and any set of commits, statuses, drafts and faults
(`BoundsAssumption`, `InputAssumption`):

* `TypeCorrect`: `Spec => []TypeOK`
* `MemoryMatches`: `Spec => []MemoryIsDisk`
* `VersionsOrdered`: `Spec => []VersionsIncrease`
* `NoDependencyCycle`: `Spec => []DepsAcyclic`
* `EndsStay`: `Spec => EndsAreFinal`
* `TreeHolds`: `Spec => []TreeConsistent`

and, with `Faults = {}`, so that a mutation is only ever cut short by a death:

* `LostNumberHolds`: `Spec => []LostNumberNeverReused`
* `ReplayHolds`: `Spec => []ReplayUntouched`
* `ForkSoundHolds`: `Spec => []ForkSound`

The assumption of the last three is the code's own limit, not the proof's: after
a failed write the same process recounts the version and gives the lost number
away again, and an append onto a torn line loses both (section 6). It is the
setting of graph_forks, any number of tasks, versions and deaths instead of its
three, four and one.

None of the invariants is inductive: whether the next write of a mutation keeps
the files acyclic, its memory equal and the versions in order depends on what
the mutation checked before it lined the writes up, and `MemoryIsDisk` speaks of
the files as a load repairs them, which is nothing only while every parent
resolves. The strengthening is

    IInv == TypeOK /\ (up => nodes = file) /\ DiskInv /\ VersionsIncrease /\ Planned

`DiskInv` is the shape of the files at any time: dependencies and parents
resolved, acyclic, no stamp beyond `MaxVersion`. `Planned` says that writes are
lined up only in a live process with a version to spare, and that
`PlannedWrites` holds of them: a node write keeps its dependencies resolved and
its stamp bounded; the first may bring a task or an edge if the graph stays
acyclic, the later ones touch other tasks and keep their dependencies; an ended
task keeps its end; the entry comes last, one version up. A cut after any prefix
then leaves `DiskInv`, which is what `Reload` and `Open` need. The argument runs
per action: one lemma per operation shows that it lines up `PlannedWrites`
(`AddSubtaskIInv`, ...); `HeadNodeWrite`, `RestOfTodo` and `HeadEntry` show that
the next write may be made and that the rest is still planned; one lemma per
fault and death shows that a prefix is enough. `NextIInv` joins them and
`Invariance` is the theorem `Spec => []IInv`, from which the first four follow;
`EndsStay` is an action property from the same invariant.
`WouldIntroduceCycle` is a statement about a set closed under
dependencies, so a new edge is acyclic by `AcyclicNewEdge` and a new task by
`AcyclicNewTask`, without recursion.

The tree and the journal need more, for in mid-mutation neither is what it should
be: a child is on disk and its parent's list is not, a status is and its entry is
not. What is then true is said of the end of the mutation. `Done(file, todo)` is
the graph once every write of `todo` is made, and each part of the strengthening
has one half about the files and one about `Done`:

* `Treed`: the files list only children that are there, name the lister and are
  listed once, and so will `Done`; whoever the files do not list is lost or was
  written by this mutation, whoever `Done` does not list is lost. `Lined` says
  why a write may be made: it keeps the place of the task it rewrites and names
  only children written before it, which is the order `add_subtask` writes in.
  `TreeInvariance` is `Spec => [](IInv /\ Treed)`, under every fault.
* `Counted`: a lost number is on a node file and no entry has it, so opening,
  which looks at the stamps too, starts past it.
* `Chronicled`: the journal tells of every task that is not lost, and the journal
  with the entry to come tells of `Done`. `Told` is what a journal must say of a
  task: its birth, its last status and commit, and that undoing all it says after
  a version gives the task as that version had it (`AsOf`). One lemma per
  operation shows that its entry tells what it does; `ToldOn` that one more entry
  leaves the older versions as they were. `ChronicleInvariance` is
  `Spec => [](IInv /\ Treed /\ Chronicled)`, for `Faults = {}`.

`RebuiltGraph` says what `GraphAtVersion` makes of each task, `RebuiltAsWas` that
this is what `Told` promises. For a fork of a fork, `PrefixTwice`, `AfterPrefix`
and `SelectTwice` say that cutting a journal and filtering a list twice is doing
so once, at the smaller version. The filter of `graph_at_version` (`Select`) is a
recursive function for this purpose; the lemmas about it are inductions over the
list. The cursor of a fork is not among these facts (section 6).

### The machine

`MachineEngineProofs` proves, for every machine, budget, clock and number of
turns, pokes and deaths (the named assumptions of MachineSpec and
MachineEngine):

* `TypeOKHolds`: `Spec => []TypeOK`
* `ReplayAcceptsHolds`: `Spec => []ReplayAccepts`
* `MemoryIsReplayHolds`: `Spec => []MemoryIsReplay`
* `SpendBookedOnceHolds`: `Spec => []SpendBookedOnce`
* `PokeKeptHolds`: `Spec => []PokeKept`
* `PokeFileDurableHolds`: `Spec => []PokeFileDurable`
* `WaitsItsTimeHolds`: `Spec => []WaitsItsTime`
* `WakeFixedHolds`: `Spec => WakeFixed`
* `FollowsPathHolds`: `Spec => FollowsPath`, the refinement of `MachinePath`

Everything the engine promises is about what a restart would read, and that is a
replay: a function folded over the journal. `MachineJournal` shows that the
replay is incremental. `AppendReplays`: an appended event leaves every earlier
position as it was and adds its own effect, by induction over the journal;
`AppendAccepted`: a journal that replays and has not ended still replays with an
event that fits where it leads. What a torn tail does is a lemma of its own
(`HealIsRead`): readers skip it and the next append removes it. The invariant is

    IInv == Recorded /\ Typed /\ Standing /\ Remembers /\ Observed
            /\ Committed /\ Paid /\ Kept /\ Timed

`Recorded`: the complete lines replay, each in time, their steps numbered from
zero. `Remembers`: the position in memory is the one the journal leads to, or one
step behind it once the step is written. `Observed`: the fact in the supervisor's
hands is one this position can have produced, and its spend, its wake and its
payload are those the files hold; this is what makes the step that is appended
fit. `Committed`: a wait's step is in the journal before its record and its claim
go. `Paid`: what is booked and what lies unbooked in the attempt's log is no more
than what was billed. `Kept`: every poke is replaced, in the signal file, claimed
or journaled. `Timed`: the armed wait is a full delay past the step that led to
it. `MemoryIsReplay` or `SpendBookedOnce` alone is not inductive: whether the next
append books a slice twice depends on the log a death three actions ago left.
For the refinement, the initial journal maps to the path's start, and each action
either writes no line (a stutter) or appends one, which by `AppendReplays` is the
path's step at the position replayed, within both budgets.

### The turn loop

`TurnLoopProofs` proves, for any number of turns, calls, questions, executions,
stops and failing writes:

* `IdsRunOnHolds`: `Spec => []IdsRunOn`
* `AnswersKeptHolds`: `Spec => AnswersKept`
* `LateToldOnceHolds`: `Spec => []LateToldOnce`
* `FinishHearsAnswersHolds`: `Spec => []FinishHearsAnswers`
* `CallsPairedHolds`: `Spec => []CallsPaired`
* `ToldWhatRanHolds`: `Spec => []ToldWhatRan`

The invariant comes in parts, each proved on top of the ones before it:

* `Numbered` (`NumberedInvariance`): every question of the model was asked inside
  an execution, the next number is above all the journal names, nothing is
  pending that was not asked. The journal is read as `carried_questions` reads
  it, so this carries over a death.
* `Delivering` (`DeliveringInvariance`): the answers in the journal are exactly
  those the conversation holds, those collected and not yet added and the one
  whose file is still there; outside a turn, what the snapshot holds and what
  the next execution owes are together all of them. An answer is in one of
  these and once, hence `LateToldOnce`.
* `Hearing`: where a turn may end the run, what was collected has been read.
* `Shaped` (`ShapedInvariance`): outside a turn the conversation matches calls
  and results one to one (`Matched`), inside it is such a conversation followed
  by the calls of this turn (`Hanging`), whose ids are new; so is the snapshot,
  and the marker's calls are in it only if it is a later turn's.
* `Remembered` and `Spoken` (`SpokenInvariance`): a call that ran and was not
  given up is in the conversation, in this turn or in the marker, and the marker
  is beside a snapshot of its turn from the first call on; every word said of a
  call, in the conversation, the snapshot, the marker or the results gathered so
  far, is true of it (`Fits`).

The counterexamples to weaker forms are the reason for the parts: a resume folds
the marker into the snapshot, so `CallsPaired` needs the marker's calls to be
absent from it, which needs that the marker goes before the next turn's calls;
a call told as interrupted is true only if its result was never recorded, which
needs that recording and marking a result are in that order.

### The session directory

`SessionLifeProofs` proves, for any number of processes, transcripts, stops,
prunings and other sessions (`SessionAssumption` only keeps the names apart):

* `OneWriterHolds`: `Spec => []OneWriter`
* `RecordedHolds`: `Spec => []RecordedWhileItRuns`
* `SparedHolds`: `Spec => SuccessorSpared`
* `RunOnHolds`: `Spec => SequencesRunOn`
* `PruneHolds`: `Spec => PruneMeetsNobody`

The locks carry the argument. `OneWriter` is not inductive: a worker at the
question before its execution must already hold the checkout. `SequencesRunOn`
needs that the number an owner read when it took the lock is still the highest
when it writes, although a pruning removes files. The strengthening is

    IInv == TypeOK /\ Locked /\ Guarded /\ RecordedWhileItRuns /\ Numbers

`Locked` says who holds which lock at which step; `Guarded` that a pruning holds
the writer's lock of an ended session from its first step to its last; `Numbers`
that the highest number ever used is in a file or in the receipt, in the receipt
once files go, and in the memory of whoever owns the session. `StepKeeps` is the
one lemma that carries a step of a single worker: `Steps` lists what it may do
to what it shares with the others, and each action is shown to be such a step
(`StartKeeps`, `ResumeKeeps`, `ExecuteKeeps`, `ChooseKeeps`). Three kinds of step
are not: the spawn of a background resume moves two workers (`SpawnKeeps`), a
model call writes a number (`CallKeeps`), the stop and the pruning move none
(`StopKeeps`, `PruneKeeps`). `Invariance` joins them. The three action properties
follow from it and from which actions touch what (`WorkersLeave`, `FilesChange`).

### The lanes

`LanesProofs` proves, for any number of tasks, lanes a task, groups, commits and
troubles (`LaneAssumption`):

* `HomeHolds`: `Spec => []WorkHasAHome`
* `StampsHold`: `Spec => []StampsTellTheChain`
* `NamesHold`: `Spec => NamesUsedOnce`
* `RestHolds`: `Spec => TakenAtRest`

    IInv == Shapes /\ (\A id \in Id : Kept(id)) /\ Counted /\ Stamped

`Kept` is said of one lane: at each place its thread, or an adopting merge, can
stand, what its process, its clone and its branch are by then. A thread that
imports has a lane that is gone, one that moves the directory has its commits on
the branch, so the clone it tears down is needed by nobody. `WorkHasAHome` alone
is not inductive: that the clone may go rests on a fetch three steps earlier.
`Counted` says that the lanes of groups still to come are idle, which is why a
name is used once; `Stamped` that the nodes of the group under way are open until
their own lanes have been tried, which is why a stamp cannot be contradicted by a
later join. `StepKeeps` carries the steps of one lane, one lemma each; the
dispatcher's steps are shown directly (`CountGroupKeeps`, `SpawnGroupKeeps`,
`JoinKeeps`, `StampKeeps`, ...). The two action properties follow from the
invariant and from which actions move a thread or a directory.

### The gates

`TaskTurnsProofs` proves, for any number of tasks, calls, requests and refusals
and any patience, the unbounded one too (`BoundsAssumption`, `InputAssumption`):

* `EndsHold`: `Spec => []EndsOverOpenWork`
* `GoalStands`: `Spec => []GoalHolds`
* `RetiringHolds`: `Spec => OperatorRetires`
* `BannerHolds`: `Spec => []BannerIsFrontier`

    IInv == Counters /\ Passed /\ EndsOverOpenWork /\ GoalHolds

A finish is judged some steps before it ends the run. `Passed` says that one
which stands in between has been through the refusals and has found the goal
with nothing to say; nothing in between edits the graph or gives patience back.
`JudgeSpends` is the fact about the goal's judgement: it lets an end go exactly
when the goal is not ready, the money is spent or more rounds than the patience
brought no work. `RetiringHolds` rests on another invariant, `Shaped` (every task
keeps its fields), and traces each mutation to the status it changes.

    Grounded == Shaped /\ Walkable(nodes) /\ surfaced = banner

`BannerHolds` is an invariant together with `Grounded`. A `Walkable` graph has
numbered tasks and lists of numbers, so that a place in the walk is a sequence of
numbers (`PlaceDigits`, an induction over the depth) and `Before` a strict order
of places (`BeforeIrreflexive`, `BeforeTransitive`). A finite set with such an
order has a task nothing comes before (`FiniteHasForemost`), so the frontier is a
ready task of the graph (`FrontierReady`). The walk looks at parents and lists
alone (`SamePlaces`) and readiness at whether a task is open, so marking the
frontier as taken up leaves it the frontier (`MarkedReady`, `FrontierStays`), and
the banner, posted for the task found before the mark, names the one found after.
The theorem does not need that only one task is foremost.

Model-checked only:

* All liveness: `WaitListens`, `StopEnds`, `StopTakes`, `NowEndsTheWait`. Fairness
  and ENABLED are out of the prover's reach.
* `OneGoal`, `LiveIffWorker`, `DeathLeavesTheLink` and the rest of section 6: the
  code does not keep them.

What is out of reach in general is induction stated with an operator as parameter
and RECURSIVE operators; the modules use neither.

## 5. What the models leave out

* Text: wording, rendering, templates, predicates, prompts, diffs.
* Git, commands, edits, networks and kernels: outcomes are chosen freely.
* Damage beyond a torn last line. Files written by rename are whole.
* In TurnLoop: plan mode (its finish does not wait for answers), ask mode,
  compaction, approvals and steer text; the numbered checkpoints, written just
  before the snapshot; a resume that is refused before it opens looks like a
  death there.
* In MachineEngine: what an agent does inside its state (that is one TurnLoop
  execution), preflight refusals before the lock, several instances (they share
  nothing).
* In TaskTurns: what a call does besides the graph, the verdicts of verify,
  review and metric gates, `split_task`, plan and ask mode.
* In SessionLife: the workspace lease, the pid of the network namespace, the
  claims of front-ends, shell hosts and machine-state sessions; what an
  execution does between its start and its end is one model call after another.
* In Lanes: the fan-out session of `run --parallel`, what an import carries back
  besides commits (memory and rulings), the resume of a lane, the clones of
  machine states; a snapshot that could not be saved before a death reuses a
  group's number; a plain stop whose marker could not be written waits for the
  lane without an end; the sweep looks and removes in one step.
* The components PROJECT.json lists as not modelled, each with its reason.

## 6. Disagreements met

Runs that show one, with the sentence it contradicts in PROJECT.json:

* task_goal: the model cannot retire a standing goal, but it can mark it failed
  and, once the operator has set another, take it up again: two goals are open
  (`tools/dag_tools.py:79`).
* session_handoff: a detached process whose background resume was refused clears
  `worker.pid` whoever it names by then (`app/execution.py:178`), so the session
  another resume runs reads as not live. `RecordedWhileItRuns` therefore ends
  with "or a hand-off gave up".
* lanes_orphan: the live-view link is made after the wait for the lane's log and
  dropped before the import has its lock; a coordinator that dies in either
  window leaves a finished lane no merge can adopt (`app/lanes.py:315`).

Definitions that state one and no run lists:

* after a failed append the same process reuses the lost number
  (`graph/curator.py:262` against its docstring at 166): add `"entry"` to the
  `Faults` of TaskGraph_forks.cfg and `LostNumberNeverReused` is violated.
* an append after a torn line joins it (`graph/storage.py:27`): `Faults =
  {"torn"}` violates `ReplayUntouched` there.
* in_progress moves the cursor without a set_cursor entry, so a fork at that
  version has another focus (`graph/curator.py:414`, `ForkKeepsCursor`).
* a start question asked by a resume after a death counts as the model's,
  because the journal has no end of the dead execution
  (`viewmodel/state.py:360` against `app/resume_questions.py:34`,
  `HarnessQuestionsLeftOut` in TurnLoop). The same inference has a milder effect:
  a start question rightly left out does not advance the numbering either, so
  two questions of agent6 itself can share an id across executions
  (`AnswerNamesOnePrompt`). The questions of the model never do (`IdsRunOn`).

Hazards that no property covers carry a note in PROJECT.json; chief among them
are operator requests drained before they are applied and a dependency of a task
on its own ancestor, which leaves both waiting.

## 7. Plan

Done: TaskGraph, MachineEngine with MachinePath, TurnLoop, TaskTurns,
SessionLife and Lanes, each with its proofs.

Next, in this order:

1. `LostNumberHolds` and the theorems after it under write faults, for the
   mutations that a fault did not touch.
2. TaskTurns over the curator of TaskGraph instead of an atomic one.
3. The verify gate: a verdict stale against the tree it was of. The provider
   calls: a retry racing a late answer, one refresh for many waiters. The
   `run --parallel` session. The run's detached chain against undo and merge.

To run a check: `tlc -config TurnLoop_again.cfg TurnLoop.tla`; a proof:
`tlapm SessionLifeProofs.tla`.
