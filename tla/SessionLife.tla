---------------------------- MODULE SessionLife ----------------------------
(***************************************************************************)
(* One run-mode session directory and the processes that meet in it: the   *)
(* workers of `agent6 run --session-id` and `agent6 resume`, the hand-off  *)
(* of a detached run to a background resume, `agent6 stop` and the pruning *)
(* of old artifacts.  Each step is one write or one read of the directory  *)
(* (manifest.json, worker.pid, worker.lock, the checkout's lock, the log,  *)
(* stop.request, transcripts/, pruned.json).  A process may die anywhere;  *)
(* the kernel then releases its locks and nothing else.                    *)
(***************************************************************************)
EXTENDS Integers, FiniteSets, FiniteSetsExt

CONSTANTS
    Proc,       \* the processes that may be launched, each once
    None,       \* nobody holds, is recorded or aimed at
    MaxSeq,     \* bound: transcripts written
    MaxStops,   \* bound: `agent6 stop` commands
    MaxPrunes,  \* bound: prunings that find the session old enough
    Outsiders   \* the other sessions whose workers want this checkout

Pruner == "pruner"

ASSUME SessionAssumption ==
    /\ None \notin Proc \cup Outsiders \cup {Pruner}
    /\ Pruner \notin Proc
    /\ Proc \cap Outsiders = {}
    /\ {MaxSeq, MaxStops, MaxPrunes} \subseteq Nat

VARIABLES
    manifest,     \* manifest.json: "absent", "parked" or "made" (no park in it)
    workerPid,    \* worker.pid: the process it names
    stopRequest,  \* stop.request: {} when absent, else None and the processes it is meant to reach
    log,          \* what a scan of logs.jsonl says: started, finished
    transcripts,  \* the sequence numbers in transcripts/
    watermark,    \* last_transcript_seq of pruned.json
    writer,       \* who holds worker.lock
    checkout,     \* who holds the checkout's lock
    worker,       \* each process: where it is and what it remembers
    stop,         \* the `agent6 stop` under way
    prune,        \* the pruning under way
    top           \* observer: the highest sequence number ever written

record == <<log, transcripts, watermark, top>>
locks == <<writer, checkout>>
commands == <<stop, prune>>
vars == <<manifest, workerPid, stopRequest, record, locks, worker, commands>>

\* Where a worker owns the session directory, and where it is past owning it.
Owning == {"scanning", "deciding", "settling", "writing", "recording", "starting", "preflight",
           "ready", "unparked", "asking", "running", "ended", "cleared", "letting go"}
HandingOff == {"detached", "handing", "failed"}

\* Where it has yet to sweep the markers of the executions before it.
Unswept == {"checking", "claiming", "settling", "reading", "locking", "scanning"}

At(pc) == [pc |-> pc, parked |-> FALSE, child |-> None, seq |-> 0]

Live(p) == p \in Proc /\ worker[p].pc \notin {"idle", "gone", "gave up"}

Goes(p, from, to) ==
    /\ worker[p].pc = from
    /\ worker' = [worker EXCEPT ![p] = IF to = "gone" THEN At(to) ELSE [@ EXCEPT !.pc = to]]

Released(lock, p) == IF lock = p THEN None ELSE lock

\* The identity worker.pid records, when it still names a live process.
LiveWorker == IF Live(workerPid) THEN workerPid ELSE None

\* The status words running, starting and waiting.
SessionIsLive == ~log.finished /\ LiveWorker # None

LastSequence == Max({watermark} \cup transcripts)

----------------------------------------------------------------------------
\* `agent6 run --session-id`, and what resume hands a parked task to.

LaunchRun(p) ==
    /\ Goes(p, "idle", "checking")
    /\ UNCHANGED <<manifest, workerPid, stopRequest, record, locks, commands>>

\* An id with a manifest is taken, unless its task is still parked.
CheckId(p) ==
    /\ Goes(p, "checking", IF manifest = "made" THEN "gone" ELSE "claiming")
    /\ UNCHANGED <<manifest, workerPid, stopRequest, record, locks, commands>>

\* Mutant: a run of a parked task goes on under the lock it believes resume handed it.
MayOwnParked(p) == writer = None \/ manifest = "parked"

MayOwn(p) == writer = None

\* Mutant: a busy lock is met inside the block whose exit clears worker.pid.
BusyTornDown == "ended"

Busy == "gone"

Claim(p, from, to) ==
    /\ Goes(p, from, IF MayOwn(p) THEN to ELSE Busy)
    /\ writer' = IF MayOwn(p) THEN p ELSE writer
    /\ UNCHANGED <<manifest, workerPid, stopRequest, record, checkout, commands>>

\* The sweep keeps a marker written since this process was launched.
Kept(p) == IF p \in stopRequest THEN stopRequest ELSE {}

Settle(p) ==
    /\ worker[p].pc = "settling"
    /\ stopRequest' = Kept(p)
    /\ worker' = [worker EXCEPT ![p] = [@ EXCEPT !.pc = "writing", !.seq = LastSequence]]
    /\ UNCHANGED <<manifest, workerPid, record, locks, commands>>

\* write_session_manifest makes a manifest without a park; stamp_parked puts it back.
WriteManifest(p) ==
    /\ worker[p].pc = "writing"
    /\ manifest' = "made"
    /\ worker' = [worker EXCEPT ![p] = [@ EXCEPT !.pc = "recording", !.parked = manifest = "parked"]]
    /\ UNCHANGED <<workerPid, stopRequest, record, locks, commands>>

RestorePark(p) ==
    /\ worker[p].pc = "recording" /\ worker[p].parked
    /\ manifest' = "parked"
    /\ worker' = [worker EXCEPT ![p].parked = FALSE]
    /\ UNCHANGED <<workerPid, stopRequest, record, locks, commands>>

RecordPid(p) ==
    /\ ~worker[p].parked
    /\ Goes(p, "recording", "starting") \/ (log.started /\ Goes(p, "preflight", "asking"))
    /\ workerPid' = p
    /\ UNCHANGED <<manifest, stopRequest, record, locks, commands>>

TakeCheckout(p) ==
    /\ checkout = None
    /\ \/ Goes(p, "starting", "ready")
       \/ worker[p].parked = FALSE /\ Goes(p, "deciding", "preflight")
    /\ checkout' = p
    /\ UNCHANGED <<manifest, workerPid, stopRequest, record, writer, commands>>

\* A busy checkout, or the operator at the question about the tree, parks a run.
Park(p) ==
    /\ (checkout # None /\ Goes(p, "starting", "ended")) \/ Goes(p, "ready", "ended")
    /\ manifest' = "parked"
    /\ UNCHANGED <<workerPid, stopRequest, record, locks, commands>>

\* The set-up of an execution fails: a parked run stays parked, any other journals an end.
FailBeforeStart(p) ==
    /\ Goes(p, "ready", "ended") \/ Goes(p, "unparked", "ended") \/ Goes(p, "asking", "ended")
    /\ log' = [log EXCEPT !.finished = @ \/ manifest # "parked"]
    /\ UNCHANGED <<manifest, workerPid, stopRequest, transcripts, watermark, top, locks, commands>>

Unpark(p) ==
    /\ Goes(p, "ready", "unparked")
    /\ manifest' = "made"
    /\ UNCHANGED <<workerPid, stopRequest, record, locks, commands>>

----------------------------------------------------------------------------
\* `agent6 resume`.

LaunchResume(p) ==
    /\ Goes(p, "idle", "reading")
    /\ UNCHANGED <<manifest, workerPid, stopRequest, record, locks, commands>>

\* The manifest is read before the lock is taken, and decides after it.
ReadManifest(p) ==
    /\ worker[p].pc = "reading"
    /\ worker' = [worker EXCEPT ![p] = [@ EXCEPT !.pc = IF manifest = "absent" THEN "gone" ELSE "locking",
                                                 !.parked = manifest = "parked"]]
    /\ UNCHANGED <<manifest, workerPid, stopRequest, record, locks, commands>>

\* An ended session needs new work; the refusal leaves worker.pid alone.
RefuseEnded(p) ==
    /\ log.finished
    /\ Goes(p, "scanning", "gone")
    /\ writer' = None
    /\ UNCHANGED <<manifest, workerPid, stopRequest, record, checkout, commands>>

Scan(p) ==
    /\ worker[p].pc = "scanning"
    /\ stopRequest' = Kept(p)
    /\ worker' = [worker EXCEPT ![p] = [@ EXCEPT !.pc = "deciding", !.seq = LastSequence]]
    /\ UNCHANGED <<manifest, workerPid, record, locks, commands>>

\* A parked task: the lock is given up and the run takes it again itself.
HandToRun(p) ==
    /\ worker[p].parked
    /\ worker' = [worker EXCEPT ![p] = [@ EXCEPT !.pc = "checking", !.parked = FALSE]]
    /\ worker[p].pc = "deciding"
    /\ writer' = None
    /\ UNCHANGED <<manifest, workerPid, stopRequest, record, checkout, commands>>

\* Refused inside the block that tears down: the tree cannot be asked about, the checkout is
\* busy, no turn was ever reached, the tree diverged, the configuration is wrong.
Refuse(p) ==
    /\ \/ Goes(p, "writing", "ended") \/ Goes(p, "preflight", "ended")
       \/ (worker[p].parked \/ checkout # None) /\ Goes(p, "deciding", "ended")
    /\ UNCHANGED <<manifest, workerPid, stopRequest, record, locks, commands>>

----------------------------------------------------------------------------
\* An execution, its end, and the teardown of both commands.

EmitStart(p) ==
    /\ Goes(p, "unparked", "running") \/ Goes(p, "asking", "running")
    /\ workerPid' = p
    /\ log' = [started |-> TRUE, finished |-> FALSE]
    /\ UNCHANGED <<manifest, stopRequest, transcripts, watermark, top, locks, commands>>

CallModel(p) ==
    /\ worker[p].pc = "running" /\ worker[p].seq < MaxSeq
    /\ worker' = [worker EXCEPT ![p].seq = @ + 1]
    /\ transcripts' = transcripts \cup {worker[p].seq + 1}
    /\ top' = Max({top, worker[p].seq + 1})
    /\ UNCHANGED <<manifest, workerPid, stopRequest, log, watermark, locks, commands>>

\* A finish, a failure or a stop: run_execution's own teardown drops the stop marker.
EndExecution(p) ==
    /\ Goes(p, "running", "ended")
    /\ log' = [log EXCEPT !.finished = TRUE]
    /\ stopRequest' = {}
    /\ UNCHANGED <<manifest, workerPid, transcripts, watermark, top, locks, commands>>

Finish(p) == EndExecution(p)
SeeStop(p) == stopRequest # {} /\ EndExecution(p)

Detach(p) ==
    /\ Goes(p, "running", "letting go")
    /\ stopRequest' = {}
    /\ UNCHANGED <<manifest, workerPid, record, locks, commands>>

ClearPid(p) ==
    /\ Goes(p, "ended", "cleared")
    /\ workerPid' = None
    /\ UNCHANGED <<manifest, stopRequest, record, locks, commands>>

ReleaseLocks(p) ==
    /\ Goes(p, "cleared", "gone") \/ Goes(p, "letting go", "detached")
    /\ writer' = Released(writer, p)
    /\ checkout' = Released(checkout, p)
    /\ UNCHANGED <<manifest, workerPid, stopRequest, record, commands>>

\* The operator has said how prompts are answered meanwhile; a background resume is spawned.
SpawnResume(p, q) ==
    /\ worker[p].pc = "detached" /\ worker[q].pc = "idle"
    /\ worker' = [worker EXCEPT ![p] = [@ EXCEPT !.pc = "handing", !.child = q],
                                ![q] = [@ EXCEPT !.pc = "reading"]]
    /\ UNCHANGED <<manifest, workerPid, stopRequest, record, locks, commands>>

\* The child's pid is the recorded one, or the child has come and gone with exit code 0.
HandedOver(p) ==
    /\ workerPid = worker[p].child \/ (log.finished /\ ~Live(worker[p].child))
    /\ Goes(p, "handing", "gone")
    /\ UNCHANGED <<manifest, workerPid, stopRequest, record, locks, commands>>

\* The spawn fails, the child exits with a refusal, or the wait runs out.
HandoffFails(p) ==
    /\ \/ Goes(p, "detached", "failed")
       \/ workerPid # worker[p].child /\ Goes(p, "handing", "failed")
    /\ UNCHANGED <<manifest, workerPid, stopRequest, record, locks, commands>>

ClearAfterFailure(p) ==
    /\ Goes(p, "failed", "gave up")
    /\ workerPid' = None
    /\ UNCHANGED <<manifest, stopRequest, record, locks, commands>>

\* Ctrl-C, or the SIGTERM of a stop, before the execution: the command's own teardown.
Interrupted(p) ==
    /\ \E at \in Owning \ {"scanning", "unparked", "running", "ended", "cleared", "letting go"} :
          Goes(p, at, "ended")
    /\ UNCHANGED <<manifest, workerPid, stopRequest, record, locks, commands>>

Dies(p) ==
    /\ Live(p)
    /\ worker' = [worker EXCEPT ![p] = At("gone")]
    /\ writer' = Released(writer, p)
    /\ checkout' = Released(checkout, p)
    /\ UNCHANGED <<manifest, workerPid, stopRequest, record, commands>>

----------------------------------------------------------------------------
\* `agent6 stop`.

StopLooks ==
    /\ stop.pc = "none" /\ stop.left > 0 /\ SessionIsLive
    /\ stop' = [stop EXCEPT !.pc = "looked", !.left = @ - 1]
    /\ UNCHANGED <<manifest, workerPid, stopRequest, record, locks, worker, prune>>

StopAims ==
    /\ stop.pc = "looked"
    /\ stop' = [stop EXCEPT !.pc = "aimed", !.target = LiveWorker]
    /\ UNCHANGED <<manifest, workerPid, stopRequest, record, locks, worker, prune>>

StopAsks ==
    /\ stop.pc = "aimed"
    /\ stopRequest' = {None} \cup {p \in Proc : worker[p].pc \in Unswept}
    /\ stop' = [stop EXCEPT !.pc = "waiting"]
    /\ UNCHANGED <<manifest, workerPid, record, locks, worker, prune>>

StopOver == [stop EXCEPT !.pc = "none", !.target = None]

\* The run ended, or its worker changed.
StopSeesEnd ==
    /\ stop.pc = "waiting"
    /\ ~SessionIsLive \/ LiveWorker # stop.target
    /\ stop' = StopOver
    /\ UNCHANGED <<manifest, workerPid, stopRequest, record, locks, worker, prune>>

\* Mutant: the kill reads worker.pid again.
VictimNow == LiveWorker

Victim == stop.target

\* The wait ran out: SIGTERM, and after the grace SIGKILL.
StopTerms ==
    /\ stop.pc = "waiting"
    /\ stop' = IF Live(Victim) THEN [stop EXCEPT !.pc = "termed"] ELSE StopOver
    /\ UNCHANGED <<manifest, workerPid, stopRequest, record, locks, worker, prune>>

\* Mutant: SIGTERM is all there is.
OutlivesGraceNever == FALSE

OutlivesGrace == Live(Victim)

StopKills ==
    /\ stop.pc = "termed"
    /\ stop' = StopOver
    /\ IF OutlivesGrace
       THEN /\ worker' = [worker EXCEPT ![Victim] = At("gone")]
            /\ writer' = Released(writer, Victim)
            /\ checkout' = Released(checkout, Victim)
       ELSE UNCHANGED <<worker, locks>>
    /\ UNCHANGED <<manifest, workerPid, stopRequest, record, prune>>

----------------------------------------------------------------------------
\* `agent6 sessions prune`, and the rest of the checkout.

\* Mutant: the lock is not taken.
PrunableUnlocked == writer \in Proc \cup {None} /\ log.finished

\* Asked under worker.lock.
Prunable == writer = None /\ log.finished /\ LiveWorker = None

PruneBegins ==
    /\ prune.pc = "none" /\ prune.left > 0
    /\ Prunable /\ transcripts # {}
    /\ writer' = Pruner
    /\ prune' = [pc |-> "marking", left |-> prune.left - 1]
    /\ UNCHANGED <<manifest, workerPid, stopRequest, record, checkout, worker, stop>>

\* Mutant: the receipt keeps the highest sequence of the files alone.
MarkOfFiles == Max(transcripts)

Mark == LastSequence

PruneMarks ==
    /\ prune.pc = "marking"
    /\ watermark' = Mark
    /\ prune' = [prune EXCEPT !.pc = "removing"]
    /\ UNCHANGED <<manifest, workerPid, stopRequest, log, transcripts, top, locks, worker, stop>>

PruneRemoves ==
    /\ prune.pc = "removing"
    /\ \E n \in transcripts : transcripts' = transcripts \ {n}
    /\ UNCHANGED <<manifest, workerPid, stopRequest, log, watermark, top, locks, worker, commands>>

\* Done, failed half way, or dead.
PruneEnds ==
    /\ prune.pc # "none"
    /\ prune' = [prune EXCEPT !.pc = "none"]
    /\ writer' = Released(writer, Pruner)
    /\ UNCHANGED <<manifest, workerPid, stopRequest, record, checkout, worker, stop>>

OtherWorker(o) ==
    /\ \/ checkout = None /\ checkout' = o
       \/ checkout = o /\ checkout' = None
    /\ UNCHANGED <<manifest, workerPid, stopRequest, record, writer, worker, commands>>

----------------------------------------------------------------------------
Init ==
    /\ manifest = "absent" /\ workerPid = None /\ stopRequest = {}
    /\ log = [started |-> FALSE, finished |-> FALSE]
    /\ transcripts = {} /\ watermark = 0 /\ top = 0
    /\ writer = None /\ checkout = None
    /\ worker = [p \in Proc |-> At("idle")]
    /\ stop = [pc |-> "none", left |-> MaxStops, target |-> None]
    /\ prune = [pc |-> "none", left |-> MaxPrunes]

\* What a process does of itself once launched, and what it may meet instead.
Start(p) ==
    \/ CheckId(p) \/ Claim(p, "claiming", "settling") \/ Settle(p) \/ WriteManifest(p)
    \/ RestorePark(p) \/ RecordPid(p) \/ TakeCheckout(p) \/ Park(p) \/ Unpark(p)
Resume(p) ==
    \/ ReadManifest(p) \/ Claim(p, "locking", "scanning") \/ RefuseEnded(p) \/ Scan(p)
    \/ HandToRun(p) \/ Refuse(p)
Execute(p) ==
    \/ FailBeforeStart(p) \/ EmitStart(p) \/ SeeStop(p) \/ ClearPid(p) \/ ReleaseLocks(p)
    \/ HandedOver(p) \/ HandoffFails(p) \/ ClearAfterFailure(p)
    \/ \E q \in Proc : SpawnResume(p, q)
Choose(p) ==
    LaunchRun(p) \/ LaunchResume(p) \/ CallModel(p) \/ Finish(p) \/ Detach(p) \/ Interrupted(p) \/ Dies(p)
StopCommand ==
    StopLooks \/ StopAims \/ StopAsks \/ StopSeesEnd \/ StopTerms \/ StopKills
PruneCommand == PruneBegins \/ PruneMarks \/ PruneRemoves \/ PruneEnds

Next ==
    \/ \E p \in Proc : Start(p) \/ Resume(p) \/ Execute(p) \/ Choose(p)
    \/ StopCommand \/ PruneCommand
    \/ \E o \in Outsiders : OtherWorker(o)

Spec == Init /\ [][Next]_vars

\* The stop command goes on; nothing is asked of the workers, which may hang.
Fairness == WF_vars(StopCommand)

FairSpec == Spec /\ Fairness

----------------------------------------------------------------------------
\* Every variable keeps its type.
TypeOK ==
    /\ manifest \in {"absent", "parked", "made"}
    /\ workerPid \in Proc \cup {None}
    /\ stopRequest \in SUBSET (Proc \cup {None})
    /\ log \in [started : BOOLEAN, finished : BOOLEAN]
    /\ transcripts \subseteq 1 .. MaxSeq
    /\ {watermark, top} \subseteq 0 .. MaxSeq
    /\ writer \in Proc \cup {None, Pruner}
    /\ checkout \in Proc \cup Outsiders \cup {None}
    /\ worker \in [Proc -> [pc : Owning \cup HandingOff \cup
                            {"idle", "checking", "claiming", "reading", "locking", "gone", "gave up"},
                            parked : BOOLEAN, child : Proc \cup {None}, seq : 0 .. MaxSeq]]
    /\ stop \in [pc : {"none", "looked", "aimed", "waiting", "termed"}, left : 0 .. MaxStops,
                 target : Proc \cup {None}]
    /\ prune \in [pc : {"none", "marking", "removing"}, left : 0 .. MaxPrunes]

Runs(p) == worker[p].pc = "running"

\* A detached process cleared worker.pid because its child did not take the run over.
HandoffGaveUp == \E q \in Proc : worker[q].pc = "gave up"

\* One writer per session directory and per checkout, across every hand-off of the lock: who
\* is past acquire_single_writer holds worker.lock, who drives holds the checkout too.
OneWriter ==
    \A p \in Proc :
        /\ worker[p].pc \in Owning => writer = p
        /\ Runs(p) => checkout = p

\* Nobody else's teardown takes the record of a worker between its start and its end: only a
\* hand-off that failed after the locks were released does.
RecordedWhileItRuns ==
    \A p \in Proc : Runs(p) => workerPid = p \/ HandoffGaveUp

\* What the status of a session says of worker.pid: a started session is live iff its worker is.
LiveIffWorker == \A p \in Proc : Runs(p) => SessionIsLive

\* A stop kills the worker it read before it asked, never one that took the session over since.
SuccessorSpared ==
    [][\A p \in Proc :
         stop.pc = "termed" /\ stop'.pc = "none" /\ Live(p) /\ ~Live(p)' => p = stop.target]_vars

\* No transcript is written under a number an earlier one had, pruned or not.
SequencesRunOn == [][\A n \in transcripts' \ transcripts : n > top]_vars

\* A pruning never meets an execution: nothing is removed but of an ended session nobody drives.
PruneMeetsNobody ==
    [][transcripts' # transcripts /\ transcripts' \subseteq transcripts =>
         log.finished /\ \A p \in Proc : worker[p].pc \notin Owning]_vars

\* A stop that read a running worker's identity gets it off the session, hung or not.
StopTakes ==
    \A p \in Proc :
        (stop.pc = "waiting" /\ stop.target = p /\ Runs(p)) ~> (~Runs(p) \/ HandoffGaveUp)

============================================================================
