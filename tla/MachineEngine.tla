-------------------------- MODULE MachineEngine --------------------------
(***************************************************************************)
(* One machine instance: the supervisor that drives it (app/machine/run.py,*)
(* machine/engine.py, machine/execution.py), its durable files             *)
(* (machine/journal.py), the operator's poke and stop, and the clock.      *)
(*                                                                         *)
(* The supervisor holds the instance's flock from start to exit, so there  *)
(* is one of it; `pc' is where it stands between two durable writes.  It   *)
(* can die anywhere, an append half way included, and a later `machine     *)
(* run' starts from the files alone.                                       *)
(***************************************************************************)
EXTENDS MachineSpec

CONSTANTS
    MaxTurns,     \* bound: the most one agent attempt may spend
    MaxPokes,     \* bound: how often the operator pokes
    MaxCrashes,   \* bound: how often the supervisor dies
    MaxTime       \* bound: the last instant of the clock

ASSUME BoundAssumption == {MaxTurns, MaxPokes, MaxCrashes, MaxTime} \subseteq Nat

VARIABLES
    journal,   \* journal.jsonl, a torn last line included
    wait,      \* wait.json
    signal,    \* signal: the poke no wait has claimed
    claim,     \* signal.consuming: the poke a wait claimed
    pokeFile,  \* data/poke.json
    stop,      \* stop: the marker
    log,       \* the newest state log under states/, with its running total
    snapshot,  \* the newest snapshot
    pc,        \* where the supervisor stands; "down" when there is none
    patient,   \* it blocks on waits (no --exit-on-wait)
    pos,       \* its position: state, blackboard, transitions, spend
    fact,      \* the fact in its hands
    now,       \* the clock
    billed,    \* what every agent attempt has spent
    poked,     \* the last poke's payload
    replaced,  \* pokes a later poke replaced before a wait claimed them
    crashes    \* how often the supervisor died

files == <<journal, wait, signal, claim, pokeFile, stop, log, snapshot>>
process == <<pc, patient, pos, fact>>
ghosts == <<billed, poked, replaced, crashes>>
vars == <<files, process, now, ghosts>>

NoWait == [state |-> Start, seq |-> -1, wake |-> NoWake]
NoLog == [seq |-> -1, usd |-> 0]
NoFact == FactOf("branch", "else")

-----------------------------------------------------------------------------
(* The journal.                                                            *)

Torn == [type |-> "torn"]
Begin == [type |-> "begin"]
Notify(s) == [type |-> "notify", state |-> s]
AttemptSpend(seq, usd) == [type |-> "spend", seq |-> seq, usd |-> usd]
StepEvent(p, f) ==
    [type |-> "step", ts |-> now, seq |-> p.transitions, state |-> p.state, label |-> f.label,
     goto |-> Machine[p.state].on[f.label], fact |-> f]
MachineEnd(p, status, usd) ==
    [type |-> "end", status |-> status, state |-> p.state, transitions |-> p.transitions,
     usd |-> usd]

EndsTorn(j) == j # <<>> /\ j[Len(j)] = Torn

\* A reader drops an unfinished last line.
Read(j) == IF EndsTorn(j) THEN SubSeq(j, 1, Len(j) - 1) ELSE j

\* Mutant: the unfinished line is left where it is.
HealNothing(j) == j

\* An append first truncates an unfinished last line off.
HealTornTail(j) == IF EndsTorn(j) THEN SubSeq(j, 1, Len(j) - 1) ELSE j

Write(e) == journal' = Append(HealTornTail(journal), e)

IsType(e, type) == e.type = type
Ended(j) == Read(j) # <<>> /\ IsType(Read(j)[Len(Read(j))], "end")

\* What one event does to a position.
Effect(p, e) ==
    CASE IsType(e, "step") -> After(p, e.fact)
      [] IsType(e, "spend") -> [p EXCEPT !.spent = @ + e.usd]
      [] OTHER -> p

\* The position the first n events lead to.
PositionsOf(j) ==
    LET p[n \in 0..Len(j)] == IF n = 0 THEN StartPosition ELSE Effect(p[n - 1], j[n])
    IN  p

Rebuild(j) == PositionsOf(j)[Len(j)]

\* Mutant: the snapshot stands in for the journal.
RecoverSnapshot(j) == snapshot

Recover(j) == Rebuild(Read(j))

StepSeqs(j) == {j[i].seq : i \in {k \in DOMAIN j : IsType(j[k], "step")}}

-----------------------------------------------------------------------------
(* `machine run` up to the drive.                                          *)

Goto(label) == pc' = label
Exit == pc' = "down" /\ pos' = StartPosition /\ fact' = NoFact /\ patient' = TRUE

\* An ended instance is refused; a leftover stop marker is dropped.
RunMachine ==
    /\ pc = "down"
    /\ ~Ended(journal)
    /\ stop' = FALSE
    /\ patient' \in BOOLEAN
    /\ Goto("booking")
    /\ UNCHANGED <<journal, wait, signal, claim, pokeFile, log, snapshot, pos, fact, now, ghosts>>

\* Mutant: a log is orphaned even when its step was journaled.
OrphanedAlways(l) == l.seq # NoLog.seq

\* The newest state log belongs to an attempt with no step.
Orphaned(l) == l.seq # NoLog.seq /\ l.seq \notin StepSeqs(Read(journal))

\* The orphan's log is renamed out of the way before its spend is journaled.
RetireLog ==
    /\ pc = "booking"
    /\ IF Orphaned(log)
       THEN /\ log' = NoLog
            /\ fact' = [NoFact EXCEPT !.usd = log.usd, !.wake = log.seq]
            /\ Goto("retired")
       ELSE UNCHANGED <<log, fact>> /\ Goto("starting")
    /\ UNCHANGED <<journal, wait, signal, claim, pokeFile, stop, snapshot, patient, pos, now, ghosts>>

BookCrashedAttempt ==
    /\ pc = "retired"
    /\ IF fact.usd > 0 THEN Write(AttemptSpend(fact.wake, fact.usd)) ELSE UNCHANGED journal
    /\ fact' = NoFact
    /\ Goto("starting")
    /\ UNCHANGED <<wait, signal, claim, pokeFile, stop, log, snapshot, patient, pos, now, ghosts>>

\* The journal is replayed; a fresh instance's is begun.
Drive ==
    /\ pc = "starting"
    /\ IF Read(journal) = <<>> THEN Write(Begin) ELSE UNCHANGED journal
    /\ pos' = Recover(journal)
    /\ Goto("boundary")
    /\ UNCHANGED <<wait, signal, claim, pokeFile, stop, log, snapshot, patient, fact, now, ghosts>>

-----------------------------------------------------------------------------
(* One iteration of the live loop.                                         *)

Here == Machine[pos.state]

\* Mutant: any record of this state will do, an earlier visit's too.
ParkedInState == wait # NoWait /\ wait.state = pos.state

\* Mutant: every entry arms the wait anew.
ParkedNever == FALSE

\* The wait of this very visit is armed already.
Parked == wait.state = pos.state /\ wait.seq = pos.transitions

StopAtBoundary ==
    /\ pc = "boundary"
    /\ stop
    /\ stop' = FALSE
    /\ Exit
    /\ UNCHANGED <<journal, wait, signal, claim, pokeFile, log, snapshot, now, ghosts>>

Enter ==
    /\ pc = "boundary"
    /\ ~stop
    /\ IF Here.notify /\ ~(Here.kind = "wait" /\ Parked)
       THEN Write(Notify(pos.state)) ELSE UNCHANGED journal
    /\ Goto("entered")
    /\ UNCHANGED <<wait, signal, claim, pokeFile, stop, log, snapshot, patient, pos, fact, now, ghosts>>

EndWith(status, usd) ==
    /\ Write(MachineEnd(pos, status, usd))
    /\ UNCHANGED <<wait, signal, claim, pokeFile, stop, log, snapshot, now, ghosts>>

EndTerminal ==
    /\ pc = "entered"
    /\ IsTerminal(pos.state)
    /\ EndWith(Here.status, 0)
    /\ Goto("ended")
    /\ UNCHANGED <<patient, pos, fact>>

EndSnapshot ==
    /\ pc = "ended"
    /\ snapshot' = pos
    /\ Exit
    /\ UNCHANGED <<journal, wait, signal, claim, pokeFile, stop, log, now, ghosts>>

\* Mutant: the cap itself may still be spent.
OverBudgetLate(p) == p.transitions >= MaxTransitions \/ p.spent > MaxUsd

OverBudget(p) == p.transitions >= MaxTransitions \/ p.spent >= MaxUsd

EndOverBudget ==
    /\ pc = "entered"
    /\ ~IsTerminal(pos.state)
    /\ OverBudget(pos)
    /\ EndWith("failed", 0)
    /\ Exit

Executing(kind) ==
    /\ pc = "entered"
    /\ ~OverBudget(pos)
    /\ Here.kind = kind

\* A template or a predicate of the state does not evaluate on this board.
EndUnrenderable ==
    /\ \E kind \in Kind \ {"terminal"} : Executing(kind)
    /\ Here.kind = "wait" => ~Parked /\ Here.delay > 0
    /\ EndWith("failed", 0)
    /\ Exit

Observe(f) ==
    /\ fact' = f
    /\ Goto(IF f.payload # NoPoke THEN "observed" ELSE "delivered")

RunTool ==
    /\ Executing("tool")
    /\ \/ \E v \in Value \cup {Bad} : Observe([FactOf("tool", "ok") EXCEPT !.value = v])
       \/ \E l \in {"nonzero", "timeout"} : Observe(FactOf("tool", l))
    /\ UNCHANGED <<files, patient, pos, now, ghosts>>

TakeBranch ==
    /\ Executing("branch")
    /\ Observe(FactOf("branch", RouteBranch(pos.state, pos.board)))
    /\ UNCHANGED <<files, patient, pos, now, ghosts>>

\* An agent attempt starts its own log, named for the transition.
StartAgent ==
    /\ Executing("agent")
    /\ log' = [seq |-> pos.transitions, usd |-> 0]
    /\ Goto("running")
    /\ UNCHANGED <<journal, wait, signal, claim, pokeFile, stop, snapshot, patient, pos, fact, now, ghosts>>

\* Each turn logs the attempt's running total.
AgentTurn ==
    /\ pc = "running"
    /\ log.usd < MaxTurns
    /\ log' = [log EXCEPT !.usd = @ + 1]
    /\ billed' = billed + 1
    /\ UNCHANGED <<journal, wait, signal, claim, pokeFile, stop, snapshot, process, now,
                   poked, replaced, crashes>>

AgentDone ==
    /\ pc = "running"
    /\ \/ \E v \in Value \cup {Bad} :
             Observe([FactOf("agent", "ok") EXCEPT !.value = v, !.usd = log.usd])
       \/ \E l \in {"failed", "budget_exhausted", "timeout"} :
             Observe([FactOf("agent", l) EXCEPT !.usd = log.usd])
    /\ UNCHANGED <<files, patient, pos, now, ghosts>>

-----------------------------------------------------------------------------
(* Waiting.                                                                *)

\* The absolute instant is on disk before anything waits for it.
ArmWait ==
    /\ Executing("wait")
    /\ wait' = IF Parked THEN wait
               ELSE [state |-> pos.state, seq |-> pos.transitions,
                     wake |-> IF Here.delay = 0 THEN NoWake ELSE now + Here.delay]
    /\ Goto("waiting")
    /\ UNCHANGED <<journal, signal, claim, pokeFile, stop, log, snapshot, patient, pos, fact, now, ghosts>>

\* Mutant: a new poke is renamed over the claim.
ClaimedNewest(s, c) == IF s # NoPoke THEN s ELSE c

\* Mutant: only an unacked claim is looked for.
ClaimedOld(s, c) == c

\* An unacked claim goes first; only without one is the signal renamed to it.
Claimed(s, c) == IF c # NoPoke THEN c ELSE s

WaitFact(woke, payload) ==
    [FactOf("wait", woke) EXCEPT !.wake = wait.wake, !.payload = payload]

TakeSignal ==
    /\ pc = "waiting"
    /\ LET payload == Claimed(signal, claim)
       IN  IF payload = NoPoke
           THEN UNCHANGED <<signal, claim, fact>> /\ Goto("unsignaled")
           ELSE /\ claim' = payload
                /\ signal' = IF payload = claim THEN signal ELSE NoPoke
                /\ Observe(WaitFact("signal", payload))
    /\ UNCHANGED <<journal, wait, pokeFile, stop, log, snapshot, patient, pos, now, ghosts>>

\* Mutant: a sleeping wait looks for pokes only.
StopUnseen == FALSE

\* A blocking wait looks for a stop after a poke and before the clock.
StopSeen == patient /\ stop

StopWait ==
    /\ pc = "unsignaled"
    /\ StopSeen
    /\ stop' = FALSE
    /\ Exit
    /\ UNCHANGED <<journal, wait, signal, claim, pokeFile, log, snapshot, now, ghosts>>

Due == wait.wake # NoWake /\ now >= wait.wake

Tick ==
    /\ pc = "unsignaled"
    /\ ~StopSeen
    /\ Due
    /\ Observe(WaitFact("tick", NoPoke))
    /\ UNCHANGED <<files, patient, pos, now, ghosts>>

KeepSleeping ==
    /\ pc = "unsignaled"
    /\ patient
    /\ ~StopSeen
    /\ ~Due
    /\ Goto("waiting")
    /\ UNCHANGED <<files, patient, pos, fact, now, ghosts>>

\* --exit-on-wait: the wait stays armed for the next invocation.
Yield ==
    /\ pc = "unsignaled"
    /\ ~patient
    /\ ~Due
    /\ Exit
    /\ UNCHANGED <<files, now, ghosts>>

-----------------------------------------------------------------------------
(* From the observation to the next state.                                 *)

\* Mutant: the payload is kept for later.
PokeFileUnwritten(f) == pokeFile

\* The payload the next tool reads.
PokeFile(f) == f.payload

\* On disk before the step that delivers it.
MaterializePoke ==
    /\ pc = "observed"
    /\ pokeFile' = PokeFile(fact)
    /\ Goto("delivered")
    /\ UNCHANGED <<journal, wait, signal, claim, stop, log, snapshot, patient, pos, fact, now, ghosts>>

\* A fact that cannot be reduced ends the machine; an agent's spend rides on the end.
\* Mutant: the step is journaled without trying its capture.
TakenOnTrust == TRUE

\* `reduce' is tried on the fact before its step is journaled.
Tried == Reducible(pos.state, fact)

EndIrreducible ==
    /\ pc = "delivered"
    /\ ~Tried
    /\ EndWith("failed", fact.usd)
    /\ Exit

JournalStep ==
    /\ pc = "delivered"
    /\ Tried
    /\ Write(StepEvent(pos, fact))
    /\ Goto(IF fact.kind = "wait" THEN "journaled" ELSE "acked")
    /\ UNCHANGED <<wait, signal, claim, pokeFile, stop, log, snapshot, patient, pos, fact, now, ghosts>>

ClearWait ==
    /\ pc = "journaled"
    /\ wait' = NoWait
    /\ Goto(IF fact.label = "signal" THEN "cleared" ELSE "acked")
    /\ UNCHANGED <<journal, signal, claim, pokeFile, stop, log, snapshot, patient, pos, fact, now, ghosts>>

AckSignal ==
    /\ pc = "cleared"
    /\ claim' = NoPoke
    /\ Goto("acked")
    /\ UNCHANGED <<journal, wait, signal, pokeFile, stop, log, snapshot, patient, pos, fact, now, ghosts>>

Advance ==
    /\ pc = "acked"
    /\ pos' = After(pos, fact)
    /\ snapshot' = pos'
    /\ fact' = NoFact
    /\ Goto("boundary")
    /\ UNCHANGED <<journal, wait, signal, claim, pokeFile, stop, log, patient, now, ghosts>>

-----------------------------------------------------------------------------
(* The operator, the clock and death.                                      *)

\* The surfaces refuse a poke or a stop before acting, on a state read earlier,
\* so either can land at any moment of an instance that has begun.
Poke ==
    /\ poked < MaxPokes
    /\ journal # <<>>
    /\ poked' = poked + 1
    /\ signal' = poked + 1
    /\ replaced' = IF signal = NoPoke THEN replaced ELSE replaced \cup {signal}
    /\ UNCHANGED <<journal, wait, claim, pokeFile, stop, log, snapshot, process, now, billed, crashes>>

RequestStop ==
    /\ journal # <<>>
    /\ ~stop
    /\ stop' = TRUE
    /\ UNCHANGED <<journal, wait, signal, claim, pokeFile, log, snapshot, process, now, ghosts>>

Clock ==
    /\ now < MaxTime
    /\ now' = now + 1
    /\ UNCHANGED <<files, process, ghosts>>

\* The next step may be an append, which a death can cut half way.
Appending ==
    \/ pc = "retired" /\ fact.usd > 0
    \/ pc = "starting" /\ Read(journal) = <<>>
    \/ pc = "boundary" /\ Here.notify /\ ~(Here.kind = "wait" /\ Parked)
    \/ pc \in {"entered", "delivered"}

Crash ==
    /\ pc # "down"
    /\ crashes < MaxCrashes
    /\ crashes' = crashes + 1
    /\ \/ UNCHANGED journal
       \/ Appending /\ journal' = Append(HealTornTail(journal), Torn)
    /\ Exit
    /\ UNCHANGED <<wait, signal, claim, pokeFile, stop, log, snapshot, now, billed, poked, replaced>>

-----------------------------------------------------------------------------

Init ==
    /\ journal = <<>> /\ wait = NoWait /\ signal = NoPoke /\ claim = NoPoke /\ pokeFile = NoPoke
    /\ stop = FALSE /\ log = NoLog /\ snapshot = StartPosition
    /\ pc = "down" /\ patient = TRUE /\ pos = StartPosition /\ fact = NoFact
    /\ now = 1 /\ billed = 0 /\ poked = 0 /\ replaced = {} /\ crashes = 0

Booking == RetireLog \/ BookCrashedAttempt \/ Drive
Ending == EndTerminal \/ EndSnapshot \/ EndOverBudget \/ EndUnrenderable \/ EndIrreducible
Executed == RunTool \/ TakeBranch \/ StartAgent \/ AgentTurn \/ AgentDone
Waiting == ArmWait \/ TakeSignal \/ StopWait \/ Tick \/ KeepSleeping \/ Yield
Committing == MaterializePoke \/ JournalStep \/ ClearWait \/ AckSignal \/ Advance

\* What the supervisor does by itself once it runs.
Supervise == Booking \/ StopAtBoundary \/ Enter \/ Ending \/ Executed \/ Waiting \/ Committing

Next == RunMachine \/ Supervise \/ Poke \/ RequestStop \/ Clock \/ Crash

Spec == Init /\ [][Next]_vars

\* A live supervisor keeps running.  Nothing restarts a dead one.
FairSpec == Spec /\ WF_vars(Supervise)
-----------------------------------------------------------------------------
(* Properties.                                                             *)

Stamped == pc \notin {"down", "booking", "retired"}

\* Every variable has its type.
TypeOK ==
    /\ pc \in {"down", "booking", "retired", "starting", "boundary", "entered", "running",
               "waiting", "unsignaled", "observed", "delivered", "journaled", "cleared",
               "acked", "ended"}
    /\ pos \in Position /\ snapshot \in Position
    /\ fact.kind \in Kind /\ fact.usd \in 0..MaxTurns /\ fact.payload \in 0..MaxPokes
    /\ {signal, claim, pokeFile} \subseteq 0..poked
    /\ replaced \subseteq 1..poked
    /\ {stop, patient} \subseteq BOOLEAN
    /\ wait.state \in State /\ log.usd \in 0..MaxTurns
    /\ pc = "down" => pos = StartPosition /\ fact = NoFact

\* `_rebuild_from_journal`: whatever died and wherever, the next `machine run'
\* can replay the journal.  Every recorded step fits the machine at the position
\* the steps before it lead to, begin comes first and only first, end last.
ReplayAccepts ==
    LET j == Read(journal)
        p == PositionsOf(j)
    IN  \A n \in DOMAIN j :
          /\ IsType(j[n], "begin") <=> n = 1
          /\ IsType(j[n], "end") => n = Len(j) /\ j[n].state = p[n].state
                                       /\ j[n].transitions = p[n].transitions
          /\ j[n] # Torn
          /\ IsType(j[n], "step") =>
                /\ j[n].state = p[n - 1].state
                /\ j[n].seq = p[n - 1].transitions
                /\ Fits(p[n - 1], j[n].fact)
                /\ j[n].goto = p[n].state

\* `drive', `_run_live_loop': the position, blackboard and spend the supervisor
\* acts on are those of the journal: a restart continues exactly where the last
\* durable step led, repeating none and skipping none.
MemoryIsReplay ==
    /\ pc \in {"boundary", "entered", "running", "waiting", "unsignaled", "observed",
               "delivered", "ended"} => pos = Rebuild(Read(journal))
    /\ pc \in {"journaled", "cleared", "acked"} => After(pos, fact) = Rebuild(Read(journal))

\* What the journal books: steps, dead attempts, and a slice on the end.
Booked ==
    LET j == Read(journal)
    IN  Rebuild(j).spent + (IF Ended(journal) THEN j[Len(j)].usd ELSE 0)

\* `book_crashed_attempt', `_emit_end': a slice is booked at most once, by its
\* step, by the resume that found its log orphaned, or on the end.
SpendBookedOnce == Booked <= billed

Delivered == {journal[i].fact.payload : i \in {k \in DOMAIN journal : IsType(journal[k], "step")}}

\* `take_signal', `ack_signal': a poke no later poke replaced is never lost: it
\* is in the signal file, in an unacked claim, or journaled as a wake.
PokeKept == \A p \in 1..poked : p \in replaced \cup {signal, claim} \cup Delivered

LastDelivered ==
    LET signals == {i \in DOMAIN journal :
                       IsType(journal[i], "step") /\ journal[i].fact.payload # NoPoke}
    IN  IF signals = {} THEN NoPoke
        ELSE journal[CHOOSE i \in signals : \A k \in signals : k <= i].fact.payload

\* `materialize_poke': "a durable step implies a durable file": poke.json holds
\* the payload of the last journaled wake, or of the claim now being delivered.
PokeFileDurable == pokeFile = LastDelivered \/ (claim # NoPoke /\ pokeFile = claim)

PreviousTs(j, n) ==
    LET before == {k \in 1..(n - 1) : IsType(j[k], "step")}
    IN  IF before = {} THEN 1 ELSE j[CHOOSE k \in before : \A i \in before : i <= k].ts

\* `arm_pending_wait': a tick never comes early.  It is journaled at or after
\* its instant, and the instant is a full delay past the step that led to this
\* visit, whatever record an earlier visit left behind.
WaitsItsTime ==
    LET j == Read(journal)
    IN  \A n \in DOMAIN j :
          (IsType(j[n], "step") /\ j[n].fact.kind = "wait" /\ j[n].label = "tick") =>
             /\ j[n].ts >= j[n].fact.wake
             /\ j[n].fact.wake >= PreviousTs(j, n) + Machine[j[n].state].delay

\* An armed wait keeps its instant over crashes, stops and scheduler ticks, and
\* its record goes only after its step is in the journal.
WakeFixed ==
    [][wait # NoWait =>
          /\ wait'.state = wait.state /\ wait'.seq = wait.seq => wait' = wait
          /\ wait' # wait => wait.seq \in StepSeqs(Read(journal))]_vars

\* A stop asked of a running supervisor parks or ends it, asleep or at work.
StopHonoured == (stop /\ Stamped) ~> ~Stamped

\* A poke wakes a sleeping wait, one without a timer too.
PokeWakes ==
    (pc \in {"waiting", "unsignaled"} /\ signal # NoPoke) ~> pc \notin {"waiting", "unsignaled"}

\* `block_on_wait' looks at the stop, the poke and the clock in turn: none of
\* them keeps another from being seen.
WaitListens == StopHonoured /\ PokeWakes

EndStatus == IF Ended(journal) THEN Read(journal)[Len(Read(journal))].status ELSE "no"

Path == INSTANCE MachinePath WITH at <- Rebuild(Read(journal)), over <- EndStatus

\* The journal is one path of the machine, within both budgets, and final.
FollowsPath == Path!Spec

=============================================================================
