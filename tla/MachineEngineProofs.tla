------------------------ MODULE MachineEngineProofs ------------------------
(***************************************************************************)
(* The machine engine keeps its promises for every machine, budget and     *)
(* bound: the safety properties of MachineEngine, and that its journal is  *)
(* one path of the machine (MachinePath).                                  *)
(***************************************************************************)
EXTENDS MachineJournal

Lines == Read(journal)
At == Rebuild(Lines)

Places == {"down", "booking", "retired", "starting", "boundary", "entered", "running",
           "waiting", "unsignaled", "observed", "delivered", "journaled", "cleared",
           "acked", "ended"}
Acting == {"boundary", "entered", "running", "waiting", "unsignaled", "observed",
           "delivered", "ended"}
AtHand == {"observed", "delivered"}

\* What is on record obeys the rules, and counts its steps from zero.
Recorded ==
    /\ Lines \in Seq(Event) /\ At \in Position /\ LastTime(Lines) \in Nat
    /\ Accepted(Lines) /\ InTime(Lines)
    /\ StepSeqs(Lines) = 0 .. (At.transitions - 1)

Typed ==
    /\ journal \in Seq(Event \cup {Torn})
    /\ pc \in Places /\ pos \in Position /\ snapshot \in Position
    /\ fact \in Fact /\ fact.usd <= MaxTurns /\ fact.payload <= poked
    /\ log \in [seq : Nat \cup {-1}, usd : Nat] /\ log.usd <= MaxTurns
    /\ wait \in [state : State, seq : Nat \cup {-1}, wake : Nat]
    /\ wait.seq = -1 => wait = NoWait
    /\ poked \in Nat /\ poked <= MaxPokes
    /\ signal \in 0 .. poked /\ claim \in 0 .. poked /\ pokeFile \in 0 .. poked
    /\ replaced \subseteq 1 .. poked
    /\ stop \in BOOLEAN /\ patient \in BOOLEAN
    /\ billed \in Nat /\ now \in Nat

\* Where the supervisor stands in the file's life.
Standing ==
    /\ Lines = <<>> => log = NoLog /\ pc \in {"down", "booking", "starting"}
    /\ Closed(Lines) => pc \in {"down", "ended"}
    /\ pc = "down" => pos = StartPosition /\ fact = NoFact
    /\ pc = "retired" => log = NoLog

\* What it knows of its position: the journal's, one step behind it once the
\* step is written.
Remembers ==
    /\ pc \in Acting => pos = At
    /\ pc \in {"journaled", "cleared", "acked"} => After(pos, fact) = At
    /\ pc \in {"running", "waiting", "unsignaled"} \cup AtHand =>
          ~OverBudget(pos) /\ ~IsTerminal(pos.state)
    /\ pc = "running" => Here.kind = "agent" /\ log.seq = pos.transitions
    /\ pc \in {"waiting", "unsignaled"} => Here.kind = "wait" /\ Parked

\* The fact in its hands is one this position can have produced, and what it
\* reports of the spend, the wait and the poke is what the files hold.
Observed ==
    pc \in AtHand =>
       /\ fact.kind = Here.kind
       /\ fact.label \in DOMAIN Here.on
       /\ fact.kind = "branch" => fact.label = RouteBranch(pos.state, pos.board)
       /\ fact.kind = "agent" => log.seq = pos.transitions /\ fact.usd = log.usd
       /\ fact.kind # "agent" => fact.usd = 0
       /\ fact.kind = "wait" =>
             /\ Parked /\ fact.wake = wait.wake
             /\ fact.label = "signal" => fact.payload # NoPoke
             /\ fact.label = "tick" => fact.wake # NoWake /\ now >= fact.wake
       /\ fact.kind # "wait" => fact.payload = NoPoke
       /\ fact.payload # NoPoke => fact.label = "signal" /\ fact.payload = claim
       /\ pc = "observed" => fact.payload # NoPoke
       /\ pc = "delivered" /\ fact.payload # NoPoke => pokeFile = fact.payload

\* A wait's step is in the journal before its record and its claim go.
Committed ==
    /\ pc = "journaled" => /\ fact.kind = "wait" /\ Parked
                           /\ fact.label = "signal" => fact.payload # NoPoke
    /\ pc = "cleared" => fact.payload # NoPoke
    /\ pc \in {"journaled", "cleared"} /\ fact.payload # NoPoke =>
          /\ claim = fact.payload
          /\ LastPayload(Lines) = fact.payload
          /\ fact.payload \in Payloads(Lines)

\* What is spent and not yet on record.
Unbooked == IF pc = "retired" THEN fact.usd ELSE IF Orphaned(log) THEN log.usd ELSE 0

Paid == At.spent + (IF Closed(Lines) THEN Lines[Len(Lines)].usd ELSE Unbooked) <= billed

Kept ==
    /\ \A p \in 1 .. poked : p \in replaced \cup {signal, claim} \cup Payloads(Lines)
    /\ pokeFile = LastPayload(Lines) \/ (claim # NoPoke /\ pokeFile = claim)

\* The armed wait is of no later visit than this one, and this one's is a full
\* delay past the step that led here.
Timed ==
    /\ now >= LastTime(Lines)
    /\ wait.seq <= At.transitions
    /\ wait.seq = At.transitions =>
          /\ wait.state = At.state
          /\ wait.wake # NoWake => wait.wake >= LastTime(Lines) + Machine[wait.state].delay

IInv == Recorded /\ Typed /\ Standing /\ Remembers /\ Observed /\ Committed /\ Paid /\ Kept /\ Timed
-----------------------------------------------------------------------------

\* The bounds are numbers.
LEMMA Bounds == MaxTurns \in Nat /\ MaxPokes \in Nat /\ MaxCrashes \in Nat /\ MaxTime \in Nat
BY BoundAssumption

\* What is read off the journal changes only when its complete lines do.
LEMMA SameLines ==
  ASSUME Lines' = Lines
  PROVE  /\ At' = At /\ Closed(Lines)' = Closed(Lines) /\ StepSeqs(Lines)' = StepSeqs(Lines)
         /\ LastTime(Lines)' = LastTime(Lines) /\ Payloads(Lines)' = Payloads(Lines)
         /\ LastPayload(Lines)' = LastPayload(Lines)
         /\ (Lines[Len(Lines)])' = Lines[Len(Lines)]
         /\ Recorded => Recorded'
         /\ \A l : Orphaned(l)' = Orphaned(l)
<1>1. At' = At
  BY DEF At
<1>2. Closed(Lines)' = Closed(Lines) /\ StepSeqs(Lines)' = StepSeqs(Lines)
  OBVIOUS
<1>3. LastTime(Lines)' = LastTime(Lines) /\ Payloads(Lines)' = Payloads(Lines)
      /\ LastPayload(Lines)' = LastPayload(Lines)
  OBVIOUS
<1>4. (Lines[Len(Lines)])' = Lines[Len(Lines)]
  OBVIOUS
<1>5. Recorded => Recorded'
  BY <1>1, <1>2, <1>3 DEF Recorded
<1>6. \A l : Orphaned(l)' = Orphaned(l)
  BY DEF Orphaned, Lines
<1> QED BY <1>1, <1>2, <1>3, <1>4, <1>5, <1>6, Zenon

\* What every write of a complete line does to what is read off the journal.
LEMMA WriteAppends ==
  ASSUME NEW e \in Event, Write(e), Recorded
  PROVE  /\ Lines' = Append(Lines, e)
         /\ journal' \in Seq(Event \cup {Torn})
<1>1. journal' = Append(Lines, e)
  BY HealIsRead DEF Write, Lines
<1>2. Lines \in Seq(Event)
  BY DEF Recorded
<1>3. Lines' = Read(journal')
  BY DEF Lines
<1> QED BY <1>1, <1>2, <1>3, ReadEvent

\* A death half way through an append loses nothing that was complete.
LEMMA TornKeepsLines ==
  ASSUME Recorded, journal' = Append(HealTornTail(journal), Torn)
  PROVE  Lines' = Lines /\ journal' \in Seq(Event \cup {Torn}) /\ journal' # <<>>
<1>1. journal' = Append(Lines, Torn)
  BY HealIsRead DEF Lines
<1>2. Lines \in Seq(Event)
  BY DEF Recorded
<1>3. Lines' = Read(journal')
  BY DEF Lines
<1> QED BY <1>1, <1>2, <1>3, ReadTorn

-----------------------------------------------------------------------------
(* Steps that complete no line.                                            *)

\* With the same lines on record, a step disturbs only what it touches.
LEMMA Frame ==
  ASSUME IInv, Lines' = Lines
  PROVE  /\ Recorded'
         /\ UNCHANGED <<poked, replaced, signal, claim, pokeFile>> => Kept'
         /\ UNCHANGED <<wait, now>> => Timed'
         /\ UNCHANGED <<log, billed>> /\ pc # "retired" /\ pc' # "retired" => Paid'
<1>1. Recorded'
  BY SameLines DEF IInv
<1>2. ASSUME UNCHANGED <<poked, replaced, signal, claim, pokeFile>> PROVE Kept'
  BY <1>2, SameLines DEF IInv, Kept
<1>3. ASSUME UNCHANGED <<wait, now>> PROVE Timed'
  BY <1>3, SameLines DEF IInv, Timed
<1>4. ASSUME UNCHANGED <<log, billed>>, pc # "retired", pc' # "retired" PROVE Paid'
  <2>1. Unbooked' = Unbooked
    BY <1>4, SameLines DEF Unbooked
  <2> QED BY <1>4, <2>1, SameLines DEF IInv, Paid
<1> QED BY <1>1, <1>2, <1>3, <1>4

\* Starting a run keeps the invariant.
LEMMA RunMachineKeeps == IInv /\ RunMachine => IInv'
<1> SUFFICES ASSUME IInv, RunMachine PROVE IInv'
  OBVIOUS
<1>1. Lines' = Lines
  BY DEF RunMachine, Lines
<1>2. ~Closed(Lines)
  BY DEF RunMachine, Ended, Closed, Lines
<1>3. Recorded' /\ Kept' /\ Timed' /\ Paid'
  BY <1>1, Frame DEF RunMachine, Goto, ghosts
<1>4. Typed'
  BY DEF IInv, Typed, RunMachine, Goto, ghosts, Places
<1>5. Standing'
  BY <1>1, <1>2, SameLines DEF IInv, Standing, RunMachine, Goto, ghosts
<1>6. Remembers' /\ Observed' /\ Committed'
  BY DEF Remembers, Observed, Committed, RunMachine, Goto, Acting, AtHand
<1> QED BY <1>3, <1>4, <1>5, <1>6 DEF IInv

-----------------------------------------------------------------------------
(* Writes.                                                                 *)

\* A write that fits where the journal leads keeps it in order, and moves what
\* is read off it by that one event.
LEMMA WriteKeepsRecord ==
  ASSUME IInv, NEW e \in Event, Write(e), ~Closed(Lines),
         IsType(e, "begin") <=> Lines = <<>>,
         IsType(e, "end") => e.state = At.state /\ e.transitions = At.transitions,
         IsType(e, "step") => /\ e.state = At.state /\ e.seq = At.transitions
                              /\ Fits(At, e.fact) /\ e.goto = After(At, e.fact).state,
         (IsType(e, "step") /\ e.fact.kind = "wait" /\ e.label = "tick") =>
            e.ts >= e.fact.wake /\ e.fact.wake >= LastTime(Lines) + Machine[e.state].delay
  PROVE  /\ Recorded' /\ journal' \in Seq(Event \cup {Torn})
         /\ Lines' # <<>> /\ Lines'[Len(Lines')] = e
         /\ Closed(Lines)' <=> IsType(e, "end")
         /\ At' = Effect(At, e)
         /\ StepSeqs(Lines)' = IF IsType(e, "step") THEN StepSeqs(Lines) \cup {e.seq} ELSE StepSeqs(Lines)
         /\ LastTime(Lines)' = IF IsType(e, "step") THEN e.ts ELSE LastTime(Lines)
         /\ Payloads(Lines)' = IF IsType(e, "step") THEN Payloads(Lines) \cup {e.fact.payload}
                               ELSE Payloads(Lines)
         /\ LastPayload(Lines)' = IF IsType(e, "step") /\ e.fact.payload # NoPoke
                                  THEN e.fact.payload ELSE LastPayload(Lines)
<1> DEFINE j == Lines
           k == Append(Lines, e)
<1>1. /\ j \in Seq(Event) /\ At \in Position /\ LastTime(j) \in Nat /\ Accepted(j) /\ InTime(j)
      /\ StepSeqs(j) = 0 .. (At.transitions - 1) /\ At = Rebuild(j)
  BY DEF IInv, Recorded, At
<1>2. Lines' = k /\ journal' \in Seq(Event \cup {Torn})
  BY WriteAppends DEF IInv
<1>3. k \in Seq(Event) /\ k # <<>> /\ k[Len(k)] = e
  BY <1>1, AppendLines
<1>4. Rebuild(k) = Effect(At, e)
  BY <1>1, AppendReplays
<1>5. IsType(e, "step") => Effect(At, e) = After(At, e.fact)
  BY EffectCases
<1>6. Effect(At, e) \in Position
  BY <1>1, EffectTyped
<1>7. LastTime(k) = (IF IsType(e, "step") THEN e.ts ELSE LastTime(j)) /\ LastTime(k) \in Nat
  <2>1. LastTime(k) = (IF IsType(e, "step") THEN e.ts ELSE LastTime(j))
    BY <1>1, AppendPreviousTs
  <2>2. IsType(e, "step") => e.ts \in Nat
    BY EventKinds DEF StepRecord
  <2> QED BY <1>1, <2>1, <2>2
<1>8. Accepted(k)
  BY <1>1, <1>5, AppendAccepted
<1>9. InTime(k)
  BY <1>1, AppendInTime
<1>10. StepSeqs(k) = IF IsType(e, "step") THEN StepSeqs(j) \cup {e.seq} ELSE StepSeqs(j)
  BY <1>1, AppendStepSeqs
<1>11. StepSeqs(k) = 0 .. (Rebuild(k).transitions - 1)
  <2>0. At.transitions \in Nat
    BY <1>1 DEF Position
  <2>1. CASE IsType(e, "step")
    <3>1. Effect(At, e).transitions = At.transitions + 1
      BY <1>5, <2>1 DEF After
    <3>2. StepSeqs(k) = 0 .. (At.transitions - 1) \cup {At.transitions}
      BY <1>1, <1>10, <2>1
    <3> QED BY <1>4, <2>0, <3>1, <3>2
  <2>2. CASE ~IsType(e, "step")
    <3>1. Effect(At, e).transitions = At.transitions
      <4>1. CASE IsType(e, "spend")
        BY <1>1, <4>1, EffectCases DEF Position
      <4>2. CASE ~IsType(e, "spend")
        BY <2>2, <4>2, EffectCases
      <4> QED BY <4>1, <4>2
    <3> QED BY <1>1, <1>4, <1>10, <2>2, <3>1
  <2> QED BY <2>1, <2>2
<1>12. Payloads(k) = IF IsType(e, "step") THEN Payloads(j) \cup {e.fact.payload} ELSE Payloads(j)
  BY <1>1, AppendPayloads
<1>13. LastPayload(k) = IF IsType(e, "step") /\ e.fact.payload # NoPoke
                        THEN e.fact.payload ELSE LastPayload(j)
  BY <1>1, AppendLastPayload
<1> HIDE DEF k, j
<1>14. At' = Rebuild(k)
  BY <1>2 DEF At, j
<1>15. Closed(Lines)' <=> IsType(e, "end")
  BY <1>2, <1>3 DEF Closed
<1>16. /\ StepSeqs(Lines)' = StepSeqs(k) /\ LastTime(Lines)' = LastTime(k)
       /\ Payloads(Lines)' = Payloads(k) /\ LastPayload(Lines)' = LastPayload(k)
  BY <1>2
<1>17. Recorded'
  BY <1>2, <1>3, <1>4, <1>6, <1>7, <1>8, <1>9, <1>11, <1>14 DEF Recorded
<1>18. Lines' # <<>> /\ Lines'[Len(Lines')] = e
  BY <1>2, <1>3
<1>19. At' = Effect(At, e)
  BY <1>4, <1>14
<1> QED BY <1>2, <1>7, <1>10, <1>12, <1>13, <1>15, <1>16, <1>17, <1>18, <1>19, Zenon DEF j

\* A write that is no step leaves everything but the spend where it was.
LEMMA NoStepFrame ==
  ASSUME IInv, NEW e \in Event, Write(e), ~Closed(Lines), ~IsType(e, "step"),
         IsType(e, "begin") <=> Lines = <<>>,
         IsType(e, "end") => e.state = At.state /\ e.transitions = At.transitions
  PROVE  /\ Recorded' /\ journal' \in Seq(Event \cup {Torn})
         /\ Lines' # <<>> /\ Lines'[Len(Lines')] = e
         /\ Closed(Lines)' <=> IsType(e, "end")
         /\ At' = IF IsType(e, "spend") THEN [At EXCEPT !.spent = @ + e.usd] ELSE At
         /\ LastPayload(Lines)' = LastPayload(Lines) /\ Payloads(Lines)' = Payloads(Lines)
         /\ StepSeqs(Lines)' = StepSeqs(Lines)
         /\ \A l : Orphaned(l)' = Orphaned(l)
         /\ UNCHANGED <<poked, replaced, signal, claim, pokeFile>> => Kept'
         /\ UNCHANGED <<wait, now>> => Timed'
<1>1. /\ Recorded' /\ journal' \in Seq(Event \cup {Torn})
      /\ Lines' # <<>> /\ Lines'[Len(Lines')] = e
      /\ Closed(Lines)' <=> IsType(e, "end")
      /\ At' = Effect(At, e)
      /\ StepSeqs(Lines)' = StepSeqs(Lines) /\ LastTime(Lines)' = LastTime(Lines)
      /\ Payloads(Lines)' = Payloads(Lines) /\ LastPayload(Lines)' = LastPayload(Lines)
  BY WriteKeepsRecord
<1>2. At' = IF IsType(e, "spend") THEN [At EXCEPT !.spent = @ + e.usd] ELSE At
  BY <1>1, EffectCases
<1>3. \A l : Orphaned(l)' = Orphaned(l)
  BY <1>1 DEF Orphaned, Lines
<1>4. ASSUME UNCHANGED <<poked, replaced, signal, claim, pokeFile>> PROVE Kept'
  BY <1>1, <1>4 DEF IInv, Kept
<1>5. ASSUME UNCHANGED <<wait, now>> PROVE Timed'
  <2>1. At \in Position
    BY DEF IInv, Recorded
  <2>2. At'.transitions = At.transitions /\ At'.state = At.state
    BY <1>2, <2>1 DEF Position
  <2> QED BY <1>1, <1>5, <2>2 DEF IInv, Timed
<1> QED BY <1>1, <1>2, <1>3, <1>4, <1>5

-----------------------------------------------------------------------------
(* Up to the drive.                                                        *)

\* Retiring an orphaned log keeps its spend in hand.
LEMMA RetireLogKeeps == IInv /\ RetireLog => IInv'
<1> SUFFICES ASSUME IInv, RetireLog PROVE IInv'
  OBVIOUS
<1>1. Lines' = Lines
  BY DEF RetireLog, Lines
<1>2. Recorded' /\ Kept' /\ Timed'
  BY <1>1, Frame DEF RetireLog, ghosts
<1>3. /\ log.seq \in Nat \cup {-1} /\ log.usd \in Nat /\ log.usd <= MaxTurns /\ fact \in Fact
      /\ pc = "booking"
  BY DEF IInv, Typed, RetireLog
<1>4. CASE Orphaned(log)
  <2>1. log' = NoLog /\ fact' = [NoFact EXCEPT !.usd = log.usd, !.wake = log.seq] /\ pc' = "retired"
    BY <1>4 DEF RetireLog, Goto
  <2>2. log.seq # -1
    BY <1>4 DEF Orphaned, NoLog
  <2>3. fact' \in Fact /\ fact'.usd = log.usd /\ fact'.payload = NoPoke
    BY <1>3, <2>1, <2>2 DEF Fact, NoFact, FactOf, Kind, Label, NoWake, NoPoke
  <2>4. Typed'
    BY <1>3, <2>1, <2>3, Bounds DEF IInv, Typed, RetireLog, ghosts, Places, NoLog, NoPoke
  <2>5. Standing'
    <3>1. Lines # <<>>
      BY <2>2 DEF IInv, Standing, NoLog
    <3>2. ~Closed(Lines)
      BY <1>3 DEF IInv, Standing
    <3>3. Closed(Lines)' = Closed(Lines)
      BY <1>1, SameLines
    <3>4. ~Closed(Lines)'
      BY <3>2, <3>3
    <3>5. Lines' # <<>>
      BY <1>1, <3>1
    <3> QED BY <2>1, <3>4, <3>5 DEF Standing
  <2>6. Paid'
    <3>1. Unbooked' = Unbooked
      BY <1>3, <1>4, <2>1, <2>3 DEF Unbooked
    <3> QED BY <1>1, <3>1, SameLines DEF IInv, Paid, RetireLog, ghosts
  <2>7. Remembers' /\ Observed' /\ Committed'
    BY <2>1 DEF Remembers, Observed, Committed, Acting, AtHand
  <2> QED BY <1>2, <2>4, <2>5, <2>6, <2>7 DEF IInv
<1>5. CASE ~Orphaned(log)
  <2>1. UNCHANGED <<log, fact>> /\ pc' = "starting"
    BY <1>5 DEF RetireLog, Goto
  <2>2. Typed'
    BY <2>1 DEF IInv, Typed, RetireLog, ghosts, Places
  <2>3. Standing' /\ Paid'
    BY <1>1, <1>3, <2>1, SameLines, Frame DEF IInv, Standing, RetireLog, ghosts
  <2>4. Remembers' /\ Observed' /\ Committed'
    BY <2>1 DEF Remembers, Observed, Committed, Acting, AtHand
  <2> QED BY <1>2, <2>2, <2>3, <2>4 DEF IInv
<1> QED BY <1>4, <1>5

\* No step is taken from nothing.
LEMMA NoFactTyped == NoFact \in Fact /\ NoFact.usd = 0 /\ NoFact.payload = NoPoke
BY DEF NoFact, FactOf, Fact, Kind, Label, NoWake, NoPoke

\* An instance starts at its initial state.
LEMMA StartTyped == StartPosition \in Position
BY MachineAssumption DEF StartPosition, Position

\* Booking the dead attempt moves its spend from the hand to the journal.
LEMMA BookCrashedAttemptKeeps == IInv /\ BookCrashedAttempt => IInv'
<1> SUFFICES ASSUME IInv, BookCrashedAttempt PROVE IInv'
  OBVIOUS
<1>1. /\ pc = "retired" /\ pc' = "starting" /\ fact' = NoFact
      /\ UNCHANGED <<wait, signal, claim, pokeFile, stop, log, snapshot, patient, pos, now,
                     billed, poked, replaced>>
  BY DEF BookCrashedAttempt, Goto, ghosts
<1>2. /\ fact \in Fact /\ fact.usd \in Nat /\ fact.wake \in Nat /\ At \in Position /\ At.spent \in Nat
      /\ log = NoLog /\ ~Closed(Lines) /\ Lines # <<>>
  BY <1>1 DEF IInv, Typed, Standing, Recorded, Fact, Position
<1>3. Remembers' /\ Observed' /\ Committed'
  BY <1>1 DEF Remembers, Observed, Committed, Acting, AtHand
<1>4. ~Orphaned(log)
  BY <1>2 DEF Orphaned
<1>5. CASE fact.usd > 0
  <2> DEFINE e == AttemptSpend(fact.wake, fact.usd)
  <2>1. Write(e)
    BY <1>5 DEF BookCrashedAttempt
  <2>2. /\ e \in Event /\ IsType(e, "spend") /\ e.usd = fact.usd
        /\ ~IsType(e, "step") /\ ~IsType(e, "end") /\ ~IsType(e, "begin")
    BY <1>2 DEF AttemptSpend, Event, SpendRecord, IsType
  <2> HIDE DEF e
  <2>3. /\ Recorded' /\ journal' \in Seq(Event \cup {Torn}) /\ Lines' # <<>> /\ ~Closed(Lines)'
        /\ At' = [At EXCEPT !.spent = @ + e.usd]
        /\ Orphaned(log)' = Orphaned(log) /\ Kept' /\ Timed'
    BY <1>1, <1>2, <2>1, <2>2, NoStepFrame
  <2>4. Typed'
    BY <1>1, <2>3, NoFactTyped, Bounds DEF IInv, Typed, Places, NoPoke
  <2>5. Standing'
    BY <1>1, <2>3 DEF Standing
  <2>6. Paid'
    <3>1. At'.spent = At.spent + fact.usd
      BY <1>2, <2>2, <2>3 DEF Position
    <3>2. Unbooked = fact.usd
      BY <1>1 DEF Unbooked
    <3>3. Unbooked' = 0
      BY <1>1, <1>4, <2>3 DEF Unbooked
    <3> QED BY <1>1, <1>2, <2>3, <3>1, <3>2, <3>3 DEF IInv, Paid
  <2> QED BY <1>3, <2>3, <2>4, <2>5, <2>6 DEF IInv
<1>6. CASE ~(fact.usd > 0)
  <2>1. journal' = journal /\ Lines' = Lines
    BY <1>6 DEF BookCrashedAttempt, Lines
  <2>2. Recorded' /\ Kept' /\ Timed'
    BY <1>1, <2>1, Frame
  <2>3. Typed'
    BY <1>1, <2>1, NoFactTyped, Bounds DEF IInv, Typed, Places, NoPoke
  <2>4. Standing'
    BY <1>1, <1>2, <2>1, SameLines DEF Standing
  <2>5. Paid'
    <3>1. Unbooked = fact.usd /\ Unbooked' = 0 /\ fact.usd = 0
      BY <1>1, <1>2, <1>4, <1>6, <2>1, SameLines DEF Unbooked
    <3> QED BY <1>1, <2>1, <3>1, SameLines DEF IInv, Paid
  <2> QED BY <1>3, <2>2, <2>3, <2>4, <2>5 DEF IInv
<1> QED BY <1>5, <1>6

\* The replay puts the supervisor where the journal leads.
LEMMA DriveKeeps == IInv /\ Drive => IInv'
<1> SUFFICES ASSUME IInv, Drive PROVE IInv'
  OBVIOUS
<1>1. /\ pc = "starting" /\ pc' = "boundary" /\ pos' = At
      /\ UNCHANGED <<wait, signal, claim, pokeFile, stop, log, snapshot, patient, fact, now,
                     billed, poked, replaced>>
  BY DEF Drive, Goto, ghosts, Recover, At, Lines
<1>2. At \in Position /\ ~Closed(Lines)
  BY <1>1 DEF IInv, Standing, Recorded
<1>3. Observed' /\ Committed'
  BY <1>1 DEF Observed, Committed, AtHand
<1>4. CASE Lines = <<>>
  <2>1. Write(Begin)
    BY <1>4 DEF Drive, Lines
  <2>2. /\ Begin \in Event /\ IsType(Begin, "begin")
        /\ ~IsType(Begin, "step") /\ ~IsType(Begin, "end") /\ ~IsType(Begin, "spend")
    BY DEF Begin, Event, IsType
  <2>3. /\ Recorded' /\ journal' \in Seq(Event \cup {Torn}) /\ Lines' # <<>> /\ ~Closed(Lines)'
        /\ At' = At /\ Orphaned(log)' = Orphaned(log) /\ Kept' /\ Timed'
    BY <1>1, <1>2, <1>4, <2>1, <2>2, NoStepFrame
  <2>4. Typed'
    BY <1>1, <1>2, <2>3 DEF IInv, Typed, Places
  <2>5. Standing' /\ Remembers'
    BY <1>1, <2>3 DEF Standing, Remembers, Acting, AtHand
  <2>6. Paid'
    <3>1. Unbooked' = Unbooked
      BY <1>1, <2>3 DEF Unbooked
    <3> QED BY <1>1, <1>2, <2>3, <3>1 DEF IInv, Paid
  <2> QED BY <1>3, <2>3, <2>4, <2>5, <2>6 DEF IInv
<1>5. CASE Lines # <<>>
  <2>1. journal' = journal /\ Lines' = Lines /\ At' = At
    BY <1>5, SameLines DEF Drive, Lines
  <2>2. Recorded' /\ Kept' /\ Timed' /\ Paid'
    BY <1>1, <2>1, Frame
  <2>3. Typed'
    BY <1>1, <1>2, <2>1 DEF IInv, Typed, Places
  <2>4. Standing' /\ Remembers'
    BY <1>1, <1>2, <1>5, <2>1, SameLines DEF Standing, Remembers, Acting, AtHand
  <2> QED BY <1>3, <2>2, <2>3, <2>4 DEF IInv
<1> QED BY <1>4, <1>5

-----------------------------------------------------------------------------
(* The boundary and the ends.                                              *)

\* Leaving, alive or dead, forgets all but the files.
LEMMA ExitFrame ==
  ASSUME IInv, Exit
  PROVE  /\ Remembers' /\ Observed' /\ Committed'
         /\ pc' = "down" /\ pos' \in Position /\ fact' \in Fact /\ fact'.usd = 0 /\ fact'.payload = 0
         /\ patient' \in BOOLEAN /\ pos' = StartPosition /\ fact' = NoFact
<1>1. pc' = "down" /\ pos' = StartPosition /\ fact' = NoFact /\ patient' = TRUE
  BY DEF Exit
<1>2. Remembers' /\ Observed' /\ Committed'
  BY <1>1 DEF Remembers, Observed, Committed, Acting, AtHand
<1> QED BY <1>1, <1>2, NoFactTyped, StartTyped DEF NoPoke

\* A death or a stop with no line written keeps the invariant.
LEMMA QuietExit ==
  ASSUME IInv, Exit, Lines' = Lines, journal' \in Seq(Event \cup {Torn}),
         Lines # <<>> \/ log = NoLog, stop' \in BOOLEAN, snapshot' \in Position,
         UNCHANGED <<wait, signal, claim, pokeFile, log, now, billed, poked, replaced>>
  PROVE  IInv'
<1>1. Recorded' /\ Kept' /\ Timed'
  BY Frame
<1>2. Typed'
  BY ExitFrame, Bounds DEF IInv, Typed, Places
<1>3. Standing'
  <2>1. Closed(Lines)' => pc' = "down"
    BY ExitFrame
  <2> QED BY <2>1, ExitFrame DEF Standing
<1>4. Paid'
  <2>1. CASE pc = "retired"
    <3>1. log = NoLog /\ ~Orphaned(log) /\ fact.usd \in Nat /\ At.spent \in Nat /\ ~Closed(Lines)
      BY <2>1 DEF IInv, Standing, Orphaned, Typed, Fact, Recorded, Position
    <3>2. Unbooked = fact.usd /\ Unbooked' = 0
      BY <2>1, <3>1, ExitFrame, SameLines DEF Unbooked
    <3> QED BY <3>1, <3>2, SameLines DEF IInv, Paid, Typed
  <2>2. CASE pc # "retired"
    BY <2>2, Frame, ExitFrame
  <2> QED BY <2>1, <2>2
<1> QED BY <1>1, <1>2, <1>3, <1>4, ExitFrame DEF IInv

\* Stopping at the boundary changes no file but the marker.
LEMMA StopAtBoundaryKeeps == IInv /\ StopAtBoundary => IInv'
<1> SUFFICES ASSUME IInv, StopAtBoundary PROVE IInv'
  OBVIOUS
<1>1. Lines' = Lines /\ Lines # <<>> /\ journal' = journal
  BY DEF StopAtBoundary, Lines, IInv, Standing
<1> QED BY <1>1, QuietExit DEF StopAtBoundary, ghosts, IInv, Typed

\* A death, an append cut half way included, keeps the invariant.
LEMMA CrashKeeps == IInv /\ Crash => IInv'
<1> SUFFICES ASSUME IInv, Crash PROVE IInv'
  OBVIOUS
<1>1. Lines' = Lines /\ journal' \in Seq(Event \cup {Torn})
  <2>1. CASE journal' = journal
    BY <2>1 DEF Lines, IInv, Typed
  <2>2. CASE journal' = Append(HealTornTail(journal), Torn)
    BY <2>2, TornKeepsLines DEF IInv
  <2> QED BY <2>1, <2>2 DEF Crash
<1>2. Lines # <<>> \/ log = NoLog
  BY DEF IInv, Standing
<1> QED BY <1>1, <1>2, QuietExit DEF Crash, IInv, Typed

\* A step at hand names the position it stands at, and the journal is open.
LEMMA StandsAt ==
  ASSUME IInv, pc \in Acting, pc # "ended"
  PROVE  /\ pos = At /\ At \in Position /\ pos.state \in State /\ pos.transitions \in Nat
         /\ pos.spent \in Nat /\ ~Closed(Lines) /\ Lines # <<>> /\ pc # "retired"
BY DEF IInv, Standing, Remembers, Recorded, Position, Acting

\* Entering a state writes at most a notice.
LEMMA EnterKeeps == IInv /\ Enter => IInv'
<1> SUFFICES ASSUME IInv, Enter PROVE IInv'
  OBVIOUS
<1>1. /\ pc = "boundary" /\ pc' = "entered"
      /\ UNCHANGED <<wait, signal, claim, pokeFile, stop, log, snapshot, patient, pos, fact, now,
                     billed, poked, replaced>>
  BY DEF Enter, Goto, ghosts
<1>2. pos = At /\ At \in Position /\ pos.state \in State /\ ~Closed(Lines) /\ Lines # <<>>
  BY <1>1, StandsAt DEF Acting
<1>3. Observed' /\ Committed'
  BY <1>1 DEF Observed, Committed, AtHand
<1>4. CASE Write(Notify(pos.state))
  <2> DEFINE e == Notify(pos.state)
  <2>1. /\ e \in Event /\ ~IsType(e, "begin") /\ ~IsType(e, "step") /\ ~IsType(e, "end")
        /\ ~IsType(e, "spend")
    BY <1>2 DEF Notify, NotifyRecord, Event, IsType
  <2>2. Write(e)
    BY <1>4
  <2> HIDE DEF e
  <2>3. /\ Recorded' /\ journal' \in Seq(Event \cup {Torn}) /\ Lines' # <<>> /\ ~Closed(Lines)'
        /\ At' = At /\ Orphaned(log)' = Orphaned(log) /\ Kept' /\ Timed'
    BY <1>1, <1>2, <2>1, <2>2, NoStepFrame
  <2>4. Typed'
    BY <1>1, <2>3 DEF IInv, Typed, Places
  <2>5. Standing' /\ Remembers'
    BY <1>1, <1>2, <2>3 DEF Standing, Remembers, Acting, AtHand
  <2>6. Paid'
    <3>1. Unbooked' = Unbooked
      BY <1>1, <2>3 DEF Unbooked
    <3> QED BY <1>1, <1>2, <2>3, <3>1 DEF IInv, Paid
  <2> QED BY <1>3, <2>3, <2>4, <2>5, <2>6 DEF IInv
<1>5. CASE journal' = journal
  <2>1. Lines' = Lines /\ At' = At
    BY <1>5, SameLines DEF Lines
  <2>2. Recorded' /\ Kept' /\ Timed' /\ Paid'
    BY <1>1, <2>1, Frame
  <2>3. Typed'
    BY <1>1, <1>5 DEF IInv, Typed, Places
  <2>4. Standing' /\ Remembers'
    BY <1>1, <1>2, <2>1, SameLines DEF Standing, Remembers, Acting, AtHand
  <2> QED BY <1>3, <2>2, <2>3, <2>4 DEF IInv
<1> QED BY <1>4, <1>5 DEF Enter

\* An end is written where the supervisor stands, and books what is in hand or nothing.
LEMMA EndFrame ==
  ASSUME IInv, pc \in {"entered", "delivered"}, NEW status \in {"ok", "failed"}, NEW usd \in Nat,
         EndWith(status, usd), usd = 0 \/ usd = Unbooked
  PROVE  /\ Recorded' /\ journal' \in Seq(Event \cup {Torn}) /\ Lines' # <<>> /\ Closed(Lines)'
         /\ At' = At /\ Lines'[Len(Lines')].status = status /\ Kept' /\ Timed' /\ Paid'
<1> DEFINE e == MachineEnd(pos, status, usd)
<1>1. /\ pos = At /\ At \in Position /\ pos.state \in State /\ pos.transitions \in Nat
      /\ ~Closed(Lines) /\ Lines # <<>> /\ pc # "retired"
  BY StandsAt DEF Acting
<1>2. /\ e \in Event /\ ~IsType(e, "begin") /\ ~IsType(e, "step") /\ IsType(e, "end")
      /\ ~IsType(e, "spend") /\ e.state = At.state /\ e.transitions = At.transitions
      /\ e.usd = usd /\ e.status = status
  BY <1>1 DEF MachineEnd, EndRecord, Event, IsType
<1>3. Write(e)
  BY DEF EndWith
<1> HIDE DEF e
<1>4. /\ Recorded' /\ journal' \in Seq(Event \cup {Torn}) /\ Lines' # <<>> /\ Closed(Lines)'
      /\ Lines'[Len(Lines')] = e /\ At' = At /\ Kept' /\ Timed'
  BY <1>1, <1>2, <1>3, NoStepFrame DEF EndWith, ghosts
<1>5. Paid'
  <2>1. Unbooked \in Nat /\ At.spent \in Nat /\ billed' = billed
    BY <1>1 DEF Unbooked, IInv, Typed, Fact, Position, EndWith, ghosts
  <2>2. (Lines[Len(Lines)])' = e
    BY <1>4
  <2> QED BY <1>1, <1>2, <1>4, <2>1, <2>2 DEF IInv, Paid, Typed
<1> QED BY <1>2, <1>4, <1>5

\* An end the supervisor leaves with at once.
LEMMA EndsAndExits ==
  ASSUME IInv, pc \in {"entered", "delivered"}, NEW usd \in Nat,
         EndWith("failed", usd), usd = 0 \/ usd = Unbooked, Exit
  PROVE  IInv'
<1>1. /\ Recorded' /\ journal' \in Seq(Event \cup {Torn}) /\ Lines' # <<>>
      /\ At' = At /\ Kept' /\ Timed' /\ Paid'
  BY EndFrame
<1>2. Typed' /\ Standing'
  BY <1>1, ExitFrame, Bounds DEF IInv, Typed, Standing, Places, EndWith, ghosts
<1> QED BY <1>1, <1>2, ExitFrame DEF IInv

\* Over budget, or with nothing to evaluate, it ends where it stands.
LEMMA EarlyEndsKeep == IInv /\ (EndOverBudget \/ EndUnrenderable) => IInv'
<1> SUFFICES ASSUME IInv, EndOverBudget \/ EndUnrenderable PROVE IInv'
  OBVIOUS
<1>1. pc = "entered" /\ EndWith("failed", 0) /\ Exit
  BY DEF EndOverBudget, EndUnrenderable, Executing
<1> QED BY <1>1, EndsAndExits

\* A fact that cannot be reduced is not recorded; what it cost is.
LEMMA EndIrreducibleKeeps == IInv /\ EndIrreducible => IInv'
<1> SUFFICES ASSUME IInv, EndIrreducible PROVE IInv'
  OBVIOUS
<1>1. pc = "delivered" /\ EndWith("failed", fact.usd) /\ Exit /\ fact.usd \in Nat
  BY DEF EndIrreducible, IInv, Typed, Fact
<1>2. fact.usd = 0 \/ fact.usd = Unbooked
  <2>1. CASE fact.kind = "agent"
    <3>1. log.seq = pos.transitions /\ fact.usd = log.usd
      BY <1>1, <2>1 DEF IInv, Observed, AtHand
    <3>2. pos = At /\ pos.transitions \in Nat
      BY <1>1, StandsAt DEF Acting
    <3>3. log.seq \notin StepSeqs(Lines) /\ log.seq # -1
      BY <3>1, <3>2 DEF IInv, Recorded
    <3>4. Orphaned(log)
      BY <3>3 DEF Orphaned, NoLog, Lines
    <3> QED BY <1>1, <3>1, <3>4 DEF Unbooked
  <2>2. CASE fact.kind # "agent"
    BY <1>1, <2>2 DEF IInv, Observed, AtHand
  <2> QED BY <2>1, <2>2
<1> QED BY <1>1, <1>2, EndsAndExits

\* A terminal's end is written first, its snapshot after it.
LEMMA TerminalKeeps == IInv /\ (EndTerminal \/ EndSnapshot) => IInv'
<1> SUFFICES ASSUME IInv, EndTerminal \/ EndSnapshot PROVE IInv'
  OBVIOUS
<1>1. CASE EndTerminal
  <2>1. /\ pc = "entered" /\ EndWith(Here.status, 0) /\ pc' = "ended" /\ Here.kind = "terminal"
        /\ UNCHANGED <<patient, pos, fact>>
    BY <1>1 DEF EndTerminal, Goto, Here, IsTerminal
  <2>2. pos = At /\ Here.status \in {"ok", "failed"}
    BY <2>1, StandsAt, MachineAssumption DEF Acting, Here
  <2>3. /\ Recorded' /\ journal' \in Seq(Event \cup {Torn}) /\ Lines' # <<>>
        /\ At' = At /\ Kept' /\ Timed' /\ Paid'
    BY <2>1, <2>2, EndFrame
  <2>4. Typed' /\ Standing'
    BY <2>1, <2>3 DEF IInv, Typed, Standing, Places, EndWith, ghosts
  <2>5. Remembers' /\ Observed' /\ Committed'
    BY <2>1, <2>2, <2>3 DEF Remembers, Observed, Committed, Acting, AtHand
  <2> QED BY <2>3, <2>4, <2>5 DEF IInv
<1>2. CASE EndSnapshot
  <2>1. Lines' = Lines /\ journal' = journal /\ Lines # <<>>
    BY <1>2 DEF EndSnapshot, Lines, IInv, Standing
  <2> QED BY <1>2, <2>1, QuietExit DEF EndSnapshot, ghosts, IInv, Typed
<1> QED BY <1>1, <1>2

-----------------------------------------------------------------------------
(* Executing a state.                                                      *)

\* The outcomes of each kind.
LEMMA KindLabels ==
  /\ Labels["tool"] = {"ok", "nonzero", "timeout"}
  /\ Labels["agent"] = {"ok", "failed", "budget_exhausted", "timeout"}
  /\ Labels["branch"] = {"if", "else"}
  /\ Labels["wait"] = {"tick", "signal"}
BY DEF Labels

\* A state of a kind has an edge for each of its outcomes.
LEMMA Edges ==
  ASSUME NEW s \in State, Machine[s].kind # "terminal"
  PROVE  DOMAIN Machine[s].on = Labels[Machine[s].kind]
BY MachineAssumption

\* What a fact is made of.
LEMMA FactMade ==
  ASSUME NEW kind \in Kind, NEW label \in Label
  PROVE  /\ FactOf(kind, label) \in Fact
         /\ FactOf(kind, label).kind = kind /\ FactOf(kind, label).label = label
         /\ FactOf(kind, label).usd = 0 /\ FactOf(kind, label).payload = NoPoke
BY DEF FactOf, Fact, NoWake, NoPoke

\* An observation that is no poke is at hand when the files confirm it.
LEMMA ObservePlain ==
  ASSUME IInv, NEW f \in Fact, Observe(f), f.payload = NoPoke,
         pc \in Acting, pc # "ended", ~OverBudget(pos), f.kind = Here.kind, f.kind # "terminal",
         f.label \in DOMAIN Here.on,
         f.kind = "branch" => f.label = RouteBranch(pos.state, pos.board),
         f.kind = "agent" => log.seq = pos.transitions /\ f.usd = log.usd,
         f.kind # "agent" => f.usd = 0,
         f.kind = "wait" => /\ Parked /\ f.wake = wait.wake /\ f.label = "tick"
                            /\ f.wake # NoWake /\ now >= f.wake,
         UNCHANGED <<files, patient, pos, now, ghosts>>
  PROVE  IInv'
<1>1. /\ pc' = "delivered" /\ fact' = f
      /\ UNCHANGED <<journal, wait, signal, claim, pokeFile, stop, log, snapshot, patient, pos, now,
                     billed, poked, replaced>>
  BY DEF Observe, Goto, files, ghosts
<1>2. pos = At /\ ~Closed(Lines) /\ Lines # <<>> /\ pc # "retired" /\ pos.state \in State
  BY StandsAt
<1>3. Lines' = Lines /\ At' = At
  BY <1>1, SameLines DEF Lines
<1>4. Recorded' /\ Kept' /\ Timed' /\ Paid'
  BY <1>1, <1>2, <1>3, Frame
<1>5. f.usd <= MaxTurns
  BY Bounds DEF IInv, Typed
<1>6. Typed'
  BY <1>1, <1>5 DEF IInv, Typed, Places, NoPoke
<1>7. Standing'
  BY <1>1, <1>2, <1>3, SameLines DEF Standing
<1>8. Remembers'
  BY <1>1, <1>2, <1>3 DEF Remembers, Acting, AtHand, Here, IsTerminal, OverBudget
<1>9. Observed'
  BY <1>1 DEF Observed, AtHand, Here, Parked
<1>10. Committed'
  BY <1>1 DEF Committed
<1> QED BY <1>4, <1>6, <1>7, <1>8, <1>9, <1>10 DEF IInv

\* A tool's or a branch's outcome is at hand.
LEMMA ToolAndBranchKeep == IInv /\ (RunTool \/ TakeBranch) => IInv'
<1> SUFFICES ASSUME IInv, RunTool \/ TakeBranch PROVE IInv'
  OBVIOUS
<1>1. pc = "entered" /\ pc \in Acting /\ pc # "ended" /\ ~OverBudget(pos)
      /\ UNCHANGED <<files, patient, pos, now, ghosts>>
  BY DEF RunTool, TakeBranch, Executing, Acting
<1>2. pos.state \in State
  BY <1>1, StandsAt
<1>3. CASE RunTool
  <2>1. Here.kind = "tool" /\ DOMAIN Here.on = {"ok", "nonzero", "timeout"}
    BY <1>2, <1>3, Edges, KindLabels DEF RunTool, Executing, Here
  <2>2. PICK f : Observe(f) /\ f \in Fact /\ f.payload = NoPoke /\ f.kind = "tool"
                 /\ f.label \in {"ok", "nonzero", "timeout"} /\ f.usd = 0
    <3>1. CASE \E v \in Value \cup {Bad} : Observe([FactOf("tool", "ok") EXCEPT !.value = v])
      <4>1. PICK v \in Value \cup {Bad} : Observe([FactOf("tool", "ok") EXCEPT !.value = v])
        BY <3>1
      <4>2. "tool" \in Kind /\ "ok" \in Label
        BY DEF Kind, Label
      <4>3. FactOf("tool", "ok") \in Fact
        BY <4>2, FactMade
      <4> DEFINE f == [FactOf("tool", "ok") EXCEPT !.value = v]
      <4>4. f \in Fact /\ f.payload = NoPoke /\ f.kind = "tool" /\ f.label = "ok" /\ f.usd = 0
        BY <4>2 DEF FactOf, Fact, NoWake, NoPoke
      <4> HIDE DEF f
      <4>5. Observe(f)
        BY <4>1 DEF f
      <4> QED BY <4>4, <4>5
    <3>2. CASE \E l \in {"nonzero", "timeout"} : Observe(FactOf("tool", l))
      <4>1. PICK l \in {"nonzero", "timeout"} : Observe(FactOf("tool", l))
        BY <3>2
      <4>2. "tool" \in Kind /\ l \in Label
        BY DEF Kind, Label
      <4> QED BY <4>1, <4>2, FactMade
    <3> QED BY <1>3, <3>1, <3>2 DEF RunTool
  <2> QED BY <1>1, <2>1, <2>2, ObservePlain
<1>4. CASE TakeBranch
  <2> DEFINE label == RouteBranch(pos.state, pos.board)
             f == FactOf("branch", label)
  <2>1. Here.kind = "branch" /\ DOMAIN Here.on = {"if", "else"}
    BY <1>2, <1>4, Edges, KindLabels DEF TakeBranch, Executing, Here
  <2>2. label \in {"if", "else"} /\ "branch" \in Kind /\ label \in Label
    BY DEF RouteBranch, Kind, Label
  <2> HIDE DEF label
  <2>3. f \in Fact /\ f.payload = NoPoke /\ f.kind = "branch" /\ f.label = label /\ f.usd = 0
    BY <2>2, FactMade
  <2>4. Observe(f)
    BY <1>4 DEF TakeBranch, label
  <2> HIDE DEF f
  <2> QED BY <1>1, <2>1, <2>2, <2>3, <2>4, ObservePlain DEF label
<1> QED BY <1>3, <1>4

\* An agent's outcome is at hand with what its log says it spent.
LEMMA AgentDoneKeeps == IInv /\ AgentDone => IInv'
<1> SUFFICES ASSUME IInv, AgentDone PROVE IInv'
  OBVIOUS
<1>1. /\ pc = "running" /\ pc \in Acting /\ pc # "ended" /\ ~OverBudget(pos) /\ Here.kind = "agent"
      /\ log.seq = pos.transitions /\ log.usd \in Nat
      /\ UNCHANGED <<files, patient, pos, now, ghosts>>
  BY DEF AgentDone, Acting, IInv, Remembers, Typed
<1>2. pos.state \in State
  BY <1>1, StandsAt
<1>3. DOMAIN Here.on = {"ok", "failed", "budget_exhausted", "timeout"}
  BY <1>1, <1>2, Edges, KindLabels DEF Here
<1>4. PICK f : Observe(f) /\ f \in Fact /\ f.payload = NoPoke /\ f.kind = "agent" /\ f.usd = log.usd
               /\ f.label \in {"ok", "failed", "budget_exhausted", "timeout"}
  <2>1. CASE \E v \in Value \cup {Bad} :
                Observe([FactOf("agent", "ok") EXCEPT !.value = v, !.usd = log.usd])
    <3>1. PICK v \in Value \cup {Bad} :
                Observe([FactOf("agent", "ok") EXCEPT !.value = v, !.usd = log.usd])
      BY <2>1
    <3> DEFINE f == [FactOf("agent", "ok") EXCEPT !.value = v, !.usd = log.usd]
    <3>2. f \in Fact /\ f.payload = NoPoke /\ f.kind = "agent" /\ f.label = "ok" /\ f.usd = log.usd
      BY <1>1 DEF FactOf, Fact, NoWake, NoPoke, Kind, Label
    <3> HIDE DEF f
    <3>3. Observe(f)
      BY <3>1 DEF f
    <3> QED BY <3>2, <3>3
  <2>2. CASE \E l \in {"failed", "budget_exhausted", "timeout"} :
                Observe([FactOf("agent", l) EXCEPT !.usd = log.usd])
    <3>1. PICK l \in {"failed", "budget_exhausted", "timeout"} :
                Observe([FactOf("agent", l) EXCEPT !.usd = log.usd])
      BY <2>2
    <3> DEFINE f == [FactOf("agent", l) EXCEPT !.usd = log.usd]
    <3>2. f \in Fact /\ f.payload = NoPoke /\ f.kind = "agent" /\ f.label = l /\ f.usd = log.usd
      BY <1>1 DEF FactOf, Fact, NoWake, NoPoke, Kind, Label
    <3> HIDE DEF f
    <3>3. Observe(f)
      BY <3>1 DEF f
    <3> QED BY <3>2, <3>3
  <2> QED BY <2>1, <2>2 DEF AgentDone
<1> QED BY <1>1, <1>3, <1>4, ObservePlain

\* Starting an attempt and each of its turns keep log and spend together.
LEMMA AgentKeeps == IInv /\ (StartAgent \/ AgentTurn) => IInv'
<1> SUFFICES ASSUME IInv, StartAgent \/ AgentTurn PROVE IInv'
  OBVIOUS
<1>1. /\ Lines' = Lines /\ At' = At /\ journal' = journal
      /\ UNCHANGED <<wait, signal, claim, pokeFile, stop, snapshot, patient, pos, fact, now,
                     poked, replaced>>
  BY SameLines DEF Lines, StartAgent, AgentTurn, process, ghosts
<1>2. Recorded' /\ Kept' /\ Timed'
  BY <1>1, Frame
<1>3. pc \in {"entered", "running"} /\ pc' = "running" /\ Observed' /\ Committed'
  BY <1>1 DEF StartAgent, AgentTurn, Goto, process, Executing, Observed, Committed, AtHand
<1>4. pos = At /\ pos.transitions \in Nat /\ ~Closed(Lines) /\ Lines # <<>> /\ pos.spent \in Nat
  BY <1>3, StandsAt DEF Acting
<1>5. Standing'
  BY <1>1, <1>3, <1>4, SameLines DEF Standing
<1>6. CASE StartAgent
  <2>1. log' = [seq |-> pos.transitions, usd |-> 0] /\ Here.kind = "agent" /\ ~OverBudget(pos)
        /\ billed' = billed
    BY <1>6 DEF StartAgent, Executing, ghosts
  <2>2. Typed'
    BY <1>1, <1>3, <1>4, <2>1, Bounds DEF IInv, Typed, Places
  <2>3. Remembers'
    BY <1>1, <1>3, <1>4, <2>1 DEF Remembers, Acting, AtHand, Here, IsTerminal, OverBudget
  <2>4. Paid'
    <3>1. Unbooked' = 0
      BY <1>3, <2>1 DEF Unbooked
    <3>2. Unbooked \in Nat
      BY <1>3 DEF Unbooked, IInv, Typed
    <3> QED BY <1>1, <1>4, <2>1, <3>1, <3>2, SameLines DEF IInv, Paid, Typed
  <2> QED BY <1>2, <1>3, <1>5, <2>2, <2>3, <2>4 DEF IInv
<1>7. CASE AgentTurn
  <2>1. /\ pc = "running" /\ log' = [log EXCEPT !.usd = @ + 1] /\ billed' = billed + 1
        /\ log.usd < MaxTurns
    BY <1>7 DEF AgentTurn
  <2>2. log.seq \in Nat \cup {-1} /\ log.usd \in Nat /\ log'.seq = log.seq /\ log'.usd = log.usd + 1
        /\ log' \in [seq : Nat \cup {-1}, usd : Nat]
    BY <2>1 DEF IInv, Typed
  <2>3. Typed'
    <3>1. log'.usd <= MaxTurns
      BY <2>1, <2>2, Bounds
    <3>2. billed' \in Nat
      BY <2>1 DEF IInv, Typed
    <3> QED BY <1>1, <1>3, <2>2, <3>1, <3>2 DEF IInv, Typed, Places
  <2>4. Remembers'
    BY <1>1, <1>3, <1>4, <2>1, <2>2 DEF IInv, Remembers, Acting, AtHand, Here, IsTerminal, OverBudget
  <2>5. Paid'
    <3>1. Orphaned(log)' <=> Orphaned(log)
      <4>1. StepSeqs(Lines)' = StepSeqs(Lines)
        BY <1>1, SameLines
      <4>2. Orphaned(log) <=> log.seq # NoLog.seq /\ log.seq \notin StepSeqs(Lines)
        BY DEF Orphaned, Lines
      <4>3. Orphaned(log)' <=> log'.seq # NoLog.seq /\ log'.seq \notin StepSeqs(Lines)'
        BY DEF Orphaned, Lines, NoLog
      <4>4. log'.seq = log.seq
        BY <2>2
      <4> QED BY <4>1, <4>2, <4>3, <4>4, Zenon
    <3>2. Unbooked' <= Unbooked + 1 /\ Unbooked' \in Nat /\ Unbooked \in Nat
      BY <1>3, <2>1, <2>2, <3>1 DEF Unbooked
    <3>3. At.spent + Unbooked <= billed /\ billed \in Nat /\ At.spent \in Nat
      BY <1>4 DEF IInv, Paid, Typed
    <3>4. ~Closed(Lines)'
      BY <1>1, <1>4, SameLines
    <3> QED BY <1>1, <2>1, <3>2, <3>3, <3>4 DEF Paid
  <2> QED BY <1>2, <1>3, <1>5, <2>3, <2>4, <2>5 DEF IInv
<1> QED BY <1>6, <1>7

-----------------------------------------------------------------------------
(* Waiting.                                                                *)

\* An armed wait is this visit's and carries its full delay.
LEMMA ArmWaitKeeps == IInv /\ ArmWait => IInv'
<1> SUFFICES ASSUME IInv, ArmWait PROVE IInv'
  OBVIOUS
<1>1. /\ pc = "entered" /\ pc' = "waiting" /\ Here.kind = "wait" /\ ~OverBudget(pos)
      /\ Lines' = Lines /\ At' = At
      /\ UNCHANGED <<journal, signal, claim, pokeFile, stop, log, snapshot, patient, pos, fact, now,
                     billed, poked, replaced>>
  BY SameLines DEF ArmWait, Goto, Executing, Lines, ghosts
<1>2. /\ pos = At /\ pos.state \in State /\ pos.transitions \in Nat /\ ~Closed(Lines) /\ Lines # <<>>
  BY <1>1, StandsAt DEF Acting
<1>3. Recorded' /\ Kept' /\ Paid'
  BY <1>1, Frame
<1>4. Here.delay \in Nat /\ now \in Nat
  BY <1>2, MachineAssumption DEF Here, IInv, Typed
<1>5. CASE Parked
  <2>1. wait' = wait
    BY <1>5 DEF ArmWait
  <2>2. Timed' /\ Typed'
    BY <1>1, <2>1, Frame DEF IInv, Typed, Places
  <2>3. Standing' /\ Remembers'
    BY <1>1, <1>2, <1>5, <2>1, SameLines DEF Standing, Remembers, Acting, AtHand, Here, IsTerminal, OverBudget, Parked
  <2> QED BY <1>1, <1>3, <2>2, <2>3 DEF IInv, Observed, Committed, AtHand
<1>6. CASE ~Parked
  <2>1. wait' = [state |-> pos.state, seq |-> pos.transitions,
                 wake |-> IF Here.delay = 0 THEN NoWake ELSE now + Here.delay]
    BY <1>6 DEF ArmWait
  <2>2. /\ wait'.state = pos.state /\ wait'.seq = pos.transitions
        /\ wait'.wake # NoWake => wait'.wake = now + Machine[pos.state].delay
        /\ wait' \in [state : State, seq : Nat \cup {-1}, wake : Nat]
    BY <1>2, <1>4, <2>1 DEF Here, NoWake
  <2>3. Typed'
    BY <1>1, <1>2, <2>2 DEF IInv, Typed, Places
  <2>4. Timed'
    <3>1. now >= LastTime(Lines) /\ LastTime(Lines) \in Nat /\ LastTime(Lines)' = LastTime(Lines)
      BY <1>1, SameLines DEF IInv, Timed, Recorded
    <3>2. wait'.wake # NoWake => wait'.wake >= LastTime(Lines) + Machine[wait'.state].delay
      BY <1>4, <2>2, <3>1 DEF Here
    <3>3. wait'.seq = At'.transitions /\ wait'.state = At'.state /\ At'.transitions \in Nat
      BY <1>1, <1>2, <2>2
    <3> QED BY <1>1, <3>1, <3>2, <3>3 DEF Timed
  <2>5. Standing' /\ Remembers'
    BY <1>1, <1>2, <2>2, SameLines DEF Standing, Remembers, Acting, AtHand, Here, IsTerminal, OverBudget, Parked
  <2> QED BY <1>1, <1>3, <2>3, <2>4, <2>5 DEF IInv, Observed, Committed, AtHand
<1> QED BY <1>5, <1>6

\* A taken poke is claimed before it is at hand, and none is lost or renamed over.
LEMMA TakeSignalKeeps == IInv /\ TakeSignal => IInv'
<1> SUFFICES ASSUME IInv, TakeSignal PROVE IInv'
  OBVIOUS
<1> DEFINE payload == Claimed(signal, claim)
<1>1. /\ pc = "waiting" /\ Here.kind = "wait" /\ ~OverBudget(pos) /\ Parked
      /\ Lines' = Lines /\ At' = At
      /\ UNCHANGED <<journal, wait, pokeFile, stop, log, snapshot, patient, pos, now,
                     billed, poked, replaced>>
  BY SameLines DEF TakeSignal, IInv, Remembers, Lines, ghosts
<1>2. /\ pos = At /\ pos.state \in State /\ pos.transitions \in Nat /\ ~Closed(Lines) /\ Lines # <<>>
  BY <1>1, StandsAt DEF Acting
<1>3. CASE payload = NoPoke
  <2>1. UNCHANGED <<signal, claim, fact>> /\ pc' = "unsignaled"
    BY <1>3 DEF TakeSignal, Goto
  <2>2. Recorded' /\ Kept' /\ Paid' /\ Timed'
    BY <1>1, <2>1, Frame
  <2>3. Typed'
    BY <1>1, <2>1 DEF IInv, Typed, Places
  <2>4. Standing' /\ Remembers'
    BY <1>1, <1>2, <2>1, SameLines DEF Standing, Remembers, Acting, AtHand, Here, IsTerminal, OverBudget, Parked
  <2> QED BY <2>1, <2>2, <2>3, <2>4 DEF IInv, Observed, Committed, AtHand
<1>4. CASE payload # NoPoke
  <2> DEFINE f == WaitFact("signal", payload)
  <2>1. /\ claim' = payload /\ signal' = IF payload = claim THEN signal ELSE NoPoke
        /\ Observe(f)
    BY <1>4 DEF TakeSignal
  <2>2. /\ signal \in 0 .. poked /\ claim \in 0 .. poked /\ poked \in Nat /\ wait.wake \in Nat
    BY DEF IInv, Typed
  <2>3. payload \in 0 .. poked /\ payload \in Nat /\ (claim # NoPoke => payload = claim)
        /\ (claim = NoPoke => payload = signal)
    BY <2>2 DEF Claimed
  <2> HIDE DEF payload
  <2>4. /\ f \in Fact /\ f.payload = payload /\ f.kind = "wait" /\ f.label = "signal" /\ f.usd = 0
        /\ f.wake = wait.wake
    BY <2>2, <2>3 DEF WaitFact, FactOf, Fact, Kind, Label, NoWake, NoPoke
  <2> HIDE DEF f
  <2>5. fact' = f /\ pc' = "observed"
    BY <1>4, <2>1, <2>4 DEF Observe, Goto
  <2>6. Recorded' /\ Paid' /\ Timed'
    BY <1>1, <2>5, Frame
  <2>7. Typed'
    BY <1>1, <2>1, <2>2, <2>3, <2>4, <2>5, Bounds DEF IInv, Typed, Places, NoPoke
  <2>8. Standing' /\ Remembers'
    BY <1>1, <1>2, <2>5, SameLines DEF Standing, Remembers, Acting, AtHand, Here, IsTerminal, OverBudget, Parked
  <2>9. Observed'
    <3>1. "signal" \in DOMAIN Here.on
      BY <1>1, <1>2, Edges, KindLabels DEF Here
    <3> QED BY <1>1, <1>4, <2>1, <2>4, <2>5, <3>1 DEF Observed, AtHand, Here, Parked
  <2>10. Kept'
    <3>1. Payloads(Lines)' = Payloads(Lines) /\ LastPayload(Lines)' = LastPayload(Lines)
      BY <1>1, SameLines
    <3>2. {signal, claim} \subseteq {signal', claim'} \cup {NoPoke}
      BY <2>1, <2>3
    <3>3. \A p \in 1 .. poked : p # NoPoke
      BY <2>2 DEF NoPoke
    <3>4. \A p \in 1 .. poked : p \in replaced \cup {signal', claim'} \cup Payloads(Lines)
      BY <3>2, <3>3 DEF IInv, Kept
    <3>5. pokeFile = LastPayload(Lines) \/ (claim' # NoPoke /\ pokeFile = claim')
      BY <2>1, <2>3 DEF IInv, Kept
    <3> QED BY <1>1, <3>1, <3>4, <3>5 DEF Kept
  <2> QED BY <2>5, <2>6, <2>7, <2>8, <2>9, <2>10 DEF IInv, Committed
<1> QED BY <1>3, <1>4

\* Seeing the stop, or no poke, keeps the wait armed.
LEMMA WaitsOnKeep == IInv /\ (StopWait \/ KeepSleeping \/ Yield) => IInv'
<1> SUFFICES ASSUME IInv, StopWait \/ KeepSleeping \/ Yield PROVE IInv'
  OBVIOUS
<1>1. /\ pc = "unsignaled" /\ Lines' = Lines /\ journal' = journal /\ At' = At
      /\ UNCHANGED <<wait, signal, claim, pokeFile, log, snapshot, now, billed, poked, replaced>>
  BY SameLines DEF StopWait, KeepSleeping, Yield, files, ghosts, Lines
<1>2. Lines # <<>> /\ ~Closed(Lines) /\ pos = At
  BY <1>1, StandsAt DEF Acting
<1>3. CASE StopWait \/ Yield
  BY <1>1, <1>2, <1>3, QuietExit DEF StopWait, Yield, files, ghosts, IInv, Typed
<1>4. CASE KeepSleeping
  <2>1. pc' = "waiting" /\ UNCHANGED <<stop, patient, pos, fact>>
    BY <1>4 DEF KeepSleeping, Goto, files
  <2>2. Recorded' /\ Kept' /\ Paid' /\ Timed'
    BY <1>1, <2>1, Frame
  <2>3. Typed' /\ Standing'
    BY <1>1, <1>2, <2>1, SameLines DEF IInv, Typed, Standing, Places
  <2>4. Remembers'
    BY <1>1, <1>2, <2>1 DEF IInv, Remembers, Acting, AtHand, Here, IsTerminal, OverBudget, Parked
  <2> QED BY <2>1, <2>2, <2>3, <2>4 DEF IInv, Observed, Committed, AtHand
<1> QED BY <1>3, <1>4

\* A tick at hand is due.
LEMMA TickKeeps == IInv /\ Tick => IInv'
<1> SUFFICES ASSUME IInv, Tick PROVE IInv'
  OBVIOUS
<1> DEFINE f == WaitFact("tick", NoPoke)
<1>1. /\ pc = "unsignaled" /\ pc \in Acting /\ pc # "ended" /\ Here.kind = "wait" /\ Parked
      /\ ~OverBudget(pos) /\ Observe(f) /\ wait.wake # NoWake /\ now >= wait.wake
      /\ UNCHANGED <<files, patient, pos, now, ghosts>>
  BY DEF Tick, Due, IInv, Remembers, Acting
<1>2. pos.state \in State /\ wait.wake \in Nat
  BY <1>1, StandsAt DEF IInv, Typed
<1>3. "tick" \in DOMAIN Here.on
  BY <1>1, <1>2, Edges, KindLabels DEF Here
<1>4. /\ f \in Fact /\ f.payload = NoPoke /\ f.kind = "wait" /\ f.label = "tick" /\ f.usd = 0
      /\ f.wake = wait.wake
  BY <1>2 DEF WaitFact, FactOf, Fact, Kind, Label, NoWake, NoPoke
<1> HIDE DEF f
<1> QED BY <1>1, <1>3, <1>4, ObservePlain

-----------------------------------------------------------------------------
(* From the observation to the next state.                                 *)

\* The payload is on disk before its step, and is still the claim's.
LEMMA MaterializePokeKeeps == IInv /\ MaterializePoke => IInv'
<1> SUFFICES ASSUME IInv, MaterializePoke PROVE IInv'
  OBVIOUS
<1>1. /\ pc = "observed" /\ pc' = "delivered" /\ pokeFile' = fact.payload
      /\ fact.payload # NoPoke /\ fact.payload = claim
      /\ Lines' = Lines /\ At' = At
      /\ UNCHANGED <<journal, wait, signal, claim, stop, log, snapshot, patient, pos, fact, now,
                     billed, poked, replaced>>
  BY SameLines DEF MaterializePoke, PokeFile, Goto, Lines, ghosts, IInv, Observed, AtHand
<1>2. Lines # <<>> /\ ~Closed(Lines) /\ pos = At
  BY <1>1, StandsAt DEF Acting
<1>3. Recorded' /\ Paid' /\ Timed'
  BY <1>1, Frame
<1>4. Typed' /\ Standing'
  BY <1>1, <1>2, SameLines DEF IInv, Typed, Standing, Places
<1>5. Remembers'
  BY <1>1, <1>2 DEF IInv, Remembers, Acting, AtHand, Here, IsTerminal, OverBudget, Parked
<1>6. Observed' /\ Committed'
  BY <1>1 DEF IInv, Observed, Committed, AtHand, Here, Parked
<1>7. Kept'
  BY <1>1, SameLines DEF IInv, Kept
<1> QED BY <1>3, <1>4, <1>5, <1>6, <1>7 DEF IInv

\* What the step being written is.
LEMMA StepWritten ==
  ASSUME IInv, JournalStep
  PROVE  /\ StepEvent(pos, fact) \in StepRecord /\ StepEvent(pos, fact) \in Event
         /\ Write(StepEvent(pos, fact)) /\ Fits(At, fact)
         /\ StepEvent(pos, fact).state = At.state /\ StepEvent(pos, fact).seq = At.transitions
         /\ StepEvent(pos, fact).fact = fact /\ StepEvent(pos, fact).ts = now
         /\ StepEvent(pos, fact).label = fact.label
         /\ StepEvent(pos, fact).goto = After(At, fact).state
         /\ IsType(StepEvent(pos, fact), "step") /\ ~IsType(StepEvent(pos, fact), "begin")
         /\ ~IsType(StepEvent(pos, fact), "end")
         /\ (fact.kind = "wait" /\ fact.label = "tick") =>
               now >= fact.wake /\ fact.wake >= LastTime(Lines) + Machine[pos.state].delay
<1> DEFINE e == StepEvent(pos, fact)
<1>1. pc = "delivered" /\ Reducible(pos.state, fact) /\ Write(e)
  BY DEF JournalStep, Tried
<1>2. /\ pos = At /\ pos \in Position /\ pos.state \in State /\ pos.transitions \in Nat
      /\ fact \in Fact /\ now \in Nat /\ fact.label \in Label
  BY <1>1, StandsAt DEF Acting, IInv, Typed, Fact
<1>3. fact.kind = Here.kind /\ fact.label \in DOMAIN Here.on
      /\ (fact.kind = "branch" => fact.label = RouteBranch(pos.state, pos.board))
  BY <1>1 DEF IInv, Observed, AtHand
<1>4. Fits(At, fact)
  BY <1>1, <1>2, <1>3 DEF Fits, Here
<1>5. Machine[pos.state].on[fact.label] \in State
  BY <1>2, <1>3, MachineAssumption DEF Here
<1>6. /\ e \in StepRecord /\ e.state = At.state /\ e.seq = At.transitions /\ e.fact = fact
      /\ e.ts = now /\ e.label = fact.label /\ e.goto = Machine[pos.state].on[fact.label]
      /\ IsType(e, "step") /\ ~IsType(e, "begin") /\ ~IsType(e, "end")
  BY <1>2, <1>5 DEF StepEvent, StepRecord, IsType
<1>7. e.goto = After(At, fact).state
  BY <1>2, <1>6 DEF After
<1>8. ASSUME fact.kind = "wait", fact.label = "tick"
      PROVE  now >= fact.wake /\ fact.wake >= LastTime(Lines) + Machine[pos.state].delay
  <2>1. Parked /\ fact.wake = wait.wake /\ fact.wake # NoWake /\ now >= fact.wake
    BY <1>1, <1>8 DEF IInv, Observed, AtHand
  <2>2. wait.seq = At.transitions /\ wait.state = At.state
    BY <1>2, <2>1 DEF Parked
  <2> QED BY <1>2, <2>1, <2>2 DEF IInv, Timed
<1> QED BY <1>1, <1>4, <1>6, <1>7, <1>8 DEF Event

\* A durable step takes the position, its spend and its poke into the journal.
LEMMA JournalStepKeeps == IInv /\ JournalStep => IInv'
<1> SUFFICES ASSUME IInv, JournalStep PROVE IInv'
  OBVIOUS
<1> DEFINE e == StepEvent(pos, fact)
<1>1. /\ pc = "delivered" /\ pc' = IF fact.kind = "wait" THEN "journaled" ELSE "acked"
      /\ UNCHANGED <<wait, signal, claim, pokeFile, stop, log, snapshot, patient, pos, fact, now,
                     billed, poked, replaced>>
  BY DEF JournalStep, Goto, ghosts
<1>2. /\ pos = At /\ At \in Position /\ pos.state \in State /\ pos.transitions \in Nat
      /\ pos.spent \in Nat /\ ~Closed(Lines) /\ Lines # <<>> /\ fact \in Fact /\ fact.usd \in Nat
      /\ fact.payload \in Nat
  BY <1>1, StandsAt DEF Acting, IInv, Typed, Fact
<1>3. /\ e \in Event /\ Write(e) /\ Fits(At, e.fact) /\ e.state = At.state /\ e.seq = At.transitions
      /\ e.fact = fact /\ e.ts = now /\ e.label = fact.label /\ e.goto = After(At, e.fact).state
      /\ IsType(e, "step") /\ ~IsType(e, "begin") /\ ~IsType(e, "end")
      /\ (fact.kind = "wait" /\ fact.label = "tick") =>
            now >= fact.wake /\ fact.wake >= LastTime(Lines) + Machine[pos.state].delay
  BY StepWritten
<1> HIDE DEF e
<1>4. /\ Recorded' /\ journal' \in Seq(Event \cup {Torn}) /\ Lines' # <<>>
      /\ ~Closed(Lines)' /\ At' = Effect(At, e)
      /\ StepSeqs(Lines)' = StepSeqs(Lines) \cup {e.seq}
      /\ LastTime(Lines)' = e.ts
      /\ Payloads(Lines)' = Payloads(Lines) \cup {e.fact.payload}
      /\ LastPayload(Lines)' = IF e.fact.payload # NoPoke THEN e.fact.payload ELSE LastPayload(Lines)
  BY <1>2, <1>3, WriteKeepsRecord
<1>5. At' = After(pos, fact)
  BY <1>2, <1>3, <1>4, EffectCases
<1>6. Typed' /\ Standing'
  BY <1>1, <1>2, <1>4 DEF IInv, Typed, Standing, Places
<1>7. Remembers' /\ Observed'
  BY <1>1, <1>5 DEF Remembers, Observed, Acting, AtHand
<1>8. Committed'
  <2>1. fact.payload # NoPoke => fact.payload = claim
    BY <1>1 DEF IInv, Observed, AtHand
  <2>2. fact.kind = "wait" => Parked /\ (fact.label = "signal" => fact.payload # NoPoke)
    BY <1>1 DEF IInv, Observed, AtHand
  <2> QED BY <1>1, <1>3, <1>4, <2>1, <2>2 DEF Committed, Parked
<1>9. Kept'
  <2>1. fact.payload # NoPoke => pokeFile = fact.payload
    BY <1>1 DEF IInv, Observed, AtHand
  <2> QED BY <1>1, <1>3, <1>4, <2>1 DEF IInv, Kept
<1>10. Timed'
  <2>1. At'.transitions = At.transitions + 1
    BY <1>2, <1>5 DEF After
  <2>2. wait.seq <= At.transitions /\ wait.seq \in Int
    BY DEF IInv, Timed, Typed
  <2>3. wait'.seq <= At'.transitions /\ wait'.seq # At'.transitions
    BY <1>1, <1>2, <2>1, <2>2
  <2>4. now' >= LastTime(Lines)'
    BY <1>1, <1>3, <1>4 DEF IInv, Typed
  <2> QED BY <2>3, <2>4 DEF Timed
<1>11. Paid'
  <2>1. At'.spent = At.spent + fact.usd
    BY <1>2, <1>5 DEF After
  <2>2. Orphaned(log) <=> log.seq # NoLog.seq /\ log.seq \notin StepSeqs(Lines)
    BY DEF Orphaned, Lines
  <2>3. Orphaned(log)' <=> log.seq # NoLog.seq /\ log.seq \notin StepSeqs(Lines)'
    BY <1>1 DEF Orphaned, Lines, NoLog
  <2>4. At.spent + Unbooked <= billed /\ Unbooked = IF Orphaned(log) THEN log.usd ELSE 0
    BY <1>1, <1>2 DEF IInv, Paid, Unbooked
  <2>5. Unbooked' = IF Orphaned(log)' THEN log.usd ELSE 0
    BY <1>1 DEF Unbooked
  <2>6. log.usd \in Nat /\ billed \in Nat /\ log.seq \in Nat \cup {-1}
    BY DEF IInv, Typed
  <2>7. CASE fact.kind = "agent"
    <3>1. log.seq = pos.transitions /\ fact.usd = log.usd
      BY <1>1, <2>7 DEF IInv, Observed, AtHand
    <3>2. log.seq \notin StepSeqs(Lines) /\ log.seq # NoLog.seq /\ log.seq \in StepSeqs(Lines)'
      BY <1>2, <1>3, <1>4, <3>1 DEF IInv, Recorded, NoLog
    <3>3. Unbooked = fact.usd /\ Unbooked' = 0
      BY <2>2, <2>3, <2>4, <2>5, <3>1, <3>2
    <3> QED BY <1>1, <1>2, <1>4, <2>1, <2>4, <2>6, <3>3 DEF Paid
  <2>8. CASE fact.kind # "agent"
    <3>1. fact.usd = 0
      BY <1>1, <2>8 DEF IInv, Observed, AtHand
    <3>2. Orphaned(log)' => Orphaned(log)
      BY <1>4, <2>2, <2>3
    <3>3. Unbooked' <= Unbooked /\ Unbooked \in Nat /\ Unbooked' \in Nat
      BY <2>4, <2>5, <2>6, <3>2
    <3> QED BY <1>1, <1>2, <1>4, <2>1, <2>4, <2>6, <3>1, <3>3 DEF Paid
  <2> QED BY <2>7, <2>8
<1> QED BY <1>4, <1>6, <1>7, <1>8, <1>9, <1>10, <1>11 DEF IInv

\* Once its step is in the journal the wait's record can go.
LEMMA ClearWaitKeeps == IInv /\ ClearWait => IInv'
<1> SUFFICES ASSUME IInv, ClearWait PROVE IInv'
  OBVIOUS
<1>1. /\ pc = "journaled" /\ pc' = IF fact.label = "signal" THEN "cleared" ELSE "acked"
      /\ wait' = NoWait /\ Lines' = Lines /\ At' = At
      /\ UNCHANGED <<journal, signal, claim, pokeFile, stop, log, snapshot, patient, pos, fact, now,
                     billed, poked, replaced>>
  BY SameLines DEF ClearWait, Goto, Lines, ghosts
<1>2. Recorded' /\ Paid' /\ Kept'
  BY <1>1, Frame
<1>3. NoWait \in [state : State, seq : Nat \cup {-1}, wake : Nat] /\ NoWait.seq = -1
  BY MachineAssumption DEF NoWait, NoWake
<1>4. Typed'
  BY <1>1, <1>3 DEF IInv, Typed, Places
<1>5. Standing' /\ Remembers' /\ Observed'
  BY <1>1, SameLines DEF IInv, Standing, Remembers, Observed, Acting, AtHand
<1>6. Committed'
  BY <1>1, SameLines DEF IInv, Committed
<1>7. Timed'
  <2>1. At.transitions \in Nat
    BY DEF IInv, Recorded, Position
  <2>2. wait'.seq <= At'.transitions /\ wait'.seq # At'.transitions
    BY <1>1, <1>3, <2>1
  <2> QED BY <1>1, <2>2, SameLines DEF IInv, Timed
<1> QED BY <1>2, <1>4, <1>5, <1>6, <1>7 DEF IInv

\* A claim goes only when its payload is delivered.
LEMMA AckSignalKeeps == IInv /\ AckSignal => IInv'
<1> SUFFICES ASSUME IInv, AckSignal PROVE IInv'
  OBVIOUS
<1>1. /\ pc = "cleared" /\ pc' = "acked" /\ claim' = NoPoke /\ Lines' = Lines /\ At' = At
      /\ UNCHANGED <<journal, wait, signal, pokeFile, stop, log, snapshot, patient, pos, fact, now,
                     billed, poked, replaced>>
  BY SameLines DEF AckSignal, Goto, Lines, ghosts
<1>2. Recorded' /\ Paid' /\ Timed'
  BY <1>1, Frame
<1>3. Typed'
  BY <1>1 DEF IInv, Typed, Places, NoPoke
<1>4. Standing' /\ Remembers' /\ Observed' /\ Committed'
  BY <1>1, SameLines DEF IInv, Standing, Remembers, Observed, Committed, Acting, AtHand
<1>5. Kept'
  <2>1. claim = LastPayload(Lines) /\ claim \in Payloads(Lines)
    BY <1>1 DEF IInv, Committed
  <2>2. Payloads(Lines)' = Payloads(Lines) /\ LastPayload(Lines)' = LastPayload(Lines)
    BY <1>1, SameLines
  <2> QED BY <1>1, <2>1, <2>2 DEF IInv, Kept
<1> QED BY <1>2, <1>3, <1>4, <1>5 DEF IInv

\* Memory catches up with the journal.
LEMMA AdvanceKeeps == IInv /\ Advance => IInv'
<1> SUFFICES ASSUME IInv, Advance PROVE IInv'
  OBVIOUS
<1>1. /\ pc = "acked" /\ pc' = "boundary" /\ pos' = At /\ snapshot' = At /\ fact' = NoFact
      /\ Lines' = Lines /\ At' = At
      /\ UNCHANGED <<journal, wait, signal, claim, pokeFile, stop, log, patient, now,
                     billed, poked, replaced>>
  BY SameLines DEF Advance, Goto, Lines, ghosts, IInv, Remembers
<1>2. Recorded' /\ Paid' /\ Timed' /\ Kept'
  BY <1>1, Frame
<1>3. At \in Position
  BY DEF IInv, Recorded
<1>4. Typed'
  BY <1>1, <1>3, NoFactTyped, Bounds DEF IInv, Typed, Places, NoPoke
<1>5. Standing' /\ Remembers' /\ Observed' /\ Committed'
  BY <1>1, SameLines DEF IInv, Standing, Remembers, Observed, Committed, Acting, AtHand
<1> QED BY <1>2, <1>4, <1>5 DEF IInv

-----------------------------------------------------------------------------
(* The operator and the clock.                                             *)

\* A poke, a stop and the passing of time land anywhere.
LEMMA OutsideKeeps == IInv /\ (Poke \/ RequestStop \/ Clock) => IInv'
<1> SUFFICES ASSUME IInv, Poke \/ RequestStop \/ Clock PROVE IInv'
  OBVIOUS
<1>1. /\ Lines' = Lines /\ At' = At
      /\ UNCHANGED <<journal, wait, claim, pokeFile, log, snapshot, pc, patient, pos, fact, billed>>
  BY SameLines DEF Poke, RequestStop, Clock, Lines, files, process, ghosts
<1>2. Standing' /\ Remembers' /\ Committed'
  BY <1>1, SameLines DEF IInv, Standing, Remembers, Committed, Acting, AtHand, Here, IsTerminal,
                         OverBudget, Parked
<1>3. CASE Poke
  <2>1. /\ poked' = poked + 1 /\ signal' = poked + 1 /\ poked < MaxPokes
        /\ replaced' = (IF signal = NoPoke THEN replaced ELSE replaced \cup {signal})
        /\ UNCHANGED <<stop, now>>
    BY <1>3 DEF Poke, process
  <2>2. Recorded' /\ Timed' /\ Paid'
    <3>1. Unbooked' = Unbooked
      BY <1>1, SameLines DEF Unbooked
    <3> QED BY <1>1, <2>1, <3>1, Frame, SameLines DEF IInv, Paid
  <2>3. Observed'
    BY <1>1, <2>1 DEF IInv, Observed, AtHand, Here, Parked
  <2>4. /\ poked \in Nat /\ replaced \subseteq 1 .. poked /\ signal \in 0 .. poked
    BY DEF IInv, Typed
  <2>5. Typed'
    <3>1. poked' \in Nat /\ poked' <= MaxPokes
      BY <2>1, <2>4, Bounds
    <3>2. signal' \in 0 .. poked' /\ claim' \in 0 .. poked' /\ pokeFile' \in 0 .. poked'
      BY <1>1, <2>1, <2>4 DEF IInv, Typed
    <3>3. replaced' \subseteq 1 .. poked'
      BY <2>1, <2>4 DEF NoPoke
    <3>4. fact'.payload <= poked'
      BY <1>1, <2>1, <2>4 DEF IInv, Typed, Fact
    <3> QED BY <1>1, <2>1, <3>1, <3>2, <3>3, <3>4 DEF IInv, Typed
  <2>6. Kept'
    <3>1. \A p \in 1 .. poked' : p \in 1 .. poked \/ p = signal'
      BY <2>1, <2>4
    <3>2. \A p \in 1 .. poked : p # NoPoke
      BY <2>4 DEF NoPoke
    <3>3. \A p \in 1 .. poked' : p \in replaced' \cup {signal', claim} \cup Payloads(Lines)
      BY <2>1, <3>1, <3>2 DEF IInv, Kept
    <3> QED BY <1>1, <3>3, SameLines DEF IInv, Kept
  <2> QED BY <1>2, <2>2, <2>3, <2>5, <2>6 DEF IInv
<1>4. CASE RequestStop \/ Clock
  <2>1. /\ UNCHANGED <<poked, signal, replaced>> /\ stop' \in BOOLEAN /\ now' \in Nat /\ now' >= now
        /\ now \in Nat
    <3>1. now \in Nat /\ stop \in BOOLEAN
      BY DEF IInv, Typed
    <3>2. CASE RequestStop
      BY <3>1, <3>2 DEF RequestStop, process, ghosts
    <3>3. CASE Clock
      <4>1. UNCHANGED <<poked, signal, replaced, stop>> /\ now' = now + 1
        BY <3>3 DEF Clock, process, files, ghosts
      <4> QED BY <3>1, <4>1
    <3> QED BY <1>4, <3>2, <3>3
  <2>2. Recorded' /\ Kept' /\ Paid'
    <3>1. Unbooked' = Unbooked
      BY <1>1, SameLines DEF Unbooked
    <3> QED BY <1>1, <2>1, <3>1, Frame, SameLines DEF IInv, Paid
  <2>3. Timed'
    <3>1. now >= LastTime(Lines) /\ LastTime(Lines) \in Nat /\ LastTime(Lines)' = LastTime(Lines)
      BY <1>1, SameLines DEF IInv, Timed, Recorded
    <3>2. now' >= LastTime(Lines)'
      BY <2>1, <3>1
    <3> QED BY <1>1, <3>1, <3>2 DEF IInv, Timed
  <2>4. Observed'
    <3>1. fact.wake \in Nat
      BY DEF IInv, Typed, Fact
    <3>2. now >= fact.wake => now' >= fact.wake
      BY <2>1, <3>1
    <3> QED BY <1>1, <2>1, <3>2, Zenon DEF IInv, Observed, AtHand, Here, Parked
  <2>5. Typed'
    BY <1>1, <2>1 DEF IInv, Typed
  <2> QED BY <1>2, <2>2, <2>3, <2>4, <2>5 DEF IInv
<1> QED BY <1>3, <1>4

-----------------------------------------------------------------------------
(* The invariant.                                                          *)

\* A machine that has not begun satisfies it.
LEMMA InitHolds == Init => IInv
<1> SUFFICES ASSUME Init PROVE IInv
  OBVIOUS
<1>1. journal = <<>> /\ Read(<<>>) = <<>>
  BY DEF Init, Read, EndsTorn
<1>2. Lines = <<>> /\ At = StartPosition
  BY <1>1, EmptyReplays DEF Lines, At
<1>3. /\ DOMAIN <<>> = {} /\ Len(<<>>) = 0 /\ <<>> \in Seq(Event) /\ <<>> \in Seq(Event \cup {Torn})
  BY EmptySeq, LenProperties
<1>4. StepSeqs(<<>>) = {} /\ Payloads(<<>>) = {} /\ Wakes(<<>>) = {}
  BY <1>3 DEF StepSeqs, Payloads, Wakes
<1>5. LastTime(<<>>) = 1
  <2>1. {k \in 1 .. ((0 + 1) - 1) : IsType(<<>>[k], "step")} = {}
    OBVIOUS
  <2> QED BY <1>3, <2>1 DEF LastTime, PreviousTs
<1>6. StartPosition.transitions = 0 /\ StartPosition.spent = 0
  BY DEF StartPosition
<1>7. Recorded
  <2>1. StepSeqs(<<>>) = 0 .. (StartPosition.transitions - 1)
    BY <1>4, <1>6
  <2> QED BY <1>2, <1>3, <1>5, <2>1, StartTyped, EmptyKeepsTheRules DEF Recorded
<1>8. NoWait \in [state : State, seq : Nat \cup {-1}, wake : Nat] /\ NoWait.seq = -1
  BY MachineAssumption DEF NoWait, NoWake
<1>9. NoLog \in [seq : Nat \cup {-1}, usd : Nat] /\ NoLog.usd = 0
  BY DEF NoLog
<1>10. Typed
  <2>1. /\ journal \in Seq(Event \cup {Torn}) /\ pc \in Places /\ pos \in Position
        /\ snapshot \in Position /\ fact \in Fact /\ fact.usd <= MaxTurns /\ fact.payload <= poked
    BY <1>3, StartTyped, NoFactTyped, Bounds DEF Init, Places, NoPoke
  <2>2. /\ log \in [seq : Nat \cup {-1}, usd : Nat] /\ log.usd <= MaxTurns
        /\ wait \in [state : State, seq : Nat \cup {-1}, wake : Nat] /\ wait = NoWait
    BY <1>8, <1>9, Bounds DEF Init
  <2>3. /\ poked \in Nat /\ poked <= MaxPokes /\ signal \in 0 .. poked /\ claim \in 0 .. poked
        /\ pokeFile \in 0 .. poked /\ replaced \subseteq 1 .. poked /\ billed \in Nat /\ now \in Nat
    BY Bounds DEF Init, NoPoke
  <2>4. stop \in BOOLEAN /\ patient \in BOOLEAN
    BY DEF Init
  <2> QED BY <2>1, <2>2, <2>3, <2>4 DEF Typed
<1>11. Standing /\ Remembers /\ Observed /\ Committed
  BY <1>2, EmptyKeepsTheRules DEF Init, Standing, Remembers, Observed, Committed, Acting, AtHand
<1>12. Paid
  <2>1. ~Orphaned(log) /\ pc # "retired" /\ billed = 0
    BY DEF Init, Orphaned
  <2>2. Unbooked = 0
    BY <2>1 DEF Unbooked
  <2> QED BY <1>2, <1>6, <2>1, <2>2, EmptyKeepsTheRules DEF Paid
<1>13. Kept
  BY <1>2, <1>4 DEF Init, Kept, LastPayload
<1>14. Timed
  BY <1>2, <1>5, <1>6, <1>8 DEF Init, Timed
<1> QED BY <1>7, <1>10, <1>11, <1>12, <1>13, <1>14 DEF IInv

\* Every step keeps it, and so does standing still.
LEMMA NextKeeps == IInv /\ [Next]_vars => IInv'
<1> SUFFICES ASSUME IInv, [Next]_vars PROVE IInv'
  OBVIOUS
<1>1. CASE RunMachine
  BY <1>1, RunMachineKeeps
<1>2. CASE Booking
  BY <1>2, RetireLogKeeps, BookCrashedAttemptKeeps, DriveKeeps DEF Booking
<1>3. CASE StopAtBoundary \/ Enter
  BY <1>3, StopAtBoundaryKeeps, EnterKeeps
<1>4. CASE Ending
  BY <1>4, TerminalKeeps, EarlyEndsKeep, EndIrreducibleKeeps DEF Ending
<1>5. CASE Executed
  BY <1>5, ToolAndBranchKeep, AgentKeeps, AgentDoneKeeps DEF Executed
<1>6. CASE Waiting
  BY <1>6, ArmWaitKeeps, TakeSignalKeeps, WaitsOnKeep, TickKeeps DEF Waiting
<1>7. CASE Committing
  BY <1>7, MaterializePokeKeeps, JournalStepKeeps, ClearWaitKeeps, AckSignalKeeps, AdvanceKeeps
     DEF Committing
<1>8. CASE Poke \/ RequestStop \/ Clock
  BY <1>8, OutsideKeeps
<1>9. CASE Crash
  BY <1>9, CrashKeeps
<1>10. CASE UNCHANGED vars
  <2>1. /\ Lines' = Lines
        /\ UNCHANGED <<journal, wait, signal, claim, pokeFile, stop, log, snapshot, pc, patient, pos,
                       fact, now, billed, poked, replaced>>
    BY <1>10 DEF vars, files, process, ghosts, Lines
  <2>2. Recorded' /\ Kept' /\ Timed'
    BY <2>1, Frame
  <2>3. Paid'
    <3>1. Unbooked' = Unbooked
      BY <2>1, SameLines DEF Unbooked
    <3> QED BY <2>1, <3>1, SameLines DEF IInv, Paid
  <2>4. Typed'
    BY <2>1 DEF IInv, Typed
  <2>5. Standing' /\ Remembers' /\ Observed' /\ Committed'
    BY <2>1, SameLines DEF IInv, Standing, Remembers, Observed, Committed, Here, IsTerminal,
                           OverBudget, Parked
  <2> QED BY <2>2, <2>3, <2>4, <2>5 DEF IInv
<1> QED BY <1>1, <1>2, <1>3, <1>4, <1>5, <1>6, <1>7, <1>8, <1>9, <1>10 DEF Next, Supervise

\* The journal, the files and the supervisor's memory belong together in every
\* reachable state, whatever died and whenever.
THEOREM Invariance == Spec => []IInv
<1> QED BY InitHolds, NextKeeps, PTL DEF Spec

-----------------------------------------------------------------------------
(* What the invariant promises.                                            *)

\* Every variable has its type, for every machine and bound.
THEOREM TypeOKHolds == Spec => []TypeOK
<1>1. IInv => TypeOK
  <2> SUFFICES ASSUME IInv PROVE TypeOK
    OBVIOUS
  <2>1. /\ fact.kind \in Kind /\ fact.usd \in Nat /\ fact.payload \in Nat /\ fact.usd <= MaxTurns
        /\ fact.payload <= poked /\ poked \in Nat /\ poked <= MaxPokes
        /\ log.usd \in Nat /\ log.usd <= MaxTurns /\ wait.state \in State
    BY DEF IInv, Typed, Fact
  <2>2. fact.usd \in 0 .. MaxTurns /\ fact.payload \in 0 .. MaxPokes /\ log.usd \in 0 .. MaxTurns
    BY <2>1, Bounds
  <2>3. {stop, patient} \subseteq BOOLEAN
    BY Zenon DEF IInv, Typed
  <2>4. {signal, claim, pokeFile} \subseteq 0 .. poked
    BY Zenon DEF IInv, Typed
  <2>5. pc = "down" => pos = StartPosition /\ fact = NoFact
    BY DEF IInv, Standing
  <2>6. pos \in Position /\ snapshot \in Position /\ replaced \subseteq 1 .. poked /\ pc \in Places
    BY DEF IInv, Typed
  <2> QED BY <2>1, <2>2, <2>3, <2>4, <2>5, <2>6 DEF TypeOK, Places
<1> QED BY <1>1, Invariance, PTL

\* `_rebuild_from_journal' can replay the journal of every reachable state:
\* each recorded step fits where the steps before it lead to.
THEOREM ReplayAcceptsHolds == Spec => []ReplayAccepts
<1>1. IInv => ReplayAccepts
  <2> SUFFICES ASSUME IInv PROVE ReplayAccepts
    OBVIOUS
  <2>1. \A n \in DOMAIN Lines : LineFits(Lines, n)
    BY DEF IInv, Recorded, Accepted
  <2> QED BY <2>1, Zenon DEF LineFits, ReplayAccepts, Lines
<1> QED BY <1>1, Invariance, PTL

\* The supervisor acts on the position the journal leads to, after every restart.
THEOREM MemoryIsReplayHolds == Spec => []MemoryIsReplay
<1>1. IInv => MemoryIsReplay
  BY DEF IInv, Remembers, MemoryIsReplay, Acting, At, Lines
<1> QED BY <1>1, Invariance, PTL

\* No slice of spend is booked twice, by its step, its resume or the end.
THEOREM SpendBookedOnceHolds == Spec => []SpendBookedOnce
<1>1. IInv => SpendBookedOnce
  <2> SUFFICES ASSUME IInv PROVE SpendBookedOnce
    OBVIOUS
  <2>1. Ended(journal) <=> Closed(Lines)
    BY DEF Ended, Closed, Lines
  <2>2. Booked = At.spent + (IF Closed(Lines) THEN Lines[Len(Lines)].usd ELSE 0)
    BY <2>1 DEF Booked, At, Lines
  <2>3. At.spent \in Nat /\ billed \in Nat /\ Unbooked \in Nat
    BY DEF IInv, Recorded, Position, Typed, Fact, Unbooked
  <2>4. CASE Closed(Lines)
    BY <2>2, <2>4 DEF IInv, Paid, SpendBookedOnce
  <2>5. CASE ~Closed(Lines)
    <3>1. At.spent + Unbooked <= billed /\ Booked = At.spent + 0
      BY <2>2, <2>5 DEF IInv, Paid
    <3> QED BY <2>3, <3>1 DEF SpendBookedOnce
  <2> QED BY <2>4, <2>5
<1> QED BY <1>1, Invariance, PTL

\* The payloads read off the file are those of its complete lines.
LEMMA Delivers == IInv => Delivered = Payloads(Lines) /\ LastDelivered = LastPayload(Lines)
<1> SUFFICES ASSUME IInv PROVE Delivered = Payloads(Lines) /\ LastDelivered = LastPayload(Lines)
  OBVIOUS
<1>1. journal \in Seq(Event \cup {Torn}) /\ Read(journal) \in Seq(Event)
  BY DEF IInv, Typed, Recorded, Lines
<1>2. Payloads(journal) = Payloads(Lines) /\ LastPayload(journal) = LastPayload(Lines)
  BY <1>1, ReadDelivers DEF Lines
<1>3. Delivered = Payloads(journal)
  BY DEF Delivered, Payloads
<1>4. LastDelivered = LastPayload(journal)
  BY DEF LastDelivered, LastPayload, Wakes
<1> QED BY <1>2, <1>3, <1>4

\* `take_signal', `ack_signal': no poke is lost, however the wait that takes it dies.
THEOREM PokeKeptHolds == Spec => []PokeKept
<1>1. IInv => PokeKept
  BY Delivers DEF IInv, Kept, PokeKept
<1> QED BY <1>1, Invariance, PTL

\* `materialize_poke': a durable wake implies a durable payload.
THEOREM PokeFileDurableHolds == Spec => []PokeFileDurable
<1>1. IInv => PokeFileDurable
  BY Delivers DEF IInv, Kept, PokeFileDurable
<1> QED BY <1>1, Invariance, PTL

\* `arm_pending_wait': no tick is journaled before its full delay has passed.
THEOREM WaitsItsTimeHolds == Spec => []WaitsItsTime
<1>1. IInv => WaitsItsTime
  <2> SUFFICES ASSUME IInv PROVE WaitsItsTime
    OBVIOUS
  <2>1. \A n \in DOMAIN Lines : LineInTime(Lines, n)
    BY DEF IInv, Recorded, InTime
  <2> QED BY <2>1, Zenon DEF LineInTime, WaitsItsTime, Lines
<1> QED BY <1>1, Invariance, PTL

\* One step of the wait's record.
LEMMA WakeStep ==
  ASSUME IInv, Next, wait # NoWait
  PROVE  /\ wait'.state = wait.state /\ wait'.seq = wait.seq => wait' = wait
         /\ wait' # wait => wait.seq \in StepSeqs(Read(journal))
<1>1. /\ wait.seq \in Nat /\ wait.seq <= At.transitions /\ At.transitions \in Nat
      /\ StepSeqs(Lines) = 0 .. (At.transitions - 1)
      /\ wait.seq = At.transitions => wait.state = At.state
  BY DEF IInv, Typed, Recorded, Timed, Position
<1>2. wait.seq # At.transitions => wait.seq \in StepSeqs(Read(journal))
  BY <1>1 DEF Lines
<1>3. CASE ArmWait
  <2>1. pos = At
    BY <1>3, StandsAt DEF ArmWait, Executing, Acting
  <2>2. CASE Parked
    BY <1>3, <2>2 DEF ArmWait
  <2>3. CASE ~Parked
    <3>1. wait'.state = pos.state /\ wait'.seq = pos.transitions
      BY <1>3, <2>3 DEF ArmWait
    <3>2. wait.seq # At.transitions
      BY <1>1, <2>1, <2>3 DEF Parked
    <3> QED BY <1>2, <2>1, <3>1, <3>2
  <2> QED BY <2>2, <2>3
<1>4. CASE ClearWait
  <2>1. wait' = NoWait /\ NoWait.seq = -1
    BY <1>4 DEF ClearWait, NoWait
  <2>2. wait.seq = pos.transitions /\ At = After(pos, fact) /\ pos.transitions \in Nat
    BY <1>4 DEF ClearWait, IInv, Committed, Parked, Remembers, Typed, Position
  <2>3. At.transitions = pos.transitions + 1
    BY <2>2 DEF After
  <2> QED BY <1>1, <1>2, <2>1, <2>2, <2>3
<1>5. CASE wait' = wait
  BY <1>5
<1>6. ArmWait \/ ClearWait \/ wait' = wait
  BY DEF Next, Supervise, Booking, Ending, Executed, Waiting, Committing, RunMachine, RetireLog,
         BookCrashedAttempt, Drive, StopAtBoundary, Enter, EndTerminal, EndSnapshot, EndOverBudget,
         EndUnrenderable, EndIrreducible, EndWith, RunTool, TakeBranch, StartAgent, AgentTurn,
         AgentDone, TakeSignal, StopWait, Tick, KeepSleeping, Yield, MaterializePoke, JournalStep,
         AckSignal, Advance, Poke, RequestStop, Clock, Crash, files
<1> QED BY <1>3, <1>4, <1>5, <1>6

\* `arm_pending_wait': an armed wait keeps its instant until its step is on record.
THEOREM WakeFixedHolds == Spec => WakeFixed
<1>1. IInv /\ [Next]_vars =>
        [wait # NoWait =>
            /\ wait'.state = wait.state /\ wait'.seq = wait.seq => wait' = wait
            /\ wait' # wait => wait.seq \in StepSeqs(Read(journal))]_vars
  BY WakeStep
<1> QED BY <1>1, Invariance, PTL DEF Spec, WakeFixed

-----------------------------------------------------------------------------
(* The journal is one path of the machine.                                 *)

\* How the journal says the machine ended.
LEMMA EndStatusIs ==
  /\ EndStatus = IF Closed(Lines) THEN Lines[Len(Lines)].status ELSE "no"
  /\ EndStatus' = IF Closed(Lines)' THEN Lines'[Len(Lines')].status ELSE "no"
BY DEF EndStatus, Ended, Closed, Lines

\* A step of the engine that completes no line moves nothing along the path.
LEMMA QuietIsStutter ==
  ASSUME Lines' = Lines
  PROVE  At' = At /\ EndStatus' = EndStatus
BY SameLines, EndStatusIs

\* What one step of the engine can do to the journal.
LEMMA LinesStep ==
  ASSUME IInv, Next
  PROVE  \/ Lines' = Lines
         \/ BookCrashedAttempt \/ Drive \/ Enter \/ EndTerminal \/ EndOverBudget
         \/ EndUnrenderable \/ EndIrreducible \/ JournalStep
<1>1. CASE Crash
  <2>1. CASE journal' = journal
    BY <2>1 DEF Lines
  <2>2. CASE journal' = Append(HealTornTail(journal), Torn)
    BY <2>2, TornKeepsLines DEF IInv
  <2> QED BY <1>1, <2>1, <2>2 DEF Crash
<1>2. CASE journal' = journal
  BY <1>2 DEF Lines
<1>3. \/ Crash \/ journal' = journal
      \/ BookCrashedAttempt \/ Drive \/ Enter \/ EndTerminal \/ EndOverBudget
      \/ EndUnrenderable \/ EndIrreducible \/ JournalStep
  BY DEF Next, Supervise, Booking, Ending, Executed, Waiting, Committing, RunMachine, RetireLog,
         StopAtBoundary, EndSnapshot, RunTool, TakeBranch, StartAgent, AgentTurn,
         AgentDone, ArmWait, TakeSignal, StopWait, Tick, KeepSleeping, Yield, MaterializePoke,
         ClearWait, AckSignal, Advance, Poke, RequestStop, Clock, files
<1> QED BY <1>1, <1>2, <1>3

\* The replay's begin and a notice move nothing along the path either.
LEMMA DriveAndEnterAreStutters ==
  ASSUME IInv, Drive \/ Enter
  PROVE  At' = At /\ EndStatus' = EndStatus
<1>1. CASE Lines' = Lines
  BY <1>1, QuietIsStutter
<1>2. CASE Drive /\ Lines # Lines'
  <2>1. Lines = <<>> /\ Write(Begin) /\ ~Closed(Lines)
    BY <1>2 DEF Drive, Lines, Closed
  <2>2. /\ Begin \in Event /\ IsType(Begin, "begin")
        /\ ~IsType(Begin, "step") /\ ~IsType(Begin, "end") /\ ~IsType(Begin, "spend")
    BY DEF Begin, Event, IsType
  <2>3. ~Closed(Lines)' /\ At' = At
    BY <2>1, <2>2, NoStepFrame
  <2> QED BY <2>1, <2>3, EndStatusIs
<1>3. CASE Enter /\ Lines # Lines'
  <2> DEFINE e == Notify(pos.state)
  <2>1. Write(e) /\ pc = "boundary"
    BY <1>3 DEF Enter, Lines
  <2>2. pos.state \in State /\ ~Closed(Lines) /\ Lines # <<>>
    BY <2>1, StandsAt DEF Acting
  <2>3. /\ e \in Event /\ ~IsType(e, "begin") /\ ~IsType(e, "step") /\ ~IsType(e, "end")
        /\ ~IsType(e, "spend")
    BY <2>2 DEF Notify, NotifyRecord, Event, IsType
  <2> HIDE DEF e
  <2>4. ~Closed(Lines)' /\ At' = At
    BY <2>1, <2>2, <2>3, NoStepFrame
  <2> QED BY <2>2, <2>4, EndStatusIs
<1> QED BY <1>1, <1>2, <1>3

\* A booked attempt is a payment.
LEMMA BookingIsPayment ==
  ASSUME IInv, BookCrashedAttempt
  PROVE  \/ At' = At /\ EndStatus' = EndStatus
         \/ EndStatus = "no" /\ EndStatus' = EndStatus /\ Path!Payment(At, At')
<1>1. /\ pc = "retired" /\ ~Closed(Lines) /\ Lines # <<>>
      /\ fact.usd \in Nat /\ fact.wake \in Nat /\ At \in Position /\ At.spent \in Nat
  BY DEF BookCrashedAttempt, IInv, Standing, Typed, Fact, Recorded, Position
<1>2. CASE fact.usd > 0
  <2> DEFINE e == AttemptSpend(fact.wake, fact.usd)
  <2>1. Write(e)
    BY <1>2 DEF BookCrashedAttempt
  <2>2. /\ e \in Event /\ IsType(e, "spend") /\ e.usd = fact.usd
        /\ ~IsType(e, "step") /\ ~IsType(e, "end") /\ ~IsType(e, "begin")
    BY <1>1 DEF AttemptSpend, Event, SpendRecord, IsType
  <2> HIDE DEF e
  <2>3. ~Closed(Lines)' /\ At' = [At EXCEPT !.spent = @ + e.usd]
    BY <1>1, <2>1, <2>2, NoStepFrame
  <2>4. At'.spent = At.spent + fact.usd /\ At' = [At EXCEPT !.spent = At'.spent]
    BY <1>1, <2>2, <2>3 DEF Position
  <2>5. At'.spent > At.spent
    BY <1>1, <1>2, <2>4
  <2> QED BY <1>1, <2>3, <2>4, <2>5, EndStatusIs DEF Path!Payment
<1>3. CASE ~(fact.usd > 0)
  <2>1. Lines' = Lines
    BY <1>3 DEF BookCrashedAttempt, Lines
  <2> QED BY <2>1, QuietIsStutter
<1> QED BY <1>2, <1>3

\* A journaled step is a legal transition within both budgets.
LEMMA StepIsTransition ==
  ASSUME IInv, JournalStep
  PROVE  EndStatus = "no" /\ EndStatus' = EndStatus /\ Path!Transition(At, At')
<1> DEFINE e == StepEvent(pos, fact)
<1>1. pc = "delivered"
  BY DEF JournalStep
<1>2. /\ pos = At /\ At \in Position /\ pos.state \in State /\ pos.transitions \in Nat
      /\ pos.spent \in Nat /\ ~Closed(Lines) /\ Lines # <<>> /\ fact.usd \in Nat
  BY <1>1, StandsAt DEF Acting, IInv, Typed, Fact
<1>3. ~OverBudget(pos) /\ ~IsTerminal(pos.state) /\ fact.label \in DOMAIN Here.on
  BY <1>1 DEF IInv, Remembers, Observed, AtHand
<1>4. /\ e \in Event /\ Write(e) /\ Fits(At, e.fact) /\ e.state = At.state /\ e.seq = At.transitions
      /\ e.fact = fact /\ e.ts = now /\ e.label = fact.label /\ e.goto = After(At, e.fact).state
      /\ IsType(e, "step") /\ ~IsType(e, "begin") /\ ~IsType(e, "end")
      /\ (fact.kind = "wait" /\ fact.label = "tick") =>
            now >= fact.wake /\ fact.wake >= LastTime(Lines) + Machine[pos.state].delay
  BY StepWritten
<1> HIDE DEF e
<1>5. ~Closed(Lines)' /\ At' = Effect(At, e)
  BY <1>2, <1>4, WriteKeepsRecord
<1>6. At' = After(At, fact)
  BY <1>4, <1>5, EffectCases
<1>7. /\ At'.state = Machine[At.state].on[fact.label] /\ At'.transitions = At.transitions + 1
      /\ At'.spent = At.spent + fact.usd
  BY <1>6 DEF After
<1>8. At.transitions < MaxTransitions /\ At.spent < MaxUsd
  BY <1>2, <1>3, BudgetAssumption DEF OverBudget
<1>9. At'.spent >= At.spent
  BY <1>2, <1>7
<1>10. Path!Transition(At, At')
  BY <1>2, <1>3, <1>7, <1>8, <1>9 DEF Path!Transition, Path!IsTerminal, IsTerminal, Here
<1> QED BY <1>2, <1>5, <1>10, EndStatusIs

\* An end is written once, and only a terminal's can be ok.
LEMMA EndIsFinish ==
  ASSUME IInv, EndTerminal \/ EndOverBudget \/ EndUnrenderable \/ EndIrreducible
  PROVE  /\ EndStatus = "no" /\ EndStatus' \in {"ok", "failed"} /\ At' = At
         /\ EndStatus' = "ok" => IsTerminal(At.state) /\ Machine[At.state].status = "ok"
<1>1. pc \in {"entered", "delivered"}
  BY DEF EndTerminal, EndOverBudget, EndUnrenderable, EndIrreducible, Executing
<1>2. pos = At /\ pos.state \in State /\ ~Closed(Lines)
  BY <1>1, StandsAt DEF Acting
<1>3. ASSUME NEW status \in {"ok", "failed"}, NEW usd \in Nat, EndWith(status, usd)
      PROVE  Closed(Lines)' /\ At' = At /\ Lines'[Len(Lines')].status = status
  <2> DEFINE e == MachineEnd(pos, status, usd)
  <2>1. pos.transitions \in Nat /\ Lines # <<>>
    BY <1>1, StandsAt DEF Acting
  <2>2. /\ e \in Event /\ ~IsType(e, "begin") /\ ~IsType(e, "step") /\ IsType(e, "end")
        /\ ~IsType(e, "spend") /\ e.state = At.state /\ e.transitions = At.transitions
        /\ e.status = status
    BY <1>2, <2>1 DEF MachineEnd, EndRecord, Event, IsType
  <2>3. Write(e)
    BY <1>3 DEF EndWith
  <2> HIDE DEF e
  <2> QED BY <1>2, <2>1, <2>2, <2>3, NoStepFrame
<1>4. CASE EndTerminal
  <2>1. IsTerminal(pos.state) /\ EndWith(Here.status, 0) /\ Here.status \in {"ok", "failed"}
    BY <1>2, <1>4, MachineAssumption DEF EndTerminal, IsTerminal, Here
  <2>2. Closed(Lines)' /\ At' = At /\ Lines'[Len(Lines')].status = Here.status
    BY <1>3, <2>1
  <2> QED BY <1>2, <2>1, <2>2, EndStatusIs DEF Here
<1>5. CASE EndOverBudget \/ EndUnrenderable \/ EndIrreducible
  <2>1. \E usd \in Nat : EndWith("failed", usd)
    <3>1. fact.usd \in Nat
      BY DEF IInv, Typed, Fact
    <3> QED BY <1>5, <3>1 DEF EndOverBudget, EndUnrenderable, EndIrreducible
  <2>2. Closed(Lines)' /\ At' = At /\ Lines'[Len(Lines')].status = "failed"
    BY <1>3, <2>1
  <2> QED BY <1>2, <2>2, EndStatusIs
<1> QED BY <1>4, <1>5

\* `agent6 machine run': the journal is one path of the machine, each step legal and
\* within both budgets, spend never taken back, and nothing after the end.
THEOREM FollowsPathHolds == Spec => FollowsPath
<1>1. Init => Path!Init
  <2> SUFFICES ASSUME Init PROVE Path!Init
    OBVIOUS
  <2>1. Lines = <<>>
    BY DEF Init, Lines, Read, EndsTorn
  <2>2. At = StartPosition /\ EndStatus = "no"
    BY <2>1, EmptyReplays, EmptyKeepsTheRules, EndStatusIs DEF At
  <2> QED BY <2>2 DEF Path!Init, Path!StartPosition, StartPosition, Path!NoValue, NoValue, At, Lines
<1>2. IInv /\ [Next]_vars => [Path!Next]_<<Rebuild(Read(journal)), EndStatus>>
  <2> SUFFICES ASSUME IInv, [Next]_vars
               PROVE  Path!Next \/ (At' = At /\ EndStatus' = EndStatus)
    BY DEF At, Lines
  <2>1. CASE BookCrashedAttempt
    BY <2>1, BookingIsPayment DEF Path!Next, Path!Record, At, Lines
  <2>2. CASE Drive \/ Enter
    BY <2>2, DriveAndEnterAreStutters
  <2>3. CASE JournalStep
    BY <2>3, StepIsTransition DEF Path!Next, Path!Record, At, Lines
  <2>4. CASE EndTerminal \/ EndOverBudget \/ EndUnrenderable \/ EndIrreducible
    BY <2>4, EndIsFinish DEF Path!Next, Path!Finish, Path!IsTerminal, IsTerminal, At, Lines
  <2>5. CASE Lines' = Lines
    BY <2>5, QuietIsStutter
  <2>6. CASE UNCHANGED vars
    BY <2>5, <2>6 DEF vars, files, Lines
  <2> QED BY <2>1, <2>2, <2>3, <2>4, <2>5, <2>6, LinesStep
<1> QED BY <1>1, <1>2, Invariance, PTL DEF Spec, FollowsPath, Path!Spec
=============================================================================
