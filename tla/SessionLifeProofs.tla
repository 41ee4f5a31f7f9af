------------------------ MODULE SessionLifeProofs ------------------------
(***************************************************************************)
(* What holds of a session directory for any number of processes, stops    *)
(* and prunings: the types, one writer per session and per checkout, a     *)
(* running worker stays recorded, a stop kills only whom it aimed at, a    *)
(* pruning meets no execution, transcript numbers run on.                  *)
(*                                                                         *)
(* The locks carry the argument.  A worker that owns the directory holds   *)
(* worker.lock, so no second one does and no pruning is under way; what    *)
(* the owner read under the lock (the last transcript number) is then      *)
(* still true when it uses it.                                             *)
(***************************************************************************)
EXTENDS SessionLife, TLAPS

Places == Owning \cup HandingOff \cup
          {"idle", "checking", "claiming", "reading", "locking", "gone", "gave up"}
WorkerRecord == [pc : Places, parked : BOOLEAN, child : Proc \cup {None}, seq : 0 .. MaxSeq]

LogRecord == [started : BOOLEAN, finished : BOOLEAN]
StopRecord == [pc : {"none", "looked", "aimed", "waiting", "termed"}, left : 0 .. MaxStops,
               target : Proc \cup {None}]

\* Where a worker holds the checkout, and where it knows the last number.
Driving == {"preflight", "ready", "unparked", "asking", "running"}
Numbered == Driving \cup {"deciding", "writing", "recording", "starting"}

Locked ==
    \A p \in Proc :
        /\ worker[p].pc \in Owning => writer = p
        /\ worker[p].pc \in Driving => checkout = p

\* A pruning holds the lock, and nobody can start the session over.
Guarded == prune.pc # "none" => writer = Pruner /\ log.finished

\* The highest number ever written is in a file or in the receipt, in the
\* receipt once files go, and in the memory of whoever owns the session.
Numbers ==
    /\ top \in {watermark} \cup transcripts
    /\ \A n \in {watermark} \cup transcripts : n <= top
    /\ prune.pc = "removing" => watermark = top
    /\ \A p \in Proc : worker[p].pc \in Numbered => worker[p].seq = top

IInv == TypeOK /\ Locked /\ Guarded /\ RecordedWhileItRuns /\ Numbers

\* The assumption on the constants, fact by fact.
LEMMA Assumptions ==
    /\ None \notin Proc /\ Pruner \notin Proc /\ None # Pruner /\ None \notin Outsiders
    /\ Proc \cap Outsiders = {} /\ MaxSeq \in Nat /\ MaxStops \in Nat /\ MaxPrunes \in Nat
  BY SessionAssumption

\* A worker's record with another place.
LEMMA Placed ==
  ASSUME NEW r \in WorkerRecord, NEW to \in Places
  PROVE  /\ [r EXCEPT !.pc = to] \in WorkerRecord
         /\ [r EXCEPT !.pc = to].pc = to
         /\ [r EXCEPT !.pc = to].seq = r.seq
         /\ [r EXCEPT !.pc = to].child = r.child
  BY DEF WorkerRecord

\* A worker's record with another place and another memory of the directory.
LEMMA Numbering ==
  ASSUME NEW r \in WorkerRecord, NEW to \in Places, NEW n \in 0 .. MaxSeq
  PROVE  /\ [r EXCEPT !.pc = to, !.seq = n] \in WorkerRecord
         /\ [r EXCEPT !.pc = to, !.seq = n].pc = to
         /\ [r EXCEPT !.pc = to, !.seq = n].seq = n
  BY DEF WorkerRecord

\* The same with another park.
LEMMA Parking ==
  ASSUME NEW r \in WorkerRecord, NEW to \in Places, NEW b \in BOOLEAN
  PROVE  /\ [r EXCEPT !.pc = to, !.parked = b] \in WorkerRecord
         /\ [r EXCEPT !.pc = to, !.parked = b].pc = to
         /\ [r EXCEPT !.pc = to, !.parked = b].seq = r.seq
  BY DEF WorkerRecord

\* What Goes does to the worker that goes and to every other one.
LEMMA GoesEffect ==
  ASSUME TypeOK, NEW p \in Proc, NEW from \in Places, NEW to \in Places, Goes(p, from, to)
  PROVE  /\ worker' \in [Proc -> WorkerRecord]
         /\ worker[p].pc = from /\ worker'[p].pc = to
         /\ to # "gone" => worker'[p].seq = worker[p].seq /\ worker'[p].child = worker[p].child
         /\ \A q \in Proc \ {p} : worker'[q] = worker[q]
<1>1. worker \in [Proc -> WorkerRecord]
  BY DEF TypeOK, WorkerRecord, Places
<1>2. CASE to = "gone"
  <2>1. worker' = [worker EXCEPT ![p] = At("gone")]
    BY <1>2 DEF Goes
  <2>2. At("gone") \in WorkerRecord /\ At("gone").pc = "gone"
    <3>1. 0 \in 0 .. MaxSeq
      BY Assumptions
    <3>2. "gone" \in Places
      BY DEF Places
    <3> QED BY <3>1, <3>2 DEF At, WorkerRecord
  <2> QED BY <1>1, <1>2, <2>1, <2>2 DEF Goes
<1>3. CASE to # "gone"
  <2> DEFINE r == [worker[p] EXCEPT !.pc = to]
  <2>1. worker' = [worker EXCEPT ![p] = r]
    BY <1>3 DEF Goes
  <2>2. r \in WorkerRecord /\ r.pc = to /\ r.seq = worker[p].seq /\ r.child = worker[p].child
    BY <1>1, Placed
  <2> HIDE DEF r
  <2> QED BY <1>1, <1>3, <2>1, <2>2 DEF Goes
<1> QED BY <1>2, <1>3

\* In every state of the invariant the last number is the highest ever written.
LEMMA LastIsTop ==
  ASSUME TypeOK, Numbers
  PROVE  LastSequence = top
<1> DEFINE S == {watermark} \cup transcripts
<1>1. S \subseteq Int /\ top \in S /\ \A n \in S : top >= n
  <2>1. watermark \in Int /\ top \in Int /\ transcripts \subseteq Int
    <3>1. {watermark, top} \subseteq 0 .. MaxSeq /\ transcripts \subseteq 1 .. MaxSeq
      BY DEF TypeOK
    <3>2. 0 .. MaxSeq \subseteq Int /\ 1 .. MaxSeq \subseteq Int
      BY Assumptions
    <3> QED BY <3>1, <3>2
  <2>2. top \in S /\ \A n \in S : n <= top
    BY DEF Numbers
  <2> QED BY <2>1, <2>2
<1>2. ASSUME NEW x \in S, \A y \in S : x >= y PROVE x = top
  <2>1. x \in Int /\ top \in Int /\ x >= top /\ top >= x
    BY <1>1, <1>2
  <2> QED BY <2>1
<1> QED BY <1>1, <1>2 DEF LastSequence, Max

-----------------------------------------------------------------------------
(* A step of one worker.                                                   *)

\* Worker p went from one place to another, and knows the last number where
\* an owner should.
Moves(p, from, to) ==
    /\ worker' \in [Proc -> WorkerRecord]
    /\ worker[p].pc = from /\ worker'[p].pc = to
    /\ to \in Numbered => worker'[p].seq = top
    /\ \A q \in Proc \ {p} : worker'[q] = worker[q]

\* What a step of worker p may do to what it shares with the others.
Steps(p, from, to) ==
    /\ Moves(p, from, to) /\ from # "gave up"
    /\ manifest' \in {"absent", "parked", "made"}
    /\ workerPid' \in Proc \cup {None}
    /\ stopRequest' \in SUBSET (Proc \cup {None})
    /\ log' \in LogRecord
    /\ stop' \in StopRecord
    /\ UNCHANGED <<transcripts, watermark, top, prune>>
    /\ \/ writer' = writer
       \/ writer = None /\ writer' = p
       \/ writer = p /\ writer' = None
    /\ \/ checkout' = checkout
       \/ checkout = None /\ checkout' = p
       \/ checkout = p /\ checkout' = None
    /\ to \in Owning => writer' = p
    /\ to \in Driving => checkout' = p
    /\ to = "running" => workerPid' = p
    /\ workerPid' = workerPid \/ from \in Owning \/ to = "gave up"
    /\ log' = log \/ from \in Owning

\* Such a step keeps the invariant.
LEMMA StepKeeps ==
  ASSUME IInv, NEW p \in Proc, NEW from \in Places, NEW to \in Places, Steps(p, from, to)
  PROVE  IInv'
<1> USE Assumptions
<1>1. TypeOK'
  <2>1. TypeOK
    BY DEF IInv
  <2>2. worker' \in [Proc -> WorkerRecord]
    BY DEF Steps, Moves
  <2>3. writer' \in Proc \cup {None, Pruner} /\ checkout' \in Proc \cup Outsiders \cup {None}
    BY <2>1 DEF TypeOK, Steps
  <2> QED BY <2>1, <2>2, <2>3 DEF TypeOK, Steps, WorkerRecord, Places, LogRecord, StopRecord
<1>2. Locked'
  <2>1. ASSUME NEW q \in Proc PROVE (worker'[q].pc \in Owning => writer' = q)
                                    /\ (worker'[q].pc \in Driving => checkout' = q)
    <3>1. CASE q = p
      BY <3>1 DEF Steps, Moves
    <3>2. CASE q # p
      BY <3>2 DEF IInv, Locked, Steps, Moves
    <3> QED BY <3>1, <3>2
  <2> QED BY <2>1 DEF Locked
<1>3. Guarded'
  <2>1. from \in Owning => writer = p
    BY DEF IInv, Locked, Steps, Moves
  <2>2. ASSUME prune'.pc # "none" PROVE writer' = Pruner /\ log'.finished
    <3>1. writer = Pruner /\ log.finished
      BY <2>2 DEF IInv, Guarded, Steps
    <3>2. writer' = writer /\ log' = log
      BY <2>1, <3>1 DEF Steps
    <3> QED BY <3>1, <3>2
  <2> QED BY <2>2 DEF Guarded
<1>4. RecordedWhileItRuns'
  <2>1. HandoffGaveUp => HandoffGaveUp'
    BY DEF HandoffGaveUp, Steps, Moves
  <2>2. to = "gave up" => HandoffGaveUp'
    BY DEF HandoffGaveUp, Steps, Moves
  <2>3. ASSUME NEW q \in Proc, Runs(q)' PROVE workerPid' = q \/ HandoffGaveUp'
    <3>1. CASE q = p
      BY <2>3, <3>1 DEF Runs, Steps, Moves
    <3>2. CASE q # p
      <4>1. Runs(q) /\ writer = q
        BY <2>3, <3>2 DEF Runs, Steps, Moves, IInv, Locked, Owning
      <4>2. from \notin Owning
        BY <3>2, <4>1 DEF Steps, Moves, IInv, Locked
      <4> QED BY <2>1, <2>2, <4>1, <4>2 DEF IInv, RecordedWhileItRuns, Steps
    <3> QED BY <3>1, <3>2
  <2> QED BY <2>3 DEF RecordedWhileItRuns
<1>5. Numbers'
  <2>1. ASSUME NEW q \in Proc, worker'[q].pc \in Numbered PROVE worker'[q].seq = top
    <3>1. CASE q = p
      BY <2>1, <3>1 DEF Steps, Moves
    <3>2. CASE q # p
      BY <2>1, <3>2 DEF IInv, Numbers, Steps, Moves
    <3> QED BY <3>1, <3>2
  <2> QED BY <2>1 DEF IInv, Numbers, Steps
<1> QED BY <1>1, <1>2, <1>3, <1>4, <1>5 DEF IInv

-----------------------------------------------------------------------------
(* The actions of one worker.                                              *)

\* What the type invariant says of each variable.
LEMMA TypeParts ==
  ASSUME IInv
  PROVE  /\ manifest \in {"absent", "parked", "made"}
         /\ workerPid \in Proc \cup {None}
         /\ stopRequest \in SUBSET (Proc \cup {None})
         /\ log \in LogRecord /\ stop \in StopRecord
         /\ worker \in [Proc -> WorkerRecord]
         /\ top \in 0 .. MaxSeq /\ LastSequence = top
  BY LastIsTop DEF IInv, TypeOK, LogRecord, StopRecord, WorkerRecord, Places

\* A step that moves workers and writes transcripts keeps the types.
LEMMA Retyped ==
  ASSUME TypeOK, worker' \in [Proc -> WorkerRecord],
         transcripts' \subseteq 1 .. MaxSeq, top' \in 0 .. MaxSeq,
         UNCHANGED <<manifest, workerPid, stopRequest, log, watermark, writer, checkout, stop, prune>>
  PROVE  TypeOK'
<1>1. (manifest \in {"absent", "parked", "made"} /\ workerPid \in Proc \cup {None}
       /\ stopRequest \in SUBSET (Proc \cup {None}) /\ log \in LogRecord)'
  BY DEF TypeOK, LogRecord
<1>2. (watermark \in 0 .. MaxSeq /\ writer \in Proc \cup {None, Pruner}
       /\ checkout \in Proc \cup Outsiders \cup {None})'
  BY DEF TypeOK
<1>3. (stop \in StopRecord /\ prune \in [pc : {"none", "marking", "removing"}, left : 0 .. MaxPrunes])'
  BY DEF TypeOK, StopRecord
<1> QED BY <1>1, <1>2, <1>3 DEF TypeOK, LogRecord, StopRecord, WorkerRecord, Places

\* A worker that goes without learning a number.
LEMMA GoesMoves ==
  ASSUME IInv, NEW p \in Proc, NEW from \in Places, NEW to \in Places, Goes(p, from, to),
         to \in Numbered => from \in Numbered
  PROVE  Moves(p, from, to)
<1>1. "gone" \notin Numbered
  BY DEF Numbered, Driving
<1> QED BY <1>1, GoesEffect DEF IInv, Numbers, Moves

\* A worker that reads the last number.
LEMMA RememberMoves ==
  ASSUME IInv, NEW p \in Proc, NEW to \in Places,
         worker' = [worker EXCEPT ![p] = [@ EXCEPT !.pc = to, !.seq = LastSequence]]
  PROVE  Moves(p, worker[p].pc, to)
<1>0. PICK n \in 0 .. MaxSeq : n = LastSequence /\ n = top
  BY TypeParts
<1> DEFINE r == [worker[p] EXCEPT !.pc = to, !.seq = n]
<1>1. r \in WorkerRecord /\ r.pc = to /\ r.seq = top
  <2>1. worker[p] \in WorkerRecord
    BY TypeParts
  <2>2. r \in WorkerRecord /\ r.pc = to /\ r.seq = n
    BY <2>1 DEF WorkerRecord
  <2> QED BY <1>0, <2>2
<1>2. worker' = [worker EXCEPT ![p] = r]
  BY <1>0
<1> HIDE DEF r
<1> QED BY <1>1, <1>2, TypeParts DEF Moves

\* The same for one that reads or writes the park.
LEMMA ParkMoves ==
  ASSUME IInv, NEW p \in Proc, NEW to \in Places, NEW b \in BOOLEAN,
         worker' = [worker EXCEPT ![p] = [@ EXCEPT !.pc = to, !.parked = b]],
         to \in Numbered => worker[p].pc \in Numbered
  PROVE  Moves(p, worker[p].pc, to)
<1> DEFINE r == [worker[p] EXCEPT !.pc = to, !.parked = b]
<1>1. r \in WorkerRecord /\ r.pc = to /\ r.seq = worker[p].seq
  <2>1. worker[p] \in WorkerRecord
    BY TypeParts
  <2> QED BY <2>1, Parking
<1>2. worker' = [worker EXCEPT ![p] = r]
  OBVIOUS
<1> HIDE DEF r
<1> QED BY <1>1, <1>2, TypeParts DEF Moves, IInv, Numbers

\* A process that dies or is killed.
LEMMA DeathMoves ==
  ASSUME IInv, NEW p \in Proc, worker' = [worker EXCEPT ![p] = At("gone")]
  PROVE  Moves(p, worker[p].pc, "gone") /\ worker[p].pc \in Places
<1>1. worker \in [Proc -> WorkerRecord] /\ worker[p].pc \in Places
  BY TypeParts DEF WorkerRecord
<1>2. At("gone") \in WorkerRecord /\ At("gone").pc = "gone"
  <2>1. 0 \in 0 .. MaxSeq
    BY Assumptions
  <2>2. "gone" \in Places
    BY DEF Places
  <2> QED BY <2>1, <2>2 DEF At, WorkerRecord
<1>3. "gone" \notin Numbered
  BY DEF Numbered, Driving
<1> QED BY <1>1, <1>2, <1>3 DEF Moves

\* Who owns the directory holds its lock, who drives the checkout's.
LEMMA OwnerHolds ==
  ASSUME IInv, NEW p \in Proc
  PROVE  /\ worker[p].pc \in Owning => writer = p
         /\ worker[p].pc \in Driving => checkout = p
  BY DEF IInv, Locked

\* `agent6 run', from the check of the id to the start of an execution.
LEMMA StartKeeps ==
  ASSUME IInv, NEW p \in Proc, Start(p)
  PROVE  IInv'
<1> USE Assumptions, TypeParts, OwnerHolds
        DEF Steps, Owning, Driving, Numbered, Places, HandingOff, record, locks, commands
<1>1. CASE CheckId(p)
  <2>1. PICK to \in {"gone", "claiming"} : Goes(p, "checking", to)
    BY <1>1 DEF CheckId
  <2>2. Moves(p, "checking", to)
    BY <2>1, GoesMoves
  <2>3. Steps(p, "checking", to)
    BY <1>1, <2>2 DEF CheckId
  <2> QED BY <2>3, StepKeeps
<1>2. CASE Claim(p, "claiming", "settling")
  <2>1. PICK to \in {"settling", "gone"} : Goes(p, "claiming", to) /\ (to = "settling" <=> MayOwn(p))
    BY <1>2 DEF Claim, Busy
  <2>2. Moves(p, "claiming", to)
    BY <2>1, GoesMoves
  <2>3. Steps(p, "claiming", to)
    BY <1>2, <2>1, <2>2 DEF Claim, MayOwn
  <2> QED BY <2>3, StepKeeps
<1>3. CASE Settle(p)
  <2>1. Moves(p, "settling", "writing")
    BY <1>3, RememberMoves DEF Settle
  <2>2. Steps(p, "settling", "writing")
    BY <1>3, <2>1 DEF Settle, Kept, Moves
  <2> QED BY <2>2, StepKeeps
<1>4. CASE WriteManifest(p)
  <2>1. Moves(p, "writing", "recording")
    BY <1>4, ParkMoves DEF WriteManifest
  <2>2. Steps(p, "writing", "recording")
    BY <1>4, <2>1 DEF WriteManifest, Moves
  <2> QED BY <2>2, StepKeeps
<1>5. CASE RestorePark(p)
  <2>1. Moves(p, "recording", "recording")
    BY <1>5 DEF RestorePark, Moves, WorkerRecord, IInv, Numbers
  <2>2. Steps(p, "recording", "recording")
    BY <1>5, <2>1 DEF RestorePark, Moves
  <2> QED BY <2>2, StepKeeps
<1>6. CASE RecordPid(p)
  <2>1. PICK from \in {"recording", "preflight"}, to \in {"starting", "asking"} :
             Goes(p, from, to) /\ (to = "starting" <=> from = "recording")
    BY <1>6 DEF RecordPid
  <2>2. Moves(p, from, to)
    BY <2>1, GoesMoves
  <2>3. Steps(p, from, to)
    BY <1>6, <2>1, <2>2 DEF RecordPid, Moves
  <2> QED BY <2>3, StepKeeps
<1>7. CASE TakeCheckout(p)
  <2>1. PICK from \in {"starting", "deciding"}, to \in {"ready", "preflight"} : Goes(p, from, to)
    BY <1>7 DEF TakeCheckout
  <2>2. Moves(p, from, to)
    BY <2>1, GoesMoves
  <2>3. Steps(p, from, to)
    BY <1>7, <2>1, <2>2 DEF TakeCheckout, Moves
  <2> QED BY <2>3, StepKeeps
<1>8. CASE Park(p)
  <2>1. PICK from \in {"starting", "ready"} : Goes(p, from, "ended")
    BY <1>8 DEF Park
  <2>2. Moves(p, from, "ended")
    BY <2>1, GoesMoves
  <2>3. Steps(p, from, "ended")
    BY <1>8, <2>1, <2>2 DEF Park, Moves
  <2> QED BY <2>3, StepKeeps
<1>9. CASE Unpark(p)
  <2>1. Moves(p, "ready", "unparked")
    BY <1>9, GoesMoves DEF Unpark
  <2>2. Steps(p, "ready", "unparked")
    BY <1>9, <2>1 DEF Unpark, Moves
  <2> QED BY <2>2, StepKeeps
<1> QED BY <1>1, <1>2, <1>3, <1>4, <1>5, <1>6, <1>7, <1>8, <1>9 DEF Start

\* `agent6 resume', until it drives the session or has given it away.
LEMMA ResumeKeeps ==
  ASSUME IInv, NEW p \in Proc, Resume(p)
  PROVE  IInv'
<1> USE Assumptions, TypeParts, OwnerHolds
        DEF Steps, Owning, Driving, Numbered, Places, HandingOff, record, locks, commands
<1>1. CASE ReadManifest(p)
  <2>1. PICK to \in {"gone", "locking"}, b \in BOOLEAN :
             worker' = [worker EXCEPT ![p] = [@ EXCEPT !.pc = to, !.parked = b]]
    <3>1. CASE manifest = "absent"
      BY <1>1, <3>1 DEF ReadManifest
    <3>2. CASE manifest # "absent"
      BY <1>1, <3>2 DEF ReadManifest
    <3> QED BY <3>1, <3>2
  <2>2. Moves(p, "reading", to)
    <3>1. to \in Places /\ to \notin Numbered /\ worker[p].pc = "reading"
      BY <1>1 DEF ReadManifest
    <3>2. Moves(p, worker[p].pc, to)
      <4> HIDE DEF Numbered, Places
      <4> QED BY <2>1, <3>1, ParkMoves, Zenon
    <3> QED BY <3>1, <3>2
  <2>3. Steps(p, "reading", to)
    BY <1>1, <2>2 DEF ReadManifest
  <2> QED BY <2>3, StepKeeps
<1>2. CASE Claim(p, "locking", "scanning")
  <2>1. PICK to \in {"scanning", "gone"} : Goes(p, "locking", to) /\ (to = "scanning" <=> MayOwn(p))
    BY <1>2 DEF Claim, Busy
  <2>2. Moves(p, "locking", to)
    BY <2>1, GoesMoves
  <2>3. Steps(p, "locking", to)
    BY <1>2, <2>1, <2>2 DEF Claim, MayOwn
  <2> QED BY <2>3, StepKeeps
<1>3. CASE RefuseEnded(p)
  <2>1. Moves(p, "scanning", "gone")
    BY <1>3, GoesMoves DEF RefuseEnded
  <2>2. Steps(p, "scanning", "gone")
    BY <1>3, <2>1 DEF RefuseEnded, Moves
  <2> QED BY <2>2, StepKeeps
<1>4. CASE Scan(p)
  <2>1. Moves(p, "scanning", "deciding")
    BY <1>4, RememberMoves DEF Scan
  <2>2. Steps(p, "scanning", "deciding")
    BY <1>4, <2>1 DEF Scan, Kept, Moves
  <2> QED BY <2>2, StepKeeps
<1>5. CASE HandToRun(p)
  <2>1. Moves(p, "deciding", "checking")
    BY <1>5, ParkMoves DEF HandToRun
  <2>2. Steps(p, "deciding", "checking")
    BY <1>5, <2>1 DEF HandToRun, Moves
  <2> QED BY <2>2, StepKeeps
<1>6. CASE Refuse(p)
  <2>1. PICK from \in {"writing", "preflight", "deciding"} : Goes(p, from, "ended")
    BY <1>6 DEF Refuse
  <2>2. Moves(p, from, "ended")
    BY <2>1, GoesMoves
  <2>3. Steps(p, from, "ended")
    BY <1>6, <2>1, <2>2 DEF Refuse, Moves
  <2> QED BY <2>3, StepKeeps
<1> QED BY <1>1, <1>2, <1>3, <1>4, <1>5, <1>6 DEF Resume

\* The log with another end.
LEMMA LogEnds ==
  ASSUME IInv, NEW b \in BOOLEAN
  PROVE  [log EXCEPT !.finished = b] \in LogRecord
  BY TypeParts DEF LogRecord

\* An execution that ends, however it does.
LEMMA EndKeeps ==
  ASSUME IInv, NEW p \in Proc, EndExecution(p)
  PROVE  IInv'
<1> USE Assumptions, TypeParts, OwnerHolds
        DEF Steps, Owning, Driving, Numbered, Places, HandingOff, record, locks, commands
<1>1. Moves(p, "running", "ended")
  BY GoesMoves DEF EndExecution
<1>2. log' \in LogRecord
  BY LogEnds DEF EndExecution
<1>3. Steps(p, "running", "ended")
  BY <1>1, <1>2 DEF EndExecution, Moves
<1> QED BY <1>3, StepKeeps

\* A background resume is spawned: the one step that moves two workers, neither of them an owner.
LEMMA SpawnKeeps ==
  ASSUME IInv, NEW p \in Proc, NEW q \in Proc, SpawnResume(p, q)
  PROVE  IInv'
<1> DEFINE r == [worker[p] EXCEPT !.pc = "handing", !.child = q]
           c == [worker[q] EXCEPT !.pc = "reading"]
<1>1. worker \in [Proc -> WorkerRecord] /\ worker[p].pc = "detached" /\ worker[q].pc = "idle" /\ p # q
  BY TypeParts DEF SpawnResume
<1>2. r \in WorkerRecord /\ r.pc = "handing" /\ c \in WorkerRecord /\ c.pc = "reading"
  BY <1>1 DEF WorkerRecord, Places, HandingOff
<1>3. worker' = [worker EXCEPT ![p] = r, ![q] = c]
  BY <1>1 DEF SpawnResume
<1> HIDE DEF r, c
<1>4. /\ worker' \in [Proc -> WorkerRecord]
      /\ worker'[p].pc = "handing" /\ worker'[q].pc = "reading"
      /\ \A o \in Proc \ {p, q} : worker'[o] = worker[o]
  BY <1>1, <1>2, <1>3
<1>5. UNCHANGED <<manifest, workerPid, stopRequest, record, locks, commands>>
  BY DEF SpawnResume
<1>6. \A o \in Proc : worker'[o] = worker[o]
                      \/ worker'[o].pc \notin Owning \cup Driving \cup Numbered \cup {"running"}
  BY <1>4 DEF Owning, Driving, Numbered
<1>7. HandoffGaveUp => HandoffGaveUp'
  BY <1>1, <1>4 DEF HandoffGaveUp
<1>8. TypeOK'
  <2>1. TypeOK /\ transcripts \subseteq 1 .. MaxSeq /\ top \in 0 .. MaxSeq
    BY DEF IInv, TypeOK
  <2> QED BY <1>4, <1>5, <2>1, Retyped DEF record, locks, commands
<1>9. Locked' /\ Guarded' /\ RecordedWhileItRuns' /\ Numbers'
  BY <1>5, <1>6, <1>7 DEF IInv, Locked, Guarded, RecordedWhileItRuns, Numbers, Runs, record, locks, commands
<1> QED BY <1>8, <1>9 DEF IInv

\* From the start of an execution to the end of the process, and the hand-off.
LEMMA ExecuteKeeps ==
  ASSUME IInv, NEW p \in Proc, Execute(p)
  PROVE  IInv'
<1> USE Assumptions, TypeParts, OwnerHolds
        DEF Steps, Owning, Driving, Numbered, Places, HandingOff, record, locks, commands
<1>1. CASE FailBeforeStart(p)
  <2>1. PICK from \in {"ready", "unparked", "asking"} : Goes(p, from, "ended")
    BY <1>1 DEF FailBeforeStart
  <2>2. Moves(p, from, "ended")
    BY <2>1, GoesMoves
  <2>3. log' \in LogRecord
    BY <1>1 DEF FailBeforeStart, LogRecord
  <2>4. Steps(p, from, "ended")
    BY <1>1, <2>1, <2>2, <2>3 DEF FailBeforeStart, Moves
  <2> QED BY <2>4, StepKeeps
<1>2. CASE EmitStart(p)
  <2>1. PICK from \in {"unparked", "asking"} : Goes(p, from, "running")
    BY <1>2 DEF EmitStart
  <2>2. Moves(p, from, "running")
    BY <2>1, GoesMoves
  <2>3. log' \in LogRecord
    BY <1>2 DEF EmitStart, LogRecord
  <2>4. Steps(p, from, "running")
    BY <1>2, <2>1, <2>2, <2>3 DEF EmitStart, Moves
  <2> QED BY <2>4, StepKeeps
<1>3. CASE SeeStop(p)
  BY <1>3, EndKeeps DEF SeeStop
<1>4. CASE ClearPid(p)
  <2>1. Moves(p, "ended", "cleared")
    BY <1>4, GoesMoves DEF ClearPid
  <2>2. Steps(p, "ended", "cleared")
    BY <1>4, <2>1 DEF ClearPid, Moves
  <2> QED BY <2>2, StepKeeps
<1>5. CASE ReleaseLocks(p)
  <2>1. PICK from \in {"cleared", "letting go"}, to \in {"gone", "detached"} : Goes(p, from, to)
    BY <1>5 DEF ReleaseLocks
  <2>2. Moves(p, from, to)
    BY <2>1, GoesMoves
  <2>3. Steps(p, from, to)
    BY <1>5, <2>1, <2>2 DEF ReleaseLocks, Released, Moves
  <2> QED BY <2>3, StepKeeps
<1>6. CASE HandedOver(p)
  <2>1. Moves(p, "handing", "gone")
    BY <1>6, GoesMoves DEF HandedOver
  <2>2. Steps(p, "handing", "gone")
    BY <1>6, <2>1 DEF HandedOver, Moves
  <2> QED BY <2>2, StepKeeps
<1>7. CASE HandoffFails(p)
  <2>1. PICK from \in {"detached", "handing"} : Goes(p, from, "failed")
    BY <1>7 DEF HandoffFails
  <2>2. Moves(p, from, "failed")
    BY <2>1, GoesMoves
  <2>3. Steps(p, from, "failed")
    BY <1>7, <2>1, <2>2 DEF HandoffFails, Moves
  <2> QED BY <2>3, StepKeeps
<1>8. CASE ClearAfterFailure(p)
  <2>1. Moves(p, "failed", "gave up")
    BY <1>8, GoesMoves DEF ClearAfterFailure
  <2>2. Steps(p, "failed", "gave up")
    BY <1>8, <2>1 DEF ClearAfterFailure, Moves
  <2> QED BY <2>2, StepKeeps
<1>9. CASE \E q \in Proc : SpawnResume(p, q)
  BY <1>9, SpawnKeeps
<1> QED BY <1>1, <1>2, <1>3, <1>4, <1>5, <1>6, <1>7, <1>8, <1>9 DEF Execute

\* One more than the highest number is the highest number.
LEMMA NextIsTop ==
  ASSUME NEW n \in Int
  PROVE  Max({n, n + 1}) = n + 1
<1>1. \A y \in {n, n + 1} : n + 1 >= y
  OBVIOUS
<1>2. ASSUME NEW x \in {n, n + 1}, \A y \in {n, n + 1} : x >= y PROVE x = n + 1
  BY <1>2
<1> QED BY <1>1, <1>2 DEF Max

\* A model call writes the next number: only the owner of the directory makes one.
LEMMA CallKeeps ==
  ASSUME IInv, NEW p \in Proc, CallModel(p)
  PROVE  IInv'
<1> USE Assumptions
<1>1. /\ worker[p].pc = "running" /\ worker[p].seq = top /\ top \in 0 .. MaxSeq /\ top < MaxSeq
      /\ worker \in [Proc -> WorkerRecord]
  <2>1. worker[p].seq = top
    BY DEF CallModel, IInv, Numbers, Numbered, Driving
  <2> QED BY <2>1, TypeParts DEF CallModel
<1>2. top' = top + 1 /\ transcripts' = transcripts \cup {top + 1}
  BY <1>1, NextIsTop DEF CallModel
<1>3. writer = p /\ prune.pc = "none"
  <2>1. writer = p
    BY <1>1, OwnerHolds DEF Owning
  <2> QED BY <2>1 DEF IInv, Guarded
<1>4. /\ worker' \in [Proc -> WorkerRecord]
      /\ worker'[p].pc = "running" /\ worker'[p].seq = top + 1
      /\ \A q \in Proc \ {p} : worker'[q] = worker[q]
  <2> DEFINE r == [worker[p] EXCEPT !.seq = top + 1]
  <2>1. r \in WorkerRecord /\ r.pc = "running" /\ r.seq = top + 1
    BY <1>1 DEF WorkerRecord
  <2>2. worker' = [worker EXCEPT ![p] = r]
    BY <1>1 DEF CallModel
  <2> HIDE DEF r
  <2> QED BY <1>1, <2>1, <2>2
<1>5. UNCHANGED <<manifest, workerPid, stopRequest, log, watermark, writer, checkout, stop, prune>>
  BY DEF CallModel, locks, commands
<1>6. TypeOK'
  <2>1. TypeOK
    BY DEF IInv
  <2>2. transcripts' \subseteq 1 .. MaxSeq /\ {watermark', top'} \subseteq 0 .. MaxSeq
    <3>1. transcripts \subseteq 1 .. MaxSeq /\ watermark \in 0 .. MaxSeq
      BY <2>1 DEF TypeOK
    <3>2. top + 1 \in 1 .. MaxSeq /\ top + 1 \in 0 .. MaxSeq
      BY <1>1
    <3> QED BY <1>2, <1>5, <3>1, <3>2
  <2> QED BY <1>4, <1>5, <2>1, <2>2, Retyped
<1>7. \A q \in Proc : worker'[q].pc = worker[q].pc
  BY <1>1, <1>4
<1>8. Locked' /\ Guarded' /\ RecordedWhileItRuns'
  BY <1>5, <1>7 DEF IInv, Locked, Guarded, RecordedWhileItRuns, Runs, HandoffGaveUp
<1>9. Numbers'
  <2>1. \A n \in {watermark} \cup transcripts : n \in Int /\ n <= top
    <3>1. transcripts \subseteq 1 .. MaxSeq /\ watermark \in 0 .. MaxSeq
      BY DEF IInv, TypeOK
    <3>2. \A n \in {watermark} \cup transcripts : n <= top
      BY DEF IInv, Numbers
    <3> QED BY <3>1, <3>2
  <2>2. \A n \in {watermark'} \cup transcripts' : n <= top'
    BY <1>1, <1>2, <1>5, <2>1
  <2>3. \A q \in Proc : worker'[q].pc \in Numbered => worker'[q].seq = top'
    <3>1. ASSUME NEW q \in Proc, worker'[q].pc \in Numbered, q # p PROVE FALSE
      BY <1>3, <1>7, <3>1, OwnerHolds DEF Numbered, Driving, Owning
    <3> QED BY <1>2, <1>4, <3>1
  <2> QED BY <1>2, <1>3, <1>5, <2>2, <2>3 DEF Numbers
<1> QED BY <1>6, <1>8, <1>9 DEF IInv

\* What is chosen from outside: a launch, a model call, an end, a detach, a signal, a death.
LEMMA ChooseKeeps ==
  ASSUME IInv, NEW p \in Proc, Choose(p)
  PROVE  IInv'
<1> USE Assumptions, TypeParts, OwnerHolds
        DEF Steps, Owning, Driving, Numbered, Places, HandingOff, record, locks, commands
<1>1. CASE LaunchRun(p)
  <2>1. Moves(p, "idle", "checking")
    BY <1>1, GoesMoves DEF LaunchRun
  <2>2. Steps(p, "idle", "checking")
    BY <1>1, <2>1 DEF LaunchRun
  <2> QED BY <2>2, StepKeeps
<1>2. CASE LaunchResume(p)
  <2>1. Moves(p, "idle", "reading")
    BY <1>2, GoesMoves DEF LaunchResume
  <2>2. Steps(p, "idle", "reading")
    BY <1>2, <2>1 DEF LaunchResume
  <2> QED BY <2>2, StepKeeps
<1>3. CASE CallModel(p)
  BY <1>3, CallKeeps
<1>4. CASE Finish(p)
  BY <1>4, EndKeeps DEF Finish
<1>5. CASE Detach(p)
  <2>1. Moves(p, "running", "letting go")
    BY <1>5, GoesMoves DEF Detach
  <2>2. Steps(p, "running", "letting go")
    BY <1>5, <2>1 DEF Detach, Moves
  <2> QED BY <2>2, StepKeeps
<1>6. CASE Interrupted(p)
  <2>1. PICK from \in Owning : Goes(p, from, "ended")
    BY <1>6 DEF Interrupted
  <2>2. Moves(p, from, "ended")
    BY <2>1, GoesMoves
  <2>3. Steps(p, from, "ended")
    BY <1>6, <2>1, <2>2 DEF Interrupted, Moves
  <2> QED BY <2>3, StepKeeps
<1>7. CASE Dies(p)
  <2>1. Moves(p, worker[p].pc, "gone") /\ worker[p].pc \in Places
    BY <1>7, DeathMoves DEF Dies
  <2>2. Steps(p, worker[p].pc, "gone")
    BY <1>7, <2>1 DEF Dies, Live, Released
  <2> QED BY <2>1, <2>2, StepKeeps
<1> QED BY <1>1, <1>2, <1>3, <1>4, <1>5, <1>6, <1>7 DEF Choose

-----------------------------------------------------------------------------
(* The actions of the stop command, the pruning and the other sessions.    *)

\* A step that moves no worker and leaves the directory and the locks alone.
LEMMA IdleKeeps ==
  ASSUME IInv, UNCHANGED <<manifest, workerPid, record, locks, worker, prune>>,
         stopRequest' \in SUBSET (Proc \cup {None}), stop' \in StopRecord
  PROVE  IInv'
<1>1. UNCHANGED <<manifest, workerPid, log, transcripts, watermark, top, writer, checkout,
                  worker, prune>>
  BY DEF record, locks
<1>2. TypeOK'
  <2>1. (manifest \in {"absent", "parked", "made"} /\ workerPid \in Proc \cup {None}
         /\ log \in LogRecord /\ worker \in [Proc -> WorkerRecord])'
    BY <1>1, TypeParts
  <2>2. (transcripts \subseteq 1 .. MaxSeq /\ {watermark, top} \subseteq 0 .. MaxSeq
         /\ writer \in Proc \cup {None, Pruner} /\ checkout \in Proc \cup Outsiders \cup {None})'
    BY <1>1 DEF IInv, TypeOK
  <2>3. (prune \in [pc : {"none", "marking", "removing"}, left : 0 .. MaxPrunes])'
    BY <1>1 DEF IInv, TypeOK
  <2> QED BY <2>1, <2>2, <2>3 DEF TypeOK, LogRecord, StopRecord, WorkerRecord, Places
<1>3. Locked' /\ Guarded'
  BY <1>1 DEF IInv, Locked, Guarded
<1>4. RecordedWhileItRuns'
  BY <1>1 DEF IInv, RecordedWhileItRuns, Runs, HandoffGaveUp
<1>5. Numbers'
  BY <1>1 DEF IInv, Numbers
<1> QED BY <1>2, <1>3, <1>4, <1>5 DEF IInv

\* What the stop command writes about itself.
LEMMA StopTypes ==
  ASSUME IInv
  PROVE  /\ LiveWorker \in Proc \cup {None} /\ stop.target \in Proc \cup {None}
         /\ StopOver \in StopRecord
         /\ \A pc \in {"looked", "waiting", "termed"} : [stop EXCEPT !.pc = pc] \in StopRecord
         /\ \A t \in Proc \cup {None} : [stop EXCEPT !.pc = "aimed", !.target = t] \in StopRecord
         /\ stop.left > 0 => [stop EXCEPT !.pc = "looked", !.left = @ - 1] \in StopRecord
<1>1. stop \in StopRecord /\ workerPid \in Proc \cup {None}
  BY TypeParts
<1>2. LiveWorker \in Proc \cup {None}
  BY <1>1 DEF LiveWorker
<1>3. StopOver \in StopRecord /\ stop.target \in Proc \cup {None}
  BY <1>1 DEF StopOver, StopRecord
<1>4. /\ \A pc \in {"looked", "waiting", "termed"} : [stop EXCEPT !.pc = pc] \in StopRecord
      /\ \A t \in Proc \cup {None} : [stop EXCEPT !.pc = "aimed", !.target = t] \in StopRecord
  BY <1>1 DEF StopRecord
<1>5. stop.left > 0 => [stop EXCEPT !.pc = "looked", !.left = @ - 1] \in StopRecord
  <2>1. \A n \in 0 .. MaxStops : [stop EXCEPT !.pc = "looked", !.left = n] \in StopRecord
    BY <1>1 DEF StopRecord
  <2>2. stop.left \in 0 .. MaxStops
    BY <1>1 DEF StopRecord
  <2>3. stop.left > 0 => stop.left - 1 \in 0 .. MaxStops
    BY <2>2, Assumptions
  <2> QED BY <2>1, <2>3
<1> QED BY <1>2, <1>3, <1>4, <1>5

\* `agent6 stop': only its kill touches a worker.
LEMMA StopKeeps ==
  ASSUME IInv, StopCommand
  PROVE  IInv'
<1> USE DEF commands
<1>0. stopRequest \in SUBSET (Proc \cup {None})
  BY TypeParts
<1>1. CASE StopLooks
  <2>1. stop' \in StopRecord
    BY <1>1, StopTypes DEF StopLooks
  <2> QED BY <1>0, <1>1, <2>1, IdleKeeps DEF StopLooks
<1>2. CASE StopAims
  <2>1. stop' \in StopRecord
    BY <1>2, StopTypes DEF StopAims
  <2> QED BY <1>0, <1>2, <2>1, IdleKeeps DEF StopAims
<1>3. CASE StopAsks
  <2>1. stop' \in StopRecord
    BY <1>3, StopTypes DEF StopAsks
  <2>2. stopRequest' \in SUBSET (Proc \cup {None})
    BY <1>3 DEF StopAsks
  <2> QED BY <1>3, <2>1, <2>2, IdleKeeps DEF StopAsks
<1>4. CASE StopSeesEnd
  <2>1. stop' \in StopRecord
    BY <1>4, StopTypes DEF StopSeesEnd
  <2> QED BY <1>0, <1>4, <2>1, IdleKeeps DEF StopSeesEnd
<1>5. CASE StopTerms
  <2>1. stop' \in StopRecord
    BY <1>5, StopTypes DEF StopTerms
  <2> QED BY <1>0, <1>5, <2>1, IdleKeeps DEF StopTerms
<1>6. CASE StopKills /\ ~OutlivesGrace
  <2>1. stop' \in StopRecord
    BY <1>6, StopTypes DEF StopKills
  <2> QED BY <1>0, <1>6, <2>1, IdleKeeps DEF StopKills
<1>7. CASE StopKills /\ OutlivesGrace
  <2>1. PICK p \in Proc : p = Victim /\ worker[p].pc # "gave up"
    BY <1>7 DEF OutlivesGrace, Live
  <2>2. /\ worker' = [worker EXCEPT ![p] = At("gone")]
        /\ writer' = Released(writer, p) /\ checkout' = Released(checkout, p)
        /\ UNCHANGED <<manifest, workerPid, stopRequest, record, prune>>
    BY <1>7, <2>1 DEF StopKills
  <2>3. Moves(p, worker[p].pc, "gone") /\ worker[p].pc \in Places /\ "gone" \in Places
    BY <2>2, DeathMoves DEF Places
  <2>4. stop' \in StopRecord
    BY <1>7, StopTypes DEF StopKills
  <2>5. Steps(p, worker[p].pc, "gone")
    BY <2>1, <2>2, <2>3, <2>4, TypeParts
    DEF Steps, Released, record, Owning, Driving
  <2> QED BY <2>3, <2>5, StepKeeps
<1> QED BY <1>1, <1>2, <1>3, <1>4, <1>5, <1>6, <1>7 DEF StopCommand

\* A pruning moves no worker and holds the lock from its first step to its last.
LEMMA PruneKeeps ==
  ASSUME IInv, PruneCommand
  PROVE  IInv'
<1> USE Assumptions
<1>1. /\ TypeOK /\ prune \in [pc : {"none", "marking", "removing"}, left : 0 .. MaxPrunes]
      /\ transcripts \subseteq 1 .. MaxSeq /\ watermark \in 0 .. MaxSeq
      /\ writer \in Proc \cup {None, Pruner}
  BY DEF IInv, TypeOK
<1>2. UNCHANGED <<manifest, workerPid, stopRequest, log, top, checkout, worker, stop>>
  BY DEF PruneCommand, PruneBegins, PruneMarks, PruneRemoves, PruneEnds, record, locks, commands
<1>3. prune' \in [pc : {"none", "marking", "removing"}, left : 0 .. MaxPrunes]
  BY <1>1 DEF PruneCommand, PruneBegins, PruneMarks, PruneRemoves, PruneEnds, commands
<1>4. writer' \in Proc \cup {None, Pruner}
  BY <1>1 DEF PruneCommand, PruneBegins, PruneMarks, PruneRemoves, PruneEnds, locks, Released
<1>5. transcripts' \subseteq transcripts /\ watermark' \in {watermark, top}
  BY TypeParts DEF PruneCommand, PruneBegins, PruneMarks, PruneRemoves, PruneEnds, record, Mark
<1>6. TypeOK'
  <2>1. (manifest \in {"absent", "parked", "made"} /\ workerPid \in Proc \cup {None}
         /\ stopRequest \in SUBSET (Proc \cup {None})
         /\ log \in LogRecord /\ stop \in StopRecord /\ worker \in [Proc -> WorkerRecord])'
    BY <1>2, TypeParts
  <2>2. (transcripts \subseteq 1 .. MaxSeq /\ {watermark, top} \subseteq 0 .. MaxSeq)'
    BY <1>1, <1>2, <1>5, TypeParts
  <2>3. checkout' \in Proc \cup Outsiders \cup {None}
    BY <1>2 DEF IInv, TypeOK
  <2> QED BY <1>3, <1>4, <2>1, <2>2, <2>3 DEF TypeOK, LogRecord, StopRecord, WorkerRecord, Places
<1>7. writer' = writer \/ writer = None \/ writer = Pruner
  BY DEF PruneCommand, PruneBegins, PruneMarks, PruneRemoves, PruneEnds, locks, Released, Prunable
<1>8. Locked' /\ RecordedWhileItRuns'
  <2>1. \A p \in Proc : worker[p].pc \in Owning => writer' = p
    BY <1>7 DEF IInv, Locked
  <2> QED BY <1>2, <2>1 DEF IInv, Locked, RecordedWhileItRuns, Runs, HandoffGaveUp
<1>9. Guarded'
  BY <1>1, <1>2 DEF IInv, Guarded, PruneCommand, PruneBegins, PruneMarks, PruneRemoves, PruneEnds,
                    Prunable, locks, commands
<1>10. Numbers'
  <2>1. CASE PruneBegins \/ PruneEnds
    BY <1>1, <1>2, <2>1 DEF IInv, Numbers, PruneBegins, PruneEnds, record
  <2>2. CASE PruneMarks
    <3>1. watermark' = top /\ prune' = [prune EXCEPT !.pc = "removing"] /\ transcripts' = transcripts
      BY <2>2, TypeParts DEF PruneMarks, Mark
    <3>2. \A n \in {watermark} \cup transcripts : n <= top
      BY DEF IInv, Numbers
    <3>3. top <= top
      BY TypeParts
    <3> QED BY <1>2, <3>1, <3>2, <3>3 DEF IInv, Numbers
  <2>3. CASE PruneRemoves
    BY <1>2, <1>5, <2>3 DEF IInv, Numbers, PruneRemoves, commands
  <2> QED BY <2>1, <2>2, <2>3 DEF PruneCommand
<1> QED BY <1>6, <1>8, <1>9, <1>10 DEF IInv

\* Another session's worker can take the checkout only while no worker drives here.
LEMMA OthersKeep ==
  ASSUME IInv, NEW o \in Outsiders, OtherWorker(o)
  PROVE  IInv'
<1> USE Assumptions
<1>1. UNCHANGED <<manifest, workerPid, stopRequest, log, transcripts, watermark, top, writer,
                  worker, stop, prune>>
  BY DEF OtherWorker, record, commands
<1>2. (checkout = None /\ checkout' = o) \/ (checkout = o /\ checkout' = None)
  BY DEF OtherWorker
<1>3. TypeOK'
  <2>1. (manifest \in {"absent", "parked", "made"} /\ workerPid \in Proc \cup {None}
         /\ stopRequest \in SUBSET (Proc \cup {None})
         /\ log \in LogRecord /\ stop \in StopRecord /\ worker \in [Proc -> WorkerRecord])'
    BY <1>1, TypeParts
  <2>2. (transcripts \subseteq 1 .. MaxSeq /\ {watermark, top} \subseteq 0 .. MaxSeq
         /\ writer \in Proc \cup {None, Pruner})'
    BY <1>1 DEF IInv, TypeOK
  <2>3. (prune \in [pc : {"none", "marking", "removing"}, left : 0 .. MaxPrunes])'
    BY <1>1 DEF IInv, TypeOK
  <2>4. checkout' \in Proc \cup Outsiders \cup {None}
    BY <1>2
  <2> QED BY <2>1, <2>2, <2>3, <2>4 DEF TypeOK, LogRecord, StopRecord, WorkerRecord, Places
<1>4. \A p \in Proc : worker[p].pc \notin Driving
  BY <1>2, OwnerHolds
<1>5. Locked' /\ Guarded' /\ RecordedWhileItRuns' /\ Numbers'
  BY <1>1, <1>4 DEF IInv, Locked, Guarded, RecordedWhileItRuns, Numbers, Runs, HandoffGaveUp
<1> QED BY <1>3, <1>5 DEF IInv

-----------------------------------------------------------------------------
(* The invariant and what follows from it.                                 *)

\* No worker touches the stop command's own state, and only a model call and a removal touch
\* the transcripts.
LEMMA WorkersLeave ==
  ASSUME NEW p \in Proc, Start(p) \/ Resume(p) \/ Execute(p) \/ Choose(p)
  PROVE  stop' = stop /\ (transcripts' = transcripts \/ CallModel(p))
<1> USE DEF record, commands
<1>1. CASE Start(p)
  BY <1>1 DEF Start, CheckId, Claim, Settle, WriteManifest, RestorePark, RecordPid, TakeCheckout,
              Park, Unpark
<1>2. CASE Resume(p)
  BY <1>2 DEF Resume, ReadManifest, Claim, RefuseEnded, Scan, HandToRun, Refuse
<1>3. CASE Execute(p)
  BY <1>3 DEF Execute, FailBeforeStart, EmitStart, SeeStop, EndExecution, ClearPid, ReleaseLocks,
              HandedOver, HandoffFails, ClearAfterFailure, SpawnResume
<1>4. CASE Choose(p)
  BY <1>4 DEF Choose, LaunchRun, LaunchResume, CallModel, Finish, EndExecution, Detach,
              Interrupted, Dies
<1> QED BY <1>1, <1>2, <1>3, <1>4

\* Transcripts are written by model calls and removed by prunings.
LEMMA FilesChange ==
  ASSUME [Next]_vars, transcripts' # transcripts
  PROVE  PruneRemoves \/ \E p \in Proc : CallModel(p)
<1>1. CASE StopCommand
  BY <1>1 DEF StopCommand, StopLooks, StopAims, StopAsks, StopSeesEnd, StopTerms, StopKills, record
<1>2. CASE PruneCommand
  BY <1>2 DEF PruneCommand, PruneBegins, PruneMarks, PruneEnds, record
<1>3. CASE UNCHANGED vars
  BY <1>3 DEF vars, record
<1> QED BY <1>1, <1>2, <1>3, WorkersLeave DEF Next, OtherWorker, record

\* Every step, and every stutter, keeps the invariant.
LEMMA NextKeeps ==
  ASSUME IInv, [Next]_vars
  PROVE  IInv'
<1>1. ASSUME NEW p \in Proc, Start(p) \/ Resume(p) \/ Execute(p) \/ Choose(p)
      PROVE  IInv'
  BY <1>1, StartKeeps, ResumeKeeps, ExecuteKeeps, ChooseKeeps
<1>2. CASE StopCommand
  BY <1>2, StopKeeps
<1>3. CASE PruneCommand
  BY <1>3, PruneKeeps
<1>4. ASSUME NEW o \in Outsiders, OtherWorker(o)
      PROVE  IInv'
  BY <1>4, OthersKeep
<1>5. CASE UNCHANGED vars
  <2>1. UNCHANGED <<manifest, workerPid, record, locks, worker, prune>> /\ UNCHANGED <<stopRequest, stop>>
    BY <1>5 DEF vars, commands
  <2> QED BY <2>1, IdleKeeps, TypeParts
<1> QED BY <1>1, <1>2, <1>3, <1>4, <1>5 DEF Next

\* A session directory that does not exist yet satisfies it.
LEMMA InitHolds ==
  ASSUME Init
  PROVE  IInv
<1> USE Assumptions DEF Init
<1>1. worker \in [Proc -> WorkerRecord]
  <2>1. At("idle") \in WorkerRecord
    <3>1. 0 \in 0 .. MaxSeq
      OBVIOUS
    <3>2. "idle" \in Places
      BY DEF Places
    <3> QED BY <3>1, <3>2 DEF At, WorkerRecord
  <2> QED BY <2>1
<1>2. \A p \in Proc : worker[p].pc = "idle"
  BY DEF At
<1>3. TypeOK
  <2>1. manifest \in {"absent", "parked", "made"} /\ workerPid \in Proc \cup {None}
        /\ stopRequest \in SUBSET (Proc \cup {None}) /\ log \in LogRecord
    BY DEF LogRecord
  <2>2. stop \in StopRecord /\ prune \in [pc : {"none", "marking", "removing"}, left : 0 .. MaxPrunes]
    BY DEF StopRecord
  <2>3. transcripts \subseteq 1 .. MaxSeq /\ {watermark, top} \subseteq 0 .. MaxSeq
        /\ writer \in Proc \cup {None, Pruner} /\ checkout \in Proc \cup Outsiders \cup {None}
    OBVIOUS
  <2> QED BY <1>1, <2>1, <2>2, <2>3 DEF TypeOK, LogRecord, StopRecord, WorkerRecord, Places
<1>4. Locked /\ Guarded /\ RecordedWhileItRuns
  BY <1>2 DEF Locked, Guarded, RecordedWhileItRuns, Runs, Owning, Driving
<1>5. Numbers
  BY <1>2 DEF Numbers, Numbered, Driving
<1> QED BY <1>3, <1>4, <1>5 DEF IInv

\* The inductive invariant holds in every reachable state: what an owner of the session
\* directory holds, what worker.pid names and what the owner remembers.
THEOREM Invariance == Spec => []IInv
<1>1. Init => IInv
  BY InitHolds
<1>2. IInv /\ [Next]_vars => IInv'
  BY NextKeeps
<1> QED BY <1>1, <1>2, PTL DEF Spec

\* At most one process at a time is past acquire_single_writer, and the one in an execution
\* holds the lock of the checkout too.
THEOREM OneWriterHolds == Spec => []OneWriter
<1>1. IInv => OneWriter
  BY DEF IInv, Locked, OneWriter, Runs, Driving
<1> QED BY <1>1, Invariance, PTL

\* worker.pid names the process in an execution, unless a failed hand-off cleared it.
THEOREM RecordedHolds == Spec => []RecordedWhileItRuns
<1>1. IInv => RecordedWhileItRuns
  BY DEF IInv
<1> QED BY <1>1, Invariance, PTL

\* The kill at the end of a stop reaches the process the stop read before it asked, and no other.
THEOREM SparedHolds == Spec => SuccessorSpared
<1>1. ASSUME IInv, [Next]_vars, NEW p \in Proc,
             stop.pc = "termed", stop'.pc = "none", Live(p), ~Live(p)'
      PROVE  p = stop.target
  <2>1. stop' # stop
    BY <1>1
  <2>2. CASE StopKills
    <3>1. worker' # worker
      BY <1>1 DEF Live
    <3>2. OutlivesGrace /\ worker' = [worker EXCEPT ![Victim] = At("gone")]
      BY <2>2, <3>1 DEF StopKills
    <3>3. ASSUME p # Victim PROVE FALSE
      <4>1. worker'[p] = worker[p]
        BY <3>2, <3>3, TypeParts, <1>1
      <4> QED BY <1>1, <4>1 DEF Live
    <3> QED BY <3>3 DEF Victim
  <2>3. CASE ~StopKills
    <3>1. StopCommand
      <4>1. ASSUME NEW q \in Proc, Start(q) \/ Resume(q) \/ Execute(q) \/ Choose(q) PROVE stop' = stop
        BY <4>1, WorkersLeave
      <4> QED BY <1>1, <2>1, <4>1
          DEF Next, PruneCommand, PruneBegins, PruneMarks, PruneRemoves, PruneEnds, OtherWorker, commands, vars
    <3> QED BY <1>1, <2>3, <3>1
        DEF StopCommand, StopLooks, StopAims, StopAsks, StopSeesEnd, StopTerms
  <2> QED BY <2>2, <2>3
<1>2. IInv /\ [Next]_vars =>
        [\A p \in Proc :
           stop.pc = "termed" /\ stop'.pc = "none" /\ Live(p) /\ ~Live(p)' => p = stop.target]_vars
  BY <1>1
<1> QED BY <1>2, Invariance, PTL DEF Spec, SuccessorSpared

\* A transcript is written under a number above every number ever written.
THEOREM RunOnHolds == Spec => SequencesRunOn
<1>1. ASSUME IInv, [Next]_vars, NEW n \in transcripts' \ transcripts
      PROVE  n > top
  <2>1. PICK p \in Proc : CallModel(p)
    BY <1>1, FilesChange DEF PruneRemoves
  <2>2. worker[p].seq = top /\ top \in Int
    BY <1>1, <2>1, TypeParts DEF CallModel, IInv, Numbers, Numbered, Driving
  <2> QED BY <1>1, <2>1, <2>2 DEF CallModel
<1>2. IInv /\ [Next]_vars => [\A n \in transcripts' \ transcripts : n > top]_vars
  BY <1>1
<1> QED BY <1>2, Invariance, PTL DEF Spec, SequencesRunOn

\* Files are removed from an ended session that nobody drives.
THEOREM PruneHolds == Spec => PruneMeetsNobody
<1>1. ASSUME IInv, [Next]_vars, transcripts' # transcripts, transcripts' \subseteq transcripts
      PROVE  log.finished /\ \A p \in Proc : worker[p].pc \notin Owning
  <2>1. PruneRemoves
    <3>1. ASSUME NEW p \in Proc, CallModel(p) PROVE FALSE
      BY <1>1, <3>1 DEF CallModel
    <3> QED BY <1>1, <3>1, FilesChange
  <2>2. writer = Pruner /\ log.finished
    BY <1>1, <2>1 DEF PruneRemoves, IInv, Guarded
  <2> QED BY <1>1, <2>2, OwnerHolds, Assumptions
<1>2. IInv /\ [Next]_vars =>
        [transcripts' # transcripts /\ transcripts' \subseteq transcripts =>
           log.finished /\ \A p \in Proc : worker[p].pc \notin Owning]_vars
  BY <1>1
<1> QED BY <1>2, Invariance, PTL DEF Spec, PruneMeetsNobody

==========================================================================
