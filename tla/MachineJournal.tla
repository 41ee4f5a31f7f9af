-------------------------- MODULE MachineJournal --------------------------
(***************************************************************************)
(* What one append does to everything that is read off the machine's       *)
(* journal: the replay, the steps recorded, the payloads delivered, the    *)
(* time of the last step, and the two rules a journal obeys.               *)
(***************************************************************************)
EXTENDS MachineEngine, InductionFacts, SequenceTheorems

Label == {"ok", "nonzero", "timeout", "failed", "budget_exhausted", "tick", "signal", "if", "else"}
Fact == [kind : Kind, label : Label, value : Value \cup {Bad, NoValue}, usd : Nat, wake : Nat,
         payload : Nat]

StepRecord == [type : {"step"}, ts : Nat, seq : Nat, state : State, label : Label, goto : State,
               fact : Fact]
EndRecord == [type : {"end"}, status : {"ok", "failed"}, state : State, transitions : Nat, usd : Nat]
SpendRecord == [type : {"spend"}, seq : Nat, usd : Nat]
NotifyRecord == [type : {"notify"}, state : State]
Event == {Begin} \cup NotifyRecord \cup SpendRecord \cup StepRecord \cup EndRecord

Closed(j) == j # <<>> /\ IsType(j[Len(j)], "end")

Payloads(j) == {j[i].fact.payload : i \in {k \in DOMAIN j : IsType(j[k], "step")}}

Wakes(j) == {i \in DOMAIN j : IsType(j[i], "step") /\ j[i].fact.payload # NoPoke}
LastPayload(j) ==
    IF Wakes(j) = {} THEN NoPoke
    ELSE j[CHOOSE i \in Wakes(j) : \A k \in Wakes(j) : k <= i].fact.payload

LastTime(j) == PreviousTs(j, Len(j) + 1)

\* The two rules, for one line and for all: the line fits where the lines before
\* it lead to, and a tick comes when its wait is over.
LineFits(j, n) ==
    /\ IsType(j[n], "begin") <=> n = 1
    /\ IsType(j[n], "end") => /\ n = Len(j)
                              /\ j[n].state = PositionsOf(j)[n].state
                              /\ j[n].transitions = PositionsOf(j)[n].transitions
    /\ j[n] # Torn
    /\ IsType(j[n], "step") =>
          /\ j[n].state = PositionsOf(j)[n - 1].state
          /\ j[n].seq = PositionsOf(j)[n - 1].transitions
          /\ Fits(PositionsOf(j)[n - 1], j[n].fact)
          /\ j[n].goto = PositionsOf(j)[n].state
Accepted(j) == \A n \in DOMAIN j : LineFits(j, n)

LineInTime(j, n) ==
    (IsType(j[n], "step") /\ j[n].fact.kind = "wait" /\ j[n].label = "tick") =>
       /\ j[n].ts >= j[n].fact.wake
       /\ j[n].fact.wake >= PreviousTs(j, n) + Machine[j[n].state].delay
InTime(j) == \A n \in DOMAIN j : LineInTime(j, n)

-----------------------------------------------------------------------------
(* Events.                                                                 *)

\* An event is of the kind its type says, and is never a torn line.
LEMMA EventKinds ==
  ASSUME NEW e \in Event
  PROVE  /\ e # Torn
         /\ IsType(e, "step") => e \in StepRecord
         /\ IsType(e, "spend") => e \in SpendRecord
         /\ IsType(e, "end") => e \in EndRecord
         /\ IsType(e, "begin") => e = Begin
<1>1. CASE e = Begin
  BY <1>1 DEF Begin, Torn, IsType
<1>2. CASE e \in NotifyRecord
  BY <1>2 DEF NotifyRecord, Torn, IsType
<1>3. CASE e \in SpendRecord
  BY <1>3 DEF SpendRecord, Torn, IsType
<1>4. CASE e \in StepRecord
  BY <1>4 DEF StepRecord, Torn, IsType
<1>5. CASE e \in EndRecord
  BY <1>5 DEF EndRecord, Torn, IsType
<1> QED BY <1>1, <1>2, <1>3, <1>4, <1>5 DEF Event

\* A torn line is no event of any type.
LEMMA TornIsNoEvent ==
  \A type \in {"begin", "notify", "spend", "step", "end"} : ~IsType(Torn, type)
BY DEF Torn, IsType

\* A step moves, a dead attempt's spend is added, nothing else counts.
LEMMA EffectCases ==
  ASSUME NEW p, NEW e
  PROVE  /\ IsType(e, "step") => Effect(p, e) = After(p, e.fact)
         /\ IsType(e, "spend") => Effect(p, e) = [p EXCEPT !.spent = @ + e.usd]
         /\ ~IsType(e, "step") /\ ~IsType(e, "spend") => Effect(p, e) = p
BY DEF Effect, IsType

\* What one event does to a position leaves a position.
LEMMA EffectTyped ==
  ASSUME NEW p \in Position, NEW e \in Event,
         IsType(e, "step") => Fits(p, e.fact)
  PROVE  Effect(p, e) \in Position
<1>1. CASE IsType(e, "step")
  <2>1. e \in StepRecord /\ e.fact \in Fact
    BY <1>1, EventKinds DEF StepRecord
  <2>2. p.state \in State /\ p.board \in Value \cup {NoValue} /\ p.transitions \in Nat /\ p.spent \in Nat
    BY DEF Position
  <2>3. Machine[p.state].on[e.fact.label] \in State
    BY <1>1, <2>2, MachineAssumption DEF Fits
  <2>4. Reduce(p.state, e.fact, p.board) \in Value \cup {NoValue}
    <3>1. e.fact.value \in Value \cup {Bad, NoValue}
      BY <2>1 DEF Fact
    <3> QED BY <1>1, <2>2, <3>1 DEF Fits, Reducible, Reduce
  <2>5. p.spent + e.fact.usd \in Nat
    BY <2>1, <2>2 DEF Fact
  <2>6. After(p, e.fact) \in Position
    BY <2>2, <2>3, <2>4, <2>5 DEF After, Position
  <2> QED BY <1>1, <2>6, EffectCases
<1>2. CASE IsType(e, "spend")
  <2>1. e.usd \in Nat
    BY <1>2, EventKinds DEF SpendRecord
  <2>2. Effect(p, e) = [p EXCEPT !.spent = @ + e.usd]
    BY <1>2, EffectCases
  <2> QED BY <2>1, <2>2 DEF Position
<1>3. CASE ~IsType(e, "step") /\ ~IsType(e, "spend")
  BY <1>3, EffectCases
<1> QED BY <1>1, <1>2, <1>3

-----------------------------------------------------------------------------
(* Replay.                                                                 *)

\* `_rebuild_from_journal': the position after each event, in terms of the one before it.
LEMMA ReplayUnfolds ==
  ASSUME NEW j, Len(j) \in Nat
  PROVE  PositionsOf(j) = [n \in 0..Len(j) |-> IF n = 0 THEN StartPosition
                                               ELSE Effect(PositionsOf(j)[n - 1], j[n])]
<1> DEFINE Goes(g, k) == g = [n \in 0..k |-> IF n = 0 THEN StartPosition ELSE Effect(g[n - 1], j[n])]
           S == {k \in Nat : \E g : Goes(g, k)}
<1>1. 0 \in S
  <2> DEFINE g == [n \in 0..0 |-> StartPosition]
  <2>1. Goes(g, 0)
    OBVIOUS
  <2> QED BY <2>1
<1>2. ASSUME NEW k \in Nat, k \in S PROVE k + 1 \in S
  <2>1. PICK g : Goes(g, k)
    BY <1>2
  <2> DEFINE h == [n \in 0..(k + 1) |-> IF n = k + 1 THEN Effect(g[k], j[k + 1]) ELSE g[n]]
  <2>2. \A n \in 0..(k + 1) : h[n] = IF n = 0 THEN StartPosition ELSE Effect(h[n - 1], j[n])
    <3> TAKE n \in 0..(k + 1)
    <3>0. g = [m \in 0..k |-> IF m = 0 THEN StartPosition ELSE Effect(g[m - 1], j[m])]
      BY <2>1
    <3>1. CASE n = k + 1
      <4>1. h[n] = Effect(g[k], j[k + 1]) /\ h[k] = g[k] /\ n # 0 /\ n - 1 = k
        BY <3>1
      <4> HIDE DEF h
      <4> QED BY <3>1, <4>1
    <3>2. CASE n # k + 1
      <4>1. n \in 0..k /\ h[n] = g[n] /\ (n # 0 => h[n - 1] = g[n - 1])
        BY <3>2
      <4> HIDE DEF h
      <4>2. g[n] = IF n = 0 THEN StartPosition ELSE Effect(g[n - 1], j[n])
        BY <3>0, <4>1
      <4> QED BY <4>1, <4>2
    <3> QED BY <3>1, <3>2
  <2>3. Goes(h, k + 1)
    <3>1. h = [n \in 0..(k + 1) |-> h[n]]
      OBVIOUS
    <3> HIDE DEF h
    <3> QED BY <2>2, <3>1
  <2> HIDE DEF Goes, h
  <2> QED BY <2>3
<1>3. Len(j) \in S
  <2> HIDE DEF S
  <2> QED BY <1>1, <1>2, SetInduction
<1>4. \E g : Goes(g, Len(j))
  BY <1>3
<1>5. PositionsOf(j) = CHOOSE g : Goes(g, Len(j))
  BY DEF PositionsOf
<1>6. Goes(PositionsOf(j), Len(j))
  <2> HIDE DEF Goes
  <2> QED BY <1>4, <1>5
<1> QED BY <1>6

\* The replay of an appended journal repeats that of the journal and adds one step.
LEMMA AppendReplays ==
  ASSUME NEW j \in Seq(Event), NEW e \in Event
  PROVE  /\ \A n \in 0 .. Len(j) : PositionsOf(Append(j, e))[n] = PositionsOf(j)[n]
         /\ PositionsOf(Append(j, e))[Len(j) + 1] = Effect(Rebuild(j), e)
         /\ Rebuild(Append(j, e)) = Effect(Rebuild(j), e)
<1> DEFINE k == Append(j, e)
           S == {n \in Nat : n \in 0 .. Len(j) => PositionsOf(k)[n] = PositionsOf(j)[n]}
<1>1. /\ k \in Seq(Event) /\ Len(k) = Len(j) + 1 /\ Len(j) \in Nat /\ Len(k) \in Nat
      /\ k[Len(j) + 1] = e
      /\ \A n \in 1 .. Len(j) : k[n] = j[n]
  BY AppendProperties, LenProperties
<1> HIDE DEF k
<1>2. \A n \in 0 .. Len(k) : PositionsOf(k)[n] = IF n = 0 THEN StartPosition
                                                 ELSE Effect(PositionsOf(k)[n - 1], k[n])
  BY <1>1, ReplayUnfolds
<1>3. \A n \in 0 .. Len(j) : PositionsOf(j)[n] = IF n = 0 THEN StartPosition
                                                 ELSE Effect(PositionsOf(j)[n - 1], j[n])
  BY <1>1, ReplayUnfolds
<1>4. 0 \in S
  BY <1>1, <1>2, <1>3
<1>5. ASSUME NEW n \in Nat, n \in S PROVE n + 1 \in S
  <2>1. SUFFICES ASSUME n + 1 \in 0 .. Len(j) PROVE PositionsOf(k)[n + 1] = PositionsOf(j)[n + 1]
    OBVIOUS
  <2>2. n \in 0 .. Len(j) /\ n + 1 \in 1 .. Len(j) /\ n + 1 \in 0 .. Len(k) /\ n + 1 # 0 /\ (n + 1) - 1 = n
    BY <1>1, <2>1
  <2>3. PositionsOf(k)[n + 1] = Effect(PositionsOf(k)[n], k[n + 1])
    BY <1>2, <2>2
  <2>4. PositionsOf(j)[n + 1] = Effect(PositionsOf(j)[n], j[n + 1])
    BY <1>3, <2>2
  <2>5. PositionsOf(k)[n] = PositionsOf(j)[n]
    BY <1>5, <2>2
  <2> QED BY <1>1, <2>2, <2>3, <2>4, <2>5
<1>6. \A n \in Nat : n \in S
  <2> HIDE DEF S
  <2> QED BY <1>4, <1>5, SetInduction
<1>7. \A n \in 0 .. Len(j) : PositionsOf(k)[n] = PositionsOf(j)[n]
  BY <1>1, <1>6
<1>8. PositionsOf(k)[Len(j) + 1] = Effect(PositionsOf(j)[Len(j)], e)
  <2>1. Len(j) + 1 \in 0 .. Len(k) /\ Len(j) + 1 # 0 /\ (Len(j) + 1) - 1 = Len(j) /\ Len(j) \in 0 .. Len(j)
    BY <1>1
  <2> QED BY <1>1, <1>2, <1>7, <2>1
<1> QED BY <1>1, <1>7, <1>8 DEF k, Rebuild

\* Nothing has happened in an empty journal.
LEMMA EmptyReplays == Rebuild(<<>>) = StartPosition
<1>1. Len(<<>>) = 0
  BY EmptySeq
<1>2. PositionsOf(<<>>) = [n \in 0 .. 0 |-> IF n = 0 THEN StartPosition
                                            ELSE Effect(PositionsOf(<<>>)[n - 1], <<>>[n])]
  BY <1>1, ReplayUnfolds
<1>3. PositionsOf(<<>>)[0] = StartPosition
  BY <1>2
<1> QED BY <1>1, <1>3 DEF Rebuild

-----------------------------------------------------------------------------
(* What is collected over the steps of a journal.                          *)

\* An appended journal has the old lines and the new one.
LEMMA AppendLines ==
  ASSUME NEW j \in Seq(Event), NEW e \in Event
  PROVE  /\ Append(j, e) \in Seq(Event)
         /\ Len(j) \in Nat /\ Len(Append(j, e)) = Len(j) + 1
         /\ DOMAIN j = 1 .. Len(j) /\ DOMAIN Append(j, e) = 1 .. (Len(j) + 1)
         /\ Append(j, e) # <<>>
         /\ \A n \in 1 .. Len(j) : Append(j, e)[n] = j[n] /\ j[n] \in Event
         /\ Append(j, e)[Len(j) + 1] = e
<1>1. Append(j, e) \in Seq(Event) /\ Append(j, e) # <<>> /\ Len(Append(j, e)) = Len(j) + 1
  BY AppendProperties
<1>2. DOMAIN Append(j, e) = 1 .. Len(Append(j, e))
  BY <1>1, LenProperties
<1>3. DOMAIN j = 1 .. Len(j) /\ Len(j) \in Nat
  BY LenProperties
<1> QED BY <1>1, <1>2, <1>3, AppendProperties, ElementOfSeq

\* The sequence numbers an append adds are its step's.
LEMMA AppendStepSeqs ==
  ASSUME NEW j \in Seq(Event), NEW e \in Event
  PROVE  StepSeqs(Append(j, e)) = IF IsType(e, "step") THEN StepSeqs(j) \cup {e.seq} ELSE StepSeqs(j)
<1> DEFINE k == Append(j, e)
<1>1. /\ Len(j) \in Nat /\ DOMAIN j = 1 .. Len(j) /\ DOMAIN k = 1 .. (Len(j) + 1)
      /\ \A n \in 1 .. Len(j) : k[n] = j[n]
      /\ k[Len(j) + 1] = e
  BY AppendLines
<1> HIDE DEF k
<1>2. \A n \in DOMAIN k : n \in DOMAIN j \/ n = Len(j) + 1
  BY <1>1
<1>3. \A n \in DOMAIN j : n \in DOMAIN k
  BY <1>1
<1>4. Len(j) + 1 \in DOMAIN k
  BY <1>1
<1>5. StepSeqs(k) = IF IsType(e, "step") THEN StepSeqs(j) \cup {e.seq} ELSE StepSeqs(j)
  BY <1>1, <1>2, <1>3, <1>4, Zenon DEF StepSeqs
<1> QED BY <1>5 DEF k

\* The payloads an append delivers are its step's.
LEMMA AppendPayloads ==
  ASSUME NEW j \in Seq(Event), NEW e \in Event
  PROVE  Payloads(Append(j, e)) =
             IF IsType(e, "step") THEN Payloads(j) \cup {e.fact.payload} ELSE Payloads(j)
<1> DEFINE k == Append(j, e)
<1>1. /\ Len(j) \in Nat /\ DOMAIN j = 1 .. Len(j) /\ DOMAIN k = 1 .. (Len(j) + 1)
      /\ \A n \in 1 .. Len(j) : k[n] = j[n]
      /\ k[Len(j) + 1] = e
  BY AppendLines
<1> HIDE DEF k
<1>2. \A n \in DOMAIN k : n \in DOMAIN j \/ n = Len(j) + 1
  BY <1>1
<1>3. \A n \in DOMAIN j : n \in DOMAIN k
  BY <1>1
<1>4. Len(j) + 1 \in DOMAIN k
  BY <1>1
<1>5. Payloads(k) = IF IsType(e, "step") THEN Payloads(j) \cup {e.fact.payload} ELSE Payloads(j)
  BY <1>1, <1>2, <1>3, <1>4, Zenon DEF Payloads
<1> QED BY <1>5 DEF k

\* A set of line numbers has one that no other exceeds, and only one.
LEMMA Latest ==
  ASSUME NEW n \in Nat, NEW T, T \subseteq 1 .. n, T # {}
  PROVE  /\ (CHOOSE i \in T : \A k \in T : k <= i) \in T
         /\ \A k \in T : k <= (CHOOSE i \in T : \A m \in T : m <= i)
<1>1. T \subseteq 0 .. n
  OBVIOUS
<1>2. \E i \in T : \A k \in T : k <= i
  BY <1>1, GreatestElement
<1> QED BY <1>2

\* The last payload delivered is the appended step's, when it delivers one.
LEMMA AppendLastPayload ==
  ASSUME NEW j \in Seq(Event), NEW e \in Event
  PROVE  LastPayload(Append(j, e)) = IF IsType(e, "step") /\ e.fact.payload # NoPoke
                                     THEN e.fact.payload ELSE LastPayload(j)
<1> DEFINE k == Append(j, e)
<1>1. /\ Len(j) \in Nat /\ DOMAIN j = 1 .. Len(j) /\ DOMAIN k = 1 .. (Len(j) + 1)
      /\ \A n \in 1 .. Len(j) : k[n] = j[n]
      /\ k[Len(j) + 1] = e
  BY AppendLines
<1> HIDE DEF k
<1>2. CASE IsType(e, "step") /\ e.fact.payload # NoPoke
  <2>1. Len(j) + 1 \in Wakes(k) /\ Wakes(k) \subseteq 1 .. (Len(j) + 1) /\ Len(j) + 1 \in Nat
    BY <1>1, <1>2 DEF Wakes
  <2> DEFINE c == CHOOSE i \in Wakes(k) : \A m \in Wakes(k) : m <= i
  <2>2. c \in Wakes(k) /\ \A m \in Wakes(k) : m <= c
    BY <2>1, Latest
  <2>3. LastPayload(k) = k[c].fact.payload
    BY <2>1 DEF LastPayload
  <2> HIDE DEF c
  <2>4. c = Len(j) + 1
    BY <1>1, <2>1, <2>2
  <2> QED BY <1>1, <1>2, <2>3, <2>4 DEF k
<1>3. CASE ~(IsType(e, "step") /\ e.fact.payload # NoPoke)
  <2>1. \A n : n \in Wakes(k) <=> n \in Wakes(j)
    <3>1. \A n \in DOMAIN k : n \in DOMAIN j \/ n = Len(j) + 1
      BY <1>1
    <3>2. \A n \in DOMAIN j : n \in DOMAIN k
      BY <1>1
    <3> QED BY <1>1, <1>3, <3>1, <3>2, Zenon DEF Wakes
  <2>2. Wakes(k) = Wakes(j)
    BY <2>1
  <2>3. CASE Wakes(j) = {}
    BY <1>3, <2>2, <2>3 DEF LastPayload, k
  <2>4. CASE Wakes(j) # {}
    <3> DEFINE c == CHOOSE i \in Wakes(j) : \A m \in Wakes(j) : m <= i
    <3>1. Wakes(j) \subseteq 1 .. Len(j)
      BY <1>1 DEF Wakes
    <3>2. c \in Wakes(j)
      BY <1>1, <2>4, <3>1, Latest
    <3>3. LastPayload(j) = j[c].fact.payload
      BY <2>4 DEF LastPayload
    <3>4. LastPayload(k) = k[c].fact.payload
      BY <2>2, <2>4 DEF LastPayload
    <3> HIDE DEF c
    <3>5. k[c] = j[c]
      BY <1>1, <3>1, <3>2
    <3>6. LastPayload(k) = LastPayload(j)
      BY <3>3, <3>4, <3>5
    <3> QED BY <1>3, <3>6 DEF k
  <2> QED BY <2>3, <2>4
<1> QED BY <1>2, <1>3

\* The time of the last step before a line is that of the journal it was appended to.
LEMMA AppendPreviousTs ==
  ASSUME NEW j \in Seq(Event), NEW e \in Event
  PROVE  /\ \A n \in 1 .. (Len(j) + 1) : PreviousTs(Append(j, e), n) = PreviousTs(j, n)
         /\ LastTime(Append(j, e)) = IF IsType(e, "step") THEN e.ts ELSE LastTime(j)
<1> DEFINE k == Append(j, e)
           Before(s, n) == {i \in 1 .. (n - 1) : IsType(s[i], "step")}
           Newest(T) == CHOOSE i \in T : \A m \in T : m <= i
<1>1. /\ Len(j) \in Nat /\ DOMAIN j = 1 .. Len(j) /\ DOMAIN k = 1 .. (Len(j) + 1)
      /\ Len(k) = Len(j) + 1
      /\ \A n \in 1 .. Len(j) : k[n] = j[n]
      /\ k[Len(j) + 1] = e
  BY AppendLines
<1> HIDE DEF k
<1>2. \A s, n : PreviousTs(s, n) = IF Before(s, n) = {} THEN 1 ELSE s[Newest(Before(s, n))].ts
  BY DEF PreviousTs
<1>3. \A n : Before(j, n) \subseteq 1 .. (n - 1) /\ Before(k, n) \subseteq 1 .. (n - 1)
  OBVIOUS
<1>4. ASSUME NEW n \in Nat, NEW T, T \subseteq 1 .. n, T # {}
      PROVE  Newest(T) \in T /\ \A m \in T : m <= Newest(T)
  BY <1>4, Latest
<1>5. ASSUME NEW n \in 1 .. (Len(j) + 1) PROVE Before(k, n) = Before(j, n)
  <2>1. \A i \in 1 .. (n - 1) : k[i] = j[i]
    BY <1>1
  <2> QED BY <2>1
<1>6. ASSUME NEW n \in 1 .. (Len(j) + 1), Before(j, n) # {}
      PROVE  Newest(Before(j, n)) \in Before(j, n) /\ Newest(Before(j, n)) \in 1 .. Len(j)
  <2>1. n - 1 \in Nat /\ n - 1 <= Len(j)
    BY <1>1
  <2> HIDE DEF Before, Newest
  <2>2. Newest(Before(j, n)) \in Before(j, n)
    BY <1>3, <1>4, <1>6, <2>1
  <2> QED BY <1>1, <1>3, <2>1, <2>2
<1>7. \A n \in 1 .. (Len(j) + 1) : PreviousTs(k, n) = PreviousTs(j, n)
  <2> TAKE n \in 1 .. (Len(j) + 1)
  <2> HIDE DEF Before, Newest
  <2>1. CASE Before(j, n) = {}
    BY <1>2, <1>5, <2>1
  <2>2. CASE Before(j, n) # {}
    BY <1>1, <1>2, <1>5, <1>6, <2>2
  <2> QED BY <2>1, <2>2
<1>8. LastTime(k) = PreviousTs(k, Len(j) + 2)
  BY <1>1 DEF LastTime
<1>9. CASE IsType(e, "step")
  <2> DEFINE T == Before(k, Len(j) + 2)
  <2>1. Len(j) + 1 \in T /\ T \subseteq 1 .. (Len(j) + 1) /\ Len(j) + 1 \in Nat /\ T # {}
    BY <1>1, <1>9
  <2>2. PreviousTs(k, Len(j) + 2) = k[Newest(T)].ts
    BY <1>2, <2>1
  <2> HIDE DEF T, Newest, Before
  <2>3. Newest(T) = Len(j) + 1
    <3>1. Newest(T) \in T /\ Len(j) + 1 <= Newest(T)
      BY <1>4, <2>1
    <3> QED BY <1>1, <2>1, <3>1
  <2> QED BY <1>1, <1>7, <1>8, <1>9, <2>2, <2>3 DEF k
<1>10. CASE ~IsType(e, "step")
  <2>1. Before(k, Len(j) + 2) = Before(j, Len(j) + 1)
    <3>1. \A i : i \in 1 .. ((Len(j) + 2) - 1) <=> i \in 1 .. ((Len(j) + 1) - 1) \/ i = Len(j) + 1
      BY <1>1
    <3>2. \A i \in 1 .. ((Len(j) + 1) - 1) : k[i] = j[i]
      BY <1>1
    <3> QED BY <1>1, <1>10, <3>1, <3>2, Zenon
  <2>2. Len(j) + 1 \in 1 .. (Len(j) + 1)
    BY <1>1
  <2>3. PreviousTs(k, Len(j) + 2) = PreviousTs(j, Len(j) + 1)
    <3> HIDE DEF Before, Newest
    <3>1. CASE Before(j, Len(j) + 1) = {}
      BY <1>2, <2>1, <3>1
    <3>2. CASE Before(j, Len(j) + 1) # {}
      <4>1. Newest(Before(j, Len(j) + 1)) \in 1 .. Len(j)
        BY <1>6, <2>2, <3>2
      <4> QED BY <1>1, <1>2, <2>1, <3>2, <4>1
    <3> QED BY <3>1, <3>2
  <2> QED BY <1>7, <1>8, <1>10, <2>3 DEF k, LastTime
<1> QED BY <1>9, <1>10

-----------------------------------------------------------------------------
(* The two rules.                                                          *)

\* An open journal stays replayable when what is appended fits where it leads.
LEMMA AppendAccepted ==
  ASSUME NEW j \in Seq(Event), NEW e \in Event, Accepted(j), ~Closed(j),
         IsType(e, "begin") <=> j = <<>>,
         IsType(e, "end") => e.state = Rebuild(j).state /\ e.transitions = Rebuild(j).transitions,
         IsType(e, "step") => /\ e.state = Rebuild(j).state
                              /\ e.seq = Rebuild(j).transitions
                              /\ Fits(Rebuild(j), e.fact)
                              /\ e.goto = Effect(Rebuild(j), e).state
  PROVE  Accepted(Append(j, e))
<1> DEFINE k == Append(j, e)
           m == Len(j) + 1
<1>1. /\ Len(j) \in Nat /\ DOMAIN j = 1 .. Len(j) /\ DOMAIN k = 1 .. m /\ Len(k) = m
      /\ \A n \in 1 .. Len(j) : k[n] = j[n]
      /\ k[m] = e
  BY AppendLines
<1>2. /\ \A n \in 0 .. Len(j) : PositionsOf(k)[n] = PositionsOf(j)[n]
      /\ PositionsOf(k)[m] = Effect(Rebuild(j), e)
      /\ PositionsOf(k)[Len(j)] = Rebuild(j)
  BY <1>1, AppendReplays DEF Rebuild
<1> HIDE DEF k
<1>3. ASSUME NEW n \in 1 .. Len(j) PROVE LineFits(k, n)
  <2>1. k[n] = j[n] /\ PositionsOf(k)[n] = PositionsOf(j)[n] /\ PositionsOf(k)[n - 1] = PositionsOf(j)[n - 1]
    BY <1>1, <1>2
  <2>2. LineFits(j, n)
    BY <1>1 DEF Accepted
  <2>3. ~IsType(j[n], "end")
    <3>1. ASSUME IsType(j[n], "end") PROVE FALSE
      <4>1. n = Len(j)
        BY <2>2, <3>1 DEF LineFits
      <4>2. j # <<>>
        BY <1>1, EmptySeq
      <4> QED BY <3>1, <4>1, <4>2 DEF Closed
    <3> QED BY <3>1
  <2> QED BY <2>1, <2>2, <2>3, Zenon DEF LineFits
<1>4. LineFits(k, m)
  <2>1. m - 1 = Len(j) /\ m = Len(k)
    BY <1>1
  <2>2. m = 1 <=> j = <<>>
    BY <1>1, EmptySeq
  <2>3. e # Torn
    BY EventKinds
  <2>4. IsType(k[m], "begin") <=> m = 1
    BY <1>1, <2>2, Zenon
  <2>5. IsType(k[m], "end") => m = Len(k) /\ k[m].state = PositionsOf(k)[m].state
                               /\ k[m].transitions = PositionsOf(k)[m].transitions
    <3>1. SUFFICES ASSUME IsType(e, "end")
                   PROVE  e.state = PositionsOf(k)[m].state /\ e.transitions = PositionsOf(k)[m].transitions
      BY <1>1, <2>1
    <3>2. ~IsType(e, "step") /\ ~IsType(e, "spend")
      BY <3>1 DEF IsType
    <3>3. Effect(Rebuild(j), e) = Rebuild(j)
      BY <3>2, EffectCases
    <3> QED BY <1>2, <3>1, <3>3
  <2>6. IsType(k[m], "step") => /\ k[m].state = PositionsOf(k)[m - 1].state
                                /\ k[m].seq = PositionsOf(k)[m - 1].transitions
                                /\ Fits(PositionsOf(k)[m - 1], k[m].fact)
                                /\ k[m].goto = PositionsOf(k)[m].state
    BY <1>1, <1>2, <2>1, Zenon
  <2> HIDE DEF m
  <2> QED BY <1>1, <2>3, <2>4, <2>5, <2>6, Zenon DEF LineFits
<1>5. \A n \in DOMAIN k : n \in 1 .. Len(j) \/ n = m
  BY <1>1
<1> QED BY <1>3, <1>4, <1>5 DEF Accepted, k

\* Nothing is wrong with an empty journal.
LEMMA EmptyKeepsTheRules == Accepted(<<>>) /\ InTime(<<>>) /\ ~Closed(<<>>)
BY DEF Accepted, InTime, Closed

\* A journal stays on time when an appended tick is.
LEMMA AppendInTime ==
  ASSUME NEW j \in Seq(Event), NEW e \in Event, InTime(j),
         (IsType(e, "step") /\ e.fact.kind = "wait" /\ e.label = "tick") =>
            e.ts >= e.fact.wake /\ e.fact.wake >= LastTime(j) + Machine[e.state].delay
  PROVE  InTime(Append(j, e))
<1> DEFINE k == Append(j, e)
           m == Len(j) + 1
<1>1. /\ Len(j) \in Nat /\ DOMAIN j = 1 .. Len(j) /\ DOMAIN k = 1 .. m
      /\ \A n \in 1 .. Len(j) : k[n] = j[n]
      /\ k[m] = e
  BY AppendLines
<1>2. \A n \in 1 .. m : PreviousTs(k, n) = PreviousTs(j, n)
  BY AppendPreviousTs
<1> HIDE DEF k
<1>3. ASSUME NEW n \in 1 .. Len(j) PROVE LineInTime(k, n)
  <2>1. k[n] = j[n] /\ PreviousTs(k, n) = PreviousTs(j, n)
    BY <1>1, <1>2
  <2>2. LineInTime(j, n)
    BY <1>1 DEF InTime
  <2> QED BY <2>1, <2>2, Zenon DEF LineInTime
<1>4. LineInTime(k, m)
  <2>1. k[m] = e /\ PreviousTs(k, m) = LastTime(j)
    BY <1>1, <1>2 DEF LastTime
  <2> QED BY <2>1, Zenon DEF LineInTime
<1>5. \A n \in DOMAIN k : n \in 1 .. Len(j) \/ n = m
  BY <1>1
<1> QED BY <1>3, <1>4, <1>5 DEF InTime, k

-----------------------------------------------------------------------------
(* What is read of the file: every complete line, and never the torn one.  *)

\* An append truncates exactly what a reader drops.
LEMMA HealIsRead == \A j : HealTornTail(j) = Read(j)
BY DEF HealTornTail, Read

\* Appending an event to the healed file appends it to what is read.
LEMMA ReadEvent ==
  ASSUME NEW j \in Seq(Event), NEW e \in Event
  PROVE  Read(Append(j, e)) = Append(j, e) /\ Append(j, e) \in Seq(Event \cup {Torn})
<1>1. Append(j, e) \in Seq(Event) /\ Len(Append(j, e)) = Len(j) + 1 /\ Append(j, e)[Len(j) + 1] = e
  BY AppendLines
<1>2. e # Torn
  BY EventKinds
<1>3. Append(j, e) \in Seq(Event \cup {Torn})
  BY <1>1, SeqMonotonic
<1> QED BY <1>1, <1>2, <1>3 DEF Read, EndsTorn

\* A line cut half way leaves what is read as it was.
LEMMA ReadTorn ==
  ASSUME NEW j \in Seq(Event)
  PROVE  /\ Read(Append(j, Torn)) = j
         /\ Append(j, Torn) \in Seq(Event \cup {Torn})
         /\ Append(j, Torn) # <<>>
<1> DEFINE S == Event \cup {Torn}
           k == Append(j, Torn)
<1>1. j \in Seq(S) /\ Torn \in S
  BY SeqMonotonic
<1> HIDE DEF S
<1>2. /\ k \in Seq(S) /\ k # <<>> /\ Len(k) = Len(j) + 1 /\ k[Len(j) + 1] = Torn
      /\ \A i \in 1 .. Len(j) : k[i] = j[i]
  BY <1>1, AppendProperties
<1>3. Len(j) \in Nat /\ \A i \in 1 .. Len(j) : j[i] \in Event
  BY LenProperties, ElementOfSeq
<1> HIDE DEF k
<1>4. EndsTorn(k) /\ Len(k) - 1 = Len(j)
  BY <1>2, <1>3 DEF EndsTorn
<1>5. Read(k) = SubSeq(k, 1, Len(j))
  BY <1>4 DEF Read
<1>6. /\ SubSeq(k, 1, Len(j)) \in Seq(Event)
      /\ Len(SubSeq(k, 1, Len(j))) = Len(j)
      /\ \A i \in 1 .. Len(j) : SubSeq(k, 1, Len(j))[i] = j[i]
  <2>1. \A i \in 1 .. Len(j) : k[i] \in Event
    BY <1>2, <1>3
  <2>2. /\ SubSeq(k, 1, Len(j)) \in Seq(Event)
        /\ Len(SubSeq(k, 1, Len(j))) = IF 1 <= Len(j) THEN Len(j) - 1 + 1 ELSE 0
        /\ \A i \in 1 .. Len(j) - 1 + 1 : SubSeq(k, 1, Len(j))[i] = k[1 + i - 1]
    BY <1>3, <2>1, SubSeqProperties
  <2>3. \A i \in 1 .. Len(j) : 1 + i - 1 = i /\ i \in 1 .. Len(j) - 1 + 1
    BY <1>3
  <2> QED BY <1>2, <1>3, <2>2, <2>3
<1>7. Read(k) = j
  BY <1>5, <1>6, SeqEqual
<1> QED BY <1>2, <1>7 DEF k, S

\* The file is what is read of it, with or without a torn line.
LEMMA FileLines ==
  ASSUME NEW f \in Seq(Event \cup {Torn}), Read(f) \in Seq(Event)
  PROVE  /\ \A i \in DOMAIN Read(f) : i \in DOMAIN f /\ f[i] = Read(f)[i]
         /\ \A i \in DOMAIN f : i \in DOMAIN Read(f) \/ f[i] = Torn
<1> DEFINE S == Event \cup {Torn}
<1>1. Len(f) \in Nat /\ DOMAIN f = 1 .. Len(f) /\ \A i \in 1 .. Len(f) : f[i] \in S
  BY LenProperties, ElementOfSeq
<1> HIDE DEF S
<1>2. CASE EndsTorn(f)
  <2>1. f # <<>> /\ f[Len(f)] = Torn /\ Read(f) = SubSeq(f, 1, Len(f) - 1)
    BY <1>2 DEF EndsTorn, Read
  <2>2. Len(f) \in Nat \ {0}
    BY <2>1, EmptySeq
  <2>3. \A i \in 1 .. Len(f) - 1 : f[i] \in S
    BY <1>1
  <2>4. /\ Len(Read(f)) = Len(f) - 1
        /\ \A i \in 1 .. Len(f) - 1 : Read(f)[i] = f[i]
    <3>1. /\ Len(SubSeq(f, 1, Len(f) - 1)) = IF 1 <= Len(f) - 1 THEN Len(f) - 1 - 1 + 1 ELSE 0
          /\ \A i \in 1 .. Len(f) - 1 - 1 + 1 : SubSeq(f, 1, Len(f) - 1)[i] = f[1 + i - 1]
      BY <1>1, <2>2, <2>3, SubSeqProperties
    <3>2. \A i \in 1 .. Len(f) - 1 : 1 + i - 1 = i /\ i \in 1 .. Len(f) - 1 - 1 + 1
      BY <1>1
    <3> QED BY <1>1, <2>1, <2>2, <3>1, <3>2
  <2>5. DOMAIN Read(f) = 1 .. (Len(f) - 1)
    BY <2>4, LenProperties
  <2>6. \A i \in 1 .. Len(f) : i \in 1 .. (Len(f) - 1) \/ i = Len(f)
    BY <2>2
  <2>7. \A i \in DOMAIN Read(f) : i \in DOMAIN f /\ f[i] = Read(f)[i]
    BY <1>1, <2>2, <2>4, <2>5
  <2>8. \A i \in DOMAIN f : i \in DOMAIN Read(f) \/ f[i] = Torn
    BY <1>1, <2>1, <2>5, <2>6, Zenon
  <2> QED BY <2>7, <2>8, Zenon
<1>3. CASE ~EndsTorn(f)
  BY <1>3 DEF Read
<1> QED BY <1>2, <1>3

\* What the file delivers is what its complete lines deliver.
LEMMA ReadDelivers ==
  ASSUME NEW f \in Seq(Event \cup {Torn}), Read(f) \in Seq(Event)
  PROVE  Payloads(f) = Payloads(Read(f)) /\ LastPayload(f) = LastPayload(Read(f))
<1> DEFINE j == Read(f)
<1>1. /\ \A i \in DOMAIN j : i \in DOMAIN f /\ f[i] = j[i]
      /\ \A i \in DOMAIN f : i \in DOMAIN j \/ f[i] = Torn
  BY FileLines
<1>2. ~IsType(Torn, "step")
  BY TornIsNoEvent
<1> HIDE DEF j
<1>3. Payloads(f) = Payloads(j)
  BY <1>1, <1>2, Zenon DEF Payloads
<1>4. \A i : i \in Wakes(f) <=> i \in Wakes(j)
  BY <1>1, <1>2, Zenon DEF Wakes
<1>5. Wakes(f) = Wakes(j)
  BY <1>4
<1>6. LastPayload(f) = LastPayload(j)
  <2>1. CASE Wakes(j) = {}
    BY <1>5, <2>1 DEF LastPayload
  <2>2. CASE Wakes(j) # {}
    <3> DEFINE c == CHOOSE i \in Wakes(j) : \A m \in Wakes(j) : m <= i
    <3>1. DOMAIN j = 1 .. Len(j) /\ Len(j) \in Nat
      BY LenProperties DEF j
    <3>2. Wakes(j) \subseteq 1 .. Len(j)
      BY <3>1 DEF Wakes
    <3>3. c \in Wakes(j)
      BY <2>2, <3>1, <3>2, Latest
    <3>4. f[c] = j[c]
      BY <1>1, <3>3 DEF Wakes
    <3>5. LastPayload(j) = j[c].fact.payload /\ LastPayload(f) = f[c].fact.payload
      BY <1>5, <2>2 DEF LastPayload
    <3> QED BY <3>4, <3>5
  <2> QED BY <2>1, <2>2
<1> QED BY <1>3, <1>6 DEF j
=============================================================================
