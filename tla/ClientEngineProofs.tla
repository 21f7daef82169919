------------------------- MODULE ClientEngineProofs -------------------------
(***************************************************************************)
(* Theorems about a ClientEngine under any caller and any peer, for every  *)
(* alphabet of chunks, every buffer size and every bound.                  *)
(*                                                                         *)
(* OneAnswerEach is inductive together with the type invariant: the only   *)
(* operator that hides a loop is Advance, and AdvanceProgress says what it *)
(* may do.                                                                 *)
(*                                                                         *)
(* That cuts of the stream do not show follows one step: a line or a body  *)
(* that is there is read the same whatever follows it, and one that is not *)
(* there waits, but for a line at the limit (LineAtLimit).  So an engine   *)
(* and its Advance, given the same bytes more, advance to the same engine. *)
(***************************************************************************)
EXTENDS ClientEngine, EngineCoreProofs

-----------------------------------------------------------------------------
(* Type correctness. *)

Safe == TypeOK /\ OneAnswerEach

LEMMA InitTypeOK == Init => TypeOK
<1>1. /\ <<>> \in Seq(Byte) /\ <<>> \in Seq(OutByte) /\ <<>> \in Seq(Event)
      /\ <<>> \in Seq(EventKind)
  OBVIOUS
<1>2. NewEngine \in Engine
  BY <1>1 DEF NewEngine, Engine, Mode, Expect
<1> QED
  BY <1>1, <1>2 DEF Init, TypeOK

LEMMA ChunkBytes ==
  ASSUME NEW c \in Chunk \cup {<<>>}, NEW t \in Tag
  PROVE  Untagged(c, t) \in Seq(Byte) /\ Len(c) \in Nat
<1>1. c \in Seq(InSym)
  <2>1. <<>> \in Seq(InSym)
    OBVIOUS
  <2> QED
    BY <2>1, ChunkAssumption, Zenon
<1> QED
  BY <1>1, UntaggedIsBytes

LEMMA StepTypeOK == TypeOK /\ [Next]_vars => TypeOK'
<1> SUFFICES ASSUME TypeOK, [Next]_vars PROVE TypeOK'
  OBVIOUS
<1>0. engine \in Engine /\ asked \in Nat /\ fed \in Nat /\ pulled \in Seq(EventKind)
  BY DEF TypeOK
<1>1. CASE RecvBytes
  <2>1. PICK c \in Chunk, t \in Tag :
          /\ engine' = Recv(engine, Untagged(c, t))
          /\ fed' = fed + Len(c) /\ UNCHANGED <<asked, pulled>>
    BY <1>1 DEF RecvBytes
  <2>2. engine' \in Engine /\ fed' \in Nat
    BY <1>0, <2>1, ChunkBytes, RecvProgress
  <2> QED
    BY <1>0, <2>1, <2>2 DEF TypeOK
<1>2. CASE SendBytes
  <2>1. PICK n \in Buffer : engine' = Send(engine, n) /\ UNCHANGED <<asked, fed, pulled>>
    BY <1>2 DEF SendBytes
  <2> QED
    BY <1>0, <2>1, SendFields, BufferAssumption DEF TypeOK
<1>3. CASE CloseReadSide
  BY <1>0, <1>3, CloseReadFields DEF CloseReadSide, TypeOK
<1>4. CASE SubmitCommand
  <2>1. PICK w \in Word, t \in Tag, x \in Expect, n \in BodyLen :
          /\ engine' = Submit(engine, w, t, x, IF x = "EagerBinary" THEN n ELSE 0)
          /\ asked' = asked + 1 /\ UNCHANGED <<fed, pulled>>
    BY <1>4 DEF SubmitCommand
  <2>2. (IF x = "EagerBinary" THEN n ELSE 0) \in Nat
    BY BodyLenAssumption
  <2>3. engine' \in Engine
    BY <1>0, <2>1, <2>2, SubmitFields
  <2> QED
    BY <1>0, <2>1, <2>3 DEF TypeOK
<1>5. CASE ArmForResponse
  BY <1>0, <1>5, ExpectResponseFields DEF ArmForResponse, TypeOK
<1>6. CASE TakeInboxBytes
  BY <1>0, <1>6, TakeInboxFields DEF TakeInboxBytes, TypeOK
<1>7. CASE EndStreaming
  <2>1. PICK c \in Chunk \cup {<<>>}, t \in Tag :
          /\ engine' = EndStream(engine, Untagged(c, t))
          /\ fed' = fed + Len(c) /\ UNCHANGED <<asked, pulled>>
    BY <1>7 DEF EndStreaming
  <2>2. engine' \in Engine /\ fed' \in Nat
    BY <1>0, <2>1, ChunkBytes, EndStreamFields
  <2> QED
    BY <1>0, <2>1, <2>2 DEF TypeOK
<1>8. CASE AbortStreaming
  BY <1>0, <1>8, AbortStreamFields DEF AbortStreaming, TypeOK
<1>9. CASE PollEvent
  <2>1. engine' \in Engine
    BY <1>0, <1>9, PollFields DEF PollEvent
  <2>2. HasEvent(engine) => NextEvent(engine).kind \in EventKind
    BY <1>0, PollFields DEF Event
  <2>3. HasEvent(engine) => Append(pulled, NextEvent(engine).kind) \in Seq(EventKind)
    BY <1>0, <2>2, AppendProperties
  <2>4. pulled' \in Seq(EventKind)
    BY <1>0, <1>9, <2>3 DEF PollEvent
  <2> QED
    BY <1>0, <1>9, <2>1, <2>4 DEF PollEvent, TypeOK
<1>10. CASE UNCHANGED vars
  BY <1>0, <1>10 DEF vars, TypeOK
<1> QED
  BY <1>1, <1>2, <1>3, <1>4, <1>5, <1>6, <1>7, <1>8, <1>9, <1>10 DEF Next

\* The variables keep their types: above all, no sequence of calls and no
\* input takes the engine out of its states (State, client/engine.rs).
THEOREM TypeCorrect == Spec => []TypeOK
<1>1. Init => TypeOK
  BY InitTypeOK
<1>2. TypeOK /\ [Next]_vars => TypeOK'
  BY StepTypeOK
<1> QED
  BY <1>1, <1>2, PTL DEF Spec

-----------------------------------------------------------------------------
(* Every step of the engine is a step of the channel it implements. *)

\* The six things a step can do to the mode and the two counters.
Moves ==
  \/ /\ engine'.mode = engine.mode \/ {engine.mode, engine'.mode} \subseteq InFlight
     /\ engine'.answers = engine.answers /\ asked' = asked
  \/ /\ engine.mode = "NeedBanner" /\ engine'.mode = "Idle"
     /\ engine'.answers = engine.answers /\ asked' = asked
  \/ /\ engine.mode = "Idle" /\ engine'.mode = "AwaitingHead"
     /\ engine'.answers = engine.answers /\ asked' = asked + 1
  \/ /\ engine.mode \in InFlight /\ engine'.mode \in {"Idle", "StreamingBody"}
     /\ engine'.answers = engine.answers + 1 /\ asked' = asked
  \/ /\ engine.mode = "StreamingBody" /\ engine'.mode = "Idle"
     /\ engine'.answers = engine.answers /\ asked' = asked
  \/ /\ engine.mode \notin Dead /\ engine'.mode \in Dead
     /\ engine'.answers = engine.answers /\ asked' = asked

LEMMA ProgressMoves ==
  ASSUME engine \in Engine, Progress(engine, engine'), asked' = asked
  PROVE  Moves
BY DEF Progress, Moves, Dead, InFlight

LEMMA StepMoves == TypeOK /\ [Next]_vars => Moves
<1> SUFFICES ASSUME TypeOK, [Next]_vars PROVE Moves
  OBVIOUS
<1>0. engine \in Engine
  BY DEF TypeOK
<1>1. CASE RecvBytes
  <2>1. PICK c \in Chunk, t \in Tag :
          engine' = Recv(engine, Untagged(c, t)) /\ asked' = asked
    BY <1>1 DEF RecvBytes
  <2>2. Progress(engine, engine')
    BY <1>0, <2>1, ChunkBytes, RecvProgress
  <2> QED
    BY <1>0, <2>1, <2>2, ProgressMoves
<1>2. CASE SendBytes
  <2>1. PICK n \in Buffer : engine' = Send(engine, n) /\ asked' = asked
    BY <1>2 DEF SendBytes
  <2> QED
    BY <1>0, <2>1, SendFields, BufferAssumption DEF Moves
<1>3. CASE CloseReadSide
  BY <1>0, <1>3, CloseReadFields DEF CloseReadSide, Moves, IsTerminal, Dead
<1>4. CASE SubmitCommand
  <2>1. PICK w \in Word, t \in Tag, x \in Expect, n \in BodyLen :
          /\ engine' = Submit(engine, w, t, x, IF x = "EagerBinary" THEN n ELSE 0)
          /\ engine.mode = "Idle" /\ asked' = asked + 1
    BY <1>4 DEF SubmitCommand, CanSubmit
  <2>2. (IF x = "EagerBinary" THEN n ELSE 0) \in Nat
    BY BodyLenAssumption
  <2>3. engine'.mode = "AwaitingHead" /\ engine'.answers = engine.answers
    BY <1>0, <2>1, <2>2, SubmitFields
  <2> QED
    BY <2>1, <2>3 DEF Moves
<1>5. CASE ArmForResponse
  BY <1>0, <1>5, ExpectResponseFields DEF ArmForResponse, CanSubmit, Moves
<1>6. CASE TakeInboxBytes
  BY <1>0, <1>6, TakeInboxFields DEF TakeInboxBytes, Alike, Moves
<1>7. CASE EndStreaming
  <2>1. PICK c \in Chunk \cup {<<>>}, t \in Tag :
          engine' = EndStream(engine, Untagged(c, t)) /\ asked' = asked
    BY <1>7 DEF EndStreaming
  <2>2. Untagged(c, t) \in Seq(Byte)
    BY ChunkBytes
  <2> QED
    BY <1>0, <2>1, <2>2, EndStreamFields DEF Moves
<1>8. CASE AbortStreaming
  BY <1>0, <1>8, AbortStreamFields DEF AbortStreaming, Moves, Dead
<1>9. CASE PollEvent
  <2>1. /\ Progress(engine, Polled(engine)) /\ asked' = asked
        /\ engine'.mode = Polled(engine).mode
        /\ engine'.answers = Polled(engine).answers
    BY <1>0, <1>9, PollFields DEF PollEvent
  <2> QED
    BY <1>0, <2>1 DEF Progress, Moves, Dead, InFlight
<1>10. CASE UNCHANGED vars
  BY <1>10 DEF vars, Moves
<1> QED
  BY <1>1, <1>2, <1>3, <1>4, <1>5, <1>6, <1>7, <1>8, <1>9, <1>10 DEF Next

-----------------------------------------------------------------------------
(* One answer to each command. *)

LEMMA StepOneAnswerEach == TypeOK /\ OneAnswerEach /\ [Next]_vars => OneAnswerEach'
<1> SUFFICES ASSUME TypeOK, OneAnswerEach, [Next]_vars PROVE OneAnswerEach'
  OBVIOUS
<1>1. engine.answers \in Nat /\ asked \in Nat /\ Moves
  BY StepMoves DEF TypeOK, Engine
<1> QED
  BY <1>1 DEF OneAnswerEach, Moves, IsTerminal, Dead, InFlight

\* Of the commands a caller got accepted, the engine never answers one twice
\* and never drops one while the session lives (poll and step,
\* client/engine.rs): whatever the peer sends and in whatever pieces.
THEOREM AnswersMatchCommands == Spec => []OneAnswerEach
<1>1. Init => Safe
  BY InitTypeOK DEF Init, NewEngine, Safe, OneAnswerEach, IsTerminal, Dead, InFlight
<1>2. Safe /\ [Next]_vars => Safe'
  BY StepTypeOK, StepOneAnswerEach DEF Safe
<1>3. Safe => OneAnswerEach
  BY DEF Safe
<1> QED
  BY <1>1, <1>2, <1>3, PTL DEF Spec

\* One call never completes two commands: an answer is queued only while one
\* is in flight, and the engine then waits for its caller (step,
\* client/engine.rs:405-524).
THEOREM NeverTwoAnswers == Spec => OneAnswerPerBatch
<1>1. TypeOK /\ [Next]_vars =>
        [engine'.answers # engine.answers =>
           /\ engine'.answers = engine.answers + 1
           /\ engine.mode \in InFlight
           /\ engine'.mode \in {"Idle", "StreamingBody"}]_vars
  BY StepMoves DEF Moves
<1> QED
  BY <1>1, TypeCorrect, PTL DEF Spec, OneAnswerPerBatch

-----------------------------------------------------------------------------
(* Events. *)

Kinds(events) == [i \in 1 .. Len(events) |-> events[i].kind]

LEMMA KindsAreSeq ==
  ASSUME NEW s \in Seq(Event)
  PROVE  Kinds(s) \in Seq(EventKind) /\ Len(Kinds(s)) = Len(s)
<1>1. Len(s) \in Nat /\ \A i \in 1 .. Len(s) : s[i].kind \in EventKind
  <2>1. Len(s) \in Nat /\ \A i \in 1 .. Len(s) : s[i] \in Event
    BY ElementOfSeq
  <2>2. \A ev \in Event : ev.kind \in EventKind
    BY DEF Event
  <2> QED
    BY <2>1, <2>2
<1>2. Kinds(s) \in [1 .. Len(s) -> EventKind]
  BY <1>1 DEF Kinds
<1> QED
  BY <1>1, <1>2, SeqDef

LEMMA KindsOfAppend ==
  ASSUME NEW s \in Seq(Event), NEW ev \in Event
  PROVE  Kinds(Append(s, ev)) = Append(Kinds(s), ev.kind)
<1> DEFINE x == Kinds(Append(s, ev))
           y == Append(Kinds(s), ev.kind)
<1>1. ev.kind \in EventKind
  BY DEF Event
<1>2. /\ Append(s, ev) \in Seq(Event) /\ Len(Append(s, ev)) = Len(s) + 1
      /\ \A i \in 1 .. Len(s) : Append(s, ev)[i] = s[i]
      /\ Append(s, ev)[Len(s) + 1] = ev
  BY AppendProperties
<1>3. Kinds(s) \in Seq(EventKind) /\ Len(Kinds(s)) = Len(s) /\ Len(s) \in Nat
  BY KindsAreSeq
<1>4. x \in Seq(EventKind) /\ Len(x) = Len(s) + 1
  BY <1>2, KindsAreSeq
<1>5. /\ y \in Seq(EventKind) /\ Len(y) = Len(s) + 1
      /\ \A i \in 1 .. Len(s) : y[i] = Kinds(s)[i]
      /\ y[Len(s) + 1] = ev.kind
  BY <1>1, <1>3, AppendProperties
<1>6. ASSUME NEW i \in 1 .. Len(s) + 1 PROVE x[i] = y[i]
  <2>1. x[i] = Append(s, ev)[i].kind
    BY <1>2 DEF Kinds
  <2>2. CASE i = Len(s) + 1
    BY <1>2, <1>5, <2>1, <2>2
  <2>3. CASE i # Len(s) + 1
    <3>1. i \in 1 .. Len(s)
      BY <1>3, <2>3
    <3>2. y[i] = s[i].kind
      BY <1>5, <3>1 DEF Kinds
    <3> QED
      BY <1>2, <2>1, <3>1, <3>2
  <2> QED
    BY <2>2, <2>3
<1> HIDE DEF x, y
<1>7. x = y
  BY <1>4, <1>5, <1>6, SeqEqual
<1> QED
  BY <1>7 DEF x, y

\* An event that moves from the queue to the caller keeps its place.
LEMMA PullKeepsProduced ==
  ASSUME NEW p \in Seq(EventKind), NEW s \in Seq(Event), s # <<>>
  PROVE  Append(p, Head(s).kind) \o Kinds(Tail(s)) = p \o Kinds(s)
<1> DEFINE k == Head(s).kind
           x == Append(p, k) \o Kinds(Tail(s))
           y == p \o Kinds(s)
<1>1. Head(s) \in Event /\ Head(s) = s[1] /\ Len(s) \in Nat \ {0}
  BY HeadTailProperties, EmptySeq
<1>2. k \in EventKind
  BY <1>1 DEF Event
<1>3. /\ Tail(s) \in Seq(Event) /\ Len(Tail(s)) = Len(s) - 1
      /\ \A i \in 1 .. Len(Tail(s)) : Tail(s)[i] = s[i+1]
  BY HeadTailProperties
<1>4. /\ Kinds(s) \in Seq(EventKind) /\ Len(Kinds(s)) = Len(s)
      /\ Kinds(Tail(s)) \in Seq(EventKind) /\ Len(Kinds(Tail(s))) = Len(s) - 1
  BY <1>3, KindsAreSeq
<1>5. /\ Append(p, k) \in Seq(EventKind) /\ Len(Append(p, k)) = Len(p) + 1
      /\ \A i \in 1 .. Len(p) : Append(p, k)[i] = p[i]
      /\ Append(p, k)[Len(p) + 1] = k
      /\ Len(p) \in Nat
  BY <1>2, AppendProperties
<1>6. /\ x \in Seq(EventKind) /\ Len(x) = Len(p) + Len(s)
      /\ \A i \in 1 .. Len(p) + Len(s) :
           x[i] = IF i <= Len(p) + 1 THEN Append(p, k)[i] ELSE Kinds(Tail(s))[i - (Len(p) + 1)]
  <2> DEFINE a == Append(p, k)
             b == Kinds(Tail(s))
  <2>1. /\ a \in Seq(EventKind) /\ b \in Seq(EventKind)
        /\ Len(a) = Len(p) + 1 /\ Len(b) = Len(s) - 1
    BY <1>4, <1>5
  <2> HIDE DEF a, b
  <2>2. /\ a \o b \in Seq(EventKind) /\ Len(a \o b) = Len(a) + Len(b)
        /\ \A i \in 1 .. Len(a) + Len(b) :
             (a \o b)[i] = IF i <= Len(a) THEN a[i] ELSE b[i - Len(a)]
    BY <2>1, ConcatProperties
  <2>3. Len(a) + Len(b) = Len(p) + Len(s)
    BY <1>1, <1>5, <2>1
  <2> QED
    BY <2>1, <2>2, <2>3 DEF a, b
<1>7. /\ y \in Seq(EventKind) /\ Len(y) = Len(p) + Len(s)
      /\ \A i \in 1 .. Len(p) + Len(s) :
           y[i] = IF i <= Len(p) THEN p[i] ELSE Kinds(s)[i - Len(p)]
  <2> DEFINE b == Kinds(s)
  <2>1. b \in Seq(EventKind) /\ Len(b) = Len(s)
    BY <1>4
  <2> HIDE DEF b
  <2>2. /\ p \o b \in Seq(EventKind) /\ Len(p \o b) = Len(p) + Len(b)
        /\ \A i \in 1 .. Len(p) + Len(b) :
             (p \o b)[i] = IF i <= Len(p) THEN p[i] ELSE b[i - Len(p)]
    BY <2>1, ConcatProperties
  <2> QED
    BY <2>1, <2>2 DEF b
<1>8. /\ \A i \in 1 .. Len(s) : Kinds(s)[i] = s[i].kind
      /\ \A i \in 1 .. Len(Tail(s)) : Kinds(Tail(s))[i] = Tail(s)[i].kind
  BY DEF Kinds
<1> HIDE DEF x, y
<1>9. ASSUME NEW i \in 1 .. Len(p) + Len(s) PROVE x[i] = y[i]
  <2>1. CASE i <= Len(p)
    BY <1>1, <1>5, <1>6, <1>7, <2>1
  <2>2. CASE i = Len(p) + 1
    <3>1. x[i] = k
      BY <1>5, <1>6, <2>2
    <3>2. y[i] = Kinds(s)[1]
      BY <1>1, <1>5, <1>7, <2>2
    <3> QED
      BY <1>1, <1>8, <3>1, <3>2
  <2>3. CASE i > Len(p) + 1
    <3> DEFINE j == i - (Len(p) + 1)
    <3>1. j \in 1 .. Len(Tail(s)) /\ j + 1 \in 1 .. Len(s) /\ j + 1 = i - Len(p)
      BY <1>1, <1>3, <1>5, <2>3
    <3>2. x[i] = Kinds(Tail(s))[j] /\ y[i] = Kinds(s)[j + 1]
      BY <1>5, <1>6, <1>7, <2>3, <3>1
    <3> HIDE DEF j
    <3> QED
      BY <1>3, <1>8, <3>1, <3>2
  <2> QED
    BY <1>5, <2>1, <2>2, <2>3
<1>10. x = y
  BY <1>6, <1>7, <1>9, SeqEqual
<1> QED
  BY <1>10 DEF x, y

LEMMA ProducedIsSeq ==
  ASSUME TypeOK
  PROVE  /\ Produced = pulled \o Kinds(engine.events)
         /\ Produced \in Seq(EventKind)
         /\ pulled \in Seq(EventKind) /\ engine.events \in Seq(Event)
         /\ Kinds(engine.events) \in Seq(EventKind)
<1>1. pulled \in Seq(EventKind) /\ engine.events \in Seq(Event)
  BY DEF TypeOK, Engine
<1>2. Kinds(engine.events) \in Seq(EventKind)
  BY <1>1, KindsAreSeq
<1>3. Produced = pulled \o Kinds(engine.events)
  BY DEF Produced, Kinds
<1> QED
  BY <1>1, <1>2, <1>3, ConcatProperties

\* Queueing an event appends its kind to what has been produced.
LEMMA QueuedIsProduced ==
  ASSUME NEW p \in Seq(EventKind), NEW s \in Seq(Event), NEW ev \in Event
  PROVE  p \o Kinds(Append(s, ev)) = Append(p \o Kinds(s), ev.kind)
<1>1. ev.kind \in EventKind /\ Kinds(s) \in Seq(EventKind)
  BY KindsAreSeq DEF Event
<1>2. <<ev.kind>> \in Seq(EventKind)
  BY <1>1
<1>3. Kinds(Append(s, ev)) = Kinds(s) \o <<ev.kind>>
  BY <1>1, KindsOfAppend, AppendIsConcat
<1>4. p \o (Kinds(s) \o <<ev.kind>>) = (p \o Kinds(s)) \o <<ev.kind>>
  BY <1>1, <1>2, ConcatAssociative
<1>5. p \o Kinds(s) \in Seq(EventKind)
  BY <1>1, ConcatProperties
<1>6. Append(p \o Kinds(s), ev.kind) = (p \o Kinds(s)) \o <<ev.kind>>
  BY <1>1, <1>5, AppendIsConcat
<1> QED
  BY <1>3, <1>4, <1>6

Live == Mode \ (Dead \cup {"NeedBanner"})

\* What a step adds to the events produced: nothing; or one event, of the
\* kind that the change of mode calls for.
Emits ==
  \/ /\ Produced' = Produced
     /\ engine'.mode = engine.mode \/ {engine.mode, engine'.mode} \subseteq Live
  \/ \E k \in EventKind :
       /\ Produced' = Append(Produced, k)
       /\ \/ k = "Connected" /\ engine.mode = "NeedBanner" /\ engine'.mode = "Idle"
          \/ k \in AnswerKind /\ {engine.mode, engine'.mode} \subseteq Live
          \/ k \in Dead /\ engine.mode \notin Dead /\ engine'.mode = k

\* An engine that went through Advance, if only that.
LEMMA ProgressEmits ==
  ASSUME NEW e \in Engine, NEW x \in Engine, Progress(e, x), NEW p \in Seq(EventKind)
  PROVE  \/ /\ p \o Kinds(x.events) = p \o Kinds(e.events)
            /\ x.mode = e.mode \/ {e.mode, x.mode} \subseteq Live
         \/ \E k \in EventKind :
              /\ p \o Kinds(x.events) = Append(p \o Kinds(e.events), k)
              /\ \/ k = "Connected" /\ e.mode = "NeedBanner" /\ x.mode = "Idle"
                 \/ k \in AnswerKind /\ {e.mode, x.mode} \subseteq Live
                 \/ k \in Dead /\ e.mode \notin Dead /\ x.mode = k
<1>1. e.events \in Seq(Event)
  BY DEF Engine
<1>2. \A ev \in Event : x.events = Append(e.events, ev) =>
        p \o Kinds(x.events) = Append(p \o Kinds(e.events), ev.kind)
  BY <1>1, QueuedIsProduced
<1>3. \A ev \in Event : ev.kind \in EventKind
  BY DEF Event
<1>4. InFlight \subseteq Live /\ {"Idle", "StreamingBody"} \subseteq Live /\ Dead = {"Closed", "Failed"}
  BY DEF InFlight, Live, Mode, Dead
<1>5. CASE x.events = e.events /\ (x.mode = e.mode \/ {x.mode, e.mode} \subseteq InFlight)
  BY <1>4, <1>5
<1>6. CASE /\ e.mode = "NeedBanner" /\ x.mode = "Idle"
           /\ \E ev \in Event : ev.kind = "Connected" /\ x.events = Append(e.events, ev)
  BY <1>2, <1>3, <1>6
<1>7. CASE /\ e.mode \in InFlight /\ x.mode \in {"Idle", "StreamingBody"}
           /\ \E ev \in Event : ev.kind \in AnswerKind /\ x.events = Append(e.events, ev)
  BY <1>2, <1>3, <1>4, <1>7
<1>8. CASE /\ e.mode \in {"NeedBanner"} \cup InFlight /\ x.mode = "Failed"
           /\ \E ev \in Event : ev.kind = "Failed" /\ x.events = Append(e.events, ev)
  <2>1. e.mode \notin Dead
    BY <1>8 DEF InFlight, Dead
  <2> QED
    BY <1>2, <1>3, <1>4, <1>8, <2>1
<1> QED
  BY <1>5, <1>6, <1>7, <1>8 DEF Progress

\* The events and the mode are all that Emits looks at when nothing is pulled.
LEMMA QuietEmits ==
  ASSUME TypeOK, pulled' = pulled, engine'.events = engine.events,
         engine'.mode = engine.mode \/ {engine.mode, engine'.mode} \subseteq Live
  PROVE  Emits
BY DEF Emits, Produced

LEMMA DyingEmits ==
  ASSUME TypeOK, pulled' = pulled, engine.mode \notin Dead,
         NEW k \in Dead, engine'.mode = k,
         engine'.events = Append(engine.events, [kind |-> k, data |-> <<>>])
  PROVE  Emits
<1> DEFINE ev == [kind |-> k, data |-> <<>>]
<1>1. ev \in Event /\ ev.kind = k /\ k \in EventKind
  BY DEF Event, EventKind, Dead
<1> HIDE DEF ev
<1>2. Produced' = pulled \o Kinds(engine'.events)
  BY DEF Produced, Kinds
<1>3. Produced' = Append(Produced, k)
  BY <1>1, <1>2, ProducedIsSeq, QueuedIsProduced DEF ev
<1> QED
  BY <1>1, <1>3 DEF Emits

LEMMA StepEmits == TypeOK /\ [Next]_vars => Emits
<1> SUFFICES ASSUME TypeOK, [Next]_vars PROVE Emits
  OBVIOUS
<1>0. engine \in Engine
  BY DEF TypeOK
<1>1. CASE RecvBytes
  <2>1. PICK c \in Chunk, t \in Tag :
          engine' = Recv(engine, Untagged(c, t)) /\ pulled' = pulled
    BY <1>1 DEF RecvBytes
  <2>2. engine' \in Engine /\ Progress(engine, engine')
    BY <1>0, <2>1, ChunkBytes, RecvProgress
  <2>3. Produced' = pulled \o Kinds(engine'.events)
    BY <2>1 DEF Produced, Kinds
  <2> QED
    BY <1>0, <2>2, <2>3, ProducedIsSeq, ProgressEmits DEF Emits
<1>2. CASE SendBytes
  <2>1. PICK n \in Buffer : engine' = Send(engine, n) /\ pulled' = pulled
    BY <1>2 DEF SendBytes
  <2> QED
    BY <1>0, <2>1, SendFields, BufferAssumption, QuietEmits
<1>3. CASE CloseReadSide
  <2>1. "Closed" \in Dead
    BY DEF Dead
  <2>2. CASE IsTerminal(engine)
    BY <1>0, <1>3, <2>2, CloseReadFields, QuietEmits DEF CloseReadSide
  <2>3. CASE ~ IsTerminal(engine)
    BY <1>0, <1>3, <2>1, <2>3, CloseReadFields, DyingEmits DEF CloseReadSide, IsTerminal
  <2> QED
    BY <2>2, <2>3
<1>4. CASE SubmitCommand
  <2>1. PICK w \in Word, t \in Tag, x \in Expect, n \in BodyLen :
          /\ engine' = Submit(engine, w, t, x, IF x = "EagerBinary" THEN n ELSE 0)
          /\ engine.mode = "Idle" /\ pulled' = pulled
    BY <1>4 DEF SubmitCommand, CanSubmit
  <2>2. (IF x = "EagerBinary" THEN n ELSE 0) \in Nat
    BY BodyLenAssumption
  <2>3. engine'.mode = "AwaitingHead" /\ engine'.events = engine.events
    BY <1>0, <2>1, <2>2, SubmitFields
  <2>4. {engine.mode, engine'.mode} \subseteq Live
    BY <2>1, <2>3 DEF Live, Mode, Dead
  <2> QED
    BY <2>1, <2>3, <2>4, QuietEmits
<1>5. CASE ArmForResponse
  <2>1. /\ engine'.mode = "AwaitingHead" /\ engine'.events = engine.events
        /\ engine.mode = "Idle" /\ pulled' = pulled
    BY <1>0, <1>5, ExpectResponseFields DEF ArmForResponse, CanSubmit
  <2>2. {engine.mode, engine'.mode} \subseteq Live
    BY <2>1 DEF Live, Mode, Dead
  <2> QED
    BY <2>1, <2>2, QuietEmits
<1>6. CASE TakeInboxBytes
  BY <1>0, <1>6, TakeInboxFields, QuietEmits DEF TakeInboxBytes, Alike
<1>7. CASE EndStreaming
  <2>1. PICK c \in Chunk \cup {<<>>}, t \in Tag :
          engine' = EndStream(engine, Untagged(c, t)) /\ pulled' = pulled
    BY <1>7 DEF EndStreaming
  <2>2. /\ engine'.events = engine.events
        /\ \/ engine'.mode = engine.mode
           \/ engine.mode = "StreamingBody" /\ engine'.mode = "Idle"
    <3>1. Untagged(c, t) \in Seq(Byte)
      BY ChunkBytes
    <3> QED
      BY <1>0, <2>1, <3>1, EndStreamFields
  <2>3. {"StreamingBody", "Idle"} \subseteq Live
    BY DEF Live, Mode, Dead
  <2> QED
    BY <2>1, <2>2, <2>3, QuietEmits
<1>8. CASE AbortStreaming
  <2>1. CASE engine.mode = "StreamingBody"
    <3>1. "Failed" \in Dead /\ engine.mode \notin Dead
      BY <2>1 DEF Dead
    <3> QED
      BY <1>0, <1>8, <2>1, <3>1, AbortStreamFields, DyingEmits DEF AbortStreaming
  <2>2. CASE engine.mode # "StreamingBody"
    BY <1>0, <1>8, <2>2, AbortStreamFields, QuietEmits DEF AbortStreaming
  <2> QED
    BY <2>1, <2>2
<1>9. CASE PollEvent
  <2> DEFINE x == Polled(engine)
  <2>1. /\ x \in Engine /\ Progress(engine, x) /\ engine'.mode = x.mode
        /\ engine'.events = IF HasEvent(engine) THEN Tail(x.events) ELSE <<>>
    BY <1>0, <1>9, PollFields DEF PollEvent
  <2>2. /\ HasEvent(engine) <=> x.events # <<>>
        /\ pulled' = IF HasEvent(engine) THEN Append(pulled, Head(x.events).kind) ELSE pulled
    BY <1>9 DEF PollEvent, HasEvent, NextEvent
  <2> HIDE DEF x
  <2>3. Produced' = pulled' \o Kinds(engine'.events)
    BY DEF Produced, Kinds
  <2>4. x.events \in Seq(Event)
    BY <2>1 DEF Engine
  <2>5. Produced' = pulled \o Kinds(x.events)
    BY <2>1, <2>2, <2>3, <2>4, ProducedIsSeq, PullKeepsProduced
  <2>6. Produced = pulled \o Kinds(engine.events) /\ pulled \in Seq(EventKind)
    BY ProducedIsSeq
  <2>7. \/ /\ pulled \o Kinds(x.events) = pulled \o Kinds(engine.events)
           /\ x.mode = engine.mode \/ {engine.mode, x.mode} \subseteq Live
        \/ \E k \in EventKind :
             /\ pulled \o Kinds(x.events) = Append(pulled \o Kinds(engine.events), k)
             /\ \/ k = "Connected" /\ engine.mode = "NeedBanner" /\ x.mode = "Idle"
                \/ k \in AnswerKind /\ {engine.mode, x.mode} \subseteq Live
                \/ k \in Dead /\ engine.mode \notin Dead /\ x.mode = k
    BY <1>0, <2>1, <2>6, ProgressEmits
  <2> QED
    BY <2>1, <2>5, <2>6, <2>7 DEF Emits
<1>10. CASE UNCHANGED vars
  BY <1>10, QuietEmits DEF vars
<1> QED
  BY <1>1, <1>2, <1>3, <1>4, <1>5, <1>6, <1>7, <1>8, <1>9, <1>10 DEF Next

\* Beside EventOrder: nothing has been produced before the banner, a live
\* engine has produced Connected, and a dead one its end.
EventsTell ==
  /\ engine.mode = "NeedBanner" => Produced = <<>>
  /\ engine.mode \in Live => Len(Produced) > 0 /\ Produced[1] = "Connected"
  /\ engine.mode \in Dead => Len(Produced) > 0 /\ Produced[Len(Produced)] = engine.mode

LEMMA StepEventOrder ==
  TypeOK /\ EventOrder /\ EventsTell /\ [Next]_vars => (EventOrder /\ EventsTell)'
<1> SUFFICES ASSUME TypeOK, EventOrder, EventsTell, [Next]_vars
             PROVE  EventOrder' /\ EventsTell'
  OBVIOUS
<1> DEFINE old == Produced
           new == Produced'
<1>1. Emits
  BY StepEmits
<1>2. engine.mode \in Mode /\ old \in Seq(EventKind) /\ Len(old) \in Nat
  BY ProducedIsSeq DEF TypeOK, Engine
<1>3. /\ \A i \in 1 .. Len(old) :
           /\ old[i] = "Connected" => i = 1
           /\ old[i] \in AnswerKind => old[1] = "Connected"
           /\ old[i] \in Dead => i = Len(old) /\ engine.mode = old[i]
      /\ engine.mode = "NeedBanner" => old = <<>>
      /\ engine.mode \in Live => Len(old) > 0 /\ old[1] = "Connected"
      /\ engine.mode \in Dead => Len(old) > 0 /\ old[Len(old)] = engine.mode
  BY DEF EventOrder, EventsTell
<1>4. SUFFICES
        /\ \A i \in 1 .. Len(new) :
             /\ new[i] = "Connected" => i = 1
             /\ new[i] \in AnswerKind => new[1] = "Connected"
             /\ new[i] \in Dead => i = Len(new) /\ engine'.mode = new[i]
        /\ engine'.mode = "NeedBanner" => new = <<>>
        /\ engine'.mode \in Live => Len(new) > 0 /\ new[1] = "Connected"
        /\ engine'.mode \in Dead => Len(new) > 0 /\ new[Len(new)] = engine'.mode
  BY DEF EventOrder, EventsTell
<1>5. /\ \A m \in Live : m \notin Dead /\ m # "NeedBanner"
      /\ Dead = {"Closed", "Failed"} /\ "Idle" \in Live
      /\ "Connected" \notin AnswerKind \cup Dead /\ AnswerKind \cap Dead = {}
  BY DEF Live, Dead, Mode, AnswerKind
<1>6. /\ new = old /\ (engine'.mode = engine.mode \/ {engine.mode, engine'.mode} \subseteq Live)
      \/ \E k \in EventKind :
           /\ new = Append(old, k)
           /\ \/ k = "Connected" /\ engine.mode = "NeedBanner" /\ engine'.mode = "Idle"
              \/ k \in AnswerKind /\ {engine.mode, engine'.mode} \subseteq Live
              \/ k \in Dead /\ engine.mode \notin Dead /\ engine'.mode = k
  BY <1>1 DEF Emits
<1> HIDE DEF old, new
<1>7. CASE new = old /\ (engine'.mode = engine.mode \/ {engine.mode, engine'.mode} \subseteq Live)
  BY <1>3, <1>5, <1>7
<1>8. ASSUME NEW k \in EventKind, new = Append(old, k),
             \/ k = "Connected" /\ engine.mode = "NeedBanner" /\ engine'.mode = "Idle"
             \/ k \in AnswerKind /\ {engine.mode, engine'.mode} \subseteq Live
             \/ k \in Dead /\ engine.mode \notin Dead /\ engine'.mode = k
      PROVE  /\ \A i \in 1 .. Len(new) :
                  /\ new[i] = "Connected" => i = 1
                  /\ new[i] \in AnswerKind => new[1] = "Connected"
                  /\ new[i] \in Dead => i = Len(new) /\ engine'.mode = new[i]
             /\ engine'.mode = "NeedBanner" => new = <<>>
             /\ engine'.mode \in Live => Len(new) > 0 /\ new[1] = "Connected"
             /\ engine'.mode \in Dead => Len(new) > 0 /\ new[Len(new)] = engine'.mode
  <2>1. /\ Len(new) = Len(old) + 1 /\ new[Len(old) + 1] = k
        /\ \A i \in 1 .. Len(old) : new[i] = old[i]
    BY <1>2, <1>8, AppendProperties
  <2>2. engine.mode \notin Dead /\ \A i \in 1 .. Len(old) : old[i] \notin Dead
    BY <1>3, <1>5, <1>8
  <2>3. CASE k = "Connected" /\ engine.mode = "NeedBanner" /\ engine'.mode = "Idle"
    <3>1. Len(old) = 0
      BY <1>3, <2>3
    <3> QED
      BY <1>5, <2>1, <2>3, <3>1
  <2>4. CASE k \in AnswerKind /\ {engine.mode, engine'.mode} \subseteq Live
    <3>1. Len(old) > 0 /\ new[1] = "Connected"
      BY <1>2, <1>3, <2>1, <2>4
    <3>2. ASSUME NEW i \in 1 .. Len(new)
          PROVE  /\ new[i] = "Connected" => i = 1
                 /\ new[i] \notin Dead
      <4>1. i \in 1 .. Len(old) \/ i = Len(old) + 1
        BY <1>2, <2>1
      <4> QED
        BY <1>3, <1>5, <2>1, <2>2, <2>4, <4>1
    <3> QED
      BY <1>2, <1>5, <2>1, <2>4, <3>1, <3>2
  <2>5. CASE k \in Dead /\ engine.mode \notin Dead /\ engine'.mode = k
    <3>1. ASSUME NEW i \in 1 .. Len(new)
          PROVE  /\ new[i] = "Connected" => i = 1
                 /\ new[i] \in AnswerKind => new[1] = "Connected"
                 /\ new[i] \in Dead => i = Len(new) /\ engine'.mode = new[i]
      <4>1. CASE i \in 1 .. Len(old)
        <5>1. 1 \in 1 .. Len(old)
          BY <1>2, <4>1
        <5> QED
          BY <1>3, <2>1, <2>2, <4>1, <5>1
      <4>2. CASE i = Len(old) + 1
        BY <1>5, <2>1, <2>5, <4>2
      <4> QED
        BY <1>2, <2>1, <4>1, <4>2
    <3>2. k # "NeedBanner" /\ k \notin Live
      BY <1>5, <2>5
    <3> QED
      BY <1>2, <2>1, <2>5, <3>1, <3>2
  <2> QED
    BY <1>8, <2>3, <2>4, <2>5
<1> QED
  BY <1>6, <1>7, <1>8

\* Whatever the calls and the input, the events an engine hands out are the
\* banner, then answers, then its end, each of the outer two once (step,
\* close_read, fail and poll, client/engine.rs).
THEOREM EventsInOrder == Spec => []EventOrder
<1>1. Init => EventOrder /\ EventsTell
  <2> SUFFICES ASSUME Init PROVE EventOrder /\ EventsTell
    OBVIOUS
  <2>1. engine.events = <<>> /\ engine.mode = "NeedBanner" /\ pulled = <<>>
    BY DEF Init, NewEngine
  <2>2. Produced = <<>>
    BY <2>1 DEF Produced
  <2>3. Len(Produced) = 0 /\ "NeedBanner" \notin Dead \cup Live
    BY <2>2 DEF Dead, Live
  <2> QED
    BY <2>1, <2>2, <2>3 DEF EventOrder, EventsTell
<1>2. TypeOK /\ EventOrder /\ EventsTell /\ [Next]_vars => (EventOrder /\ EventsTell)'
  BY StepEventOrder
<1> QED
  BY <1>1, <1>2, TypeCorrect, PTL DEF Spec

\* Only submit queues bytes for the peer, and only on an idle engine.
LEMMA StepOutbox ==
  TypeOK /\ [Next]_vars => engine.mode = "Idle" \/ Len(engine'.outbox) <= Len(engine.outbox)
<1> SUFFICES ASSUME TypeOK, [Next]_vars, engine.mode # "Idle"
             PROVE  Len(engine'.outbox) <= Len(engine.outbox)
  OBVIOUS
<1>0. engine \in Engine /\ Len(engine.outbox) \in Nat
  BY DEF TypeOK, Engine
<1> SUFFICES engine'.outbox = engine.outbox \/ Len(engine'.outbox) <= Len(engine.outbox)
  BY <1>0
<1>1. CASE RecvBytes
  BY <1>0, <1>1, ChunkBytes, RecvProgress DEF RecvBytes, Progress
<1>2. CASE SendBytes
  BY <1>0, <1>2, SendFields, BufferAssumption DEF SendBytes
<1>3. CASE CloseReadSide
  BY <1>0, <1>3, CloseReadFields DEF CloseReadSide
<1>4. CASE SubmitCommand \/ ArmForResponse
  BY <1>4 DEF SubmitCommand, ArmForResponse, CanSubmit
<1>5. CASE TakeInboxBytes
  BY <1>0, <1>5, TakeInboxFields DEF TakeInboxBytes, Alike
<1>6. CASE EndStreaming
  <2>1. PICK c \in Chunk \cup {<<>>}, t \in Tag : engine' = EndStream(engine, Untagged(c, t))
    BY <1>6 DEF EndStreaming
  <2>2. Untagged(c, t) \in Seq(Byte)
    BY ChunkBytes
  <2> QED
    BY <1>0, <2>1, <2>2, EndStreamFields
<1>7. CASE AbortStreaming
  BY <1>0, <1>7, AbortStreamFields DEF AbortStreaming
<1>8. CASE PollEvent
  BY <1>0, <1>8, PollFields DEF PollEvent, Progress
<1>9. CASE UNCHANGED vars
  BY <1>9 DEF vars
<1> QED
  BY <1>1, <1>2, <1>3, <1>4, <1>5, <1>6, <1>7, <1>8, <1>9 DEF Next

\* Closed and Failed are final (is_terminal, client/engine.rs): a dead engine
\* hands out what it had queued, and adds nothing.
THEOREM DeadForGood == Spec => DeadStaysDead
<1>1. TypeOK /\ [Next]_vars =>
        [IsTerminal(engine) =>
           /\ engine'.mode = engine.mode
           /\ Produced' = Produced
           /\ Len(engine'.outbox) <= Len(engine.outbox)]_vars
  <2> SUFFICES ASSUME TypeOK, [Next]_vars, engine.mode \in Dead
               PROVE  /\ engine'.mode = engine.mode /\ Produced' = Produced
                      /\ Len(engine'.outbox) <= Len(engine.outbox)
    BY DEF IsTerminal
  <2>1. engine.mode \notin Live /\ engine.mode # "NeedBanner" /\ engine.mode # "Idle"
    BY DEF Dead, Live
  <2>2. Emits
    BY StepEmits
  <2> QED
    BY <2>1, <2>2, StepOutbox DEF Emits
<1> QED
  BY <1>1, TypeCorrect, PTL DEF Spec, DeadStaysDead

-----------------------------------------------------------------------------
(* Refinement. *)

LEMMA PhaseValues ==
  /\ PhaseOf("NeedBanner") = "opening" /\ PhaseOf("Idle") = "ready"
  /\ PhaseOf("StreamingBody") = "lent"
  /\ \A m \in InFlight : PhaseOf(m) = "busy"
  /\ \A m \in Dead : PhaseOf(m) = "dead"
<1>1. PhaseOf("NeedBanner") = "opening"
  BY DEF PhaseOf, InFlight, Dead
<1>2. PhaseOf("Idle") = "ready"
  BY DEF PhaseOf, InFlight, Dead
<1>3. PhaseOf("StreamingBody") = "lent"
  BY DEF PhaseOf, InFlight, Dead
<1>4. ASSUME NEW m \in InFlight PROVE PhaseOf(m) = "busy"
  BY DEF PhaseOf, InFlight, Dead
<1>5. ASSUME NEW m \in Dead PROVE PhaseOf(m) = "dead"
  BY DEF PhaseOf, InFlight, Dead
<1> QED
  BY <1>1, <1>2, <1>3, <1>4, <1>5

\* Whoever drives it, a ClientEngine is a CommandChannel: it opens once,
\* carries one command at a time and stays dead once it died.
THEOREM EngineImplementsChannel == Spec => ImplementsChannel
<1>1. Init => Channel!Init
  BY PhaseValues DEF Init, NewEngine, Channel!Init
<1>2. TypeOK /\ [Next]_vars => [Channel!Next]_(Channel!channelVars)
  <2> SUFFICES ASSUME TypeOK, [Next]_vars PROVE [Channel!Next]_(Channel!channelVars)
    OBVIOUS
  <2>1. Moves /\ engine.mode \in Mode
    BY StepMoves DEF TypeOK, Engine
  <2>2. TypeOK'
    BY StepTypeOK
  <2>3. engine'.mode \in Mode
    BY <2>2 DEF TypeOK, Engine
  <2> DEFINE old == PhaseOf(engine.mode)
             new == PhaseOf(engine'.mode)
  <2>4. /\ engine.mode = "NeedBanner" => old = "opening"
        /\ engine.mode = "Idle" => old = "ready"
        /\ engine.mode = "StreamingBody" => old = "lent"
        /\ engine.mode \in InFlight => old = "busy"
        /\ engine.mode \notin Dead => old # "dead"
    BY <2>1, PhaseValues DEF Mode, InFlight, Dead
  <2>5. /\ engine'.mode = "Idle" => new = "ready"
        /\ engine'.mode = "StreamingBody" => new = "lent"
        /\ engine'.mode \in InFlight => new = "busy"
        /\ engine'.mode \in Dead => new = "dead"
        /\ engine'.mode = engine.mode => new = old
    BY PhaseValues
  <2> HIDE DEF old, new
  <2>6. \/ new = old /\ engine'.answers = engine.answers /\ asked' = asked
        \/ old = "opening" /\ new = "ready" /\ engine'.answers = engine.answers /\ asked' = asked
        \/ old = "ready" /\ new = "busy" /\ engine'.answers = engine.answers /\ asked' = asked + 1
        \/ old = "busy" /\ new \in {"ready", "lent"} /\ engine'.answers = engine.answers + 1
           /\ asked' = asked
        \/ old = "lent" /\ new = "ready" /\ engine'.answers = engine.answers /\ asked' = asked
        \/ old # "dead" /\ new = "dead" /\ engine'.answers = engine.answers /\ asked' = asked
    BY <2>1, <2>4, <2>5 DEF Moves, InFlight
  <2> QED
    BY <2>6 DEF old, new, Channel!Next, Channel!Open, Channel!Ask, Channel!Answer,
       Channel!Return, Channel!Die, Channel!channelVars
<1> QED
  BY <1>1, <1>2, TypeCorrect, PTL DEF Spec, ImplementsChannel, Channel!Spec

-----------------------------------------------------------------------------
(* Bytes in the inbox that nothing reads yet. *)

\* An engine with other bytes in its inbox.
Holding(e, s) == [e EXCEPT !.inbox = s]

LEMMA HoldingFields ==
  ASSUME NEW e \in Engine, NEW s \in Seq(Byte)
  PROVE  /\ Holding(e, s) \in Engine /\ Holding(e, s).inbox = s
         /\ Holding(e, s).mode = e.mode
         /\ \A t : Holding(Holding(e, s), t) = Holding(e, t)
         /\ Holding(e, e.inbox) = e
BY DEF Holding, Engine

\* No method but the line scanner looks at the inbox.
LEMMA HoldingCommutes ==
  ASSUME NEW e \in Engine, NEW s \in Seq(Byte)
  PROVE  /\ Fail(Holding(e, s)) = Holding(Fail(e), s)
         /\ \A kind, data, mode :
              Answer(Holding(e, s), kind, data, mode) = Holding(Answer(e, kind, data, mode), s)
         /\ \A mode, data : [Holding(e, s) EXCEPT !.mode = mode, !.data = data]
                              = Holding([e EXCEPT !.mode = mode, !.data = data], s)
         /\ \A data : [Holding(e, s) EXCEPT !.data = data] = Holding([e EXCEPT !.data = data], s)
         /\ \A kind, data, mode : Enter(Push(Holding(e, s), kind, data), mode)
                                    = Holding(Enter(Push(e, kind, data), mode), s)
<1>1. Fail(Holding(e, s)) = Holding(Fail(e), s)
  BY DEF Fail, Enter, Push, Holding, Engine
<1>2. ASSUME NEW kind, NEW data, NEW mode
      PROVE Answer(Holding(e, s), kind, data, mode) = Holding(Answer(e, kind, data, mode), s)
  BY DEF Answer, Enter, Push, Holding, Engine
<1>3. ASSUME NEW mode, NEW data
      PROVE [Holding(e, s) EXCEPT !.mode = mode, !.data = data]
              = Holding([e EXCEPT !.mode = mode, !.data = data], s)
  BY DEF Holding, Engine
<1>4. ASSUME NEW data
      PROVE [Holding(e, s) EXCEPT !.data = data] = Holding([e EXCEPT !.data = data], s)
  BY DEF Holding, Engine
<1>5. ASSUME NEW kind, NEW data, NEW mode
      PROVE Enter(Push(Holding(e, s), kind, data), mode) = Holding(Enter(Push(e, kind, data), mode), s)
  BY DEF Enter, Push, Holding, Engine
<1> QED
  BY <1>1, <1>2, <1>3, <1>4, <1>5

-----------------------------------------------------------------------------
(* Lines, with more behind them. *)

\* The first LF is no further than any other.
LEMMA LfAtBefore ==
  ASSUME NEW s, Len(s) \in Nat, NEW i \in 1 .. Len(s), s[i].sym = "LF"
  PROVE  LfAt(s) # 0 /\ LfAt(s) <= i
<1> DEFINE I == {x \in 1 .. Len(s) : s[x].sym = "LF"}
<1>1. LfAt(s) = IF I # {} THEN CHOOSE x \in I : \A y \in I : x <= y ELSE 0
  BY DEF LfAt, SelectInSeq, Min
<1>2. i \in I /\ I \in SUBSET Nat
  OBVIOUS
<1>3. \E x \in I : \A y \in I : x <= y
  <2> HIDE DEF I
  <2> QED
    BY <1>2, LeastNat, Zenon
<1> DEFINE m == CHOOSE x \in I : \A y \in I : x <= y
<1>4. m \in I /\ \A y \in I : m <= y
  <2> HIDE DEF I
  <2> QED
    BY <1>3, Zenon
<1>5. LfAt(s) = m
  <2> HIDE DEF I
  <2> QED
    BY <1>1, <1>2
<1>6. m \in 1 .. Len(s) /\ m <= i
  <2>1. m \in 1 .. Len(s)
    BY <1>4
  <2> HIDE DEF m, I
  <2>2. m <= i
    BY <1>2, <1>4
  <2> QED
    BY <2>1, <2>2
<1> HIDE DEF m
<1> QED
  BY <1>5, <1>6

\* What follows a line does not change it.
LEMMA LineOfMore ==
  ASSUME NEW s \in Seq(Byte), NEW z \in Seq(Byte), LfAt(s) # 0
  PROVE  LET p == LfAt(s)
         IN /\ LfAt(s \o z) = p
            /\ LineLen(s \o z, p) = LineLen(s, p)
            /\ SubSeq(s \o z, 1, LineLen(s, p)) = SubSeq(s, 1, LineLen(s, p))
            /\ SubSeq(s \o z, p + 1, Len(s \o z)) = SubSeq(s, p + 1, Len(s)) \o z
            /\ Oversize(s \o z) = Oversize(s)
<1> DEFINE p == LfAt(s)
           w == s \o z
           n == LineLen(s, p)
<1>1. /\ w \in Seq(Byte) /\ Len(s) \in Nat /\ Len(z) \in Nat /\ Len(w) = Len(s) + Len(z)
      /\ \A i \in 1 .. Len(s) + Len(z) : w[i] = IF i <= Len(s) THEN s[i] ELSE z[i - Len(s)]
  BY ConcatProperties, LenProperties
<1>2. p \in 1 .. Len(s) /\ s[p].sym = "LF"
  BY <1>1, LfAtIsFirst
<1>3. \A i \in 1 .. p - 1 : s[i].sym # "LF"
  <2> SUFFICES ASSUME NEW i \in 1 .. p - 1, s[i].sym = "LF" PROVE FALSE
    OBVIOUS
  <2>1. i \in 1 .. Len(s)
    BY <1>1, <1>2
  <2>2. p <= i
    BY <1>1, <2>1, LfAtBefore
  <2> HIDE DEF p
  <2> QED
    BY <1>2, <2>2
<1>9. SubSeq(s, p + 1, Len(s)) \o z = SubSeq(w, p + 1, Len(w))
  <2>1. p \in 0 .. Len(s)
    BY <1>1, <1>2
  <2> HIDE DEF p
  <2> QED
    BY <2>1, DropOfConcat
<1> HIDE DEF p, w
<1>4. \A i \in 1 .. Len(s) : w[i] = s[i]
  BY <1>1
<1>5. LfAt(w) = p
  <2>1. p \in 1 .. Len(w) /\ w[p].sym = "LF"
    BY <1>1, <1>2, <1>4
  <2>2. ASSUME NEW i \in 1 .. p - 1 PROVE w[i].sym # "LF"
    <3>1. i \in 1 .. Len(s)
      BY <1>1, <1>2
    <3> QED
      BY <1>3, <1>4, <3>1
  <2>3. Len(w) \in Nat
    BY <1>1
  <2> QED
    BY <2>1, <2>2, <2>3, LfAtFound
<1>6. LineLen(w, p) = n
  <2>1. p > 1 => w[p-1] = s[p-1]
    BY <1>1, <1>2, <1>4
  <2> QED
    BY <2>1 DEF LineLen
<1>7. n \in 0 .. Len(s)
  BY <1>1, <1>2 DEF LineLen
<1> HIDE DEF n
<1>8. SubSeq(w, 1, n) = SubSeq(s, 1, n)
  BY <1>7, TakeOfConcat DEF w
<1>10. Oversize(w) = Oversize(s)
  <2>1. Oversize(w) = (n > MaxLine) /\ Oversize(s) = (n > MaxLine)
    BY <1>2, <1>5, <1>6 DEF Oversize, p, n
  <2> QED
    BY <2>1
<1> QED
  BY <1>5, <1>6, <1>8, <1>9, <1>10 DEF p, w, n

\* An unfinished line over the limit is over it once it is finished, but at
\* one length.
LEMMA LongIsLong ==
  ASSUME NEW s \in Seq(Byte), NEW z \in Seq(Byte), LfAt(s) = 0, Oversize(s),
         ~ LineAtLimit(s \o z)
  PROVE  Oversize(s \o z)
<1> DEFINE w == s \o z
           p == LfAt(w)
<1>1. /\ w \in Seq(Byte) /\ Len(s) \in Nat /\ Len(z) \in Nat /\ Len(w) = Len(s) + Len(z)
      /\ \A i \in 1 .. Len(s) + Len(z) : w[i] = IF i <= Len(s) THEN s[i] ELSE z[i - Len(s)]
  BY ConcatProperties, LenProperties
<1>2. Len(s) > MaxLine /\ MaxLine \in Nat
  BY MaxLineAssumption DEF Oversize
<1>3. ASSUME NEW i \in 1 .. Len(s) PROVE w[i].sym # "LF"
  <2>1. w[i] = s[i]
    BY <1>1
  <2>2. s[i].sym # "LF"
    BY <1>1, LfAtBefore
  <2> QED
    BY <2>1, <2>2
<1>4. ~ LineAtLimit(w)
  OBVIOUS
<1> SUFFICES Oversize(w)
  OBVIOUS
<1> HIDE DEF w
<1>5. p \in 0 .. Len(w) /\ (p # 0 => w[p].sym = "LF")
  BY <1>1, LfAtIsFirst
<1>6. CASE p = 0
  <2>1. Oversize(w) <=> Len(w) > MaxLine
    BY <1>6 DEF Oversize
  <2>2. Len(w) > MaxLine
    BY <1>1, <1>2
  <2> QED
    BY <2>1, <2>2
<1>7. CASE p # 0
  <2>1. \A i \in 1 .. p - 1 : w[i].sym # "LF"
    <3> SUFFICES ASSUME NEW i \in 1 .. p - 1, w[i].sym = "LF" PROVE FALSE
      OBVIOUS
    <3>1. i \in 1 .. Len(w)
      BY <1>1, <1>5
    <3>2. p <= i
      BY <1>1, <3>1, LfAtBefore
    <3> HIDE DEF p
    <3> QED
      BY <1>5, <3>2
  <2>2. Oversize(w) <=> LineLen(w, p) > MaxLine
    BY <1>7 DEF Oversize
  <2> HIDE DEF p
  <2>3. p > Len(s) /\ p \in Nat
    BY <1>1, <1>3, <1>5, <1>7
  <2> SUFFICES ASSUME ~ (LineLen(w, p) > MaxLine) PROVE FALSE
    <3>1. LineLen(w, p) > MaxLine
      OBVIOUS
    <3> QED
      BY <2>2, <3>1
  <2>4. w[p-1].sym = "CR" /\ p = MaxLine + 2
    BY <1>1, <1>2, <2>3 DEF LineLen
  <2>5. p \in MaxLine + 2 .. Len(w) /\ p - MaxLine - 1 = 1
    BY <1>1, <1>2, <1>5, <2>3, <2>4
  <2>6. \A i \in p - MaxLine - 1 .. p - 1 : w[i].sym # "LF"
    BY <2>1, <2>5
  <2> QED
    BY <1>4, <1>5, <1>7, <2>4, <2>5, <2>6 DEF LineAtLimit
<1> QED
  BY <1>6, <1>7

-----------------------------------------------------------------------------
(* One step, mode by mode. *)

LineMode == {"NeedBanner", "AwaitingHead", "ReadingMultiline"}

\* What a line does to an engine that waits for one.
OnLine(e, line) ==
  CASE e.mode = "NeedBanner"       -> OnBanner(e, line)
    [] e.mode = "AwaitingHead"     -> OnHead(e, line)
    [] e.mode = "ReadingMultiline" -> OnBodyLine(e, line)
    [] OTHER                       -> e

FirstLine(e) == SubSeq(e.inbox, 1, LineLen(e.inbox, LfAt(e.inbox)))
AfterLine(e) == Holding(e, SubSeq(e.inbox, LfAt(e.inbox) + 1, Len(e.inbox)))

LEMMA StepOfLine ==
  ASSUME NEW e \in Engine, e.mode \in LineMode
  PROVE  Step(e) = IF Oversize(e.inbox) THEN Fail(e)
                   ELSE IF LfAt(e.inbox) = 0 THEN e
                   ELSE IF NonUtf8(FirstLine(e)) THEN Fail(AfterLine(e))
                   ELSE OnLine(AfterLine(e), FirstLine(e))
<1>1. [e EXCEPT !.inbox = SubSeq(@, LfAt(e.inbox) + 1, Len(@))] = AfterLine(e)
  BY DEF AfterLine, Holding, Engine
<1>2. AfterLine(e).mode = e.mode
  BY DEF AfterLine, Holding, Engine
<1>3. CASE e.mode = "NeedBanner"
  <2>1. Step(e) = WithLine(e, OnBanner)
    BY <1>3 DEF Step
  <2>2. OnLine(AfterLine(e), FirstLine(e)) = OnBanner(AfterLine(e), FirstLine(e))
    BY <1>2, <1>3 DEF OnLine
  <2> QED
    BY <1>1, <2>1, <2>2, Zenon DEF WithLine, FirstLine
<1>4. CASE e.mode = "AwaitingHead"
  <2>1. Step(e) = WithLine(e, OnHead)
    BY <1>4 DEF Step
  <2>2. OnLine(AfterLine(e), FirstLine(e)) = OnHead(AfterLine(e), FirstLine(e))
    BY <1>2, <1>4 DEF OnLine
  <2> QED
    BY <1>1, <2>1, <2>2, Zenon DEF WithLine, FirstLine
<1>5. CASE e.mode = "ReadingMultiline"
  <2>1. Step(e) = WithLine(e, OnBodyLine)
    BY <1>5 DEF Step
  <2>2. OnLine(AfterLine(e), FirstLine(e)) = OnBodyLine(AfterLine(e), FirstLine(e))
    BY <1>2, <1>5 DEF OnLine
  <2> QED
    BY <1>1, <2>1, <2>2, Zenon DEF WithLine, FirstLine
<1> QED
  BY <1>3, <1>4, <1>5 DEF LineMode

\* a is b with s for an inbox, which b has from e.
Same(a, b, e, s) == a = Holding(b, s) /\ b.inbox = e.inbox

\* What a line does, it does whatever follows.
LEMMA OnLineCommutes ==
  ASSUME NEW e \in Engine, NEW line, NEW s \in Seq(Byte)
  PROVE  /\ OnLine(Holding(e, s), line) = Holding(OnLine(e, line), s)
         /\ OnLine(e, line).inbox = e.inbox
<1> DEFINE h == Holding(e, s)
<1>1. h.mode = e.mode /\ h.expect = e.expect /\ h.data = e.data
  BY DEF Holding, Engine
<1>2. /\ Fail(h) = Holding(Fail(e), s)
      /\ \A kind, data, mode : Answer(h, kind, data, mode) = Holding(Answer(e, kind, data, mode), s)
      /\ \A mode, data : [h EXCEPT !.mode = mode, !.data = data]
                           = Holding([e EXCEPT !.mode = mode, !.data = data], s)
      /\ \A data : [h EXCEPT !.data = data] = Holding([e EXCEPT !.data = data], s)
      /\ \A kind, data, mode : Enter(Push(h, kind, data), mode)
                                 = Holding(Enter(Push(e, kind, data), mode), s)
  BY HoldingCommutes
<1>3. /\ Fail(e).inbox = e.inbox
      /\ \A kind, data, mode : Answer(e, kind, data, mode).inbox = e.inbox
      /\ \A mode, data : [e EXCEPT !.mode = mode, !.data = data].inbox = e.inbox
      /\ \A data : [e EXCEPT !.data = data].inbox = e.inbox
      /\ \A kind, data, mode : Enter(Push(e, kind, data), mode).inbox = e.inbox
  BY DEF Fail, Answer, Enter, Push, Engine
<1>4. Same(Fail(h), Fail(e), e, s)
  BY <1>2, <1>3 DEF Same
<1>5. ASSUME NEW kind, NEW data, NEW mode
      PROVE  Same(Answer(h, kind, data, mode), Answer(e, kind, data, mode), e, s)
  <2>1. Answer(h, kind, data, mode) = Holding(Answer(e, kind, data, mode), s)
    BY DEF Answer, Enter, Push, Holding, h, Engine
  <2>2. Answer(e, kind, data, mode).inbox = e.inbox
    BY <1>3
  <2> QED
    BY <2>1, <2>2, Zenon DEF Same
<1>6. ASSUME NEW mode, NEW data
      PROVE  Same([h EXCEPT !.mode = mode, !.data = data],
                  [e EXCEPT !.mode = mode, !.data = data], e, s)
  <2>1. [h EXCEPT !.mode = mode, !.data = data] = Holding([e EXCEPT !.mode = mode, !.data = data], s)
    BY <1>2, Zenon
  <2>2. [e EXCEPT !.mode = mode, !.data = data].inbox = e.inbox
    BY <1>3, Zenon
  <2> QED
    BY <2>1, <2>2, Zenon DEF Same
<1>7. ASSUME NEW data
      PROVE  Same([h EXCEPT !.data = data], [e EXCEPT !.data = data], e, s)
  <2>1. [h EXCEPT !.data = data] = Holding([e EXCEPT !.data = data], s)
    BY <1>2, Zenon
  <2>2. [e EXCEPT !.data = data].inbox = e.inbox
    BY <1>3, Zenon
  <2> QED
    BY <2>1, <2>2, Zenon DEF Same
<1>8. Same(Enter(Push(h, "Connected", line), "Idle"), Enter(Push(e, "Connected", line), "Idle"), e, s)
  <2>1. Enter(Push(h, "Connected", line), "Idle") = Holding(Enter(Push(e, "Connected", line), "Idle"), s)
    BY DEF Enter, Push, Holding, h, Engine
  <2>2. Enter(Push(e, "Connected", line), "Idle").inbox = e.inbox
    BY DEF Enter, Push, Engine
  <2> QED
    BY <2>1, <2>2, Zenon DEF Same
<1> HIDE DEF h
<1>9. Same(OnBanner(h, line), OnBanner(e, line), e, s)
  <2>1. CASE HeadCode(line) = "201"
    BY <1>8, <2>1 DEF OnBanner
  <2>2. CASE HeadCode(line) # "201"
    BY <1>4, <2>2 DEF OnBanner
  <2> QED
    BY <2>1, <2>2
<1>10. Same(OnHead(h, line), OnHead(e, line), e, s)
  <2>1. HeadCode(line) \in Code \cup {"malformed"}
    BY DEF HeadCode
  <2>2. e.expect \in Expect
    BY DEF Engine
  <2>3. Same(OnBinaryHead(h, line), OnBinaryHead(e, line), e, s)
    <3>1. CASE e.expect = "NoBinary"
      <4>1. OnBinaryHead(h, line) = Fail(h) /\ OnBinaryHead(e, line) = Fail(e)
        BY <1>1, <3>1 DEF OnBinaryHead
      <4>2. Same(Fail(h), Fail(e), e, s)
        BY <1>4
      <4> QED
        BY <4>1, <4>2
    <3>2. CASE e.expect = "EagerBinary"
      <4>1. /\ OnBinaryHead(h, line) = [h EXCEPT !.mode = "ReadingBinary", !.data = line]
            /\ OnBinaryHead(e, line) = [e EXCEPT !.mode = "ReadingBinary", !.data = line]
        BY <1>1, <3>2 DEF OnBinaryHead
      <4>2. Same([h EXCEPT !.mode = "ReadingBinary", !.data = line],
                 [e EXCEPT !.mode = "ReadingBinary", !.data = line], e, s)
        BY <1>6
      <4> QED
        BY <4>1, <4>2
    <3>3. CASE e.expect = "StreamBinary"
      <4>1. /\ OnBinaryHead(h, line) = Answer(h, "BinaryHead", line, "StreamingBody")
            /\ OnBinaryHead(e, line) = Answer(e, "BinaryHead", line, "StreamingBody")
        BY <1>1, <3>3 DEF OnBinaryHead
      <4>2. Same(Answer(h, "BinaryHead", line, "StreamingBody"),
                 Answer(e, "BinaryHead", line, "StreamingBody"), e, s)
        BY <1>5
      <4> QED
        BY <4>1, <4>2
    <3> QED
      BY <2>2, <3>1, <3>2, <3>3 DEF Expect
  <2> QED
    <3>1. CASE HeadCode(line) = "4xx"
      <4>1. /\ OnHead(h, line) = Answer(h, "RemoteError", line, "Idle")
            /\ OnHead(e, line) = Answer(e, "RemoteError", line, "Idle")
        BY <3>1 DEF OnHead, LineCode
      <4>2. Same(Answer(h, "RemoteError", line, "Idle"), Answer(e, "RemoteError", line, "Idle"), e, s)
        BY <1>5
      <4> QED
        BY <4>1, <4>2
    <3>2. CASE HeadCode(line) = "202"
      <4>1. /\ OnHead(h, line) = [h EXCEPT !.mode = "ReadingMultiline", !.data = line]
            /\ OnHead(e, line) = [e EXCEPT !.mode = "ReadingMultiline", !.data = line]
        BY <3>2 DEF OnHead, LineCode
      <4>2. Same([h EXCEPT !.mode = "ReadingMultiline", !.data = line],
                 [e EXCEPT !.mode = "ReadingMultiline", !.data = line], e, s)
        BY <1>6
      <4> QED
        BY <4>1, <4>2
    <3>3. CASE HeadCode(line) = "203"
      <4>1. /\ OnHead(h, line) = OnBinaryHead(h, line)
            /\ OnHead(e, line) = OnBinaryHead(e, line)
        BY <3>3 DEF OnHead, LineCode
      <4> QED
        BY <2>3, <4>1
    <3>4. CASE HeadCode(line) = "204"
      <4>1. /\ OnHead(h, line) = Answer(h, "SendBinary", line, "Idle")
            /\ OnHead(e, line) = Answer(e, "SendBinary", line, "Idle")
        BY <3>4 DEF OnHead, LineCode
      <4>2. Same(Answer(h, "SendBinary", line, "Idle"), Answer(e, "SendBinary", line, "Idle"), e, s)
        BY <1>5
      <4> QED
        BY <4>1, <4>2
    <3>5. CASE HeadCode(line) \in LineCode
      <4>1. /\ OnHead(h, line) = Answer(h, "Line", line, "Idle")
            /\ OnHead(e, line) = Answer(e, "Line", line, "Idle")
        BY <3>5 DEF OnHead, LineCode
      <4>2. Same(Answer(h, "Line", line, "Idle"), Answer(e, "Line", line, "Idle"), e, s)
        BY <1>5
      <4> QED
        BY <4>1, <4>2
    <3>6. CASE HeadCode(line) \in {"unknown", "malformed"}
      <4>1. /\ OnHead(h, line) = Fail(h)
            /\ OnHead(e, line) = Fail(e)
        BY <3>6 DEF OnHead, LineCode
      <4>2. Same(Fail(h), Fail(e), e, s)
        BY <1>4
      <4> QED
        BY <4>1, <4>2
    <3> QED
      BY <2>1, <3>1, <3>2, <3>3, <3>4, <3>5, <3>6 DEF Code
<1>11. Same(OnBodyLine(h, line), OnBodyLine(e, line), e, s)
  <2>1. [h EXCEPT !.data = @ \o line] = [h EXCEPT !.data = h.data \o line]
    BY <1>1 DEF h, Holding, Engine
  <2>2. [e EXCEPT !.data = @ \o line] = [e EXCEPT !.data = e.data \o line]
    BY DEF Engine
  <2> QED
    <3>1. CASE IsDot(line)
      <4>1. /\ OnBodyLine(h, line) = Answer(h, "Multiline", e.data \o line, "Idle")
            /\ OnBodyLine(e, line) = Answer(e, "Multiline", e.data \o line, "Idle")
        BY <1>1, <3>1 DEF OnBodyLine
      <4>2. Same(Answer(h, "Multiline", e.data \o line, "Idle"),
                 Answer(e, "Multiline", e.data \o line, "Idle"), e, s)
        BY <1>5
      <4> QED
        BY <4>1, <4>2
    <3>2. CASE ~ IsDot(line)
      <4>1. /\ OnBodyLine(h, line) = [h EXCEPT !.data = e.data \o line]
            /\ OnBodyLine(e, line) = [e EXCEPT !.data = e.data \o line]
        BY <1>1, <2>1, <2>2, <3>2 DEF OnBodyLine
      <4>2. Same([h EXCEPT !.data = e.data \o line], [e EXCEPT !.data = e.data \o line], e, s)
        BY <1>7
      <4> QED
        BY <4>1, <4>2
    <3> QED
      BY <3>1, <3>2
<1> QED
  BY <1>1, <1>9, <1>10, <1>11 DEF OnLine, h, Same

\* A step that changes the engine either takes bytes off the front of the
\* inbox, or is followed by none.
LEMMA StepEats ==
  ASSUME NEW e \in Engine, Step(e) # e
  PROVE  /\ Step(e) \in Engine
         /\ \E k \in 0 .. Len(e.inbox) :
              /\ Step(e).inbox = SubSeq(e.inbox, k + 1, Len(e.inbox))
              /\ k = 0 => Step(Step(e)) = Step(e)
<1> DEFINE s == e.inbox
<1>1. s \in Seq(Byte) /\ Len(s) \in Nat
  BY LenProperties DEF Engine
<1>2. Step(e) \in Engine
  BY StepProgress
<1>3. SubSeq(s, 0 + 1, Len(s)) = s
  BY <1>1, SubSeqFull
<1>4. ASSUME Step(e).inbox = s, Step(e).mode \notin Reading
      PROVE  \E k \in 0 .. Len(s) : /\ Step(e).inbox = SubSeq(s, k + 1, Len(s))
                                    /\ k = 0 => Step(Step(e)) = Step(e)
  <2>1. Step(Step(e)) = Step(e)
    BY <1>2, <1>4, StepProgress
  <2>2. 0 \in 0 .. Len(s)
    BY <1>1
  <2> HIDE DEF s
  <2> QED
    BY <1>3, <1>4, <2>1, <2>2
<1>5. CASE e.mode \in LineMode
  <2> DEFINE p == LfAt(s)
             d == SubSeq(s, p + 1, Len(s))
  <2>1. CASE Oversize(s)
    <3>1. Step(e) = Fail(e)
      BY <1>5, <2>1, StepOfLine
    <3>2. Step(e).inbox = s /\ Step(e).mode = "Failed"
      BY <3>1 DEF Fail, Enter, Push, Engine
    <3>3. Step(e).mode \notin Reading
      BY <3>2 DEF Reading, InFlight
    <3> QED
      BY <1>2, <1>4, <3>2, <3>3
  <2>2. CASE ~ Oversize(s)
    <3>1. p # 0
      BY <1>5, <2>2, StepOfLine
    <3>2. p \in 1 .. Len(s)
      BY <1>1, <3>1, LfAtIsFirst
    <3>3. d \in Seq(Byte)
      <4>1. p \in 0 .. Len(s)
        BY <1>1, <3>2
      <4> HIDE DEF p
      <4> QED
        BY <1>1, <4>1, DropFields
    <3>4. AfterLine(e) = Holding(e, d)
      BY DEF AfterLine
    <3>5. AfterLine(e) \in Engine /\ AfterLine(e).inbox = d
      BY <3>3, <3>4, HoldingFields
    <3>6. Fail(AfterLine(e)).inbox = d
      BY <3>5 DEF Fail, Enter, Push, Engine
    <3>7. OnLine(AfterLine(e), FirstLine(e)).inbox = d
      <4>1. OnLine(AfterLine(e), FirstLine(e)).inbox = AfterLine(e).inbox
        BY <3>5, <3>3, OnLineCommutes
      <4> QED
        BY <3>5, <4>1
    <3>8. Step(e).inbox = d
      <4>1. Step(e) = IF NonUtf8(FirstLine(e)) THEN Fail(AfterLine(e))
                      ELSE OnLine(AfterLine(e), FirstLine(e))
        BY <1>5, <2>2, <3>1, StepOfLine
      <4> HIDE DEF d
      <4> QED
        BY <3>6, <3>7, <4>1
    <3>9. p \in 0 .. Len(s) /\ p # 0
      BY <1>1, <3>2
    <3> HIDE DEF p
    <3> QED
      BY <1>2, <3>8, <3>9 DEF d
  <2> QED
    BY <2>1, <2>2
<1>6. CASE e.mode = "ReadingBinary"
  <2> DEFINE take == IF e.remaining <= Len(s) THEN e.remaining ELSE Len(s)
             x    == [e EXCEPT !.data = @ \o SubSeq(s, 1, take),
                               !.inbox = SubSeq(@, take + 1, Len(@)),
                               !.remaining = @ - take]
  <2>1. CASE e.remaining = 0
    <3>1. Step(e) = Answer(e, "Binary", e.data, "Idle")
      BY <1>6, <2>1 DEF Step, StepBinary
    <3>2. Step(e).inbox = s /\ Step(e).mode = "Idle"
      BY <3>1 DEF Answer, Enter, Push, Engine
    <3>3. Step(e).mode \notin Reading
      BY <3>2 DEF Reading, InFlight
    <3> QED
      BY <1>2, <1>4, <3>2, <3>3
  <2>2. CASE e.remaining # 0
    <3>1. Step(e) = x
      BY <1>6, <2>2 DEF Step, StepBinary
    <3>2. x.inbox = SubSeq(s, take + 1, Len(s))
      BY DEF Engine
    <3>3. take \in 0 .. Len(s)
      BY <1>1 DEF Engine
    <3>4. CASE take # 0
      <4> HIDE DEF take, x
      <4> QED
        BY <1>2, <3>1, <3>2, <3>3, <3>4
    <3>5. CASE take = 0
      <4>1. Len(s) = 0 /\ e.remaining \in Nat /\ e.data \in Seq(Byte)
        BY <1>1, <2>2, <3>5 DEF Engine
      <4>2. SubSeq(s, 1, take) = <<>>
        <5>1. 0 \in 0 .. Len(s)
          BY <1>1
        <5>2. SubSeq(s, 1, 0) \in Seq(Byte) /\ Len(SubSeq(s, 1, 0)) = 0
          BY <1>1, <5>1, TakeFields
        <5> QED
          BY <3>5, <5>2, EmptySeq
      <4>3. e.data \o SubSeq(s, 1, take) = e.data
        BY <4>1, <4>2, ConcatEmptySeq
      <4>4. SubSeq(s, take + 1, Len(s)) = s
        BY <1>3, <3>5
      <4>5. e.remaining - take = e.remaining
        BY <3>5, <4>1
      <4> HIDE DEF take
      <4>6. x = [e EXCEPT !.data = e.data, !.inbox = s, !.remaining = e.remaining]
        BY <4>3, <4>4, <4>5
      <4>7. x = e
        BY <4>6 DEF Engine
      <4> QED
        BY <3>1, <4>7
    <3> QED
      BY <3>4, <3>5
  <2> QED
    BY <2>1, <2>2
<1> QED
  <2>1. e.mode \in Reading
    BY StepProgress
  <2> QED
    BY <1>2, <1>5, <1>6, <2>1 DEF Reading, InFlight, LineMode

-----------------------------------------------------------------------------
(* Advance goes to the end. *)

\* If each step leads from one of the sets to the next, Advance leads through
\* all of them.
LEMMA AdvanceDescends ==
  ASSUME NEW S, NEW e, Len(e.inbox) \in Nat, e \in S[Len(e.inbox) + 2],
         \A n \in Nat : \A x \in S[n + 1] : Step(x) \in S[n]
  PROVE  Advance(e) \in S[0]
<1> DEFINE last == Len(e.inbox) + 2
           run  == RunOf(e, last)
           T    == {n \in Nat : n \in 0 .. last => run[n] # {} /\ run[n] \subseteq S[last - n]}
<1>1. last \in Nat
  OBVIOUS
<1>2. \A n \in 0 .. last :
        run[n] = IF n = 0 THEN {e} ELSE {Step(x) : x \in run[n-1]}
  <2> HIDE DEF last
  <2>1. run = [n \in 0 .. last |->
                IF n = 0 THEN {e} ELSE {Step(x) : x \in run[n-1]}]
    BY <1>1, RunExists, Zenon
  <2> HIDE DEF run
  <2> QED
    BY <2>1, Zenon
<1> HIDE DEF run
<1>3. 0 \in T
  <2>1. 0 \in 0 .. last /\ last - 0 = last
    BY <1>1
  <2>2. run[0] = {e}
    BY <1>2, <2>1, Zenon
  <2>3. e \in S[last]
    OBVIOUS
  <2> HIDE DEF last
  <2>4. run[0] # {} /\ run[0] \subseteq S[last - 0]
    BY <2>1, <2>2, <2>3
  <2> QED
    BY <2>4
<1>4. ASSUME NEW n \in T PROVE n + 1 \in T
  <2>1. n \in Nat
    OBVIOUS
  <2> HIDE DEF last
  <2>2. SUFFICES ASSUME n + 1 \in 0 .. last
                 PROVE  run[n+1] # {} /\ run[n+1] \subseteq S[last - (n + 1)]
    BY <2>1
  <2>3. run[n] # {} /\ run[n] \subseteq S[last - n]
    BY <1>1, <2>1, <2>2
  <2>4. run[n+1] = {Step(x) : x \in run[n]}
    <3>1. run[n+1] = IF n + 1 = 0 THEN {e} ELSE {Step(x) : x \in run[(n+1)-1]}
      BY <1>2, <2>2, Zenon
    <3>2. n + 1 # 0 /\ (n + 1) - 1 = n
      BY <2>1
    <3> QED
      BY <3>1, <3>2, Zenon
  <2>5. last - (n + 1) \in Nat /\ (last - (n + 1)) + 1 = last - n
    BY <1>1, <2>1, <2>2
  <2>6. \A x \in S[last - n] : Step(x) \in S[last - (n + 1)]
    <3> DEFINE m == last - (n + 1)
    <3>1. \A x \in S[m + 1] : Step(x) \in S[m]
      <4> HIDE DEF m
      <4>1. m \in Nat
        BY <2>5 DEF m
      <4> QED
        BY <4>1
    <3>2. m + 1 = last - n
      BY <2>5
    <3> HIDE DEF m
    <3>3. \A x \in S[last - n] : Step(x) \in S[m]
      BY <3>1, <3>2, Zenon
    <3> QED
      BY <3>3 DEF m
  <2> QED
    BY <2>3, <2>4, <2>6, Zenon
<1>5. T = Nat
  <2>1. T \in SUBSET Nat
    OBVIOUS
  <2> HIDE DEF T
  <2> QED
    BY <1>3, <1>4, <2>1, SetInduction
<1>6. run[last] # {} /\ run[last] \subseteq S[0]
  <2>1. last \in T /\ last - last = 0 /\ last \in 0 .. last
    <3> HIDE DEF T
    <3> QED
      BY <1>1, <1>5
  <2> HIDE DEF last
  <2> QED
    BY <2>1
<1>7. Advance(e) = CHOOSE x \in run[last] : TRUE
  BY Zenon DEF Advance, RunOf, run
<1>8. (CHOOSE x \in run[last] : TRUE) \in run[last]
  BY <1>6, Zenon
<1> QED
  BY <1>6, <1>7, <1>8, Zenon

\* Where Advance leads, a step does nothing.
LEMMA AdvanceSettles ==
  ASSUME NEW e \in Engine
  PROVE  Advance(e) \in Engine /\ Step(Advance(e)) = Advance(e)
<1> DEFINE S == [n \in Nat |-> {x \in Engine : Step(x) = x \/ Len(x.inbox) + 2 <= n}]
<1>1. Len(e.inbox) \in Nat
  BY LenProperties DEF Engine
<1>2. e \in S[Len(e.inbox) + 2]
  BY <1>1
<1>3. ASSUME NEW n \in Nat, NEW x \in S[n + 1] PROVE Step(x) \in S[n]
  <2>1. x \in Engine /\ (Step(x) = x \/ Len(x.inbox) + 2 <= n + 1) /\ Len(x.inbox) \in Nat
    BY <1>3, LenProperties DEF Engine
  <2>2. CASE Step(x) = x
    BY <2>1, <2>2
  <2>3. CASE Step(x) # x
    <3> DEFINE s == x.inbox
               y == Step(x)
    <3>1. y \in Engine
      BY <2>1, <2>3, StepEats
    <3>2. PICK k \in 0 .. Len(s) : /\ y.inbox = SubSeq(s, k + 1, Len(s))
                                   /\ k = 0 => Step(y) = y
      BY <2>1, <2>3, StepEats
    <3>3. s \in Seq(Byte)
      BY <2>1 DEF Engine
    <3> HIDE DEF s, y
    <3>4. Len(y.inbox) = Len(s) - k
      BY <3>2, <3>3, DropFields
    <3>5. Len(s) + 2 <= n + 1 /\ Len(s) \in Nat
      BY <2>1, <2>3 DEF s
    <3>6. Step(y) = y \/ Len(y.inbox) + 2 <= n
      BY <3>2, <3>4, <3>5
    <3> QED
      BY <3>1, <3>6 DEF y
  <2> QED
    BY <2>2, <2>3
<1>4. S[0] = {x \in Engine : Step(x) = x}
  <2>1. ASSUME NEW x \in Engine PROVE ~ (Len(x.inbox) + 2 <= 0)
    <3>1. Len(x.inbox) \in Nat
      BY LenProperties DEF Engine
    <3> QED
      BY <3>1
  <2> QED
    BY <2>1
<1> HIDE DEF S
<1>5. Advance(e) \in S[0]
  BY <1>1, <1>2, <1>3, AdvanceDescends
<1> QED
  BY <1>4, <1>5

\* Nor does Advance, where a step does nothing.
LEMMA AdvanceRests ==
  ASSUME NEW e \in Engine, Step(e) = e
  PROVE  Advance(e) = e
<1>1. Len(e.inbox) \in Nat
  BY LenProperties DEF Engine
<1>2. Advance(e) \in {e}
  BY <1>1, AdvanceStays
<1> QED
  BY <1>2

\* Advance goes where it would have gone from one step further.
LEMMA AdvanceOfStep ==
  ASSUME NEW e \in Engine
  PROVE  Advance(Step(e)) = Advance(e)
<1> DEFINE g == Advance(e)
           Closed(C) == \A x \in C : Step(x) \in C
           S == {x \in Engine : \A C \in SUBSET Engine : Closed(C) /\ x \in C => g \in C}
<1>1. g \in Engine /\ Step(g) = g
  BY AdvanceSettles
<1>2. ASSUME NEW x \in Engine PROVE Len(x.inbox) \in Nat /\ Step(x) \in Engine
  BY LenProperties, StepProgress DEF Engine
<1>3. e \in S
  <2>1. ASSUME NEW C \in SUBSET Engine, \A x \in C : Step(x) \in C, e \in C PROVE g \in C
    BY <1>2, <2>1, AdvanceStays
  <2> HIDE DEF g
  <2> QED
    BY <2>1
<1> HIDE DEF g
<1>4. ASSUME NEW x \in S PROVE Step(x) \in S
  <2>1. x \in Engine /\ Step(x) \in Engine
    BY <1>2
  <2>2. ASSUME NEW C \in SUBSET Engine, \A y \in C : Step(y) \in C, Step(x) \in C PROVE g \in C
    <3> DEFINE D == C \cup {x}
    <3>1. D \in SUBSET Engine /\ x \in D
      BY <2>1
    <3>2. \A y \in D : Step(y) \in D
      BY <2>2
    <3>3. g \in D
      <4> HIDE DEF D
      <4> QED
        BY <1>4, <3>1, <3>2
    <3>4. CASE g = x
      BY <1>1, <2>2, <3>4
    <3> QED
      BY <3>3, <3>4
  <2> QED
    BY <2>1, <2>2
<1> DEFINE h == Advance(Step(e))
<1>5. h \in Engine /\ Step(h) = h
  BY <1>2, AdvanceSettles
<1>6. h \in S
  <2> HIDE DEF S
  <2>1. Step(e) \in S
    BY <1>3, <1>4
  <2>2. Len(Step(e).inbox) \in Nat
    BY <1>2
  <2> QED
    BY <1>4, <2>1, <2>2, AdvanceStays
<1> HIDE DEF h
<1>7. g \in {h}
  <2>1. {h} \in SUBSET Engine /\ h \in {h} /\ \A x \in {h} : Step(x) \in {h}
    BY <1>5
  <2> QED
    BY <1>6, <2>1
<1> QED
  BY <1>7 DEF g, h

-----------------------------------------------------------------------------
(* More bytes behind those in the inbox. *)

More(e, z) == Holding(e, e.inbox \o z)

LEMMA MoreFields ==
  ASSUME NEW e \in Engine, NEW z \in Seq(Byte)
  PROVE  /\ e.inbox \o z \in Seq(Byte)
         /\ More(e, z) \in Engine /\ More(e, z).inbox = e.inbox \o z
         /\ More(e, z).mode = e.mode
<1>1. e.inbox \o z \in Seq(Byte)
  BY ConcatProperties DEF Engine
<1> QED
  BY <1>1, HoldingFields DEF More

\* A line that is there does not wait for what follows it.
LEMMA StepOfMoreLine ==
  ASSUME NEW e \in Engine, NEW z \in Seq(Byte), e.mode \in LineMode,
         Step(e) # e, ~ LineAtLimit(e.inbox \o z)
  PROVE  Step(More(e, z)) = More(Step(e), z)
<1> DEFINE s == e.inbox
           w == s \o z
           m == More(e, z)
           p == LfAt(s)
           d == SubSeq(s, p + 1, Len(s))
<1>1. s \in Seq(Byte) /\ Len(s) \in Nat
  BY LenProperties DEF Engine
<1>2. w \in Seq(Byte) /\ m \in Engine /\ m.inbox = w /\ m.mode = e.mode /\ m = Holding(e, w)
  BY MoreFields DEF More
<1>3. ~ LineAtLimit(w)
  OBVIOUS
<1> HIDE DEF w
<1>4. CASE Oversize(s)
  <2>1. Oversize(w)
    <3>1. CASE p = 0
      BY <1>1, <1>3, <1>4, <3>1, LongIsLong DEF w
    <3>2. CASE p # 0
      <4>1. Oversize(w) = Oversize(s)
        BY <1>1, <3>2, LineOfMore DEF w
      <4> QED
        BY <1>4, <4>1
    <3> QED
      BY <3>1, <3>2
  <2>2. Step(e) = Fail(e)
    BY <1>4, StepOfLine
  <2>3. Step(m) = Fail(m)
    BY <1>2, <2>1, StepOfLine
  <2>4. Fail(m) = Holding(Fail(e), w)
    BY <1>2, HoldingCommutes
  <2>5. Fail(e).inbox = s
    BY DEF Fail, Enter, Push, Engine
  <2> QED
    BY <2>2, <2>3, <2>4, <2>5 DEF More, w
<1>5. CASE ~ Oversize(s)
  <2>1. p # 0
    BY <1>5, StepOfLine
  <2> DEFINE n    == LineLen(s, p)
             line == SubSeq(s, 1, n)
             after == Holding(e, d)
             b    == d \o z
  <2>2. /\ LfAt(w) = p
        /\ LineLen(w, p) = n
        /\ SubSeq(w, 1, n) = line
        /\ SubSeq(w, p + 1, Len(w)) = b
        /\ Oversize(w) = Oversize(s)
    BY <1>1, <2>1, LineOfMore DEF w
  <2>3. d \in Seq(Byte)
    <3>1. p \in 0 .. Len(s)
      BY <1>1, LfAtIsFirst
    <3> HIDE DEF p
    <3> QED
      BY <1>1, <3>1, DropFields
  <2>4. b \in Seq(Byte)
    BY <2>3, ConcatProperties
  <2>5. FirstLine(e) = line /\ AfterLine(e) = after
    BY DEF FirstLine, AfterLine
  <2>6. FirstLine(m) = line
    <3> HIDE DEF n, line, b, p, m
    <3> QED
      BY <1>2, <2>2 DEF FirstLine
  <2>7. AfterLine(m) = Holding(e, b)
    <3>1. AfterLine(m) = Holding(m, b)
      <4> HIDE DEF n, line, b, p, m
      <4> QED
        BY <1>2, <2>2 DEF AfterLine
    <3>2. \A t : Holding(Holding(e, w), t) = Holding(e, t)
      BY <1>2, HoldingFields
    <3> HIDE DEF m, b
    <3> QED
      BY <1>2, <3>1, <3>2
  <2>8. after \in Engine /\ after.inbox = d /\ after.mode = e.mode
    BY <2>3, HoldingFields
  <2>9. Holding(after, b) = Holding(e, b)
    <3>1. \A t : Holding(Holding(e, d), t) = Holding(e, t)
      BY <2>3, HoldingFields
    <3> HIDE DEF b, d
    <3> QED
      BY <3>1
  <2>10. Step(e) = IF NonUtf8(line) THEN Fail(after) ELSE OnLine(after, line)
    <3> HIDE DEF line, after
    <3> QED
      BY <1>5, <2>1, <2>5, StepOfLine
  <2>11. Step(m) = IF NonUtf8(line) THEN Fail(Holding(after, b))
                   ELSE OnLine(Holding(after, b), line)
    <3>1. ~ Oversize(m.inbox) /\ LfAt(m.inbox) # 0
      <4> HIDE DEF n, line, b, p, m
      <4> QED
        BY <1>2, <1>5, <2>1, <2>2
    <3>2. Step(m) = IF NonUtf8(FirstLine(m)) THEN Fail(AfterLine(m))
                    ELSE OnLine(AfterLine(m), FirstLine(m))
      BY <1>2, <3>1, StepOfLine
    <3> HIDE DEF m, line, after, b
    <3> QED
      BY <2>6, <2>7, <2>9, <3>2
  <2>12. Fail(Holding(after, b)) = Holding(Fail(after), b) /\ Fail(after).inbox = d
    <3>1. Fail(after).inbox = after.inbox
      <4> HIDE DEF after
      <4> QED
        BY <2>8 DEF Fail, Enter, Push, Engine
    <3> QED
      BY <2>4, <2>8, <3>1, HoldingCommutes
  <2>13. /\ OnLine(Holding(after, b), line) = Holding(OnLine(after, line), b)
         /\ OnLine(after, line).inbox = d
    <3> HIDE DEF after, line, b
    <3> QED
      BY <2>4, <2>8, OnLineCommutes
  <2>14. Step(m) = Holding(Step(e), b) /\ Step(e).inbox = d
    <3> HIDE DEF after, line, b, m, d
    <3> QED
      BY <2>10, <2>11, <2>12, <2>13
  <2> QED
    BY <2>14 DEF More
<1> QED
  BY <1>4, <1>5

\* An engine with another body under way.
Body(e, data, inbox, remaining) ==
  [e EXCEPT !.data = data, !.inbox = inbox, !.remaining = remaining]

LEMMA BodyFields ==
  ASSUME NEW e \in Engine, NEW data, NEW inbox, NEW remaining,
         NEW b, b = Body(e, data, inbox, remaining)
  PROVE  /\ b.mode = e.mode /\ b.data = data
         /\ b.inbox = inbox /\ b.remaining = remaining
         /\ \A s : Holding(b, s) = Body(e, data, s, remaining)
         /\ \A d, s, r : Body(b, d, s, r) = Body(e, d, s, r)
         /\ data \in Seq(Byte) /\ inbox \in Seq(Byte) /\ remaining \in Nat => b \in Engine
BY DEF Body, Holding, Engine

LEMMA StepOfBody ==
  ASSUME NEW e \in Engine, e.mode = "ReadingBinary", e.remaining # 0,
         NEW k, k = IF e.remaining <= Len(e.inbox) THEN e.remaining ELSE Len(e.inbox)
  PROVE  Step(e) = Body(e, e.data \o SubSeq(e.inbox, 1, k),
                        SubSeq(e.inbox, k + 1, Len(e.inbox)), e.remaining - k)
<1>1. Step(e) = StepBinary(e)
  BY DEF Step
<1> QED
  BY <1>1 DEF StepBinary, Body, Engine

\* Nor does a body that is there; one that is not takes what there is, then
\* what there is more.
LEMMA StepOfMoreBody ==
  ASSUME NEW e \in Engine, NEW z \in Seq(Byte), e.mode = "ReadingBinary"
  PROVE  \/ Step(More(e, z)) = More(Step(e), z)
         \/ Step(More(e, z)) = Step(More(Step(e), z))
<1> DEFINE s == e.inbox
           w == s \o z
           m == More(e, z)
           r == e.remaining
<1>1. s \in Seq(Byte) /\ Len(s) \in Nat /\ Len(z) \in Nat /\ r \in Nat /\ e.data \in Seq(Byte)
  BY LenProperties DEF Engine
<1>2. w \in Seq(Byte) /\ m \in Engine /\ m.inbox = w /\ m.mode = e.mode /\ m = Holding(e, w)
  BY MoreFields DEF More
<1>3. Len(w) = Len(s) + Len(z)
  BY <1>1, ConcatProperties
<1>4. m.remaining = r /\ m.data = e.data
  BY <1>2 DEF Holding, Engine
<1>5. \A d, t, n : Body(m, d, t, n) = Body(e, d, t, n)
  BY <1>2 DEF Body, Holding, Engine
<1>6. CASE r = 0
  <2>1. Step(e) = Answer(e, "Binary", e.data, "Idle")
    BY <1>6 DEF Step, StepBinary
  <2>2. Step(m) = Answer(m, "Binary", e.data, "Idle")
    BY <1>2, <1>4, <1>6 DEF Step, StepBinary
  <2>3. Answer(Holding(e, w), "Binary", e.data, "Idle") = Holding(Answer(e, "Binary", e.data, "Idle"), w)
    BY DEF Answer, Enter, Push, Holding, Engine
  <2>4. Answer(e, "Binary", e.data, "Idle").inbox = s
    BY DEF Answer, Enter, Push, Engine
  <2> QED
    BY <1>2, <2>1, <2>2, <2>3, <2>4 DEF More
<1>7. CASE r # 0 /\ r <= Len(s)
  <2> DEFINE a == SubSeq(s, 1, r)
             d == SubSeq(s, r + 1, Len(s))
  <2>1. r \in 0 .. Len(s)
    BY <1>1, <1>7
  <2>2. SubSeq(w, 1, r) = a /\ SubSeq(w, r + 1, Len(w)) = d \o z /\ d \in Seq(Byte) /\ a \in Seq(Byte)
    <3> HIDE DEF r, s
    <3> QED
      BY <1>1, <2>1, TakeOfConcat, DropOfConcat, DropFields, TakeFields
  <2> HIDE DEF a, d
  <2>3. Step(e) = Body(e, e.data \o a, d, r - r)
    BY <1>1, <1>7, StepOfBody DEF a, d
  <2>4. Step(m) = Body(m, e.data \o a, d \o z, r - r)
    <3>1. m.remaining <= Len(m.inbox) /\ m.remaining # 0
      BY <1>1, <1>2, <1>3, <1>4, <1>7
    <3>2. Step(m) = Body(m, m.data \o SubSeq(m.inbox, 1, m.remaining),
                         SubSeq(m.inbox, m.remaining + 1, Len(m.inbox)), m.remaining - m.remaining)
      <4> HIDE DEF m
      <4> QED
        BY <1>2, <3>1, StepOfBody
    <3> HIDE DEF m, w, r
    <3> QED
      BY <1>2, <1>4, <2>2, <3>2
  <2>5. r - r = 0 /\ e.data \o a \in Seq(Byte)
    BY <1>1, <2>2, ConcatProperties
  <2>6. More(Step(e), z) = Body(e, e.data \o a, d \o z, r - r)
    <3>1. Step(e).inbox = d /\ \A t : Holding(Step(e), t) = Body(e, e.data \o a, t, r - r)
      <4> DEFINE y == Step(e)
                 f == e.data \o a
                 c == r - r
      <4>1. y = Body(e, f, d, c)
        BY <2>3
      <4> HIDE DEF y, f, c
      <4>2. y.inbox = d /\ \A t : Holding(y, t) = Body(e, f, t, c)
        BY <4>1, BodyFields
      <4> QED
        BY <4>2 DEF y, f, c
    <3> HIDE DEF r
    <3> QED
      BY <3>1 DEF More
  <2> QED
    BY <1>5, <2>4, <2>6
<1>8. CASE ~ (r <= Len(s))
  <2> DEFINE l == Len(s)
             q == r - l
             n == IF q <= Len(z) THEN q ELSE Len(z)
             k == IF r <= Len(w) THEN r ELSE Len(w)
             a == SubSeq(z, 1, n)
             d == SubSeq(z, n + 1, Len(z))
             y == Step(e)
             v == More(y, z)
  <2>1. q \in Nat /\ q # 0 /\ n \in 0 .. Len(z) /\ k = l + n /\ l \in Nat /\ r - k = q - n /\ r # 0
    BY <1>1, <1>3, <1>8
  <2>2. a \in Seq(Byte) /\ d \in Seq(Byte)
    <3> HIDE DEF n
    <3> QED
      BY <1>1, <2>1, TakeFields, DropFields
  <2>3. SubSeq(w, 1, k) = s \o a /\ SubSeq(w, k + 1, Len(w)) = d
    <3>1. /\ SubSeq(w, 1, l + n) = s \o SubSeq(z, 1, n)
          /\ SubSeq(w, l + n + 1, Len(w)) = SubSeq(z, n + 1, Len(z))
      <4> HIDE DEF n
      <4> QED
        BY <1>1, <2>1, TakePastConcat
    <3> HIDE DEF k, n, w, l
    <3> QED
      BY <2>1, <3>1
  <2> HIDE DEF a, d
  <2>4. SubSeq(s, 1, l) = s /\ SubSeq(s, l + 1, Len(s)) = <<>>
    <3>1. SubSeq(s, 1, Len(s)) = s
      BY <1>1, SubSeqFull
    <3>2. Len(s) \in 0 .. Len(s)
      BY <1>1
    <3> DEFINE o == SubSeq(s, Len(s) + 1, Len(s))
    <3>3. o \in Seq(Byte) /\ Len(o) = Len(s) - Len(s)
      BY <1>1, <3>2, DropFields
    <3> HIDE DEF o
    <3>4. Len(o) = 0
      BY <1>1, <3>3
    <3>5. o = <<>>
      BY <3>3, <3>4, EmptySeq
    <3> QED
      BY <3>1, <3>5 DEF o
  <2>5. y = Body(e, e.data \o s, <<>>, q)
    <3>1. y = Body(e, e.data \o SubSeq(s, 1, l), SubSeq(s, l + 1, Len(s)), r - l)
      BY <1>1, <1>8, <2>1, StepOfBody
    <3> HIDE DEF y, s, l
    <3> QED
      BY <2>4, <3>1
  <2>6. e.data \o s \in Seq(Byte) /\ <<>> \in Seq(Byte) /\ <<>> \o z = z
    BY <1>1, ConcatProperties, EmptySeq, ConcatEmptySeq
  <2>7. /\ v \in Engine /\ v.mode = e.mode /\ v.data = e.data \o s
        /\ v.inbox = z /\ v.remaining = q
        /\ \A f, t, c : Body(v, f, t, c) = Body(e, f, t, c)
    <3>1. y.inbox = <<>> /\ \A t : Holding(y, t) = Body(e, e.data \o s, t, q)
      <4> DEFINE f == e.data \o s
      <4>1. y = Body(e, f, <<>>, q)
        BY <2>5
      <4> HIDE DEF y, q, f
      <4>2. y.inbox = <<>> /\ \A t : Holding(y, t) = Body(e, f, t, q)
        BY <4>1, BodyFields
      <4> QED
        BY <4>2 DEF f
    <3>2. v = Body(e, e.data \o s, z, q)
      <4> HIDE DEF y, q
      <4> QED
        BY <2>6, <3>1 DEF More
    <3> DEFINE f == e.data \o s
    <3>3. v = Body(e, f, z, q) /\ f \in Seq(Byte)
      BY <2>6, <3>2
    <3> HIDE DEF v, q, f
    <3>4. /\ v \in Engine /\ v.mode = e.mode /\ v.data = f
          /\ v.inbox = z /\ v.remaining = q
          /\ \A g, t, c : Body(v, g, t, c) = Body(e, g, t, c)
      BY <2>1, <3>3, BodyFields
    <3> QED
      BY <3>4 DEF f
  <2>8. Step(v) = Body(e, (e.data \o s) \o a, d, q - n)
    <3>1. Step(v) = Body(v, v.data \o SubSeq(v.inbox, 1, n), SubSeq(v.inbox, n + 1, Len(v.inbox)), v.remaining - n)
      <4>1. n = IF v.remaining <= Len(v.inbox) THEN v.remaining ELSE Len(v.inbox)
        <5> HIDE DEF v, q
        <5> QED
          BY <2>7
      <4> HIDE DEF v, n, q
      <4> QED
        BY <2>1, <2>7, <4>1, StepOfBody
    <3> HIDE DEF v, n, q
    <3> QED
      BY <2>7, <3>1 DEF a, d
  <2>9. Step(m) = Body(e, e.data \o (s \o a), d, r - k)
    <3>1. k = IF m.remaining <= Len(m.inbox) THEN m.remaining ELSE Len(m.inbox)
      <4> HIDE DEF m, w, r
      <4> QED
        BY <1>2, <1>4
    <3> HIDE DEF k, m, w, r
    <3>2. m.mode = "ReadingBinary" /\ m.remaining # 0
      BY <1>2, <1>4, <2>1
    <3>3. Step(m) = Body(m, m.data \o SubSeq(m.inbox, 1, k), SubSeq(m.inbox, k + 1, Len(m.inbox)), m.remaining - k)
      BY <1>2, <3>1, <3>2, StepOfBody
    <3> QED
      BY <1>2, <1>4, <1>5, <2>3, <3>3
  <2>10. (e.data \o s) \o a = e.data \o (s \o a)
    <3>1. \A f, g, h \in Seq(Byte) : (f \o g) \o h = f \o (g \o h)
      BY Together
    <3> HIDE DEF s
    <3> QED
      BY <1>1, <2>2, <3>1
  <2> HIDE DEF m, v, k, n, q
  <2>11. Step(m) = Step(v)
    BY <2>1, <2>8, <2>9, <2>10
  <2> QED
    BY <2>11 DEF m, v
<1> QED
  BY <1>6, <1>7, <1>8

-----------------------------------------------------------------------------
(* Bytes received in pieces. *)

LEMMA LineAtLimitOfRest ==
  ASSUME NEW s \in Seq(Byte), NEW k \in 0 .. Len(s),
         LineAtLimit(SubSeq(s, k + 1, Len(s)))
  PROVE  LineAtLimit(s)
<1> DEFINE d == SubSeq(s, k + 1, Len(s))
<1>1. /\ d \in Seq(Byte) /\ Len(d) = Len(s) - k
      /\ \A i \in 1 .. Len(s) - k : d[i] = s[i + k]
  BY DropFields
<1>2. Len(s) \in Nat /\ k \in Nat /\ MaxLine \in Nat /\ MaxLine # 0
  BY LenProperties, MaxLineAssumption
<1>3. PICK p \in MaxLine + 2 .. Len(d) :
         /\ d[p].sym = "LF" /\ d[p-1].sym = "CR"
         /\ \A i \in p - MaxLine - 1 .. p - 1 : d[i].sym # "LF"
  BY DEF LineAtLimit
<1> HIDE DEF d
<1> DEFINE q == p + k
<1>4. /\ q \in MaxLine + 2 .. Len(s) /\ p \in 1 .. Len(s) - k /\ p - 1 \in 1 .. Len(s) - k
      /\ q = p + k /\ q - 1 = (p - 1) + k
  BY <1>1, <1>2, <1>3
<1>5. s[q].sym = "LF" /\ s[q-1].sym = "CR"
  <2>1. d[p] = s[p + k] /\ d[p-1] = s[(p - 1) + k]
    BY <1>1, <1>4
  <2> HIDE DEF q
  <2> QED
    BY <1>3, <1>4, <2>1
<1>6. ASSUME NEW i \in q - MaxLine - 1 .. q - 1 PROVE s[i].sym # "LF"
  <2> DEFINE j == i - k
  <2>1. j \in p - MaxLine - 1 .. p - 1 /\ j \in 1 .. Len(s) - k /\ j + k = i
    BY <1>1, <1>2, <1>3, <1>4
  <2> HIDE DEF j
  <2>2. d[j].sym # "LF" /\ d[j] = s[j + k]
    BY <1>1, <1>3, <2>1
  <2> QED
    BY <2>1, <2>2
<1> HIDE DEF q
<1> QED
  BY <1>4, <1>5, <1>6 DEF LineAtLimit

\* What an engine has made of its bytes when more of them come does not show
\* in what it makes of all of them.
LEMMA AdvanceOfMore ==
  ASSUME NEW e \in Engine, NEW z \in Seq(Byte), ~ LineAtLimit(e.inbox \o z)
  PROVE  Advance(More(Advance(e), z)) = Advance(More(e, z))
<1> DEFINE g == Advance(More(e, z))
           S == {x \in Engine : ~ LineAtLimit(x.inbox \o z) /\ Advance(More(x, z)) = g}
<1>1. Len(e.inbox) \in Nat /\ e \in S
  BY LenProperties DEF Engine
<1>2. ASSUME NEW x \in S PROVE Step(x) \in S
  <2> DEFINE y == Step(x)
             s == x.inbox
  <2>1. /\ x \in Engine /\ ~ LineAtLimit(s \o z) /\ Advance(More(x, z)) = g
        /\ y \in Engine /\ s \in Seq(Byte)
    BY <1>2, StepProgress DEF Engine
  <2>2. CASE y = x
    BY <1>2, <2>2
  <2>3. CASE y # x
    <3>1. ~ LineAtLimit(y.inbox \o z)
      <4>1. PICK k \in 0 .. Len(s) : y.inbox = SubSeq(s, k + 1, Len(s))
        BY <2>1, <2>3, StepEats
      <4> HIDE DEF y, s, S, g
      <4>2. y.inbox \o z = SubSeq(s \o z, k + 1, Len(s \o z))
        BY <2>1, <4>1, DropOfConcat
      <4>3. s \o z \in Seq(Byte) /\ k \in 0 .. Len(s \o z)
        <5>1. s \o z \in Seq(Byte) /\ Len(s \o z) = Len(s) + Len(z)
          BY <2>1, ConcatProperties
        <5>2. Len(s) \in Nat /\ Len(z) \in Nat
          BY <2>1, LenProperties
        <5> QED
          BY <5>1, <5>2
      <4> QED
        BY <2>1, <4>2, <4>3, LineAtLimitOfRest
    <3>2. Advance(More(y, z)) = Advance(More(x, z))
      <4>1. More(x, z) \in Engine /\ More(y, z) \in Engine
        BY <2>1, MoreFields
      <4>2. Advance(Step(More(x, z))) = Advance(More(x, z))
        BY <4>1, AdvanceOfStep
      <4>3. Advance(Step(More(y, z))) = Advance(More(y, z))
        BY <4>1, AdvanceOfStep
      <4>4. x.mode \in Reading
        BY <2>1, <2>3, StepProgress
      <4>5. CASE x.mode \in LineMode
        <5>1. Step(More(x, z)) = More(y, z)
          BY <2>1, <2>3, <4>5, StepOfMoreLine
        <5> QED
          BY <4>2, <5>1
      <4>6. CASE x.mode = "ReadingBinary"
        <5>1. \/ Step(More(x, z)) = More(y, z)
              \/ Step(More(x, z)) = Step(More(y, z))
          BY <2>1, <4>6, StepOfMoreBody
        <5> HIDE DEF y
        <5> QED
          BY <4>2, <4>3, <5>1
      <4> QED
        BY <4>4, <4>5, <4>6 DEF Reading, InFlight, LineMode
    <3> HIDE DEF y, g
    <3>3. y \in S
      BY <2>1, <3>1, <3>2
    <3> QED
      BY <3>3 DEF y
  <2> QED
    BY <2>2, <2>3
<1> HIDE DEF S, g
<1>3. Advance(e) \in S
  BY <1>1, <1>2, AdvanceStays
<1> QED
  BY <1>3 DEF S, g

\* Receiving in two pieces.
LEMMA RecvInPieces ==
  ASSUME NEW e \in Engine, NEW a \in Seq(Byte), NEW z \in Seq(Byte),
         Recv(e, a).mode # "StreamingBody", ~ LineAtLimit(e.inbox \o (a \o z))
  PROVE  Outcome(Recv(Recv(e, a), z)) = Outcome(Recv(e, a \o z))
<1> DEFINE first == Recv(e, a)
<1>1. CASE e.mode \in Dead \cup {"StreamingBody"}
  BY <1>1 DEF Recv
<1>2. CASE e.mode \notin Dead \cup {"StreamingBody"}
  <2> DEFINE m == More(e, a)
             n == More(e, a \o z)
  <2>1. m \in Engine /\ m.inbox = e.inbox \o a /\ first = Advance(m)
    BY <1>2, MoreFields DEF Recv, More, Holding
  <2>2. a \o z \in Seq(Byte)
    BY ConcatProperties
  <2>3. Recv(e, a \o z) = Advance(n)
    BY <1>2 DEF Recv, More, Holding
  <2>4. (e.inbox \o a) \o z = e.inbox \o (a \o z)
    <3>1. e.inbox \in Seq(Byte)
      BY DEF Engine
    <3>2. \A x, y, t \in Seq(Byte) : (x \o y) \o t = x \o (y \o t)
      BY Together
    <3> QED
      BY <3>1, <3>2
  <2>5. More(m, z) = n
    <3>1. \A s, t : Holding(Holding(e, s), t) = Holding(e, t)
      BY DEF Holding, Engine
    <3> QED
      BY <2>1, <2>4, <3>1 DEF More
  <2> HIDE DEF m, n
  <2>6. Advance(More(first, z)) = Advance(n)
    BY <2>1, <2>4, <2>5, AdvanceOfMore
  <2>7. first \in Engine /\ Step(first) = first
    BY <2>1, AdvanceSettles
  <2> HIDE DEF first
  <2>8. CASE first.mode \in Dead
    <3>1. Recv(first, z) = first
      BY <2>8 DEF Recv
    <3>2. More(first, z) \in Engine /\ More(first, z).mode = first.mode
      BY <2>7, MoreFields
    <3>3. Step(More(first, z)) = More(first, z)
      BY <2>8, <3>2, StepProgress DEF Dead, Reading, InFlight
    <3>4. Advance(n) = More(first, z)
      BY <2>6, <3>2, <3>3, AdvanceRests
    <3>5. Outcome(More(first, z)) = Outcome(first)
      <4>1. More(first, z).events = first.events
        BY <2>7 DEF More, Holding, Engine
      <4> QED
        BY <2>8, <3>2, <4>1 DEF Outcome, IsTerminal
    <3> QED
      BY <2>3, <3>1, <3>4, <3>5 DEF first
  <2>9. CASE first.mode \notin Dead
    <3>1. first.mode \notin Dead \cup {"StreamingBody"}
      BY <2>9 DEF first
    <3>2. Recv(first, z) = Advance(More(first, z))
      BY <3>1 DEF Recv, More, Holding
    <3> QED
      BY <2>3, <2>6, <3>2 DEF first
  <2> QED
    BY <2>8, <2>9
<1> QED
  BY <1>1, <1>2

\* TCP may cut the stream anywhere: an engine that gets bytes in two pieces
\* comes to the mode, the events and the buffered bytes it would have come to
\* with all of them at once (client/engine.rs, recv and advance), whatever the
\* bytes, the cut and the state it is in, but for the two exceptions the
\* property names.
THEOREM CutsAreInvisible == Spec => []CutsDoNotMatter
<1>1. TypeOK => CutsDoNotMatter
  <2> SUFFICES ASSUME TypeOK, NEW c \in Chunk, NEW t \in Tag, NEW k \in 1 .. Len(c) - 1,
                      Recv(engine, SubSeq(Untagged(c, t), 1, k)).mode # "StreamingBody",
                      ~ LineAtLimit(engine.inbox \o Untagged(c, t))
               PROVE  Outcome(Recv(Recv(engine, SubSeq(Untagged(c, t), 1, k)),
                                   SubSeq(Untagged(c, t), k + 1, Len(c))))
                        = Outcome(Recv(engine, Untagged(c, t)))
    BY Zenon DEF CutsDoNotMatter
  <2> DEFINE u == Untagged(c, t)
             a == SubSeq(u, 1, k)
             z == SubSeq(u, k + 1, Len(c))
  <2>1. engine \in Engine
    BY DEF TypeOK
  <2>2. u \in Seq(Byte) /\ Len(u) = Len(c) /\ Len(c) \in Nat
    <3>1. c \in Seq(InSym)
      BY ChunkAssumption
    <3>2. Len(c) \in Nat
      BY <3>1, LenProperties
    <3>3. u \in Seq(Byte)
      BY <3>1, UntaggedIsBytes
    <3>4. Len(u) = Len(c)
      BY <3>1, <3>2 DEF Untagged
    <3> QED
      BY <3>2, <3>3, <3>4
  <2>3. ~ LineAtLimit(engine.inbox \o u) /\ Recv(engine, a).mode # "StreamingBody"
    OBVIOUS
  <2> HIDE DEF u
  <2>4. k \in 0 .. Len(u) /\ k \in 1 .. Len(u)
    BY <2>2
  <2>5. a \in Seq(Byte) /\ z \in Seq(Byte)
    <3>1. z = SubSeq(u, k + 1, Len(u))
      BY <2>2
    <3> QED
      BY <2>2, <2>4, <3>1, TakeFields, DropFields
  <2>6. a \o z = u
    <3>1. /\ 1 \in 1 .. Len(u) + 1 /\ k \in 1 - 1 .. Len(u) /\ Len(u) \in k .. Len(u)
      BY <2>2, <2>4
    <3>2. SubSeq(u, 1, k) \o SubSeq(u, k + 1, Len(u)) = SubSeq(u, 1, Len(u))
      BY <2>2, <3>1, ConcatAdjacentSubSeq
    <3>3. SubSeq(u, 1, Len(u)) = u
      BY <2>2, SubSeqFull
    <3> QED
      BY <2>2, <3>2, <3>3
  <2> HIDE DEF a, z
  <2>7. Outcome(Recv(Recv(engine, a), z)) = Outcome(Recv(engine, u))
    BY <2>1, <2>3, <2>5, <2>6, RecvInPieces
  <2> QED
    BY <2>7 DEF a, z, u
<1> QED
  BY <1>1, TypeCorrect, PTL
=============================================================================
