---------------------------- MODULE ClientEngine ----------------------------
(***************************************************************************)
(* A ClientEngine in the hands of an arbitrary caller: any public method,  *)
(* in any order, with any bytes.  The type is public (client/mod.rs        *)
(* exports it for callers that own their socket), so nothing here assumes  *)
(* the discipline of the asynchronous Client.                              *)
(***************************************************************************)
EXTENDS EngineCore

CONSTANTS
  Chunk,      \* sequences of InSym a recv or an end_stream may carry
  BodyLen,    \* body lengths an EagerBinary submit may announce
  Buffer,     \* sizes of the buffer handed to send
  MaxFed,     \* bound on the bytes fed to the engine
  MaxAsked    \* bound on the commands submitted

ASSUME ChunkAssumption == Chunk \subseteq Seq(InSym)
ASSUME BodyLenAssumption == BodyLen \subseteq Nat
ASSUME BufferAssumption == Buffer \subseteq Nat
ASSUME BoundAssumption == MaxFed \in Nat /\ MaxAsked \in Nat

VARIABLES
  engine,
  asked,     \* history: submits and expect_responses that were accepted
  fed,       \* history: number of bytes fed
  pulled     \* history: kinds of the events poll has handed out

vars == <<engine, asked, fed, pulled>>

-----------------------------------------------------------------------------

Init ==
  /\ engine = NewEngine
  /\ asked = 0
  /\ fed = 0
  /\ pulled = <<>>

RecvBytes ==
  \E c \in Chunk, t \in Tag :
    /\ fed + Len(c) <= MaxFed
    /\ engine' = Recv(engine, Untagged(c, t))
    /\ fed' = fed + Len(c)
    /\ UNCHANGED <<asked, pulled>>

SendBytes ==
  \E n \in Buffer :
    /\ engine' = Send(engine, n)
    /\ UNCHANGED <<asked, fed, pulled>>

CloseReadSide ==
  /\ engine' = CloseRead(engine)
  /\ UNCHANGED <<asked, fed, pulled>>

\* A rejected submit returns a SubmitError and leaves the engine alone.
SubmitCommand ==
  \E w \in Word, t \in Tag, x \in Expect, n \in BodyLen :
    /\ asked < MaxAsked
    /\ CanSubmit(engine)
    /\ engine' = Submit(engine, w, t, x, IF x = "EagerBinary" THEN n ELSE 0)
    /\ asked' = asked + 1
    /\ UNCHANGED <<fed, pulled>>

ArmForResponse ==
  /\ asked < MaxAsked
  /\ CanSubmit(engine)
  /\ engine' = ExpectResponse(engine)
  /\ asked' = asked + 1
  /\ UNCHANGED <<fed, pulled>>

TakeInboxBytes ==
  /\ engine' = TakeInbox(engine)
  /\ UNCHANGED <<asked, fed, pulled>>

EndStreaming ==
  \E c \in Chunk \cup {<<>>}, t \in Tag :
    /\ fed + Len(c) <= MaxFed
    /\ engine' = EndStream(engine, Untagged(c, t))
    /\ fed' = fed + Len(c)
    /\ UNCHANGED <<asked, pulled>>

AbortStreaming ==
  /\ engine' = AbortStream(engine)
  /\ UNCHANGED <<asked, fed, pulled>>

PollEvent ==
  /\ engine' = Poll(engine)
  /\ pulled' = IF HasEvent(engine) THEN Append(pulled, NextEvent(engine).kind)
                                   ELSE pulled
  /\ UNCHANGED <<asked, fed>>

Next ==
  \/ RecvBytes
  \/ SendBytes
  \/ CloseReadSide
  \/ SubmitCommand
  \/ ArmForResponse
  \/ TakeInboxBytes
  \/ EndStreaming
  \/ AbortStreaming
  \/ PollEvent

Spec == Init /\ [][Next]_vars

-----------------------------------------------------------------------------
(* Invariants. *)

\* The engine value keeps its shape and the history counters stay counters.
TypeOK ==
  /\ engine \in Engine
  /\ asked \in Nat
  /\ fed \in Nat
  /\ pulled \in Seq(EventKind)

\* Whatever the peer sends and however the caller mixes the methods, every
\* accepted command owns at most one answer: while the session lives, the
\* number of commands is the number of answers, plus one exactly when a
\* command is in flight; once it is dead at most one answer is missing.
OneAnswerEach ==
  IF IsTerminal(engine)
  THEN asked - engine.answers \in {0, 1}
  ELSE asked = engine.answers + (IF engine.mode \in InFlight THEN 1 ELSE 0)

\* Every event ever produced, in order: those pulled, then those queued.
Produced == pulled \o [i \in 1 .. Len(engine.events) |-> engine.events[i].kind]

\* Connected comes first and once, before any answer; Closed or Failed comes
\* last and once, after every answer; a live engine has produced neither.
EventOrder ==
  \A i \in 1 .. Len(Produced) :
    /\ Produced[i] = "Connected" => i = 1
    /\ Produced[i] \in AnswerKind => Produced[1] = "Connected"
    /\ Produced[i] \in Dead => i = Len(Produced) /\ engine.mode = Produced[i]

\* What a caller can observe of an engine after input: a dead one no longer
\* reads its inbox.
Outcome(e) == IF IsTerminal(e) THEN <<e.mode, e.events>>
                               ELSE <<e.mode, e.events, e.data, e.remaining, e.inbox>>

\* A line as long as the limit, but for its CR, which the cap counts until the
\* LF has come.
LineAtLimit(s) ==
  \E p \in MaxLine + 2 .. Len(s) :
    /\ s[p].sym = "LF" /\ s[p-1].sym = "CR"
    /\ \A i \in p - MaxLine - 1 .. p - 1 : s[i].sym # "LF"

\* TCP may cut the stream anywhere: receiving bytes in two pieces leads to the
\* same mode, events and buffered bytes as receiving them at once, unless the
\* first piece starts a streaming body (after which the bytes are the
\* caller's), and but for one length of line, where the cap tells them apart.
CutsDoNotMatter ==
  \A c \in Chunk, t \in Tag : \A k \in 1 .. Len(c) - 1 :
    LET bytes  == Untagged(c, t)
        first  == Recv(engine, SubSeq(bytes, 1, k))
        second == Recv(first, SubSeq(bytes, k + 1, Len(c)))
    IN /\ first.mode # "StreamingBody"
       /\ ~ LineAtLimit(engine.inbox \o bytes)
       => Outcome(second) = Outcome(Recv(engine, bytes))

-----------------------------------------------------------------------------
(* Action properties. *)

\* A dead engine stays dead the same way, produces nothing more, queues
\* nothing more for the peer, and only hands out what it had queued.
DeadStaysDead ==
  [][IsTerminal(engine) =>
       /\ engine'.mode = engine.mode
       /\ Produced' = Produced
       /\ Len(engine'.outbox) <= Len(engine.outbox)]_vars

\* An answer is queued only by input or a poll that finds a command in
\* flight, and then the engine is no longer in flight: one batch of bytes
\* never completes two commands, however many answers it holds.
OneAnswerPerBatch ==
  [][engine'.answers # engine.answers =>
       /\ engine'.answers = engine.answers + 1
       /\ engine.mode \in InFlight
       /\ engine'.mode \in {"Idle", "StreamingBody"}]_vars

-----------------------------------------------------------------------------
(* Refinement. *)

PhaseOf(mode) ==
  CASE mode = "NeedBanner"    -> "opening"
    [] mode = "Idle"          -> "ready"
    [] mode \in InFlight      -> "busy"
    [] mode = "StreamingBody" -> "lent"
    [] mode \in Dead          -> "dead"

Channel == INSTANCE CommandChannel WITH
             phase <- PhaseOf(engine.mode), answered <- engine.answers

\* Under any caller and any input, the engine is a CommandChannel.
ImplementsChannel == Channel!Spec
=============================================================================
