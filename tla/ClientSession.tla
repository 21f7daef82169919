--------------------------- MODULE ClientSession ---------------------------
(***************************************************************************)
(* One connection between a Client (client/mod.rs, with the file and       *)
(* screenshot transfers of commands/) and the console at the other end.    *)
(* A caller issues one operation after the other on the Client; each       *)
(* operation is a future that runs from one await to the next and that the *)
(* caller may drop at any await.  The transport delivers bytes in order,   *)
(* in pieces of any size, until one side closes it or it breaks.           *)
(*                                                                         *)
(* The console is external: it is modelled by the answers the client code  *)
(* is written to understand.  Every byte carries the number of the         *)
(* operation it belongs to; only the properties look at it.                *)
(***************************************************************************)
EXTENDS EngineCore

CONSTANTS
  Ops,             \* kinds of operation the caller may start
  MaxOps,          \* bound on the operations started
  Bodies,          \* payloads and line bodies the console may send
  AskedLen,        \* payload length an "eager" or a "range" command asks for
  UploadLen,       \* length a "send" declares
  ShortRanges,     \* may the console advertise another length than asked for?
  FlushMayPend,    \* may the transport's flush suspend its caller?
  AbandonUploads   \* may the caller drop a FileUpload it has not finished?

OpKind == {"line", "eager", "get", "range", "shot", "send", "bye"}

ASSUME SessionAssumption ==
  /\ Ops \subseteq OpKind /\ OpKind \cup {"payload"} \subseteq Word
  /\ MaxOps \in Nat /\ Tag = 0 .. MaxOps
  /\ Bodies \subseteq Seq(InSym)
  /\ AskedLen \in Nat /\ UploadLen \in Nat
  /\ {ShortRanges, FlushMayPend, AbandonUploads} \subseteq BOOLEAN

VARIABLES
  engine,     \* Client.engine
  op,         \* the operation under way and where it is suspended
  toConsole,  \* bytes on the wire, client to console
  toClient,   \* bytes on the wire, console to client
  link,       \* "up", "fin" (the console closed its side) or "reset"
  console,    \* what the console is doing with its input
  answer,     \* history: what the console meant to answer to each operation
  result      \* history: how the last operation ended

vars == <<engine, op, toConsole, toClient, link, console, answer, result>>

\* Where an operation is suspended: in pump_until (write, flush, read), in
\* get_file (prefix), in a FileDownload (body), in screenshot (meta, frame),
\* in a FileUpload (upload), between operations (idle), or the Client has
\* been consumed (gone).
At == {"write", "flush", "read", "prefix", "body", "meta", "frame", "upload",
       "idle", "gone"}

\* "left" counts the payload bytes still to move, "buf" holds the bytes read
\* past what the engine framed, "got" the payload received.  "careless" is
\* history: what the caller has let go of, an unfinished upload or a future
\* in a pending flush.
Op == [kind : OpKind \cup {"banner", "finish"}, at : At, id : Tag, left : Nat,
       buf : Seq(Byte), got : Seq(Byte), careless : SUBSET {"upload", "flush"}]

Console == [mode : {"command", "upload"}, left : Nat, id : Tag]

Result == [kind : OpKind \cup {"banner", "finish"}, id : Tag,
           outcome : {"ok", "remote", "err"}, data : Seq(Byte)]

Min2(a, b) == IF a <= b THEN a ELSE b

-----------------------------------------------------------------------------
(* How an operation ends. *)

\* The future is over; "e" is the engine it leaves behind.
Over(e, outcome, data, careless) ==
  /\ engine' = e
  /\ op' = [op EXCEPT !.at = IF op.kind = "bye" \/ (op.kind = "banner" /\ outcome # "ok")
                             THEN "gone" ELSE "idle",
                      !.left = 0, !.buf = <<>>, !.got = <<>>,
                      !.careless = @ \cup careless]
  /\ result' = [kind |-> op.kind, id |-> op.id, outcome |-> outcome, data |-> data]

\* It returns, or its caller drops it.
Return(e, outcome, data) == Over(e, outcome, data, {})
Dropped(careless) == Over(engine, "err", <<>>, careless)

\* The future goes on to its next await.
Await(e, next) ==
  /\ engine' = e
  /\ op' = next
  /\ UNCHANGED result

-----------------------------------------------------------------------------
(* Client::new, run, send_raw, bye, submit_streaming, get_file, send_file. *)

ExpectOf(kind) ==
  CASE kind = "eager" -> "EagerBinary"
    [] kind \in {"get", "range", "shot"} -> "StreamBinary"
    [] OTHER -> "NoBinary"

\* A start the engine rejects returns an error and changes nothing.
StartOp(kind) ==
  /\ op.at = "idle" /\ op.id < MaxOps /\ kind \in Ops
  /\ CanSubmit(engine)
  /\ engine' = Submit(engine, kind, op.id + 1, ExpectOf(kind),
                      IF kind = "eager" THEN AskedLen ELSE 0)
  /\ op' = [op EXCEPT !.kind = kind, !.at = "write", !.id = @ + 1]
  /\ UNCHANGED <<toConsole, toClient, link, console, answer, result>>

-----------------------------------------------------------------------------
(* pump_until. *)

PumpWrite ==
  /\ op.at = "write"
  /\ IF link = "reset"
     THEN /\ Return(Send(engine, Len(engine.outbox)), "err", <<>>)
          /\ UNCHANGED toConsole
     ELSE /\ toConsole' = toConsole \o engine.outbox
          /\ Await(Send(engine, Len(engine.outbox)), [op EXCEPT !.at = "flush"])
  /\ UNCHANGED <<toClient, link, console, answer>>

\* The events pump_until's predicate accepts for each operation.
Wanted(kind) ==
  CASE kind = "banner" -> {"Connected"}
    [] kind \in {"get", "range", "shot"} -> AnswerKind
    [] kind = "bye" -> (AnswerKind \ {"BinaryHead"}) \cup {"Closed"}
    [] OTHER -> AnswerKind \ {"BinaryHead"}

\* What the operation does with the event it waited for; to bye any answer is
\* as good.
OnEvent(e, ev) ==
  CASE ev.kind = "RemoteError" /\ op.kind # "bye" -> Return(e, "remote", ev.data)
    [] op.kind = "send" /\ ev.kind = "SendBinary" ->
         Await(e, [op EXCEPT !.at = "upload", !.left = UploadLen])
    [] op.kind \in {"get", "range"} /\ ev.kind = "BinaryHead" ->
         Await(TakeInbox(e), [op EXCEPT !.at = "prefix", !.buf = e.inbox])
    [] op.kind = "shot" /\ ev.kind = "BinaryHead" ->
         Await(TakeInbox(e), [op EXCEPT !.at = "meta", !.buf = e.inbox])
    [] \/ op.kind \in {"line", "bye", "banner"}
       \/ op.kind = "eager" /\ ev.kind = "Binary"
       \/ op.kind = "finish" /\ ev.kind = "Line" -> Return(e, "ok", ev.data)
    [] OTHER -> Return(e, "err", <<>>)

\* Flush, then poll until an event decides; without one, read on.  The flush has
\* no error of its own: that of a TCP stream, the library's transport, does nothing.
PumpFlush ==
  /\ op.at = "flush"
  /\ LET polled == Advance(engine)
         i == SelectInSeq(polled.events, LAMBDA ev : ev.kind \in Wanted(op.kind) \cup Dead)
         rest == [polled EXCEPT !.events = SubSeq(@, i + 1, Len(@))]
         none == [polled EXCEPT !.events = <<>>]
     IN IF i = 0
        THEN IF IsTerminal(polled) THEN Return(none, "err", <<>>)
                                   ELSE Await(none, [op EXCEPT !.at = "read"])
        ELSE IF polled.events[i].kind \in Wanted(op.kind)
             THEN OnEvent(rest, polled.events[i])
             ELSE Return(rest, "err", <<>>)
  /\ UNCHANGED <<toConsole, toClient, link, console, answer>>

PumpRead ==
  /\ op.at = "read" /\ link # "reset"
  /\ \E k \in 1 .. Len(toClient) :
       /\ Await(Recv(engine, SubSeq(toClient, 1, k)), [op EXCEPT !.at = "flush"])
       /\ toClient' = SubSeq(toClient, k + 1, Len(toClient))
  /\ UNCHANGED <<toConsole, link, console, answer>>

AtEof == link = "fin" /\ toClient = <<>>

\* Mutant: the engine is not told that the peer closed.
PumpEofUnnoticed ==
  /\ op.at = "read" /\ AtEof
  /\ Await(engine, [op EXCEPT !.at = "flush"])
  /\ UNCHANGED <<toConsole, toClient, link, console, answer>>

PumpEof ==
  /\ op.at = "read" /\ AtEof
  /\ Await(CloseRead(engine), [op EXCEPT !.at = "flush"])
  /\ UNCHANGED <<toConsole, toClient, link, console, answer>>

\* A failed read leaves the engine as it is.
PumpReadError ==
  /\ op.at = "read" /\ link = "reset"
  /\ Return(engine, "err", <<>>)
  /\ UNCHANGED <<toConsole, toClient, link, console, answer>>

-----------------------------------------------------------------------------
(* get_file: the length prefix, then the FileDownload. *)

\* The length a prefix spells is the one the console put there.
PrefixOf(b) == Len(answer[b.tag])

\* end_stream(&[]) when a ranged transfer advertises another length.
WithPrefix(b, rest) ==
  IF op.kind = "range" /\ PrefixOf(b) # AskedLen
  THEN Return(EndStream(engine, <<>>), "err", <<>>)
  ELSE Await(engine, [op EXCEPT !.at = "body", !.left = PrefixOf(b), !.buf = rest])

ReadPrefix ==
  /\ op.at = "prefix"
  /\ IF op.buf # <<>>
     THEN /\ WithPrefix(Head(op.buf), Tail(op.buf))
          /\ UNCHANGED toClient
     ELSE /\ link # "reset" /\ toClient # <<>>
          /\ WithPrefix(Head(toClient), <<>>)
          /\ toClient' = Tail(toClient)
  /\ UNCHANGED <<toConsole, link, console, answer>>

\* An error or end of file inside the prefix: end_stream(&[]).
PrefixFails ==
  /\ op.at = "prefix" /\ op.buf = <<>> /\ (link = "reset" \/ AtEof)
  /\ Return(EndStream(engine, <<>>), "err", <<>>)
  /\ UNCHANGED <<toConsole, toClient, link, console, answer>>

\* FileDownload::poll_read: what the head read captured goes first.
ReadBody ==
  /\ op.at = "body" /\ op.left > 0
  /\ IF op.buf # <<>>
     THEN \E k \in 1 .. Min2(op.left, Len(op.buf)) :
            /\ Await(engine, [op EXCEPT !.left = @ - k,
                                        !.got = @ \o SubSeq(op.buf, 1, k),
                                        !.buf = SubSeq(@, k + 1, Len(@))])
            /\ UNCHANGED toClient
     ELSE \E k \in 1 .. Min2(op.left, Len(toClient)) :
            /\ link # "reset"
            /\ Await(engine, [op EXCEPT !.left = @ - k,
                                        !.got = @ \o SubSeq(toClient, 1, k)])
            /\ toClient' = SubSeq(toClient, k + 1, Len(toClient))
  /\ UNCHANGED <<toConsole, link, console, answer>>

\* The consumers (into_vec, copy_into) drop the download at its end, and
\* FileDownload::drop gives what was read past the payload to the engine.
FinishDownload ==
  /\ op.at = "body" /\ op.left = 0
  /\ Return(EndStream(engine, op.buf), "ok", op.got)
  /\ UNCHANGED <<toConsole, toClient, link, console, answer>>

\* Mutant: the end of the stream passes for the end of the payload.
DownloadEndsShort ==
  /\ op.at = "body" /\ op.left > 0 /\ op.buf = <<>> /\ (link = "reset" \/ AtEof)
  /\ Return(AbortStream(engine), "ok", op.got)
  /\ UNCHANGED <<toConsole, toClient, link, console, answer>>

\* They also drop it when a read fails or hits the end of file ...
DownloadFails ==
  /\ op.at = "body" /\ op.left > 0 /\ op.buf = <<>> /\ (link = "reset" \/ AtEof)
  /\ Return(AbortStream(engine), "err", <<>>)
  /\ UNCHANGED <<toConsole, toClient, link, console, answer>>

\* Mutant: an abandoned download releases the engine as a finished one does.
DropDownloadReleases ==
  /\ op.at = "body" /\ op.left > 0
  /\ Return(EndStream(engine, op.buf), "err", <<>>)
  /\ UNCHANGED <<toConsole, toClient, link, console, answer>>

\* ... and so does a caller that lets go of it, or whose sink fails.
DropDownload ==
  /\ op.at = "body" /\ op.left > 0
  /\ Return(AbortStream(engine), "err", <<>>)
  /\ UNCHANGED <<toConsole, toClient, link, console, answer>>

-----------------------------------------------------------------------------
(* screenshot: a metadata line, then the framebuffer. *)

ReadMeta ==
  /\ op.at = "meta" /\ link # "reset" /\ LfAt(op.buf) = 0
  /\ \E k \in 1 .. Len(toClient) :
       /\ Await(engine, [op EXCEPT !.buf = @ \o SubSeq(toClient, 1, k)])
       /\ toClient' = SubSeq(toClient, k + 1, Len(toClient))
  /\ UNCHANGED <<toConsole, link, console, answer>>

\* "dot" stands for a line parse_metadata_line rejects.
ParseMeta ==
  /\ op.at = "meta" /\ LfAt(op.buf) > 0
  /\ LET line == SubSeq(op.buf, 1, LfAt(op.buf) - 1)
     IN IF line[1].sym = "dot"
        THEN Return(AbortStream(engine), "err", <<>>)
        ELSE Await(engine, [op EXCEPT !.at = "frame", !.left = PrefixOf(line[1]),
                                      !.buf = SubSeq(@, LfAt(@) + 1, Len(@))])
  /\ UNCHANGED <<toConsole, toClient, link, console, answer>>

ReadFrame ==
  /\ op.at = "frame" /\ op.left > 0
  /\ IF op.buf # <<>>
     THEN LET k == Min2(op.left, Len(op.buf))
          IN /\ Await(engine, [op EXCEPT !.left = @ - k,
                                         !.got = @ \o SubSeq(op.buf, 1, k),
                                         !.buf = SubSeq(@, k + 1, Len(@))])
             /\ UNCHANGED toClient
     ELSE \E k \in 1 .. Min2(op.left, Len(toClient)) :
            /\ link # "reset"
            /\ Await(engine, [op EXCEPT !.left = @ - k,
                                        !.got = @ \o SubSeq(toClient, 1, k)])
            /\ toClient' = SubSeq(toClient, k + 1, Len(toClient))
  /\ UNCHANGED <<toConsole, link, console, answer>>

FrameDone ==
  /\ op.at = "frame" /\ op.left = 0
  /\ Return(EndStream(engine, op.buf), "ok", op.got)
  /\ UNCHANGED <<toConsole, toClient, link, console, answer>>

ShotFails ==
  /\ \/ op.at = "meta" /\ LfAt(op.buf) = 0
     \/ op.at = "frame" /\ op.left > 0 /\ op.buf = <<>>
  /\ link = "reset" \/ AtEof
  /\ Return(AbortStream(engine), "err", <<>>)
  /\ UNCHANGED <<toConsole, toClient, link, console, answer>>

-----------------------------------------------------------------------------
(* FileUpload. *)

\* Mutant: the write is not clamped to what the upload has left.
WriteBodyTooFar ==
  /\ op.at = "upload" /\ op.left > 0 /\ link # "reset"
  /\ \E k \in 1 .. op.left + 1 :
       /\ toConsole' = toConsole \o [i \in 1 .. k |-> [sym |-> "payload", tag |-> op.id]]
       /\ Await(engine, [op EXCEPT !.left = @ - k])
  /\ UNCHANGED <<toClient, link, console, answer>>

WriteBody ==
  /\ op.at = "upload" /\ op.left > 0
  /\ IF link = "reset"
     THEN /\ Return(engine, "err", <<>>)
          /\ UNCHANGED toConsole
     ELSE \E k \in 1 .. op.left :
            /\ toConsole' = toConsole \o
                 [i \in 1 .. k |-> [sym |-> "payload", tag |-> op.id]]
            /\ Await(engine, [op EXCEPT !.left = @ - k])
  /\ UNCHANGED <<toClient, link, console, answer>>

\* finish: arm the engine for the console's verdict and pump.
FinishUpload ==
  /\ op.at = "upload" /\ op.left = 0
  /\ IF CanSubmit(engine)
     THEN Await(ExpectResponse(engine), [op EXCEPT !.kind = "finish", !.at = "flush"])
     ELSE Return(engine, "err", <<>>)
  /\ UNCHANGED <<toConsole, toClient, link, console, answer>>

\* FileUpload has no Drop: the engine keeps the Idle the 204 left it in.
DropUpload ==
  /\ AbandonUploads /\ op.at = "upload"
  /\ Dropped({"upload"})
  /\ UNCHANGED <<toConsole, toClient, link, console, answer>>

-----------------------------------------------------------------------------
(* The caller drops the future of the operation. *)

\* A write may have put any part of the line on the wire by then.
CancelWrite ==
  /\ op.at = "write" /\ link # "reset"
  /\ \E k \in 0 .. Len(engine.outbox) :
       toConsole' = toConsole \o SubSeq(engine.outbox, 1, k)
  /\ Return(Send(engine, Len(engine.outbox)), "err", <<>>)
  /\ UNCHANGED <<toClient, link, console, answer>>

\* Nothing runs on drop in pump_until, get_file's prefix or screenshot.
CancelRead ==
  /\ \/ op.at \in {"read", "prefix", "meta", "frame"}
     \/ op.at = "flush" /\ FlushMayPend
  /\ Dropped({"flush"} \cap {op.at})
  /\ UNCHANGED <<toConsole, toClient, link, console, answer>>

-----------------------------------------------------------------------------
(* The console (external) and the network. *)

Tagged(s, t) == toClient' = toClient \o Untagged(s, t)

\* The answers to each command: bytes on the wire, and what they mean.
Reply(kind) ==
  LET with(len) == {b \in Bodies : Len(b) = len}
      status(c) == [wire |-> <<c, "LF">>, means |-> <<c>>]
      payload(b) == [wire |-> <<"203", "LF">> \o b, means |-> <<"203">> \o b]
      prefixed(b) == [wire |-> <<"203", "LF", "text">> \o b, means |-> b]
      framed(m, b) == [wire |-> <<"203", "LF", m, "LF">> \o b, means |-> b]
      listing(b) == [wire |-> <<"202", "LF">> \o b \o <<"LF", "dot", "LF">>,
                     means |-> <<"202">> \o b \o <<"dot">>]
  IN {status("4xx"), status("unknown")} \cup
     CASE kind = "line"  -> {status("200")} \cup {listing(<<s>>) : s \in {"text", "200"}}
       [] kind = "eager" -> {payload(b) : b \in with(AskedLen)}
       [] kind = "get"   -> {prefixed(b) : b \in Bodies}
       [] kind = "range" -> {prefixed(b) : b \in IF ShortRanges THEN Bodies ELSE with(AskedLen)}
       [] kind = "shot"  -> {framed(m, b) : m \in {"text", "dot"}, b \in Bodies}
       [] kind = "send"  -> {status("204")}
       [] kind = "bye"   -> {status("200")}
       [] OTHER          -> {}

\* A complete line is executed; text that is no command is refused.
ConsoleAnswers ==
  /\ link = "up" /\ console.mode = "command" /\ LfAt(toConsole) > 0
  /\ LET p == LfAt(toConsole)
         t == toConsole[p].tag
         kind == IF p = 3 /\ toConsole[1].sym \in OpKind THEN toConsole[1].sym ELSE "none"
     IN \E r \in Reply(kind) :
          /\ Tagged(r.wire, t)
          /\ answer' = [answer EXCEPT ![t] = r.means]
          /\ toConsole' = SubSeq(toConsole, p + 1, Len(toConsole))
          /\ console' = IF r.wire[1] = "204"
                        THEN [mode |-> "upload", left |-> UploadLen, id |-> t]
                        ELSE console
          /\ link' = IF kind = "bye" THEN "fin" ELSE link
  /\ UNCHANGED <<engine, op, result>>

\* In upload mode every byte is payload, until the declared length is there.
ConsoleStores ==
  /\ link = "up" /\ console.mode = "upload"
  /\ LET k == Min2(console.left, Len(toConsole))
     IN /\ toConsole' = SubSeq(toConsole, k + 1, Len(toConsole))
        /\ IF k < console.left
           THEN /\ k > 0
                /\ console' = [console EXCEPT !.left = @ - k]
                /\ UNCHANGED <<toClient, answer>>
           ELSE /\ console' = [console EXCEPT !.mode = "command", !.left = 0]
                /\ \E c \in {"200", "4xx"} :
                     /\ Tagged(<<c, "LF">>, console.id)
                     /\ answer' = [answer EXCEPT ![console.id] = <<c>>]
  /\ UNCHANGED <<engine, op, link, result>>

\* The console goes away: what it sent may be cut anywhere.
ConsoleCloses ==
  /\ link = "up"
  /\ link' = "fin"
  /\ \E k \in 0 .. Len(toClient) : toClient' = SubSeq(toClient, 1, k)
  /\ UNCHANGED <<engine, op, toConsole, console, answer, result>>

LinkBreaks ==
  /\ link # "reset"
  /\ link' = "reset"
  /\ toClient' = <<>>
  /\ UNCHANGED <<engine, op, toConsole, console, answer, result>>

-----------------------------------------------------------------------------

\* The console greets with the banner, or refuses the connection with a 4xx.
Init ==
  /\ engine = NewEngine
  /\ op = [kind |-> "banner", at |-> "flush", id |-> 0, left |-> 0,
           buf |-> <<>>, got |-> <<>>, careless |-> {}]
  /\ toConsole = <<>>
  /\ \E c \in {"201", "4xx"} : /\ toClient = Untagged(<<c, "LF">>, 0)
                               /\ answer = [t \in Tag |-> IF t = 0 THEN <<c>> ELSE <<>>]
  /\ link = "up"
  /\ console = [mode |-> "command", left |-> 0, id |-> 0]
  /\ result = [kind |-> "banner", id |-> 0, outcome |-> "err", data |-> <<>>]

\* What the executor runs once it is polled.
ClientStep ==
  \/ PumpWrite \/ PumpFlush \/ PumpRead \/ PumpEof \/ PumpReadError
  \/ ReadPrefix \/ PrefixFails \/ ReadBody \/ FinishDownload \/ DownloadFails
  \/ ReadMeta \/ ParseMeta \/ ReadFrame \/ FrameDone \/ ShotFails
  \/ WriteBody \/ FinishUpload

CallerStep ==
  \/ \E kind \in Ops : StartOp(kind)
  \/ DropDownload \/ DropUpload \/ CancelWrite \/ CancelRead

ConsoleStep == ConsoleAnswers \/ ConsoleStores

Next == ClientStep \/ CallerStep \/ ConsoleStep \/ ConsoleCloses \/ LinkBreaks

Spec == Init /\ [][Next]_vars

\* A polled future runs and the console serves its input; nothing makes the
\* caller start, drop or finish anything, nor the network fail.
FairSpec == Spec /\ WF_vars(ClientStep) /\ WF_vars(ConsoleStep)

-----------------------------------------------------------------------------
(* Invariants.  Most of them end with the first carelessness: what an      *)
(* abandoned upload or a future dropped in a pending flush does to them is *)
(* described in README.md.                                                 *)

\* An operation that reports an answer reports exactly what the console
\* answered to that operation: nothing of another answer, nothing missing,
\* nothing out of order, however the stream was cut, whatever was dropped
\* or lost before, and whatever the payload looks like.
AnswersAreExact ==
  (result.outcome # "err" /\ op.careless = {}) => result.data = Untagged(answer[result.id], result.id)

\* While a command awaits its head, every byte in the engine's inbox and on
\* the wire belongs to that command: no byte of an earlier body can be read
\* as its response head ("would let the next command parse body bytes as a
\* response head", client/engine.rs, abort_stream).
HeadIsOwn ==
  (engine.mode = "AwaitingHead" /\ op.careless = {}) =>
    \A i \in 1 .. Len(engine.inbox \o toClient) :
      (engine.inbox \o toClient)[i].tag = op.id

\* Between operations a usable client is in step with the console: nothing
\* buffered, nothing on the wire either way, no event left to poll, and a
\* console that reads commands.
QuietWhenIdle ==
  op.at = "idle" /\ engine.mode = "Idle" /\ link # "reset" /\ op.careless = {} =>
    /\ engine.inbox = <<>> /\ engine.outbox = <<>> /\ engine.events = <<>>
    /\ toClient = <<>> /\ toConsole = <<>>
    /\ console.mode = "command"

\* What the caller sends as payload is stored, never run: while the console
\* reads commands, no payload byte is on its way to it.
PayloadNeverExecuted ==
  (console.mode = "command" /\ op.careless = {}) =>
    \A i \in 1 .. Len(toConsole) : toConsole[i].sym # "payload"

\* What the caller sends as a command is run, never stored in a file: while
\* the console stores an upload, every byte on its way is payload of it.
CommandsNeverStored ==
  (console.mode = "upload" /\ op.careless = {}) =>
    \A i \in 1 .. Len(toConsole) :
      toConsole[i] = [sym |-> "payload", tag |-> console.id]

\* Over a transport whose flush may suspend, a caller that drops futures but
\* abandons no upload is never shown a mixture: what it gets is the whole
\* answer to one operation, if not to its own: the one the console last gave
\* it, or the invitation to upload that came before its verdict.  After an
\* abandoned upload not even this is left, once two more operations follow.
AnswersAreWhole ==
  (result.outcome # "err" /\ "upload" \notin op.careless) =>
    \E t \in Tag : result.data \in {Untagged(answer[t], t), Untagged(<<"204">>, t)}

-----------------------------------------------------------------------------
(* Liveness. *)

\* With a console that answers, every operation comes to an end: client and
\* console never wait for each other.
OperationsEnd ==
  (op.at \notin {"idle", "gone"} /\ op.careless = {}) ~> op.at \in {"idle", "gone"}
=============================================================================
