----------------------------- MODULE EngineCore -----------------------------
(***************************************************************************)
(* The value held by a ClientEngine (client/engine.rs) and what each of    *)
(* its methods does to that value: the sans-io state machine that frames   *)
(* an XBDM conversation.  The module has no variables, so that it can be   *)
(* driven by an arbitrary caller (ClientEngine) and by the asynchronous    *)
(* client (ClientSession).                                                 *)
(*                                                                         *)
(* The wire is a sequence of symbolic bytes.  The three digits of a status *)
(* code are one symbol, and so are the text that follows it, the two line  *)
(* terminators, and a byte that is not valid UTF-8; a binary payload may   *)
(* contain any symbol.  Every byte carries a tag the engine never reads:   *)
(* it says which conversation the byte belongs to and is used only to      *)
(* state properties.                                                       *)
(***************************************************************************)
EXTENDS Integers, Sequences, SequencesExt

CONSTANTS
  Tag,       \* ghost labels of wire bytes
  Word,      \* what a command line says, one symbol for the whole text
  MaxLine    \* MAX_LINE_LEN

ASSUME MaxLineAssumption == MaxLine \in Nat \ {0}

-----------------------------------------------------------------------------
(* Wire alphabet. *)

\* 200 stands for every status read as a one-line answer (200, 205, 206).
LineCode == {"200", "201"}
Code     == LineCode \cup {"202", "203", "204", "4xx", "unknown"}
Text     == {"dot", "text", "nonutf8"}
InSym    == Code \cup Text \cup {"CR", "LF"}

Byte    == [sym : InSym, tag : Tag]
OutByte == [sym : Word \cup {"CR", "LF"}, tag : Tag]

Untagged(s, t) == [i \in 1 .. Len(s) |-> [sym |-> s[i], tag |-> t]]

-----------------------------------------------------------------------------
(* State, HeadExpect, ClientEvent and ClientEngine. *)

Mode == {"NeedBanner", "Idle", "AwaitingHead", "ReadingMultiline",
         "ReadingBinary", "StreamingBody", "Closed", "Failed"}

Expect == {"NoBinary", "EagerBinary", "StreamBinary"}

AnswerKind == {"Line", "Multiline", "Binary", "SendBinary", "RemoteError",
               "BinaryHead"}

EventKind == AnswerKind \cup {"Connected", "Closed", "Failed"}

Event == [kind : EventKind, data : Seq(Byte)]

\* "data" collects the bytes of the answer under way (head, then lines or
\* body); "remaining" is the length an EagerBinary head will be followed by,
\* then what is left of it.  "answers" counts the answers ever produced: it
\* is history, no method reads it.
Engine == [mode : Mode, expect : Expect, remaining : Nat, data : Seq(Byte),
           inbox : Seq(Byte), outbox : Seq(OutByte), events : Seq(Event),
           answers : Nat]

NewEngine == [mode |-> "NeedBanner", expect |-> "NoBinary", remaining |-> 0,
              data |-> <<>>, inbox |-> <<>>, outbox |-> <<>>,
              events |-> <<>>, answers |-> 0]

InFlight == {"AwaitingHead", "ReadingMultiline", "ReadingBinary"}
Dead     == {"Closed", "Failed"}

IsTerminal(e) == e.mode \in Dead

Push(e, kind, data) ==
  [e EXCEPT !.events = Append(@, [kind |-> kind, data |-> data])]

\* Entering a mode that carries no data of its own drops the old mode's.
Enter(e, mode) ==
  [e EXCEPT !.mode = mode, !.expect = "NoBinary", !.remaining = 0, !.data = <<>>]

Fail(e) == Enter(Push(e, "Failed", <<>>), "Failed")

\* An answer ends the command in flight.
Answer(e, kind, data, mode) ==
  [Enter(Push(e, kind, data), mode) EXCEPT !.answers = @ + 1]

-----------------------------------------------------------------------------
(* try_take_line: one line off the front of the inbox. *)

LfAt(s) == SelectInSeq(s, LAMBDA b : b.sym = "LF")

\* Length of the line that ends with the LF at p, its CR not counted.
LineLen(s, p) == IF p > 1 /\ s[p-1].sym = "CR" THEN p - 2 ELSE p - 1

\* Without an LF the whole inbox is measured, with one only the line.
Oversize(s) ==
  LET p == LfAt(s) IN IF p = 0 THEN Len(s) > MaxLine
                               ELSE LineLen(s, p) > MaxLine

NonUtf8(line) == \E i \in 1 .. Len(line) : line[i].sym = "nonutf8"

\* try_take_line followed by the use its caller makes of the line.
WithLine(e, Use(_, _)) ==
  LET p    == LfAt(e.inbox)
      line == SubSeq(e.inbox, 1, LineLen(e.inbox, p))
      rest == [e EXCEPT !.inbox = SubSeq(@, p + 1, Len(@))]
  IN IF Oversize(e.inbox) THEN Fail(e)
     ELSE IF p = 0 THEN e
     ELSE IF NonUtf8(line) THEN Fail(rest)
     ELSE Use(rest, line)

-----------------------------------------------------------------------------
(* step: one transition, or the engine itself when it waits for input. *)

\* The status a head line shows; "malformed" when it has no status code.
HeadCode(line) ==
  IF line # <<>> /\ line[1].sym \in Code THEN line[1].sym ELSE "malformed"

OnBanner(e, line) ==
  IF HeadCode(line) = "201" THEN Enter(Push(e, "Connected", line), "Idle")
                            ELSE Fail(e)

OnBinaryHead(e, line) ==
  CASE e.expect = "NoBinary"     -> Fail(e)
    [] e.expect = "EagerBinary"  -> [e EXCEPT !.mode = "ReadingBinary", !.data = line]
    [] e.expect = "StreamBinary" -> Answer(e, "BinaryHead", line, "StreamingBody")

\* Mutant: a refused command does not end the wait for a head.
OnHeadStaysInFlight(e, line) ==
  IF HeadCode(line) = "4xx" THEN Answer(e, "RemoteError", line, "AwaitingHead")
  ELSE IF HeadCode(line) \in LineCode THEN Answer(e, "Line", line, "Idle")
  ELSE Fail(e)

OnHead(e, line) ==
  LET code == HeadCode(line)
  IN CASE code = "4xx"  -> Answer(e, "RemoteError", line, "Idle")
       [] code = "202"  -> [e EXCEPT !.mode = "ReadingMultiline", !.data = line]
       [] code = "203"  -> OnBinaryHead(e, line)
       [] code = "204"  -> Answer(e, "SendBinary", line, "Idle")
       [] code \in LineCode -> Answer(e, "Line", line, "Idle")
       [] code \in {"unknown", "malformed"} -> Fail(e)

IsDot(line) == Len(line) = 1 /\ line[1].sym = "dot"

OnBodyLine(e, line) ==
  IF IsDot(line) THEN Answer(e, "Multiline", e.data \o line, "Idle")
                 ELSE [e EXCEPT !.data = @ \o line]

StepBinary(e) ==
  LET take == IF e.remaining <= Len(e.inbox) THEN e.remaining ELSE Len(e.inbox)
  IN IF e.remaining = 0 THEN Answer(e, "Binary", e.data, "Idle")
     ELSE [e EXCEPT !.data = @ \o SubSeq(e.inbox, 1, take),
                    !.inbox = SubSeq(@, take + 1, Len(@)),
                    !.remaining = @ - take]

Step(e) ==
  CASE e.mode = "NeedBanner"       -> WithLine(e, OnBanner)
    [] e.mode = "AwaitingHead"     -> WithLine(e, OnHead)
    [] e.mode = "ReadingMultiline" -> WithLine(e, OnBodyLine)
    [] e.mode = "ReadingBinary"    -> StepBinary(e)
    [] OTHER                       -> e

\* advance: step until nothing changes.  Every step but one that ends the
\* conversation consumes a byte, so Len(inbox) + 2 of them are enough.
\* run[n] holds the one engine that n steps lead to.
Advance(e) ==
  LET last == Len(e.inbox) + 2
      run[n \in 0 .. last] == IF n = 0 THEN {e} ELSE {Step(x) : x \in run[n-1]}
  IN CHOOSE x \in run[last] : TRUE

-----------------------------------------------------------------------------
(* The methods. *)

\* Mutant: what an earlier recv left unfinished is forgotten.
RecvReplaces(e, bytes) ==
  IF e.mode \in Dead \cup {"StreamingBody"} THEN e
  ELSE Advance([e EXCEPT !.inbox = bytes])

Recv(e, bytes) ==
  IF e.mode \in Dead \cup {"StreamingBody"} THEN e
  ELSE Advance([e EXCEPT !.inbox = @ \o bytes])

\* send with a destination of n bytes; the bytes handed out are Sent(e, n).
SendLen(e, n) == IF n <= Len(e.outbox) THEN n ELSE Len(e.outbox)
Sent(e, n)    == SubSeq(e.outbox, 1, SendLen(e, n))
Send(e, n)    == [e EXCEPT !.outbox = SubSeq(@, SendLen(e, n) + 1, Len(@))]

\* Mutant: no check for an engine that is already dead.
CloseReadAlways(e) == Enter(Push(e, "Closed", <<>>), "Closed")

CloseRead(e) ==
  IF IsTerminal(e) THEN e ELSE Enter(Push(e, "Closed", <<>>), "Closed")

\* Mutant: only a dead or unconnected engine refuses a command.
CanSubmitWhileBusy(e) == e.mode \notin Dead \cup {"NeedBanner"}

\* submit, submit_streaming and expect_response return NotConnected,
\* CommandInFlight or Unusable, and change nothing, unless the engine is Idle.
CanSubmit(e) == e.mode = "Idle"

CommandLine(word, t) == Untagged(<<word, "CR", "LF">>, t)

Submit(e, word, t, expect, len) ==
  [e EXCEPT !.mode = "AwaitingHead", !.expect = expect, !.remaining = len,
            !.outbox = @ \o CommandLine(word, t)]

ExpectResponse(e) ==
  [e EXCEPT !.mode = "AwaitingHead", !.expect = "NoBinary", !.remaining = 0]

\* Mutant: the bytes handed to the caller stay in the inbox.
TakeInboxCopies(e) == e

TakeInbox(e) == [e EXCEPT !.inbox = <<>>]

\* Mutant: the state is not checked.
EndStreamAlways(e, leftover) == [e EXCEPT !.mode = "Idle", !.inbox = @ \o leftover]

EndStream(e, leftover) ==
  IF e.mode # "StreamingBody" THEN e
  ELSE [e EXCEPT !.mode = "Idle", !.inbox = @ \o leftover]

\* Mutant: the state is not checked.
AbortStreamAlways(e) == Fail(e)

AbortStream(e) == IF e.mode # "StreamingBody" THEN e ELSE Fail(e)

\* poll advances, then hands out the first event, if there is one.
Polled(e)     == Advance(e)
HasEvent(e)   == Polled(e).events # <<>>
NextEvent(e)  == Head(Polled(e).events)
Poll(e)       == [Polled(e) EXCEPT !.events = IF @ = <<>> THEN @ ELSE Tail(@)]
=============================================================================
