------------------------ MODULE ClientSessionProofs ------------------------
(***************************************************************************)
(* Theorems about ClientSession, for every set of operations, every        *)
(* payload, every length and every number of operations, as long as the    *)
(* console advertises the length a ranged transfer asked for.              *)
(*                                                                         *)
(* The argument follows what is on its way to the client, the bytes in the *)
(* engine's inbox and those on the wire behind them: it is always a cut of *)
(* what is still to come of the one reply the operation waits for, in the  *)
(* form the engine's mode reads.  So the engine is through with a reply    *)
(* exactly when nothing of it is left.                                     *)
(*                                                                         *)
(* That an answer is the one the console gave takes a second layer (Told): *)
(* what the engine and the transfer have collected of the reply, followed  *)
(* by what is still to come of it, is that answer.                         *)
(*                                                                         *)
(* Both end with the first carelessness.  After a future dropped in a      *)
(* pending flush a third takes over (Astray): what is left in the engine   *)
(* for an operation that did not ask are whole answers, and whoever takes  *)
(* one leaves the engine waiting for a head, with nobody to read on.       *)
(***************************************************************************)
EXTENDS ClientSession, EngineCoreProofs

-----------------------------------------------------------------------------
(* What a reply looks like, cut anywhere, to an engine in each mode: "s"   *)
(* is what is left of it, "k" the kind of the operation, "t" its number,   *)
(* "n" the length of the payload the console meant.                        *)

Own(s, t) == \A i \in 1 .. Len(s) : s[i].tag = t

\* A status line, and no more.
StatusFits(s) ==
  /\ Len(s) <= 2
  /\ 1 <= Len(s) => s[1].sym \in {"200", "201", "4xx"}
  /\ 2 <= Len(s) => s[2].sym = "LF"

\* The lines of a listing, or its last one.
ListFits(s) ==
  /\ Len(s) <= 4
  /\ 1 <= Len(s) => s[1].sym \in {"text", "200", "dot"}
  /\ 2 <= Len(s) => s[2].sym = "LF"
  /\ 3 <= Len(s) => s[1].sym # "dot" /\ s[3].sym = "dot"
  /\ 4 <= Len(s) => s[4].sym = "LF"

Streamed == {"get", "range", "shot"}

\* A length prefix or a metadata line, and the payload.
StreamFits(s, k, t, n) ==
  /\ k \in Streamed /\ Own(s, t)
  /\ k \in {"get", "range"} => Len(s) <= n + 1
  /\ k = "range" => n = AskedLen
  /\ k = "shot" => /\ Len(s) <= n + 2
                   /\ 1 <= Len(s) => s[1].sym \in {"text", "dot"}
                   /\ 2 <= Len(s) => s[2].sym = "LF"

Rest(s) == SubSeq(s, 3, Len(s))

\* A whole reply: the head, and what the head says will follow.  The verdict
\* on an empty upload may follow the invitation at once.
HeadFits(s, k, t, n) ==
  /\ k \in OpKind \cup {"finish"}
  /\ 2 <= Len(s) => s[2].sym = "LF"
  /\ 1 <= Len(s) =>
       /\ s[1].sym \in Code
       /\ s[1].sym = "202" => k = "line" /\ ListFits(Rest(s))
       /\ s[1].sym = "203" => IF k = "eager" THEN Len(s) <= AskedLen + 2
                                             ELSE StreamFits(Rest(s), k, t, n)
       /\ s[1].sym = "204" => /\ k = "send" /\ StatusFits(Rest(s))
                              /\ 3 <= Len(s) => UploadLen = 0
       /\ s[1].sym \notin {"202", "203", "204"} => Len(s) <= 2

\* An engine that waits for, reads, or has just read the answer.
Fits(e, r, k, t, n) ==
  /\ e.mode \in Reading => e.events = <<>> /\ Own(r, t)
  /\ e.mode = "NeedBanner" => k = "banner" /\ StatusFits(r)
  /\ e.mode = "AwaitingHead" => /\ HeadFits(r, k, t, n)
                                /\ e.expect = ExpectOf(k)
                                /\ k = "eager" => e.remaining = AskedLen
  /\ e.mode = "ReadingMultiline" => k = "line" /\ ListFits(r)
  /\ e.mode = "ReadingBinary" => k = "eager" /\ Len(r) <= e.remaining
  /\ e.mode = "Idle" =>
       /\ Len(e.events) = 1 /\ e.events[1].kind \in Wanted(k) \ {"BinaryHead", "Closed"}
       /\ IF e.events[1].kind = "SendBinary"
          THEN /\ k = "send" /\ StatusFits(r) /\ Own(r, t)
               /\ r # <<>> => UploadLen = 0
          ELSE r = <<>>
  /\ e.mode = "StreamingBody" => /\ Len(e.events) = 1 /\ e.events[1].kind = "BinaryHead"
                                 /\ StreamFits(r, k, t, n)
  /\ e.mode \in Dead => \A i \in 1 .. Len(e.events) : e.events[i].kind \in Dead

-----------------------------------------------------------------------------
(* The console at the same time: "q" is what is on its way to it, "c" the  *)
(* console, "l" the link.                                                  *)

Quiet(q, c) == q = <<>> /\ c.mode = "command"

\* It has invited an upload (an empty one may be over already).
Invited(r, t, q, c) ==
  /\ q = <<>>
  /\ IF c.mode = "upload" THEN c.id = t /\ c.left = UploadLen /\ r = <<>>
                          ELSE UploadLen = 0

\* It has the command to read, or the upload to store, or it has answered.
Asking(r, k, t, q, c, l) ==
  /\ c.mode = "upload" =>
       /\ c.id = t /\ k \in {"send", "finish"}
       /\ k = "send" => /\ q = <<>> /\ c.left = UploadLen
                        /\ Len(r) <= 2 /\ (l = "up" => Len(r) = 2)
  /\ c.mode = "command" /\ q # <<>> => Own(q, t) /\ q[1].sym = k
  /\ r # <<>> => /\ q = <<>>
                 /\ r[1].sym # "204" => c.mode = "command"
                 /\ r[1].sym = "204" /\ c.mode = "command" => UploadLen = 0

Wire(e, r, k, t, q, c, l) ==
  l # "reset" =>
    /\ e.mode = "AwaitingHead" => Asking(r, k, t, q, c, l)
    /\ e.mode = "Idle" => IF e.events[1].kind = "SendBinary" THEN Invited(r, t, q, c)
                                                            ELSE Quiet(q, c)
    /\ e.mode \in {"NeedBanner", "ReadingMultiline", "ReadingBinary", "StreamingBody"} =>
         Quiet(q, c)

-----------------------------------------------------------------------------
(* What is left of a reply, cut shorter. *)

LEMMA RestFields ==
  ASSUME NEW S, NEW s \in Seq(S)
  PROVE  /\ Rest(s) \in Seq(S)
         /\ Len(Rest(s)) = IF 2 <= Len(s) THEN Len(s) - 2 ELSE 0
         /\ \A i \in 1 .. Len(Rest(s)) : Rest(s)[i] = s[i + 2]
<1>1. Len(s) \in Nat
  BY LenProperties
<1>2. CASE 2 <= Len(s)
  <2> DEFINE k == 2
  <2>1. k \in 0 .. Len(s)
    BY <1>1, <1>2
  <2> HIDE DEF k
  <2>2. /\ SubSeq(s, k + 1, Len(s)) \in Seq(S)
        /\ Len(SubSeq(s, k + 1, Len(s))) = Len(s) - k
        /\ \A i \in 1 .. Len(s) - k : SubSeq(s, k + 1, Len(s))[i] = s[i + k]
    BY <2>1, DropFields
  <2>3. k = 2 /\ k + 1 = 3
    BY DEF k
  <2> QED
    BY <1>2, <2>2, <2>3 DEF Rest
<1>3. CASE Len(s) < 2
  <2>1. Rest(s) = <<>>
    BY <1>1, <1>3, SubSeqEmpty DEF Rest
  <2> QED
    BY <1>1, <1>3, <2>1, EmptySeq
<1> QED
  BY <1>1, <1>2, <1>3

-----------------------------------------------------------------------------
(* Reading the reply: no step of the engine leaves the cut it reads.       *)

\* The engine e with w on the wire behind it.
Sound(e, w, k, t, n, q, c, l) ==
  /\ e \in Engine
  /\ Fits(e, e.inbox \o w, k, t, n)
  /\ Wire(e, e.inbox \o w, k, t, q, c, l)

LEMMA FirstEvent ==
  ASSUME NEW ev \in Event
  PROVE  Len(Append(<<>>, ev)) = 1 /\ Append(<<>>, ev)[1] = ev
<1>1. <<>> \in Seq(Event) /\ Len(<<>>) = 0
  OBVIOUS
<1> DEFINE z == <<>>
<1>2. z \in Seq(Event) /\ Len(z) = 0
  BY <1>1
<1> HIDE DEF z
<1>3. Len(Append(z, ev)) = Len(z) + 1 /\ Append(z, ev)[Len(z) + 1] = ev
  BY <1>2, AppendProperties
<1>4. Len(Append(z, ev)) = 1 /\ Append(z, ev)[1] = ev
  BY <1>2, <1>3
<1> QED
  BY <1>4 DEF z

\* A failure fits whatever is left.
LEMMA FailIsSound ==
  ASSUME NEW e \in Engine, e.events = <<>>,
         NEW w, NEW k, NEW t, NEW n, NEW q, NEW c, NEW l
  PROVE  Sound(Fail(e), w, k, t, n, q, c, l)
<1> DEFINE ev == [kind |-> "Failed", data |-> <<>>]
           x  == Fail(e)
<1>1. ev \in Event /\ ev.kind = "Failed"
  BY DEF Event, EventKind
<1>2. x \in Engine /\ x.mode = "Failed" /\ x.events = Append(<<>>, ev)
  BY FailFields
<1> HIDE DEF ev, x
<1>3. Len(x.events) = 1 /\ x.events[1].kind = "Failed"
  BY <1>1, <1>2, FirstEvent
<1>4. Sound(x, w, k, t, n, q, c, l)
  BY <1>2, <1>3 DEF Sound, Fits, Wire, Reading, InFlight, Dead
<1> QED
  BY <1>4 DEF x

\* An answer after which nothing is left.
LEMMA LastAnswerIsSound ==
  ASSUME NEW e \in Engine, e.events = <<>>, NEW data \in Seq(Byte),
         NEW kind \in {"Line", "Multiline", "Binary", "RemoteError"},
         NEW w, NEW k, NEW t, NEW n, NEW q, NEW c, NEW l,
         k # "banner", e.inbox \o w = <<>>, l # "reset" => Quiet(q, c)
  PROVE  Sound(Answer(e, kind, data, "Idle"), w, k, t, n, q, c, l)
<1> DEFINE ev == [kind |-> kind, data |-> data]
           x  == Answer(e, kind, data, "Idle")
<1>1. ev \in Event /\ ev.kind = kind /\ kind \in AnswerKind /\ "Idle" \in Mode
  BY DEF Event, EventKind, AnswerKind, Mode
<1>2. x \in Engine /\ x.mode = "Idle" /\ x.events = Append(<<>>, ev) /\ x.inbox = e.inbox
  BY <1>1, AnswerFields
<1> HIDE DEF ev, x
<1>3. Len(x.events) = 1 /\ x.events[1].kind = kind
  BY <1>1, <1>2, FirstEvent
<1>4. kind \in Wanted(k) \ {"BinaryHead", "Closed"}
  BY <1>1 DEF Wanted, AnswerKind
<1>5. Sound(x, w, k, t, n, q, c, l)
  BY <1>2, <1>3, <1>4 DEF Sound, Fits, Wire, Reading, InFlight, Dead
<1> QED
  BY <1>5 DEF x

\* A line of one symbol that the engine takes off what is left.
LEMMA TakesOneSymbol ==
  ASSUME NEW s \in Seq(Byte), NEW w \in Seq(Byte), LfAt(s) # 0,
         1 <= Len(s \o w) => (s \o w)[1].sym \notin {"LF", "CR"},
         2 <= Len(s \o w) => (s \o w)[2].sym = "LF"
  PROVE  LET line == SubSeq(s, 1, LineLen(s, LfAt(s)))
             r    == s \o w
         IN /\ LfAt(s) = 2 /\ 2 <= Len(r)
            /\ line \in Seq(Byte) /\ Len(line) = 1 /\ line[1] = r[1]
            /\ SubSeq(s, LfAt(s) + 1, Len(s)) \o w = Rest(r)
<1> DEFINE r == s \o w
           p == LfAt(s)
<1>1. Len(s) \in Nat /\ Len(w) \in Nat
  BY LenProperties
<1>2. /\ r \in Seq(Byte) /\ Len(r) = Len(s) + Len(w)
      /\ \A i \in 1 .. Len(s) + Len(w) : r[i] = IF i <= Len(s) THEN s[i] ELSE w[i - Len(s)]
  BY ConcatProperties
<1>3. \A i \in 1 .. Len(s) : r[i] = s[i]
  BY <1>1, <1>2
<1>4. p \in 0 .. Len(s) /\ (p # 0 => s[p].sym = "LF")
  BY <1>1, LfAtIsFirst
<1>5. (1 <= Len(r) => r[1].sym \notin {"LF", "CR"}) /\ (2 <= Len(r) => r[2].sym = "LF")
  OBVIOUS
<1>6. p # 0
  OBVIOUS
<1> HIDE DEF r, p
<1>7. 2 <= Len(s) /\ s[1].sym \notin {"LF", "CR"} /\ s[2].sym = "LF"
  <2>1. 1 <= Len(s) /\ s[1].sym \notin {"LF", "CR"}
    BY <1>1, <1>2, <1>3, <1>4, <1>5, <1>6
  <2>2. p # 1
    BY <1>4, <2>1
  <2>3. 2 <= Len(s)
    BY <1>1, <1>4, <1>6, <2>2
  <2> QED
    BY <1>1, <1>2, <1>3, <1>5, <2>1, <2>3
<1>8. p = 2
  <2>1. 2 \in 1 .. Len(s) /\ \A i \in 1 .. 2 - 1 : s[i].sym # "LF"
    BY <1>1, <1>7
  <2> QED
    BY <1>1, <1>7, <2>1, LfAtFound DEF p
<1>9. LineLen(s, p) = 1
  BY <1>7, <1>8 DEF LineLen
<1>10. /\ SubSeq(s, 1, 1) \in Seq(Byte) /\ Len(SubSeq(s, 1, 1)) = 1
       /\ SubSeq(s, 1, 1)[1] = s[1]
  <2>1. 1 \in 0 .. Len(s)
    BY <1>1, <1>7
  <2> QED
    BY <2>1, TakeFields
<1>11. SubSeq(s, p + 1, Len(s)) \o w = SubSeq(r, p + 1, Len(r))
  <2>1. p \in 0 .. Len(s)
    BY <1>4
  <2> QED
    BY <2>1, DropOfConcat DEF r
<1>12. p + 1 = 3
  BY <1>8
<1>13. SubSeq(s, p + 1, Len(s)) \o w = Rest(r)
  BY <1>11, <1>12 DEF Rest
<1>14. 2 <= Len(r) /\ r[1] = s[1]
  BY <1>1, <1>2, <1>3, <1>7
<1> QED
  BY <1>8, <1>9, <1>10, <1>13, <1>14 DEF p, r

\* Of a mode's own fields, taking a line off the inbox keeps all.
LEMMA TakenFields ==
  ASSUME NEW e \in Engine, NEW i \in Seq(Byte)
  PROVE  LET x == [e EXCEPT !.inbox = i]
         IN /\ x \in Engine /\ x.inbox = i /\ x.mode = e.mode /\ x.events = e.events
            /\ x.outbox = e.outbox /\ x.data = e.data
            /\ x.expect = e.expect /\ x.remaining = e.remaining
BY DEF Engine

LEMMA BannerStepIsSound ==
  ASSUME NEW e, NEW w \in Seq(Byte), NEW k, NEW t, NEW n, NEW q, NEW c, NEW l,
         Sound(e, w, k, t, n, q, c, l), e.mode = "NeedBanner"
  PROVE  Sound(Step(e), w, k, t, n, q, c, l)
<1> DEFINE s    == e.inbox
           r    == s \o w
           p    == LfAt(s)
           line == SubSeq(s, 1, LineLen(s, p))
           i    == SubSeq(s, p + 1, Len(s))
           rest == [e EXCEPT !.inbox = i]
<1>1. e \in Engine /\ s \in Seq(Byte) /\ r \in Seq(Byte) /\ Len(r) \in Nat
  BY ConcatProperties, LenProperties DEF Sound, Engine
<1>2. /\ e.events = <<>> /\ k = "banner" /\ StatusFits(r)
      /\ l # "reset" => Quiet(q, c)
  BY DEF Sound, Fits, Wire, Reading
<1>3. Step(e) = IF Oversize(s) THEN Fail(e) ELSE IF p = 0 THEN e
                ELSE IF NonUtf8(line) THEN Fail(rest) ELSE OnBanner(rest, line)
  BY DEF Step, WithLine
<1>4. Sound(Fail(e), w, k, t, n, q, c, l)
  BY <1>1, <1>2, FailIsSound
<1>5. ASSUME p # 0
      PROVE  /\ p = 2 /\ 2 <= Len(r) /\ line \in Seq(Byte) /\ Len(line) = 1 /\ line[1] = r[1]
             /\ i \o w = Rest(r) /\ i \in Seq(Byte)
  <2>1. (1 <= Len(r) => r[1].sym \notin {"LF", "CR"}) /\ (2 <= Len(r) => r[2].sym = "LF")
    BY <1>2 DEF StatusFits
  <2>2. p \in 0 .. Len(s)
    BY <1>1, LenProperties, LfAtIsFirst
  <2>3. i \in Seq(Byte)
    BY <1>1, <2>2, DropFields
  <2> QED
    BY <1>1, <1>5, <2>1, <2>3, TakesOneSymbol
<1>6. ASSUME p # 0
      PROVE  /\ rest \in Engine /\ rest.events = <<>> /\ rest.inbox = i
             /\ Sound(Fail(rest), w, k, t, n, q, c, l)
             /\ Sound(OnBanner(rest, line), w, k, t, n, q, c, l)
  <2>1. rest \in Engine /\ rest.events = <<>> /\ rest.inbox = i
    BY <1>1, <1>2, <1>5, <1>6, TakenFields
  <2>2. line \in Seq(Byte) /\ i \o w = Rest(r)
    BY <1>5, <1>6
  <2> HIDE DEF rest, line
  <2>3. Sound(Fail(rest), w, k, t, n, q, c, l)
    BY <2>1, FailIsSound
  <2>4. CASE HeadCode(line) = "201"
    <3> DEFINE ev == [kind |-> "Connected", data |-> line]
               y  == Push(rest, "Connected", line)
               x  == Enter(y, "Idle")
    <3>1. "Connected" \in EventKind /\ "Idle" \in Mode /\ ev \in Event /\ ev.kind = "Connected"
      BY <2>2 DEF EventKind, Mode, Event
    <3>2. y \in Engine /\ y.inbox = i /\ y.events = Append(<<>>, ev)
      BY <2>1, <2>2, <3>1, PushFields
    <3> HIDE DEF y, ev
    <3>3. x \in Engine /\ x.mode = "Idle" /\ x.inbox = i /\ x.events = Append(<<>>, ev)
      BY <3>1, <3>2, EnterFields
    <3> HIDE DEF x, i
    <3>4. Len(x.events) = 1 /\ x.events[1].kind = "Connected"
      BY <3>1, <3>3, FirstEvent
    <3>5. Rest(r) = <<>>
      <4> HIDE DEF r
      <4>1. Len(Rest(r)) = 0 /\ Rest(r) \in Seq(Byte)
        BY <1>1, <1>2, RestFields DEF StatusFits
      <4> QED
        BY <4>1, EmptySeq
    <3>6. Sound(x, w, k, t, n, q, c, l)
      <4>1. x.inbox \o w = <<>>
        BY <2>2, <3>3, <3>5
      <4>2. "Connected" \in Wanted(k) \ {"BinaryHead", "Closed"}
        BY <1>2 DEF Wanted
      <4> QED
        BY <1>2, <3>3, <3>4, <4>1, <4>2 DEF Sound, Fits, Wire, Reading, InFlight, Dead
    <3> QED
      BY <2>1, <2>3, <2>4, <3>6 DEF OnBanner, x, y
  <2>5. CASE HeadCode(line) # "201"
    BY <2>1, <2>3, <2>5 DEF OnBanner
  <2> QED
    BY <2>1, <2>3, <2>4, <2>5
<1> HIDE DEF rest, line, p, i
<1> QED
  BY <1>3, <1>4, <1>6

\* The line an engine takes off, and what it leaves.
LEMMA TakesLine ==
  ASSUME NEW e \in Engine, NEW w \in Seq(Byte), LfAt(e.inbox) # 0,
         1 <= Len(e.inbox \o w) => (e.inbox \o w)[1].sym \notin {"LF", "CR"},
         2 <= Len(e.inbox \o w) => (e.inbox \o w)[2].sym = "LF"
  PROVE  LET p    == LfAt(e.inbox)
             line == SubSeq(e.inbox, 1, LineLen(e.inbox, p))
             rest == [e EXCEPT !.inbox = SubSeq(@, p + 1, Len(@))]
             r    == e.inbox \o w
         IN /\ 2 <= Len(r) /\ line \in Seq(Byte) /\ Len(line) = 1 /\ line[1] = r[1]
            /\ rest \in Engine /\ rest.inbox \o w = Rest(r)
            /\ rest.mode = e.mode /\ rest.events = e.events /\ rest.data = e.data
            /\ rest.expect = e.expect /\ rest.remaining = e.remaining
            /\ rest.outbox = e.outbox
<1> DEFINE s == e.inbox
           i == SubSeq(s, LfAt(s) + 1, Len(s))
<1>1. s \in Seq(Byte) /\ LfAt(s) \in 0 .. Len(s)
  BY LenProperties, LfAtIsFirst DEF Engine
<1>2. i \in Seq(Byte)
  BY <1>1, DropFields
<1>3. i \o w = Rest(s \o w)
  BY <1>1, TakesOneSymbol
<1>4. LET line == SubSeq(s, 1, LineLen(s, LfAt(s)))
      IN 2 <= Len(s \o w) /\ line \in Seq(Byte) /\ Len(line) = 1 /\ line[1] = (s \o w)[1]
  BY <1>1, TakesOneSymbol
<1>5. LET x == [e EXCEPT !.inbox = i]
      IN /\ x \in Engine /\ x.inbox = i /\ x.mode = e.mode /\ x.events = e.events
         /\ x.outbox = e.outbox /\ x.data = e.data
         /\ x.expect = e.expect /\ x.remaining = e.remaining
  BY <1>2, TakenFields
<1> QED
  BY <1>3, <1>4, <1>5

LEMMA RestOfShort ==
  ASSUME NEW r \in Seq(Byte), Len(r) <= 2
  PROVE  Rest(r) = <<>>
<1>1. Len(r) \in Nat
  BY LenProperties
<1>2. Rest(r) \in Seq(Byte) /\ Len(Rest(r)) = 0
  BY <1>1, RestFields
<1> QED
  BY <1>2, EmptySeq

LEMMA RestIsOwn ==
  ASSUME NEW r \in Seq(Byte), NEW t, Own(r, t)
  PROVE  Own(Rest(r), t)
<1>1. Len(r) \in Nat
  BY LenProperties
<1>2. /\ Rest(r) \in Seq(Byte) /\ Len(Rest(r)) = IF 2 <= Len(r) THEN Len(r) - 2 ELSE 0
      /\ \A i \in 1 .. Len(Rest(r)) : Rest(r)[i] = r[i + 2]
  BY RestFields
<1>3. \A i \in 1 .. Len(Rest(r)) : i + 2 \in 1 .. Len(r)
  BY <1>1, <1>2
<1> QED
  BY <1>2, <1>3 DEF Own

LEMMA NotEmpty ==
  ASSUME NEW s \in Seq(Byte), Len(s) = 1
  PROVE  s # <<>>
<1>1. CASE s = <<>>
  <2>1. Len(s) = 0
    BY <1>1, EmptySeq
  <2> QED
    BY <2>1
<1> QED
  BY <1>1

\* The head has been read: the answer, or what else the head announces.
LEMMA HeadIsSound ==
  ASSUME NEW e \in Engine, NEW line \in Seq(Byte), NEW r \in Seq(Byte), NEW w \in Seq(Byte),
         NEW k, NEW t, NEW n, NEW q, NEW c \in Console, NEW l,
         2 <= Len(r), Len(line) = 1, line[1] = r[1], e.inbox \o w = Rest(r),
         e.mode = "AwaitingHead", Fits(e, r, k, t, n), Wire(e, r, k, t, q, c, l)
  PROVE  Sound(OnHead(e, line), w, k, t, n, q, c, l)
<1> DEFINE code == r[1].sym
           x    == OnHead(e, line)
<1>1. /\ HeadFits(r, k, t, n) /\ Own(r, t) /\ e.events = <<>>
      /\ e.expect = ExpectOf(k) /\ (k = "eager" => e.remaining = AskedLen)
  BY DEF Fits, Reading, InFlight
<1>2. l # "reset" => Asking(r, k, t, q, c, l)
  BY DEF Wire
<1>3. /\ Len(r) \in Nat /\ 1 <= Len(r) /\ r # <<>> /\ code \in Code
      /\ k \in OpKind \cup {"finish"} /\ k # "banner"
  BY <1>1, LenProperties, EmptySeq DEF HeadFits, OpKind
<1>4. HeadCode(line) = code
  <2>1. line # <<>>
    BY NotEmpty
  <2> QED
    BY <1>3, <2>1 DEF HeadCode
<1>5. l # "reset" /\ code # "204" => Quiet(q, c)
  BY <1>2, <1>3 DEF Asking, Quiet
<1>6. Own(Rest(r), t) /\ Rest(r) \in Seq(Byte)
  BY <1>1, RestIsOwn, RestFields
<1>7. CASE code = "4xx"
  <2>1. e.inbox \o w = <<>>
    BY <1>1, <1>3, <1>7, RestOfShort DEF HeadFits
  <2>2. x = Answer(e, "RemoteError", line, "Idle")
    BY <1>4, <1>7 DEF OnHead, LineCode
  <2> HIDE DEF x
  <2>3. Sound(x, w, k, t, n, q, c, l)
    BY <1>1, <1>3, <1>5, <1>7, <2>1, <2>2, LastAnswerIsSound
  <2> QED
    BY <2>3 DEF x
<1>8. CASE code \in LineCode
  <2>1. e.inbox \o w = <<>>
    BY <1>1, <1>3, <1>8, RestOfShort DEF HeadFits, LineCode
  <2>2. x = Answer(e, "Line", line, "Idle")
    BY <1>4, <1>8 DEF OnHead, LineCode
  <2> HIDE DEF x
  <2>3. Sound(x, w, k, t, n, q, c, l)
    BY <1>1, <1>3, <1>5, <1>8, <2>1, <2>2, LastAnswerIsSound DEF LineCode
  <2> QED
    BY <2>3 DEF x
<1>9. CASE code = "unknown"
  <2>1. x = Fail(e)
    BY <1>4, <1>9 DEF OnHead, LineCode
  <2> HIDE DEF x
  <2>2. Sound(x, w, k, t, n, q, c, l)
    BY <1>1, <2>1, FailIsSound
  <2> QED
    BY <2>2 DEF x
<1>10. CASE code = "202"
  <2>1. k = "line" /\ ListFits(Rest(r))
    BY <1>1, <1>3, <1>10 DEF HeadFits
  <2>2. x = [e EXCEPT !.mode = "ReadingMultiline", !.data = line]
    BY <1>4, <1>10 DEF OnHead, LineCode
  <2> HIDE DEF x
  <2>3. x \in Engine /\ x.mode = "ReadingMultiline" /\ x.events = e.events /\ x.inbox = e.inbox
    BY <2>2 DEF Engine, Mode
  <2>4. Sound(x, w, k, t, n, q, c, l)
    BY <1>1, <1>5, <1>6, <1>10, <2>1, <2>3 DEF Sound, Fits, Wire, Reading, InFlight, Dead
  <2> QED
    BY <2>4 DEF x
<1>11. CASE code = "203"
  <2>1. x = OnBinaryHead(e, line)
    BY <1>4, <1>11 DEF OnHead, LineCode
  <2> HIDE DEF x
  <2>2. CASE k = "eager"
    <3>1. Len(r) <= AskedLen + 2 /\ e.remaining = AskedLen /\ e.expect = "EagerBinary"
      BY <1>1, <1>3, <1>11, <2>2 DEF HeadFits, ExpectOf
    <3>2. x = [e EXCEPT !.mode = "ReadingBinary", !.data = line]
      BY <2>1, <3>1 DEF OnBinaryHead
    <3>3. /\ x \in Engine /\ x.mode = "ReadingBinary" /\ x.events = e.events
          /\ x.inbox = e.inbox /\ x.remaining = e.remaining
      BY <3>2 DEF Engine, Mode
    <3>4. Len(Rest(r)) <= AskedLen
      <4>1. Len(Rest(r)) = Len(r) - 2
        BY RestFields
      <4> QED
        BY <1>3, <3>1, <4>1, SessionAssumption
    <3>5. Sound(x, w, k, t, n, q, c, l)
      BY <1>1, <1>5, <1>6, <1>11, <2>2, <3>1, <3>3, <3>4
      DEF Sound, Fits, Wire, Reading, InFlight, Dead
    <3> QED
      BY <3>5 DEF x
  <2>3. CASE k # "eager"
    <3>1. StreamFits(Rest(r), k, t, n) /\ k \in Streamed
      BY <1>1, <1>3, <1>11, <2>3 DEF HeadFits, StreamFits
    <3>2. e.expect = "StreamBinary"
      BY <1>1, <3>1 DEF ExpectOf, Streamed
    <3>3. x = Answer(e, "BinaryHead", line, "StreamingBody")
      BY <2>1, <3>2 DEF OnBinaryHead
    <3> DEFINE ev == [kind |-> "BinaryHead", data |-> line]
    <3>4. /\ ev \in Event /\ ev.kind = "BinaryHead" /\ "BinaryHead" \in AnswerKind
          /\ "StreamingBody" \in Mode
      BY DEF Event, EventKind, AnswerKind, Mode
    <3>5. /\ x \in Engine /\ x.mode = "StreamingBody" /\ x.inbox = e.inbox
          /\ x.events = Append(<<>>, ev)
      BY <1>1, <3>3, <3>4, AnswerFields
    <3> HIDE DEF ev
    <3>6. Len(x.events) = 1 /\ x.events[1].kind = "BinaryHead"
      BY <3>4, <3>5, FirstEvent
    <3>7. Sound(x, w, k, t, n, q, c, l)
      BY <1>5, <1>11, <3>1, <3>5, <3>6 DEF Sound, Fits, Wire, Reading, InFlight, Dead
    <3> QED
      BY <3>7 DEF x
  <2> QED
    BY <2>2, <2>3
<1>12. CASE code = "204"
  <2>1. x = Answer(e, "SendBinary", line, "Idle")
    BY <1>4, <1>12 DEF OnHead, LineCode
  <2> HIDE DEF x
  <2>2. /\ k = "send" /\ StatusFits(Rest(r)) /\ (3 <= Len(r) => UploadLen = 0)
    BY <1>1, <1>3, <1>12 DEF HeadFits
  <2> DEFINE ev == [kind |-> "SendBinary", data |-> line]
  <2>3. ev \in Event /\ ev.kind = "SendBinary" /\ "SendBinary" \in AnswerKind /\ "Idle" \in Mode
    BY DEF Event, EventKind, AnswerKind, Mode
  <2>4. x \in Engine /\ x.mode = "Idle" /\ x.inbox = e.inbox /\ x.events = Append(<<>>, ev)
    BY <1>1, <2>1, <2>3, AnswerFields
  <2> HIDE DEF ev
  <2>5. Len(x.events) = 1 /\ x.events[1].kind = "SendBinary"
    BY <2>3, <2>4, FirstEvent
  <2>6. Rest(r) # <<>> => UploadLen = 0
    BY <1>3, <2>2, RestOfShort
  <2>7. l # "reset" => Invited(Rest(r), t, q, c)
    <3>1. c.mode = "upload" /\ l # "reset" => Rest(r) = <<>>
      BY <1>2, <2>2, RestOfShort DEF Asking
    <3> QED
      BY <1>2, <1>3, <1>12, <2>2, <3>1 DEF Asking, Invited, Console
  <2>8. "SendBinary" \in Wanted(k) \ {"BinaryHead", "Closed"}
    BY <2>2, <2>3 DEF Wanted
  <2>9. Sound(x, w, k, t, n, q, c, l)
    BY <1>6, <2>2, <2>4, <2>5, <2>6, <2>7, <2>8
    DEF Sound, Fits, Wire, Reading, InFlight, Dead
  <2> QED
    BY <2>9 DEF x
<1> QED
  BY <1>3, <1>7, <1>8, <1>9, <1>10, <1>11, <1>12 DEF Code

LEMMA HeadStepIsSound ==
  ASSUME NEW e, NEW w \in Seq(Byte), NEW k, NEW t, NEW n, NEW q, NEW c \in Console, NEW l,
         Sound(e, w, k, t, n, q, c, l), e.mode = "AwaitingHead"
  PROVE  Sound(Step(e), w, k, t, n, q, c, l)
<1> DEFINE s    == e.inbox
           r    == s \o w
           p    == LfAt(s)
           line == SubSeq(s, 1, LineLen(s, p))
           rest == [e EXCEPT !.inbox = SubSeq(@, p + 1, Len(@))]
<1>1. e \in Engine /\ s \in Seq(Byte) /\ r \in Seq(Byte) /\ Len(r) \in Nat
  BY ConcatProperties, LenProperties DEF Sound, Engine
<1>2. Fits(e, r, k, t, n) /\ Wire(e, r, k, t, q, c, l)
  BY DEF Sound
<1>3. e.events = <<>> /\ HeadFits(r, k, t, n)
  BY <1>2 DEF Fits, Reading, InFlight
<1>4. Step(e) = IF Oversize(s) THEN Fail(e) ELSE IF p = 0 THEN e
                ELSE IF NonUtf8(line) THEN Fail(rest) ELSE OnHead(rest, line)
  BY DEF Step, WithLine
<1>5. Sound(Fail(e), w, k, t, n, q, c, l)
  BY <1>1, <1>3, FailIsSound
<1>6. ASSUME p # 0
      PROVE  /\ Sound(Fail(rest), w, k, t, n, q, c, l)
             /\ Sound(OnHead(rest, line), w, k, t, n, q, c, l)
  <2>1. (1 <= Len(r) => r[1].sym \notin {"LF", "CR"}) /\ (2 <= Len(r) => r[2].sym = "LF")
    BY <1>3 DEF HeadFits, Code, LineCode
  <2>2. /\ 2 <= Len(r) /\ line \in Seq(Byte) /\ Len(line) = 1 /\ line[1] = r[1]
        /\ rest \in Engine /\ rest.inbox \o w = Rest(r)
        /\ rest.mode = e.mode /\ rest.events = e.events /\ rest.data = e.data
        /\ rest.expect = e.expect /\ rest.remaining = e.remaining
        /\ rest.outbox = e.outbox
    BY <1>1, <1>6, <2>1, TakesLine
  <2> HIDE DEF rest, line
  <2>3. Sound(Fail(rest), w, k, t, n, q, c, l)
    BY <1>3, <2>2, FailIsSound
  <2>4. Fits(rest, r, k, t, n)
    BY <1>2, <2>2 DEF Fits, Reading, InFlight, Dead
  <2>5. Wire(rest, r, k, t, q, c, l)
    BY <1>2, <2>2 DEF Wire
  <2> HIDE DEF r
  <2>6. Sound(OnHead(rest, line), w, k, t, n, q, c, l)
    BY <1>1, <2>2, <2>4, <2>5, HeadIsSound
  <2> QED
    BY <2>3, <2>6
<1> HIDE DEF rest, line, p
<1> QED
  BY <1>4, <1>5, <1>6

\* A line of a listing, or its last.
LEMMA BodyLineIsSound ==
  ASSUME NEW e \in Engine, NEW line \in Seq(Byte), NEW r \in Seq(Byte), NEW w \in Seq(Byte),
         NEW k, NEW t, NEW n, NEW q, NEW c, NEW l,
         2 <= Len(r), Len(line) = 1, line[1] = r[1], e.inbox \o w = Rest(r),
         e.mode = "ReadingMultiline", Fits(e, r, k, t, n), Wire(e, r, k, t, q, c, l)
  PROVE  Sound(OnBodyLine(e, line), w, k, t, n, q, c, l)
<1>1. ListFits(r) /\ Own(r, t) /\ e.events = <<>> /\ k = "line" /\ Len(r) \in Nat
  BY LenProperties DEF Fits, Reading, InFlight
<1>2. l # "reset" => Quiet(q, c)
  BY DEF Wire
<1>3. Own(Rest(r), t)
  BY <1>1, RestIsOwn
<1>4. e.data \o line \in Seq(Byte)
  BY ConcatProperties DEF Engine
<1>5. CASE IsDot(line)
  <2>1. e.inbox \o w = <<>>
    BY <1>1, <1>5, RestOfShort DEF ListFits, IsDot
  <2> DEFINE d == e.data \o line
  <2>2. d \in Seq(Byte)
    BY <1>4
  <2> HIDE DEF d
  <2>3. Sound(Answer(e, "Multiline", d, "Idle"), w, k, t, n, q, c, l)
    BY <1>1, <1>2, <2>1, <2>2, LastAnswerIsSound
  <2> QED
    BY <1>5, <2>3 DEF OnBodyLine, d
<1>6. CASE ~ IsDot(line)
  <2> DEFINE d == e.data \o line
             x == [e EXCEPT !.data = d]
  <2>1. d \in Seq(Byte)
    BY <1>4
  <2> HIDE DEF d
  <2>2. /\ x \in Engine /\ x.mode = "ReadingMultiline" /\ x.events = e.events
        /\ x.inbox = e.inbox
    BY <2>1 DEF Engine
  <2> HIDE DEF x
  <2>3. ListFits(Rest(r))
    <3>1. /\ Len(Rest(r)) = Len(r) - 2
          /\ \A i \in 1 .. Len(Rest(r)) : Rest(r)[i] = r[i + 2]
      BY RestFields
    <3> DEFINE z == Rest(r)
    <3>2. Len(z) = Len(r) - 2 /\ \A i \in 1 .. Len(z) : z[i] = r[i + 2]
      BY <3>1
    <3> HIDE DEF z
    <3>3. /\ Len(r) <= 4
          /\ 3 <= Len(r) => r[3].sym = "dot"
          /\ 4 <= Len(r) => r[4].sym = "LF"
      BY <1>1 DEF ListFits
    <3>4. Len(z) <= 2 /\ Len(z) \in Int
      BY <1>1, <3>2, <3>3
    <3>5. 1 <= Len(z) => z[1].sym = "dot"
      <4>1. 1 <= Len(z) => 1 \in 1 .. Len(z) /\ 3 <= Len(r) /\ 1 + 2 = 3
        BY <1>1, <3>2
      <4> QED
        BY <3>2, <3>3, <4>1
    <3>6. 2 <= Len(z) => z[2].sym = "LF"
      <4>1. 2 <= Len(z) => 2 \in 1 .. Len(z) /\ 4 <= Len(r) /\ 2 + 2 = 4
        BY <1>1, <3>2
      <4> QED
        BY <3>2, <3>3, <4>1
    <3>7. ListFits(z)
      BY <3>4, <3>5, <3>6 DEF ListFits
    <3> QED
      BY <3>7 DEF z
  <2>4. Sound(x, w, k, t, n, q, c, l)
    BY <1>1, <1>2, <1>3, <2>2, <2>3 DEF Sound, Fits, Wire, Reading, InFlight, Dead
  <2> QED
    BY <1>6, <2>4 DEF OnBodyLine, x, d
<1> QED
  BY <1>5, <1>6

LEMMA ListStepIsSound ==
  ASSUME NEW e, NEW w \in Seq(Byte), NEW k, NEW t, NEW n, NEW q, NEW c, NEW l,
         Sound(e, w, k, t, n, q, c, l), e.mode = "ReadingMultiline"
  PROVE  Sound(Step(e), w, k, t, n, q, c, l)
<1> DEFINE s    == e.inbox
           r    == s \o w
           p    == LfAt(s)
           line == SubSeq(s, 1, LineLen(s, p))
           rest == [e EXCEPT !.inbox = SubSeq(@, p + 1, Len(@))]
<1>1. e \in Engine /\ s \in Seq(Byte) /\ r \in Seq(Byte) /\ Len(r) \in Nat
  BY ConcatProperties, LenProperties DEF Sound, Engine
<1>2. Fits(e, r, k, t, n) /\ Wire(e, r, k, t, q, c, l)
  BY DEF Sound
<1>3. e.events = <<>> /\ ListFits(r)
  BY <1>2 DEF Fits, Reading, InFlight
<1>4. Step(e) = IF Oversize(s) THEN Fail(e) ELSE IF p = 0 THEN e
                ELSE IF NonUtf8(line) THEN Fail(rest) ELSE OnBodyLine(rest, line)
  BY DEF Step, WithLine
<1>5. Sound(Fail(e), w, k, t, n, q, c, l)
  BY <1>1, <1>3, FailIsSound
<1>6. ASSUME p # 0
      PROVE  /\ Sound(Fail(rest), w, k, t, n, q, c, l)
             /\ Sound(OnBodyLine(rest, line), w, k, t, n, q, c, l)
  <2>1. (1 <= Len(r) => r[1].sym \notin {"LF", "CR"}) /\ (2 <= Len(r) => r[2].sym = "LF")
    BY <1>3 DEF ListFits
  <2>2. /\ 2 <= Len(r) /\ line \in Seq(Byte) /\ Len(line) = 1 /\ line[1] = r[1]
        /\ rest \in Engine /\ rest.inbox \o w = Rest(r)
        /\ rest.mode = e.mode /\ rest.events = e.events /\ rest.data = e.data
        /\ rest.expect = e.expect /\ rest.remaining = e.remaining
        /\ rest.outbox = e.outbox
    BY <1>1, <1>6, <2>1, TakesLine
  <2> HIDE DEF rest, line
  <2>3. Sound(Fail(rest), w, k, t, n, q, c, l)
    BY <1>3, <2>2, FailIsSound
  <2>4. Fits(rest, r, k, t, n)
    BY <1>2, <2>2 DEF Fits, Reading, InFlight, Dead
  <2>5. Wire(rest, r, k, t, q, c, l)
    BY <1>2, <2>2 DEF Wire
  <2> HIDE DEF r
  <2>6. Sound(OnBodyLine(rest, line), w, k, t, n, q, c, l)
    BY <1>1, <2>2, <2>4, <2>5, BodyLineIsSound
  <2> QED
    BY <2>3, <2>6
<1> HIDE DEF rest, line, p
<1> QED
  BY <1>4, <1>5, <1>6

LEMMA BinaryStepIsSound ==
  ASSUME NEW e, NEW w \in Seq(Byte), NEW k, NEW t, NEW n, NEW q, NEW c, NEW l,
         Sound(e, w, k, t, n, q, c, l), e.mode = "ReadingBinary"
  PROVE  Sound(Step(e), w, k, t, n, q, c, l)
<1> DEFINE s    == e.inbox
           r    == s \o w
           m    == e.remaining
           take == IF m <= Len(s) THEN m ELSE Len(s)
           d    == e.data \o SubSeq(s, 1, take)
           i    == SubSeq(s, take + 1, Len(s))
           x    == [e EXCEPT !.data = d, !.inbox = i, !.remaining = m - take]
<1>1. /\ e \in Engine /\ s \in Seq(Byte) /\ r \in Seq(Byte) /\ Len(r) \in Nat
      /\ Len(s) \in Nat /\ m \in Nat /\ Len(r) = Len(s) + Len(w) /\ Len(w) \in Nat
      /\ e.data \in Seq(Byte)
  BY ConcatProperties, LenProperties DEF Sound, Engine
<1>2. Fits(e, r, k, t, n) /\ Wire(e, r, k, t, q, c, l)
  BY DEF Sound
<1>3. e.events = <<>> /\ k = "eager" /\ Len(r) <= m /\ Own(r, t)
  BY <1>2 DEF Fits, Reading, InFlight
<1>4. l # "reset" => Quiet(q, c)
  BY <1>2 DEF Wire
<1>5. Step(e) = IF m = 0 THEN Answer(e, "Binary", e.data, "Idle") ELSE x
  BY DEF Step, StepBinary
<1>6. CASE m = 0
  <2>1. r = <<>>
    BY <1>1, <1>3, <1>6, EmptySeq
  <2>2. Sound(Answer(e, "Binary", e.data, "Idle"), w, k, t, n, q, c, l)
    BY <1>1, <1>3, <1>4, <2>1, LastAnswerIsSound
  <2> QED
    BY <1>5, <1>6, <2>2
<1>7. CASE m # 0
  <2>1. take \in 0 .. Len(s) /\ m - take \in Nat
    BY <1>1
  <2> HIDE DEF take
  <2>2. SubSeq(s, 1, take) \in Seq(Byte) /\ i \in Seq(Byte)
    BY <1>1, <2>1, TakeFields, DropFields
  <2>3. d \in Seq(Byte)
    BY <1>1, <2>2, ConcatProperties
  <2>4. i \o w = SubSeq(r, take + 1, Len(r))
    BY <1>1, <2>1, DropOfConcat
  <2>5. take \in 0 .. Len(r)
    BY <1>1, <2>1
  <2> DEFINE z == SubSeq(r, take + 1, Len(r))
  <2> HIDE DEF r, i, d, m
  <2>6. /\ Len(z) = Len(r) - take /\ \A j \in 1 .. Len(r) - take : z[j] = r[j + take]
    BY <1>1, <2>5, DropFields
  <2> HIDE DEF z
  <2>7. Own(z, t)
    <3>1. \A j \in 1 .. Len(z) : j \in 1 .. Len(r) - take /\ j + take \in 1 .. Len(r)
      BY <1>1, <2>5, <2>6
    <3> QED
      BY <1>3, <2>6, <3>1 DEF Own
  <2>8. Len(z) <= m - take
    BY <1>1, <1>3, <2>5, <2>6
  <2>9. /\ x \in Engine /\ x.mode = "ReadingBinary" /\ x.events = e.events
        /\ x.inbox = i /\ x.remaining = m - take
    BY <1>1, <2>1, <2>2, <2>3 DEF Engine
  <2> HIDE DEF x
  <2>10. x.inbox \o w = z
    BY <2>4, <2>9 DEF z
  <2>11. Sound(x, w, k, t, n, q, c, l)
    BY <1>3, <1>4, <2>7, <2>8, <2>9, <2>10 DEF Sound, Fits, Wire, Reading, InFlight, Dead
  <2> QED
    BY <1>5, <1>7, <2>11
<1> QED
  BY <1>6, <1>7

LEMMA StepIsSound ==
  ASSUME NEW e, NEW w \in Seq(Byte), NEW k, NEW t, NEW n, NEW q, NEW c \in Console, NEW l,
         Sound(e, w, k, t, n, q, c, l)
  PROVE  Sound(Step(e), w, k, t, n, q, c, l)
<1>1. CASE e.mode \in Reading
  BY <1>1, BannerStepIsSound, HeadStepIsSound, ListStepIsSound, BinaryStepIsSound
  DEF Reading, InFlight
<1>2. CASE e.mode \notin Reading
  BY <1>2 DEF Step, Reading, InFlight
<1> QED
  BY <1>1, <1>2

LEMMA AdvanceIsSound ==
  ASSUME NEW e, NEW w \in Seq(Byte), NEW k, NEW t, NEW n, NEW q, NEW c \in Console, NEW l,
         Sound(e, w, k, t, n, q, c, l)
  PROVE  /\ Sound(Advance(e), w, k, t, n, q, c, l)
         /\ Advance(e).outbox = e.outbox
<1> DEFINE S == {x \in Engine : Sound(x, w, k, t, n, q, c, l)}
<1>1. e \in S /\ e \in Engine /\ Len(e.inbox) \in Nat
  BY LenProperties DEF Sound, Engine
<1>2. ASSUME NEW x \in S PROVE Step(x) \in S
  <2>1. Sound(Step(x), w, k, t, n, q, c, l)
    BY StepIsSound
  <2> QED
    BY <2>1 DEF Sound
<1>3. Advance(e).outbox = e.outbox
  BY <1>1, AdvanceProgress DEF Progress
<1>4. Advance(e) \in S
  <2> HIDE DEF S
  <2> QED
    BY <1>1, <1>2, AdvanceStays
<1> QED
  BY <1>3, <1>4

-----------------------------------------------------------------------------
(* Cuts. *)

IsCut(x, r) ==
  /\ x \in Seq(Byte) /\ r \in Seq(Byte) /\ Len(x) <= Len(r)
  /\ \A i \in 1 .. Len(x) : x[i] = r[i]

LEMMA CutFields ==
  ASSUME NEW x, NEW r, IsCut(x, r)
  PROVE  /\ Len(x) \in Nat /\ Len(r) \in Nat
         /\ 1 <= Len(x) => 1 <= Len(r) /\ x[1] = r[1]
         /\ 2 <= Len(x) => 2 <= Len(r) /\ x[2] = r[2]
         /\ 3 <= Len(x) => 3 <= Len(r) /\ x[3] = r[3]
         /\ 4 <= Len(x) => 4 <= Len(r) /\ x[4] = r[4]
         /\ x # <<>> => r # <<>> /\ x[1] = r[1]
<1>1. Len(x) \in Nat /\ Len(r) \in Nat
  BY LenProperties DEF IsCut
<1>2. \A i \in 1 .. Len(x) : x[i] = r[i] /\ i <= Len(r)
  BY <1>1 DEF IsCut
<1>3. Len(x) <= Len(r)
  BY DEF IsCut
<1>4. x # <<>> => Len(x) # 0
  BY EmptySeq DEF IsCut
<1>5. Len(r) # 0 => r # <<>>
  <2>1. CASE r = <<>>
    BY <2>1, EmptySeq
  <2> QED
    BY <2>1
<1> QED
  BY <1>1, <1>2, <1>3, <1>4, <1>5

LEMMA CutOfRest ==
  ASSUME NEW x, NEW r, IsCut(x, r)
  PROVE  IsCut(Rest(x), Rest(r))
<1>1. x \in Seq(Byte) /\ r \in Seq(Byte) /\ Len(x) \in Nat /\ Len(r) \in Nat
  BY CutFields DEF IsCut
<1> DEFINE y == Rest(x)
           z == Rest(r)
<1>2. /\ y \in Seq(Byte) /\ Len(y) = (IF 2 <= Len(x) THEN Len(x) - 2 ELSE 0)
      /\ \A i \in 1 .. Len(y) : y[i] = x[i + 2]
  BY <1>1, RestFields
<1>3. /\ z \in Seq(Byte) /\ Len(z) = (IF 2 <= Len(r) THEN Len(r) - 2 ELSE 0)
      /\ \A i \in 1 .. Len(z) : z[i] = r[i + 2]
  BY <1>1, RestFields
<1> HIDE DEF y, z
<1>4. Len(x) <= Len(r) /\ \A i \in 1 .. Len(x) : x[i] = r[i]
  BY DEF IsCut
<1>5. Len(y) <= Len(z)
  BY <1>1, <1>2, <1>3, <1>4
<1>6. ASSUME NEW i \in 1 .. Len(y) PROVE y[i] = z[i]
  <2>1. i \in 1 .. Len(z) /\ i + 2 \in 1 .. Len(x)
    BY <1>1, <1>2, <1>3, <1>5
  <2> QED
    BY <1>2, <1>3, <1>4, <2>1
<1>7. IsCut(y, z)
  BY <1>2, <1>3, <1>5, <1>6 DEF IsCut
<1> QED
  BY <1>7 DEF y, z

LEMMA CutFits ==
  ASSUME NEW x, NEW r, IsCut(x, r), NEW k, NEW t, NEW n
  PROVE  /\ Own(r, t) => Own(x, t)
         /\ StatusFits(r) => StatusFits(x)
         /\ ListFits(r) => ListFits(x)
         /\ n \in Nat /\ StreamFits(r, k, t, n) => StreamFits(x, k, t, n)
<1>1. /\ Len(x) \in Nat /\ Len(r) \in Nat /\ Len(x) <= Len(r)
      /\ 1 <= Len(x) => 1 <= Len(r) /\ x[1] = r[1]
      /\ 2 <= Len(x) => 2 <= Len(r) /\ x[2] = r[2]
      /\ 3 <= Len(x) => 3 <= Len(r) /\ x[3] = r[3]
      /\ 4 <= Len(x) => 4 <= Len(r) /\ x[4] = r[4]
  BY CutFields DEF IsCut
<1>2. Own(r, t) => Own(x, t)
  BY <1>1 DEF Own, IsCut
<1>3. StatusFits(r) => StatusFits(x)
  BY <1>1 DEF StatusFits
<1>4. ListFits(r) => ListFits(x)
  BY <1>1 DEF ListFits
<1>5. n \in Nat /\ StreamFits(r, k, t, n) => StreamFits(x, k, t, n)
  BY <1>1, <1>2 DEF StreamFits
<1> QED
  BY <1>2, <1>3, <1>4, <1>5

LEMMA CutOfHeadFits ==
  ASSUME NEW x, NEW r, IsCut(x, r), NEW k, NEW t, NEW n \in Nat, HeadFits(r, k, t, n)
  PROVE  HeadFits(x, k, t, n)
<1>1. /\ Len(x) \in Nat /\ Len(r) \in Nat /\ Len(x) <= Len(r)
      /\ 1 <= Len(x) => 1 <= Len(r) /\ x[1] = r[1]
      /\ 2 <= Len(x) => 2 <= Len(r) /\ x[2] = r[2]
      /\ 3 <= Len(x) => 3 <= Len(r)
  BY CutFields DEF IsCut
<1>2. /\ ListFits(Rest(r)) => ListFits(Rest(x))
      /\ StatusFits(Rest(r)) => StatusFits(Rest(x))
      /\ StreamFits(Rest(r), k, t, n) => StreamFits(Rest(x), k, t, n)
  <2>1. IsCut(Rest(x), Rest(r))
    BY CutOfRest
  <2> QED
    BY <2>1, CutFits
<1>3. AskedLen \in Nat
  BY SessionAssumption
<1> QED
  BY <1>1, <1>2, <1>3 DEF HeadFits

\* What fits goes on fitting when the network cuts it.
LEMMA CutOfFits ==
  ASSUME NEW e \in Engine, NEW x, NEW r, IsCut(x, r), NEW k, NEW t, NEW n \in Nat,
         Fits(e, r, k, t, n)
  PROVE  Fits(e, x, k, t, n)
<1>1. /\ Len(x) \in Nat /\ Len(r) \in Nat /\ Len(x) <= Len(r)
      /\ x # <<>> => r # <<>>
  BY CutFields DEF IsCut
<1>2. /\ Own(r, t) => Own(x, t)
      /\ StatusFits(r) => StatusFits(x)
      /\ ListFits(r) => ListFits(x)
      /\ StreamFits(r, k, t, n) => StreamFits(x, k, t, n)
      /\ HeadFits(r, k, t, n) => HeadFits(x, k, t, n)
  BY CutFits, CutOfHeadFits
<1>3. e.remaining \in Nat
  BY DEF Engine
<1>4. Len(x) <= e.remaining \/ ~ (Len(r) <= e.remaining)
  BY <1>1, <1>3
<1> QED
  BY <1>1, <1>2, <1>4 DEF Fits

LEMMA CutOfWire ==
  ASSUME NEW e, NEW x, NEW r, IsCut(x, r), NEW k, NEW t, NEW q, NEW c, NEW l, NEW l2,
         Wire(e, r, k, t, q, c, l), l # "reset", l2 \in {"fin", "reset"}
  PROVE  Wire(e, x, k, t, q, c, l2)
<1>1. /\ Len(x) \in Nat /\ Len(r) \in Nat /\ Len(x) <= Len(r)
      /\ x # <<>> => r # <<>> /\ x[1] = r[1]
  BY CutFields DEF IsCut
<1>2. Asking(r, k, t, q, c, l) => Asking(x, k, t, q, c, "fin")
  <2> SUFFICES ASSUME Asking(r, k, t, q, c, l) PROVE Asking(x, k, t, q, c, "fin")
    OBVIOUS
  <2>1. Len(r) <= 2 => Len(x) <= 2
    BY <1>1
  <2> QED
    BY <1>1, <2>1 DEF Asking
<1>3. Invited(r, t, q, c) => Invited(x, t, q, c)
  BY <1>1 DEF Invited
<1> QED
  BY <1>2, <1>3 DEF Wire

\* A cut of the second part is a cut of the whole.
LEMMA CutOfConcat ==
  ASSUME NEW s \in Seq(Byte), NEW a, NEW b, IsCut(a, b)
  PROVE  IsCut(s \o a, s \o b)
<1>1. /\ a \in Seq(Byte) /\ b \in Seq(Byte) /\ Len(a) \in Nat /\ Len(b) \in Nat
      /\ Len(s) \in Nat /\ Len(a) <= Len(b) /\ \A i \in 1 .. Len(a) : a[i] = b[i]
  BY LenProperties DEF IsCut
<1> DEFINE x == s \o a
           y == s \o b
<1>2. /\ x \in Seq(Byte) /\ Len(x) = Len(s) + Len(a)
      /\ \A i \in 1 .. Len(s) + Len(a) : x[i] = IF i <= Len(s) THEN s[i] ELSE a[i - Len(s)]
  BY <1>1, ConcatProperties
<1>3. /\ y \in Seq(Byte) /\ Len(y) = Len(s) + Len(b)
      /\ \A i \in 1 .. Len(s) + Len(b) : y[i] = IF i <= Len(s) THEN s[i] ELSE b[i - Len(s)]
  BY <1>1, ConcatProperties
<1> HIDE DEF x, y
<1>4. ASSUME NEW i \in 1 .. Len(x) PROVE x[i] = y[i]
  <2>1. i \in 1 .. Len(s) + Len(a) /\ i \in 1 .. Len(s) + Len(b)
    BY <1>1, <1>2
  <2>2. CASE i <= Len(s)
    BY <1>2, <1>3, <2>1, <2>2
  <2>3. CASE ~ (i <= Len(s))
    <3>1. i - Len(s) \in 1 .. Len(a)
      BY <1>1, <2>1, <2>3
    <3> QED
      BY <1>1, <1>2, <1>3, <2>1, <2>3, <3>1
  <2> QED
    BY <2>2, <2>3
<1>5. IsCut(x, y)
  BY <1>1, <1>2, <1>3, <1>4 DEF IsCut
<1> QED
  BY <1>5 DEF x, y

LEMMA TakenIsCut ==
  ASSUME NEW s \in Seq(Byte), NEW k \in 0 .. Len(s)
  PROVE  IsCut(SubSeq(s, 1, k), s)
<1>1. Len(s) \in Nat
  BY LenProperties
<1> QED
  BY <1>1, TakeFields DEF IsCut

LEMMA NothingIsCut ==
  ASSUME NEW s \in Seq(Byte)
  PROVE  IsCut(<<>>, s)
<1> DEFINE z == <<>>
<1>1. z \in Seq(Byte) /\ Len(z) = 0 /\ Len(s) \in Nat
  BY EmptySeq, LenProperties
<1> HIDE DEF z
<1>2. IsCut(z, s)
  BY <1>1 DEF IsCut
<1> QED
  BY <1>2 DEF z

-----------------------------------------------------------------------------
(* The invariant.  It ends with the first carelessness. *)

Incoming == engine.inbox \o toClient

\* The length of the payload the console meant for the operation under way.
Meant == Len(answer[op.id])

Typed ==
  /\ engine \in Engine /\ op \in Op
  /\ toConsole \in Seq(OutByte) /\ toClient \in Seq(Byte)
  /\ link \in {"up", "fin", "reset"} /\ console \in Console
  /\ answer \in [Tag -> Seq(InSym)]

\* A console that stores has payload to read, no more than it waits for; one
\* that reads commands has a cut of one command line.
LineOrPayload(q, c) ==
  IF c.mode = "upload"
  THEN /\ Len(q) <= c.left
       /\ \A i \in 1 .. Len(q) : q[i] = [sym |-> "payload", tag |-> c.id]
  ELSE /\ Len(q) <= 3
       /\ 1 <= Len(q) => q[1].sym \in OpKind
       /\ 2 <= Len(q) => q[2].sym = "CR"
       /\ 3 <= Len(q) => q[3].sym = "LF"

ConsoleSide == LineOrPayload(toConsole, console)

\* pump_until; an engine left in AwaitingHead takes nothing from anyone else.
Pumping ==
  op.at \in {"write", "flush", "read"} \/ engine.mode = "AwaitingHead" =>
    /\ Fits(engine, Incoming, op.kind, op.id, Meant)
    /\ Wire(engine, Incoming, op.kind, op.id, toConsole, console, link)

Reads == op.at = "read" => engine.mode \in Reading

Writing ==
  op.at = "write" => /\ engine.mode = "AwaitingHead" /\ Incoming = <<>>
                     /\ op.kind \in OpKind
                     /\ link # "reset" => Quiet(toConsole, console)

\* get_file, FileDownload and screenshot.
Streaming ==
  op.at \in {"prefix", "body", "meta", "frame"} =>
    /\ engine.mode = "StreamingBody" /\ engine.inbox = <<>> /\ engine.events = <<>>
    /\ op.kind \in IF op.at \in {"prefix", "body"} THEN {"get", "range"} ELSE {"shot"}
    /\ op.at \in {"prefix", "meta"} =>
         StreamFits(op.buf \o toClient, op.kind, op.id, Meant)
    /\ op.at \in {"body", "frame"} => Len(op.buf \o toClient) <= op.left
    /\ link # "reset" => Quiet(toConsole, console)

\* FileUpload.
Uploading ==
  op.at = "upload" =>
    /\ engine.mode = "Idle" /\ engine.events = <<>>
    /\ op.kind = "send" /\ StatusFits(Incoming) /\ Own(Incoming, op.id)
    /\ op.left > 0 => Incoming = <<>>
    /\ link # "reset" =>
         IF console.mode = "upload"
         THEN /\ console.id = op.id /\ Incoming = <<>>
              /\ op.left + Len(toConsole) <= console.left
         ELSE op.left = 0 /\ toConsole = <<>>

AtRest ==
  op.at = "idle" /\ engine.mode = "Idle" =>
    /\ Incoming = <<>> /\ engine.events = <<>>
    /\ link # "reset" => Quiet(toConsole, console)

Line == engine.outbox = IF op.at = "write" THEN CommandLine(op.kind, op.id) ELSE <<>>

NothingAfterReset == link = "reset" => toClient = <<>>

Careful ==
  /\ Typed /\ ConsoleSide /\ Pumping /\ Reads /\ Writing /\ Streaming /\ Uploading
  /\ AtRest /\ Line /\ NothingAfterReset

\* Once careless, always careless.
Shape(o) == [kind : {o.kind}, at : {o.at}, id : {o.id}, left : {o.left},
             buf : {o.buf}, got : {o.got}, careless : SUBSET {"upload", "flush"}]

OpShape == op \in Shape(op)

SessionInv == OpShape /\ (op.careless = {} => Careful)

-----------------------------------------------------------------------------
(* Carelessness stays, and begins in two places. *)

Stays(o) == o \in Shape(o) /\ o.careless = op.careless
LetsGo(o, what) == o \in Shape(o) /\ o.careless = op.careless \cup what

LEMMA OverStays ==
  ASSUME OpShape, NEW e, NEW outcome, NEW data, NEW careless \in SUBSET {"upload", "flush"},
         Over(e, outcome, data, careless)
  PROVE  LetsGo(op', careless)
<1> DEFINE at == IF op.kind = "bye" \/ (op.kind = "banner" /\ outcome # "ok")
                 THEN "gone" ELSE "idle"
<1>1. op' = [op EXCEPT !.at = at, !.left = 0, !.buf = <<>>, !.got = <<>>,
                       !.careless = @ \cup careless]
  BY DEF Over
<1> HIDE DEF at
<1>2. op' = [kind |-> op.kind, at |-> at, id |-> op.id, left |-> 0,
             buf |-> <<>>, got |-> <<>>, careless |-> op.careless \cup careless]
  BY <1>1 DEF OpShape, Shape
<1>3. op.careless \in SUBSET {"upload", "flush"}
  BY DEF OpShape, Shape
<1> QED
  BY <1>2, <1>3 DEF LetsGo, Shape

LEMMA ChangesStay ==
  ASSUME OpShape,
         NEW kind, NEW at, NEW id, NEW left, NEW buf, NEW got
  PROVE  /\ Stays([op EXCEPT !.kind = kind, !.at = at])
         /\ Stays([op EXCEPT !.at = at])
         /\ Stays([op EXCEPT !.kind = kind, !.at = at, !.id = id])
         /\ Stays([op EXCEPT !.at = at, !.left = left])
         /\ Stays([op EXCEPT !.at = at, !.buf = buf])
         /\ Stays([op EXCEPT !.at = at, !.left = left, !.buf = buf])
         /\ Stays([op EXCEPT !.left = left, !.got = got, !.buf = buf])
         /\ Stays([op EXCEPT !.left = left, !.got = got])
         /\ Stays([op EXCEPT !.buf = buf])
         /\ Stays([op EXCEPT !.left = left])
<1>1. Stays([op EXCEPT !.kind = kind, !.at = at])
  BY DEF OpShape, Shape, Stays
<1>2. Stays([op EXCEPT !.at = at])
  BY DEF OpShape, Shape, Stays
<1>3. Stays([op EXCEPT !.kind = kind, !.at = at, !.id = id])
  BY DEF OpShape, Shape, Stays
<1>4. Stays([op EXCEPT !.at = at, !.left = left])
  BY DEF OpShape, Shape, Stays
<1>5. Stays([op EXCEPT !.at = at, !.buf = buf])
  BY DEF OpShape, Shape, Stays
<1>6. Stays([op EXCEPT !.at = at, !.left = left, !.buf = buf])
  BY DEF OpShape, Shape, Stays
<1>7. Stays([op EXCEPT !.left = left, !.got = got, !.buf = buf])
  BY DEF OpShape, Shape, Stays
<1>8. Stays([op EXCEPT !.left = left, !.got = got])
  BY DEF OpShape, Shape, Stays
<1>9. Stays([op EXCEPT !.buf = buf])
  BY DEF OpShape, Shape, Stays
<1>10. Stays([op EXCEPT !.left = left])
  BY DEF OpShape, Shape, Stays
<1> QED
  BY <1>1, <1>2, <1>3, <1>4, <1>5, <1>6, <1>7, <1>8, <1>9, <1>10

LEMMA ReturnStays ==
  ASSUME OpShape, NEW e, NEW outcome, NEW data, Return(e, outcome, data)
  PROVE  Stays(op')
<1>1. LetsGo(op', {})
  BY OverStays DEF Return
<1>2. op.careless \cup {} = op.careless
  OBVIOUS
<1> QED
  BY <1>1, <1>2 DEF Stays, LetsGo

LEMMA OnEventStays ==
  ASSUME OpShape, NEW e, NEW ev, OnEvent(e, ev)
  PROVE  Stays(op')
<1>1. ASSUME NEW outcome, NEW data, Return(e, outcome, data) PROVE Stays(op')
  BY <1>1, ReturnStays
<1>2. \/ \E outcome, data : Return(e, outcome, data)
      \/ op' = [op EXCEPT !.at = "upload", !.left = UploadLen]
      \/ op' = [op EXCEPT !.at = "prefix", !.buf = e.inbox]
      \/ op' = [op EXCEPT !.at = "meta", !.buf = e.inbox]
  <2>1. \/ Return(e, "remote", ev.data) \/ Return(e, "ok", ev.data) \/ Return(e, "err", <<>>)
        \/ op' = [op EXCEPT !.at = "upload", !.left = UploadLen]
        \/ op' = [op EXCEPT !.at = "prefix", !.buf = e.inbox]
        \/ op' = [op EXCEPT !.at = "meta", !.buf = e.inbox]
    BY DEF OnEvent, Await
  <2> QED
    BY <2>1
<1> DEFINE left == UploadLen
           buf  == e.inbox
           a    == [op EXCEPT !.at = "upload", !.left = left]
           b    == [op EXCEPT !.at = "prefix", !.buf = buf]
           c    == [op EXCEPT !.at = "meta", !.buf = buf]
<1>3. Stays(a)
  <2> HIDE DEF left
  <2> QED
    BY ChangesStay
<1>4. Stays(b) /\ Stays(c)
  <2> HIDE DEF buf
  <2> QED
    BY ChangesStay
<1>5. (\E outcome, data : Return(e, outcome, data)) \/ op' = a \/ op' = b \/ op' = c
  BY <1>2
<1> HIDE DEF a, b, c
<1> QED
  BY <1>1, <1>3, <1>4, <1>5

LEMMA NextStays ==
  ASSUME OpShape, [Next]_vars
  PROVE  \/ Stays(op')
         \/ DropUpload /\ LetsGo(op', {"upload"})
         \/ CancelRead /\ op.at = "flush" /\ LetsGo(op', {"flush"})
<1>1. ASSUME NEW e, NEW outcome, NEW data, Return(e, outcome, data) PROVE Stays(op')
  BY <1>1, ReturnStays
<1>2. CASE op' = op
  BY <1>2 DEF OpShape, Stays
<1>3. ASSUME NEW kind \in Ops, StartOp(kind) PROVE Stays(op')
  <2> DEFINE id == op.id + 1
  <2>1. op' = [op EXCEPT !.kind = kind, !.at = "write", !.id = id]
    BY <1>3 DEF StartOp
  <2> HIDE DEF id
  <2> QED
    BY <2>1, ChangesStay
<1>4. CASE PumpWrite
  <2>1. \/ Return(Send(engine, Len(engine.outbox)), "err", <<>>)
        \/ op' = [op EXCEPT !.at = "flush"]
    BY <1>4 DEF PumpWrite, Await
  <2> QED
    BY <1>1, <2>1, ChangesStay
<1>5. CASE PumpFlush
  <2> DEFINE polled == Advance(engine)
             i == SelectInSeq(polled.events, LAMBDA ev : ev.kind \in Wanted(op.kind) \cup Dead)
             rest == [polled EXCEPT !.events = SubSeq(@, i + 1, Len(@))]
             none == [polled EXCEPT !.events = <<>>]
  <2>1. \/ Return(none, "err", <<>>) \/ Return(rest, "err", <<>>)
        \/ op' = [op EXCEPT !.at = "read"]
        \/ OnEvent(rest, polled.events[i])
    BY <1>5 DEF PumpFlush, Await
  <2> HIDE DEF rest, none, polled, i
  <2> QED
    BY <1>1, <2>1, OnEventStays, ChangesStay
<1>6. CASE PumpRead \/ PumpEof
  <2>1. op' = [op EXCEPT !.at = "flush"]
    BY <1>6 DEF PumpRead, PumpEof, Await
  <2> QED
    BY <2>1, ChangesStay
<1>7. CASE PumpReadError \/ PrefixFails \/ FinishDownload \/ DownloadFails \/ DropDownload
           \/ FrameDone \/ ShotFails \/ CancelWrite
  <2>1. \E e, outcome, data : Return(e, outcome, data)
    BY <1>7 DEF PumpReadError, PrefixFails, FinishDownload, DownloadFails, DropDownload,
                FrameDone, ShotFails, CancelWrite
  <2> QED
    BY <1>1, <2>1
<1>8. CASE ReadPrefix
  <2>1. \E b, rest : WithPrefix(b, rest)
    BY <1>8 DEF ReadPrefix
  <2>2. PICK b, rest : WithPrefix(b, rest)
    BY <2>1
  <2> DEFINE left == PrefixOf(b)
  <2>3. \/ Return(EndStream(engine, <<>>), "err", <<>>)
        \/ op' = [op EXCEPT !.at = "body", !.left = left, !.buf = rest]
    BY <2>2 DEF WithPrefix, Await
  <2> HIDE DEF left
  <2> DEFINE a == [op EXCEPT !.at = "body", !.left = left, !.buf = rest]
  <2>4. Stays(a)
    BY ChangesStay
  <2>5. Return(EndStream(engine, <<>>), "err", <<>>) \/ op' = a
    BY <2>3
  <2> HIDE DEF a
  <2> QED
    BY <1>1, <2>4, <2>5
<1>9. CASE ReadBody \/ ReadFrame
  <2>1. \E left, got, buf : \/ op' = [op EXCEPT !.left = left, !.got = got, !.buf = buf]
                            \/ op' = [op EXCEPT !.left = left, !.got = got]
    BY <1>9 DEF ReadBody, ReadFrame, Await
  <2>2. PICK left, got, buf : \/ op' = [op EXCEPT !.left = left, !.got = got, !.buf = buf]
                              \/ op' = [op EXCEPT !.left = left, !.got = got]
    BY <2>1
  <2> DEFINE a == [op EXCEPT !.left = left, !.got = got, !.buf = buf]
             b == [op EXCEPT !.left = left, !.got = got]
  <2>3. Stays(a) /\ Stays(b)
    BY ChangesStay
  <2>4. op' = a \/ op' = b
    BY <2>2
  <2> HIDE DEF a, b
  <2> QED
    BY <2>3, <2>4
<1>10. CASE ReadMeta
  <2>1. \E buf : op' = [op EXCEPT !.buf = buf]
    BY <1>10 DEF ReadMeta, Await
  <2> QED
    BY <2>1, ChangesStay
<1>11. CASE ParseMeta
  <2>1. \/ Return(AbortStream(engine), "err", <<>>)
        \/ \E left, buf : op' = [op EXCEPT !.at = "frame", !.left = left, !.buf = buf]
    BY <1>11 DEF ParseMeta, Await
  <2>2. ASSUME NEW left, NEW buf, op' = [op EXCEPT !.at = "frame", !.left = left, !.buf = buf]
        PROVE  Stays(op')
    <3> DEFINE a == [op EXCEPT !.at = "frame", !.left = left, !.buf = buf]
    <3>1. Stays(a)
      BY ChangesStay
    <3>2. op' = a
      BY <2>2
    <3> HIDE DEF a
    <3> QED
      BY <3>1, <3>2
  <2> QED
    BY <1>1, <2>1, <2>2
<1>12. CASE WriteBody
  <2>1. Return(engine, "err", <<>>) \/ \E left : op' = [op EXCEPT !.left = left]
    BY <1>12 DEF WriteBody, Await
  <2> QED
    BY <1>1, <2>1, ChangesStay
<1>13. CASE FinishUpload
  <2>1. Return(engine, "err", <<>>) \/ op' = [op EXCEPT !.kind = "finish", !.at = "flush"]
    BY <1>13 DEF FinishUpload, Await
  <2>2. CASE Return(engine, "err", <<>>)
    BY <1>1, <2>2
  <2>3. CASE op' = [op EXCEPT !.kind = "finish", !.at = "flush"]
    BY <2>3, ChangesStay
  <2> QED
    BY <2>1, <2>2, <2>3
<1>14. CASE DropUpload
  <2>1. Over(engine, "err", <<>>, {"upload"})
    BY <1>14 DEF DropUpload, Dropped
  <2> QED
    BY <1>14, <2>1, OverStays
<1>15. CASE CancelRead
  <2> DEFINE careless == {"flush"} \cap {op.at}
  <2>1. Over(engine, "err", <<>>, careless) /\ careless \in SUBSET {"upload", "flush"}
    BY <1>15 DEF CancelRead, Dropped
  <2>2. IF op.at = "flush" THEN careless = {"flush"} ELSE careless = {}
    OBVIOUS
  <2> HIDE DEF careless
  <2>3. LetsGo(op', careless)
    BY <2>1, OverStays
  <2>4. op.careless \cup {} = op.careless
    OBVIOUS
  <2> QED
    BY <1>15, <2>2, <2>3, <2>4 DEF Stays, LetsGo
<1>16. CASE ConsoleAnswers \/ ConsoleStores \/ ConsoleCloses \/ LinkBreaks \/ UNCHANGED vars
  BY <1>2, <1>16 DEF ConsoleAnswers, ConsoleStores, ConsoleCloses, LinkBreaks, vars
<1> QED
  BY <1>3, <1>4, <1>5, <1>6, <1>7, <1>8, <1>9, <1>10, <1>11, <1>12, <1>13, <1>14, <1>15, <1>16
  DEF Next, ClientStep, CallerStep, ConsoleStep

-----------------------------------------------------------------------------
(* What the engine shows to those who wait for it. *)

Same(e, x) ==
  x.mode = e.mode /\ x.events = e.events /\ x.expect = e.expect /\ x.remaining = e.remaining

LEMMA SameFits ==
  ASSUME NEW e, NEW x, Same(e, x), NEW r, NEW k, NEW t, NEW n, NEW q, NEW c, NEW l
  PROVE  /\ Fits(e, r, k, t, n) => Fits(x, r, k, t, n)
         /\ Wire(e, r, k, t, q, c, l) => Wire(x, r, k, t, q, c, l)
<1>1. Fits(e, r, k, t, n) => Fits(x, r, k, t, n)
  BY DEF Same, Fits
<1>2. Wire(e, r, k, t, q, c, l) => Wire(x, r, k, t, q, c, l)
  BY DEF Same, Wire
<1> QED
  BY <1>1, <1>2

LEMMA SendAll ==
  ASSUME NEW e \in Engine
  PROVE  LET x == Send(e, Len(e.outbox))
         IN x \in Engine /\ x.outbox = <<>> /\ x.inbox = e.inbox /\ Same(e, x)
<1> DEFINE s == e.outbox
           k == SendLen(e, Len(s))
           x == Send(e, Len(s))
<1>1. s \in Seq(OutByte) /\ Len(s) \in Nat
  BY LenProperties DEF Engine
<1>2. k = Len(s)
  BY <1>1 DEF SendLen
<1>3. SubSeq(s, k + 1, Len(s)) = <<>>
  BY <1>1, <1>2, SubSeqEmpty
<1>4. x = [e EXCEPT !.outbox = <<>>]
  BY <1>3 DEF Send
<1>5. <<>> \in Seq(OutByte)
  BY EmptySeq
<1> HIDE DEF x
<1>6. x \in Engine /\ x.outbox = <<>> /\ x.inbox = e.inbox /\ Same(e, x)
  BY <1>4, <1>5 DEF Engine, Same
<1> QED
  BY <1>6 DEF x

LEMMA CommandLineFields ==
  ASSUME NEW w \in Word, NEW t \in Tag
  PROVE  LET s == CommandLine(w, t)
         IN /\ s \in Seq(OutByte) /\ Len(s) = 3
            /\ s[1] = [sym |-> w, tag |-> t]
            /\ s[2] = [sym |-> "CR", tag |-> t]
            /\ s[3] = [sym |-> "LF", tag |-> t]
<1> DEFINE z == <<w, "CR", "LF">>
           s == CommandLine(w, t)
<1>1. Len(z) = 3 /\ z[1] = w /\ z[2] = "CR" /\ z[3] = "LF"
  OBVIOUS
<1>2. s \in Seq(OutByte)
  BY CommandLineIsBytes
<1>3. s = [i \in 1 .. Len(z) |-> [sym |-> z[i], tag |-> t]]
  BY DEF CommandLine, Untagged
<1> HIDE DEF z, s
<1>4. s = [i \in 1 .. 3 |-> [sym |-> z[i], tag |-> t]]
  BY <1>1, <1>3
<1>5. Len(s) = 3
  BY <1>2, <1>4, LenProperties
<1>6. s[1] = [sym |-> w, tag |-> t] /\ s[2] = [sym |-> "CR", tag |-> t]
      /\ s[3] = [sym |-> "LF", tag |-> t]
  BY <1>1, <1>4
<1> QED
  BY <1>2, <1>5, <1>6 DEF s

\* The first event of one of the kinds in K.
EventAt(s, K) == SelectInSeq(s, LAMBDA ev : ev.kind \in K)

LEMMA EventAtFields ==
  ASSUME NEW s, Len(s) \in Nat, NEW K
  PROVE  /\ EventAt(s, K) \in 0 .. Len(s)
         /\ EventAt(s, K) # 0 => s[EventAt(s, K)].kind \in K
         /\ Len(s) = 1 /\ s[1].kind \in K => EventAt(s, K) = 1
<1> DEFINE I == {i \in 1 .. Len(s) : s[i].kind \in K}
<1>1. EventAt(s, K) = IF I # {} THEN CHOOSE x \in I : \A y \in I : x <= y ELSE 0
  BY DEF EventAt, SelectInSeq, Min
<1>2. I # {} => \E x \in I : \A y \in I : x <= y
  <2>1. I \in SUBSET Nat
    OBVIOUS
  <2> QED
    BY <2>1, LeastNat, Zenon
<1>3. I # {} => (CHOOSE x \in I : \A y \in I : x <= y) \in I
  BY <1>2, Zenon
<1>4. Len(s) = 1 /\ s[1].kind \in K => I # {} /\ I \subseteq {1}
  OBVIOUS
<1>5. EventAt(s, K) \in 0 .. Len(s) /\ (EventAt(s, K) # 0 => EventAt(s, K) \in I)
  BY <1>1, <1>3
<1>6. Len(s) = 1 /\ s[1].kind \in K => EventAt(s, K) \in I
  BY <1>1, <1>3, <1>4
<1> QED
  BY <1>4, <1>5, <1>6

-----------------------------------------------------------------------------
(* How a step of an operation ends. *)

\* What is on the wire, and what the console does, after a step of the client.
WireKept ==
  /\ toConsole' \in Seq(OutByte) /\ toClient' \in Seq(Byte)
  /\ ConsoleSide' /\ NothingAfterReset'
  /\ UNCHANGED <<link, console, answer>>

LEMMA SameWire ==
  ASSUME Careful, UNCHANGED <<toConsole, toClient, link, console, answer>>
  PROVE  WireKept
BY DEF Careful, Typed, ConsoleSide, NothingAfterReset, WireKept

\* The operation is over.
LEMMA OverIsCareful ==
  ASSUME Careful, WireKept,
         NEW e \in Engine, NEW outcome, NEW data, NEW careless \in SUBSET {"upload", "flush"},
         Over(e, outcome, data, careless), e.outbox = <<>>,
         e.mode = "AwaitingHead" =>
           /\ Fits(e, e.inbox \o toClient', op.kind, op.id, Meant)
           /\ Wire(e, e.inbox \o toClient', op.kind, op.id, toConsole', console, link),
         e.mode = "Idle" =>
           /\ e.inbox \o toClient' = <<>> /\ e.events = <<>>
           /\ link # "reset" => Quiet(toConsole', console)
  PROVE  Careful'
<1> DEFINE at == IF op.kind = "bye" \/ (op.kind = "banner" /\ outcome # "ok")
                 THEN "gone" ELSE "idle"
<1>1. /\ engine' = e
      /\ op' = [op EXCEPT !.at = at, !.left = 0, !.buf = <<>>, !.got = <<>>,
                          !.careless = @ \cup careless]
  BY DEF Over
<1>2. at \in {"gone", "idle"}
  OBVIOUS
<1> HIDE DEF at
<1>3. <<>> \in Seq(Byte) /\ op \in Op
  BY EmptySeq DEF Careful, Typed
<1>4. op' \in Op /\ op'.at = at /\ op'.kind = op.kind /\ op'.id = op.id
  BY <1>1, <1>2, <1>3 DEF Op, At
<1>5. Typed'
  BY <1>1, <1>4 DEF Typed, Careful, WireKept
<1>6. Incoming' = e.inbox \o toClient' /\ Meant' = Meant
  BY <1>1, <1>4 DEF Incoming, Meant, WireKept
<1>7. Pumping'
  BY <1>1, <1>2, <1>4, <1>6 DEF Pumping, WireKept
<1>8. Reads' /\ Writing' /\ Streaming' /\ Uploading' /\ Line'
  BY <1>1, <1>2, <1>4 DEF Reads, Writing, Streaming, Uploading, Line
<1>9. AtRest'
  BY <1>1, <1>6 DEF AtRest, WireKept
<1> QED
  BY <1>5, <1>7, <1>8, <1>9 DEF Careful, WireKept

\* It goes on pumping.
LEMMA PumpsOn ==
  ASSUME Careful, WireKept,
         NEW e \in Engine, engine' = e, e.outbox = <<>>,
         op' \in Op, op'.at \in {"flush", "read"}, op'.id = op.id,
         op'.at = "read" => e.mode \in Reading,
         Fits(e, e.inbox \o toClient', op'.kind, op.id, Meant),
         Wire(e, e.inbox \o toClient', op'.kind, op.id, toConsole', console, link)
  PROVE  Careful'
<1>1. Typed'
  BY DEF Typed, Careful, WireKept
<1>2. Incoming' = e.inbox \o toClient' /\ Meant' = Meant
  BY DEF Incoming, Meant, WireKept
<1>3. Pumping'
  BY <1>2 DEF Pumping, WireKept
<1>4. Reads' /\ Writing' /\ Streaming' /\ Uploading' /\ Line' /\ AtRest'
  BY DEF Reads, Writing, Streaming, Uploading, Line, AtRest
<1> QED
  BY <1>1, <1>3, <1>4 DEF Careful, WireKept

\* It goes on streaming.
LEMMA StreamsOn ==
  ASSUME Careful, WireKept,
         NEW e \in Engine, engine' = e, e.outbox = <<>>,
         e.mode = "StreamingBody", e.inbox = <<>>, e.events = <<>>,
         op' \in Op, op'.at \in {"prefix", "body", "meta", "frame"},
         op'.kind = op.kind, op'.id = op.id,
         op.kind \in IF op'.at \in {"prefix", "body"} THEN {"get", "range"} ELSE {"shot"},
         op'.at \in {"prefix", "meta"} =>
           StreamFits(op'.buf \o toClient', op.kind, op.id, Meant),
         op'.at \in {"body", "frame"} => Len(op'.buf \o toClient') <= op'.left,
         link # "reset" => Quiet(toConsole', console)
  PROVE  Careful'
<1>1. Typed'
  BY DEF Typed, Careful, WireKept
<1>2. Meant' = Meant
  BY DEF Meant, WireKept
<1>3. Streaming'
  BY <1>2 DEF Streaming, WireKept
<1>4. Reads' /\ Writing' /\ Pumping' /\ Uploading' /\ Line' /\ AtRest'
  BY DEF Reads, Writing, Pumping, Uploading, Line, AtRest
<1> QED
  BY <1>1, <1>3, <1>4 DEF Careful, WireKept

-----------------------------------------------------------------------------
(* Client::new, run, submit_streaming and pump_until. *)

\* A command of which nothing has been answered.
LEMMA FreshIsSound ==
  ASSUME NEW e, e.mode = "AwaitingHead", e.events = <<>>,
         NEW k \in OpKind, e.expect = ExpectOf(k), k = "eager" => e.remaining = AskedLen,
         NEW r, r = <<>>, NEW t, NEW n, NEW q, NEW c, NEW l, l # "reset" => Quiet(q, c)
  PROVE  Fits(e, r, k, t, n) /\ Wire(e, r, k, t, q, c, l)
<1>1. r = <<>> /\ Len(r) = 0
  BY EmptySeq
<1>2. Own(r, t) /\ HeadFits(r, k, t, n)
  BY <1>1 DEF Own, HeadFits
<1>3. Fits(e, r, k, t, n)
  BY <1>2 DEF Fits, Dead
<1>4. Wire(e, r, k, t, q, c, l)
  BY <1>1 DEF Wire, Asking, Quiet
<1> QED
  BY <1>3, <1>4

LEMMA StartIsCareful ==
  ASSUME Careful, NEW kind \in Ops, StartOp(kind)
  PROVE  Careful'
<1> DEFINE t == op.id + 1
           n == IF kind = "eager" THEN AskedLen ELSE 0
           x == Submit(engine, kind, t, ExpectOf(kind), n)
<1>1. /\ op.at = "idle" /\ op.id < MaxOps /\ engine.mode = "Idle" /\ engine' = x
      /\ op' = [op EXCEPT !.kind = kind, !.at = "write", !.id = t]
      /\ UNCHANGED <<toConsole, toClient, link, console, answer>>
  BY DEF StartOp, CanSubmit
<1>2. /\ Incoming = <<>> /\ engine.events = <<>> /\ engine.outbox = <<>>
      /\ link # "reset" => Quiet(toConsole, console)
  BY <1>1 DEF Careful, AtRest, Line
<1>3. /\ kind \in OpKind /\ kind \in Word /\ t \in Tag /\ n \in Nat
      /\ ExpectOf(kind) \in Expect
  <2>1. op.id \in Tag
    BY DEF Careful, Typed, Op
  <2> QED
    BY <1>1, <2>1, SessionAssumption DEF ExpectOf, Expect
<1> HIDE DEF t, n
<1>4. engine \in Engine /\ op \in Op
  BY DEF Careful, Typed
<1>5. x \in Engine /\ x.mode = "AwaitingHead" /\ x.events = <<>>
  BY <1>2, <1>3, <1>4, SubmitFields
<1>6. /\ x.inbox = engine.inbox /\ x.expect = ExpectOf(kind) /\ x.remaining = n
      /\ x.outbox = engine.outbox \o CommandLine(kind, t)
  BY <1>4 DEF Submit, Engine
<1>7. x.outbox = CommandLine(kind, t)
  BY <1>2, <1>3, <1>6, CommandLineFields, ConcatEmptySeq
<1> HIDE DEF x
<1>8. op' \in Op /\ op'.kind = kind /\ op'.at = "write" /\ op'.id = t
  BY <1>1, <1>3, <1>4 DEF Op, At
<1>9. Typed'
  BY <1>1, <1>5, <1>8 DEF Typed, Careful
<1>10. Incoming' = <<>>
  BY <1>1, <1>2, <1>6 DEF Incoming
<1>11. Fits(x, Incoming', kind, t, Meant') /\ Wire(x, Incoming', kind, t, toConsole, console, link)
  <2>1. kind = "eager" => x.remaining = AskedLen
    BY <1>6 DEF n
  <2> QED
    BY <1>2, <1>3, <1>5, <1>6, <1>10, <2>1, FreshIsSound
<1>12. Pumping'
  BY <1>1, <1>8, <1>11 DEF Pumping
<1>13. Writing'
  BY <1>1, <1>2, <1>3, <1>5, <1>8, <1>10 DEF Writing
<1>14. Reads' /\ Streaming' /\ Uploading' /\ AtRest' /\ Line'
  BY <1>1, <1>7, <1>8 DEF Reads, Streaming, Uploading, AtRest, Line
<1>15. ConsoleSide' /\ NothingAfterReset'
  BY <1>1 DEF Careful, ConsoleSide, NothingAfterReset
<1> QED
  BY <1>9, <1>12, <1>13, <1>14, <1>15 DEF Careful

LEMMA WriteIsCareful ==
  ASSUME Careful, PumpWrite
  PROVE  Careful'
<1> DEFINE x == Send(engine, Len(engine.outbox))
<1>1. /\ engine \in Engine /\ op \in Op /\ op.at = "write" /\ op.kind \in OpKind
      /\ engine.mode = "AwaitingHead" /\ Incoming = <<>>
      /\ link # "reset" => Quiet(toConsole, console)
      /\ engine.outbox = CommandLine(op.kind, op.id)
  BY DEF PumpWrite, Careful, Typed, Writing, Line
<1>2. x \in Engine /\ x.outbox = <<>> /\ x.inbox = engine.inbox /\ Same(engine, x)
  BY <1>1, SendAll
<1>3. UNCHANGED <<toClient, link, console, answer>>
  BY DEF PumpWrite
<1>4. /\ Fits(engine, Incoming, op.kind, op.id, Meant)
      /\ Wire(engine, Incoming, op.kind, op.id, toConsole, console, link)
  BY <1>1 DEF Careful, Pumping
<1>5. x.inbox \o toClient' = Incoming /\ x.mode = "AwaitingHead"
  BY <1>1, <1>2, <1>3 DEF Incoming, Same
<1>6. Fits(x, Incoming, op.kind, op.id, Meant)
  BY <1>2, <1>4, SameFits
<1>7. Wire(x, Incoming, op.kind, op.id, toConsole, console, link)
  BY <1>2, <1>4, SameFits
<1>8. CASE link = "reset"
  <2>1. Over(x, "err", <<>>, {}) /\ UNCHANGED toConsole
    BY <1>8 DEF PumpWrite, Return
  <2> HIDE DEF x
  <2>2. WireKept
    BY <1>3, <2>1, SameWire
  <2>3. Wire(x, Incoming, op.kind, op.id, toConsole', console, link)
    BY <1>7, <2>1
  <2> QED
    BY <1>2, <1>5, <1>6, <2>1, <2>2, <2>3, OverIsCareful
<1>9. CASE link # "reset"
  <2> DEFINE s == CommandLine(op.kind, op.id)
  <2>1. /\ toConsole' = toConsole \o s /\ engine' = x
        /\ op' = [op EXCEPT !.at = "flush"]
    BY <1>1, <1>9 DEF PumpWrite, Await
  <2>2. op.kind \in Word /\ op.id \in Tag
    BY <1>1, SessionAssumption DEF Op
  <2>3. /\ s \in Seq(OutByte) /\ Len(s) = 3
        /\ s[1] = [sym |-> op.kind, tag |-> op.id]
        /\ s[2] = [sym |-> "CR", tag |-> op.id]
        /\ s[3] = [sym |-> "LF", tag |-> op.id]
    BY <2>2, CommandLineFields
  <2>4. toConsole = <<>> /\ console.mode = "command"
    BY <1>1, <1>9 DEF Quiet
  <2>5. toConsole' = s
    BY <2>1, <2>3, <2>4, ConcatEmptySeq
  <2> HIDE DEF s, x
  <2>6. ConsoleSide'
    <3>1. s[1].sym = op.kind /\ s[2].sym = "CR" /\ s[3].sym = "LF"
      BY <2>3
    <3>2. LineOrPayload(s, console)
      BY <1>1, <2>3, <2>4, <3>1 DEF LineOrPayload
    <3> QED
      BY <1>3, <2>5, <3>2 DEF ConsoleSide
  <2>7. WireKept
    BY <1>3, <2>3, <2>5, <2>6 DEF WireKept, Careful, Typed, NothingAfterReset
  <2>8. op' \in Op /\ op'.at = "flush" /\ op'.kind = op.kind /\ op'.id = op.id
    BY <1>1, <2>1 DEF Op, At
  <2>9. Asking(Incoming, op.kind, op.id, s, console, link)
    <3>1. Own(s, op.id)
      BY <2>3 DEF Own
    <3> QED
      BY <1>1, <2>3, <2>4, <3>1 DEF Asking
  <2>10. Wire(x, Incoming, op.kind, op.id, toConsole', console, link)
    BY <1>5, <2>5, <2>9 DEF Wire
  <2> QED
    BY <1>2, <1>5, <1>6, <2>1, <2>7, <2>8, <2>10, PumpsOn
<1> QED
  BY <1>8, <1>9

LEMMA ReadIsCareful ==
  ASSUME Careful, PumpRead
  PROVE  Careful'
<1>1. /\ engine \in Engine /\ op \in Op /\ toClient \in Seq(Byte) /\ Len(toClient) \in Nat
      /\ op.at = "read" /\ engine.mode \in Reading /\ link # "reset"
      /\ engine.outbox = <<>> /\ engine.inbox \in Seq(Byte) /\ console \in Console
  BY LenProperties DEF PumpRead, Careful, Typed, Reads, Line, Engine
<1>2. PICK m \in 1 .. Len(toClient) :
        /\ engine' = Recv(engine, SubSeq(toClient, 1, m))
        /\ op' = [op EXCEPT !.at = "flush"]
        /\ toClient' = SubSeq(toClient, m + 1, Len(toClient))
  BY DEF PumpRead, Await
<1>3. UNCHANGED <<toConsole, link, console, answer>>
  BY DEF PumpRead
<1> DEFINE piece == SubSeq(toClient, 1, m)
           x     == [engine EXCEPT !.inbox = @ \o piece]
<1>4. m \in 0 .. Len(toClient) /\ piece \in Seq(Byte) /\ toClient' \in Seq(Byte)
  BY <1>1, <1>2, TakeFields, DropFields
<1>5. engine' = Advance(x)
  BY <1>1, <1>2 DEF Recv, Reading, InFlight, Dead
<1>6. (engine.inbox \o piece) \o toClient' = Incoming
  BY <1>1, <1>2, Regroup DEF Incoming
<1>7. x \in Engine /\ x.inbox = engine.inbox \o piece /\ x.outbox = <<>> /\ Same(engine, x)
  <2>1. engine.inbox \o piece \in Seq(Byte)
    BY <1>1, <1>4, ConcatProperties
  <2> QED
    BY <1>1, <2>1 DEF Engine, Same
<1> HIDE DEF x, piece
<1>8. /\ Fits(engine, Incoming, op.kind, op.id, Meant)
      /\ Wire(engine, Incoming, op.kind, op.id, toConsole, console, link)
  BY <1>1 DEF Careful, Pumping
<1>9. Sound(x, toClient', op.kind, op.id, Meant, toConsole, console, link)
  <2>1. /\ Fits(x, Incoming, op.kind, op.id, Meant)
        /\ Wire(x, Incoming, op.kind, op.id, toConsole, console, link)
    BY <1>7, <1>8, SameFits
  <2>2. x.inbox \o toClient' = Incoming
    BY <1>6, <1>7
  <2> QED
    BY <1>7, <2>1, <2>2 DEF Sound
<1> DEFINE w == toClient'
           y == Advance(x)
<1>10. Sound(y, w, op.kind, op.id, Meant, toConsole, console, link) /\ y.outbox = <<>>
  <2>1. w \in Seq(Byte) /\ Sound(x, w, op.kind, op.id, Meant, toConsole, console, link)
    BY <1>4, <1>9
  <2> HIDE DEF w
  <2> QED
    BY <1>1, <1>7, <2>1, AdvanceIsSound
<1> HIDE DEF y
<1>11. /\ y \in Engine
       /\ Fits(y, y.inbox \o toClient', op.kind, op.id, Meant)
       /\ Wire(y, y.inbox \o toClient', op.kind, op.id, toConsole', console, link)
  BY <1>3, <1>10 DEF Sound
<1>12. op' \in Op /\ op'.at = "flush" /\ op'.kind = op.kind /\ op'.id = op.id
  BY <1>1, <1>2 DEF Op, At
<1>13. WireKept
  BY <1>1, <1>3, <1>4 DEF WireKept, Careful, Typed, ConsoleSide, NothingAfterReset
<1>14. engine' = y
  BY <1>5 DEF y
<1> QED
  BY <1>10, <1>11, <1>12, <1>13, <1>14, PumpsOn

LEMMA EofIsCareful ==
  ASSUME Careful, PumpEof
  PROVE  Careful'
<1> DEFINE x  == CloseRead(engine)
           ev == [kind |-> "Closed", data |-> <<>>]
<1>1. /\ engine \in Engine /\ op \in Op /\ op.at = "read" /\ engine.mode \in Reading
      /\ engine.outbox = <<>>
      /\ engine' = x /\ op' = [op EXCEPT !.at = "flush"]
      /\ UNCHANGED <<toConsole, toClient, link, console, answer>>
  BY DEF PumpEof, Await, Careful, Typed, Reads, Line
<1>2. engine.events = <<>>
  BY <1>1 DEF Careful, Pumping, Fits
<1>3. x \in Engine /\ x.mode = "Closed" /\ x.outbox = <<>> /\ x.events = Append(<<>>, ev)
  BY <1>1, <1>2, CloseReadFields DEF IsTerminal, Reading, InFlight, Dead
<1>4. ev \in Event /\ ev.kind = "Closed"
  BY EmptySeq DEF Event, EventKind
<1> HIDE DEF x, ev
<1>5. Len(x.events) = 1 /\ x.events[1].kind = "Closed"
  BY <1>3, <1>4, FirstEvent
<1>6. op' \in Op /\ op'.at = "flush" /\ op'.kind = op.kind /\ op'.id = op.id
  BY <1>1 DEF Op, At
<1>7. /\ Fits(x, x.inbox \o toClient', op.kind, op.id, Meant)
      /\ Wire(x, x.inbox \o toClient', op.kind, op.id, toConsole', console, link)
  BY <1>3, <1>5 DEF Fits, Wire, Reading, InFlight, Dead
<1>8. WireKept
  BY <1>1, SameWire
<1> QED
  BY <1>1, <1>3, <1>6, <1>7, <1>8, PumpsOn

LEMMA ReadErrorIsCareful ==
  ASSUME Careful, PumpReadError
  PROVE  Careful'
<1>1. /\ engine \in Engine /\ op.at = "read" /\ engine.mode \in Reading
      /\ engine.outbox = <<>> /\ Over(engine, "err", <<>>, {})
      /\ UNCHANGED <<toConsole, toClient, link, console, answer>>
  BY DEF PumpReadError, Return, Careful, Typed, Reads, Line
<1>2. WireKept
  BY <1>1, SameWire
<1>3. /\ Fits(engine, engine.inbox \o toClient', op.kind, op.id, Meant)
      /\ Wire(engine, engine.inbox \o toClient', op.kind, op.id, toConsole', console, link)
  BY <1>1 DEF Careful, Pumping, Incoming
<1>4. engine.mode # "Idle"
  BY <1>1 DEF Reading, InFlight
<1> QED
  BY <1>1, <1>2, <1>3, <1>4, OverIsCareful

\* The invitation has come: the FileUpload begins.
LEMMA UploadBegins ==
  ASSUME Careful, UNCHANGED <<toConsole, toClient, link, console, answer>>,
         NEW e \in Engine, engine' = e, e.outbox = <<>>, e.mode = "Idle", e.events = <<>>,
         op' = [op EXCEPT !.at = "upload", !.left = UploadLen], op.kind = "send",
         StatusFits(e.inbox \o toClient), Own(e.inbox \o toClient, op.id),
         e.inbox \o toClient # <<>> => UploadLen = 0,
         link # "reset" => Invited(e.inbox \o toClient, op.id, toConsole, console)
  PROVE  Careful'
<1>1. WireKept /\ op \in Op /\ UploadLen \in Nat
  BY SameWire, SessionAssumption DEF Careful, Typed
<1>2. /\ op' \in Op /\ op'.at = "upload" /\ op'.kind = op.kind /\ op'.id = op.id
      /\ op'.left = UploadLen
  BY <1>1 DEF Op, At
<1>3. Typed'
  BY <1>1, <1>2 DEF Typed, Careful, WireKept
<1>4. Incoming' = e.inbox \o toClient /\ Len(<<>>) = 0
  BY DEF Incoming
<1>5. ASSUME link' # "reset"
      PROVE  IF console'.mode = "upload"
             THEN /\ console'.id = op'.id /\ Incoming' = <<>>
                  /\ op'.left + Len(toConsole') <= console'.left
             ELSE op'.left = 0 /\ toConsole' = <<>>
  <2>1. Invited(Incoming', op.id, toConsole, console)
    BY <1>4, <1>5
  <2>2. CASE console.mode = "upload"
    <3>1. toConsole = <<>> /\ console.id = op.id /\ console.left = UploadLen /\ Incoming' = <<>>
      BY <2>1, <2>2 DEF Invited
    <3>2. UploadLen + Len(toConsole') <= console'.left
      BY <1>1, <1>4, <3>1
    <3> QED
      BY <1>2, <2>2, <3>1, <3>2
  <2>3. CASE console.mode # "upload"
    BY <1>2, <2>1, <2>3 DEF Invited
  <2> QED
    BY <2>2, <2>3
<1>6. Uploading'
  BY <1>2, <1>4, <1>5 DEF Uploading
<1>7. Reads' /\ Writing' /\ Pumping' /\ Streaming' /\ Line' /\ AtRest'
  BY <1>2 DEF Reads, Writing, Pumping, Streaming, Line, AtRest
<1> QED
  BY <1>1, <1>3, <1>6, <1>7 DEF Careful, WireKept

\* What pump_until leaves of the queue.
LEMMA QueueFields ==
  ASSUME NEW e \in Engine, NEW i \in 0 .. Len(e.events)
  PROVE  LET rest == [e EXCEPT !.events = SubSeq(@, i + 1, Len(@))]
             none == [e EXCEPT !.events = <<>>]
         IN /\ rest \in Engine /\ rest.mode = e.mode /\ rest.inbox = e.inbox
            /\ rest.outbox = e.outbox
            /\ i = Len(e.events) => rest.events = <<>>
            /\ none \in Engine /\ none.mode = e.mode /\ none.inbox = e.inbox
            /\ none.outbox = e.outbox /\ none.events = <<>>
            /\ none.expect = e.expect /\ none.remaining = e.remaining
<1> DEFINE s == e.events
           r == SubSeq(s, i + 1, Len(s))
<1>1. s \in Seq(Event) /\ Len(s) \in Nat /\ <<>> \in Seq(Event)
  BY LenProperties, EmptySeq DEF Engine
<1>2. r \in Seq(Event) /\ Len(r) = Len(s) - i
  BY <1>1, DropFields
<1> HIDE DEF r
<1>3. i = Len(s) => r = <<>>
  BY <1>1, <1>2, EmptySeq
<1> QED
  BY <1>1, <1>2, <1>3 DEF Engine, r

LEMMA FlushIsCareful ==
  ASSUME Careful, PumpFlush
  PROVE  Careful'
<1> DEFINE polled == Advance(engine)
           K      == Wanted(op.kind) \cup Dead
           i      == EventAt(polled.events, K)
           rest   == [polled EXCEPT !.events = SubSeq(@, i + 1, Len(@))]
           none   == [polled EXCEPT !.events = <<>>]
           r      == polled.inbox \o toClient
<1>1. /\ op.at = "flush" /\ engine \in Engine /\ op \in Op /\ engine.outbox = <<>>
      /\ toClient \in Seq(Byte) /\ console \in Console
      /\ UNCHANGED <<toConsole, toClient, link, console, answer>>
  BY DEF PumpFlush, Careful, Typed, Line
<1>2. IF i = 0
      THEN IF IsTerminal(polled) THEN Return(none, "err", <<>>)
                                 ELSE Await(none, [op EXCEPT !.at = "read"])
      ELSE IF polled.events[i].kind \in Wanted(op.kind)
           THEN OnEvent(rest, polled.events[i])
           ELSE Return(rest, "err", <<>>)
  BY DEF PumpFlush, EventAt
<1>3. WireKept
  BY <1>1, SameWire
<1>4. /\ Sound(polled, toClient, op.kind, op.id, Meant, toConsole, console, link)
      /\ polled.outbox = <<>>
  <2>1. Sound(engine, toClient, op.kind, op.id, Meant, toConsole, console, link)
    BY <1>1 DEF Sound, Careful, Pumping, Incoming
  <2> QED
    BY <1>1, <2>1, AdvanceIsSound
<1> HIDE DEF polled
<1>5. /\ polled \in Engine /\ Len(polled.events) \in Nat
      /\ Fits(polled, r, op.kind, op.id, Meant)
      /\ Wire(polled, r, op.kind, op.id, toConsole, console, link)
  BY <1>4, LenProperties DEF Sound, Engine
<1>6. /\ i \in 0 .. Len(polled.events)
      /\ i # 0 => polled.events[i].kind \in K
      /\ Len(polled.events) = 1 /\ polled.events[1].kind \in K => i = 1
  BY <1>5, EventAtFields
<1> HIDE DEF i
<1>7. /\ rest \in Engine /\ rest.mode = polled.mode /\ rest.inbox = polled.inbox
      /\ rest.outbox = <<>>
      /\ i = Len(polled.events) => rest.events = <<>>
      /\ none \in Engine /\ none.mode = polled.mode /\ none.inbox = polled.inbox
      /\ none.outbox = <<>> /\ none.events = <<>>
      /\ none.expect = polled.expect /\ none.remaining = polled.remaining
  BY <1>4, <1>5, <1>6, QueueFields
<1> HIDE DEF rest, none
<1>8. CASE polled.mode \in Reading
  <2>1. polled.events = <<>>
    BY <1>5, <1>8 DEF Fits
  <2>2. i = 0
    BY <1>6, <2>1
  <2>3. engine' = none /\ op' = [op EXCEPT !.at = "read"]
    BY <1>2, <1>8, <2>2 DEF IsTerminal, Reading, InFlight, Dead, Await
  <2>4. op' \in Op /\ op'.at = "read" /\ op'.kind = op.kind /\ op'.id = op.id
    BY <1>1, <2>3 DEF Op, At
  <2>5. Same(polled, none)
    BY <1>7, <2>1 DEF Same
  <2>6. none.inbox \o toClient' = r
    BY <1>1, <1>7
  <2> HIDE DEF r
  <2>7. Fits(none, r, op.kind, op.id, Meant)
    BY <1>5, <2>5, SameFits
  <2>8. Wire(none, r, op.kind, op.id, toConsole', console, link)
    BY <1>1, <1>5, <2>5, SameFits
  <2>9. none \in Engine /\ none.outbox = <<>> /\ none.mode \in Reading
    BY <1>7, <1>8
  <2> QED
    BY <1>3, <2>3, <2>4, <2>6, <2>7, <2>8, <2>9, PumpsOn
<1>9. CASE polled.mode = "Idle"
  <2> DEFINE ev == polled.events[1]
  <2>1. /\ Len(polled.events) = 1 /\ ev.kind \in Wanted(op.kind) \ {"BinaryHead", "Closed"}
        /\ IF ev.kind = "SendBinary"
           THEN /\ op.kind = "send" /\ StatusFits(r) /\ Own(r, op.id)
                /\ r # <<>> => UploadLen = 0
           ELSE r = <<>>
        /\ link # "reset" => IF ev.kind = "SendBinary"
                             THEN Invited(r, op.id, toConsole, console)
                             ELSE Quiet(toConsole, console)
    BY <1>5, <1>9 DEF Fits, Wire
  <2>2. i = 1
    BY <1>6, <2>1
  <2>3. OnEvent(rest, ev) /\ rest.events = <<>>
    BY <1>2, <1>7, <2>1, <2>2
  <2> HIDE DEF ev
  <2>4. CASE ev.kind = "SendBinary"
    <3>1. op' = [op EXCEPT !.at = "upload", !.left = UploadLen] /\ engine' = rest
      BY <2>1, <2>3, <2>4 DEF OnEvent, Await
    <3>2. rest.inbox \o toClient = r
      BY <1>7
    <3> HIDE DEF r
    <3> QED
      BY <1>1, <1>7, <1>9, <2>1, <2>3, <2>4, <3>1, <3>2, UploadBegins
  <2>5. CASE ev.kind # "SendBinary"
    <3>1. \E outcome, data : Return(rest, outcome, data)
      <4>1. \/ Return(rest, "remote", ev.data) \/ Return(rest, "ok", ev.data)
            \/ Return(rest, "err", <<>>)
        BY <2>1, <2>3, <2>5 DEF OnEvent
      <4> QED
        BY <4>1
    <3>2. PICK outcome, data : Over(rest, outcome, data, {})
      BY <3>1 DEF Return
    <3>3. /\ rest.inbox \o toClient' = <<>>
          /\ link # "reset" => Quiet(toConsole', console)
      BY <1>1, <1>7, <2>1, <2>5
    <3> QED
      BY <1>3, <1>7, <1>9, <2>3, <3>2, <3>3, OverIsCareful
  <2> QED
    BY <2>4, <2>5
<1>10. CASE polled.mode = "StreamingBody"
  <2> DEFINE ev == polled.events[1]
             x  == TakeInbox(rest)
             b  == polled.inbox
  <2>1. /\ Len(polled.events) = 1 /\ ev.kind = "BinaryHead"
        /\ StreamFits(r, op.kind, op.id, Meant)
        /\ link # "reset" => Quiet(toConsole, console)
    BY <1>5, <1>10 DEF Fits, Wire
  <2>2. op.kind \in Streamed /\ ev.kind \in Wanted(op.kind)
    BY <2>1 DEF StreamFits, Streamed, Wanted, AnswerKind
  <2>3. i = 1
    BY <1>6, <2>1, <2>2
  <2>4. OnEvent(rest, ev) /\ rest.events = <<>>
    BY <1>2, <1>7, <2>1, <2>2, <2>3
  <2> HIDE DEF ev
  <2>5. /\ engine' = x
        /\ IF op.kind = "shot" THEN op' = [op EXCEPT !.at = "meta", !.buf = b]
                               ELSE op' = [op EXCEPT !.at = "prefix", !.buf = b]
    BY <1>7, <2>1, <2>2, <2>4 DEF OnEvent, Await, Streamed
  <2>6. /\ x \in Engine /\ x.inbox = <<>> /\ x.events = <<>> /\ x.outbox = <<>>
        /\ x.mode = "StreamingBody"
    <3>1. x \in Engine /\ Alike(rest, x)
      BY <1>7, TakeInboxFields
    <3>2. x.inbox = <<>>
      BY <1>7 DEF TakeInbox, Engine
    <3> QED
      BY <1>7, <1>10, <2>4, <3>1, <3>2 DEF Alike
  <2> HIDE DEF x
  <2>7. b \in Seq(Byte)
    BY <1>5 DEF Engine
  <2>8. r = b \o toClient'
    BY <1>1
  <2> HIDE DEF b, r
  <2>9. /\ op' \in Op /\ op'.kind = op.kind /\ op'.id = op.id /\ op'.buf = b
        /\ op'.at = IF op.kind = "shot" THEN "meta" ELSE "prefix"
    BY <1>1, <2>5, <2>7 DEF Op, At
  <2>10. /\ op'.at \in {"prefix", "body", "meta", "frame"}
         /\ op.kind \in IF op'.at \in {"prefix", "body"} THEN {"get", "range"} ELSE {"shot"}
         /\ op'.at \notin {"body", "frame"}
    BY <2>2, <2>9 DEF Streamed
  <2>11. StreamFits(op'.buf \o toClient', op.kind, op.id, Meant)
    BY <2>1, <2>8, <2>9
  <2>12. link # "reset" => Quiet(toConsole', console)
    BY <1>1, <2>1
  <2> QED
    BY <1>3, <2>5, <2>6, <2>9, <2>10, <2>11, <2>12, StreamsOn
<1>11. CASE polled.mode \in Dead
  <2>1. i # 0 => polled.events[i].kind \in Dead
    BY <1>5, <1>6, <1>11 DEF Fits
  <2>2. \E e \in {rest, none} : \E outcome, data : Return(e, outcome, data)
    <3>1. CASE i = 0
      BY <1>2, <1>11, <3>1 DEF IsTerminal
    <3>2. CASE i # 0 /\ polled.events[i].kind \notin Wanted(op.kind)
      BY <1>2, <3>2
    <3>3. CASE i # 0 /\ polled.events[i].kind \in Wanted(op.kind)
      <4> DEFINE ev == polled.events[i]
      <4>1. OnEvent(rest, ev) /\ ev.kind \in Dead /\ ev.kind \in Wanted(op.kind)
        BY <1>2, <2>1, <3>3
      <4> HIDE DEF ev
      <4>2. op.kind = "bye" /\ ev.kind = "Closed"
        BY <4>1 DEF Wanted, AnswerKind, Dead
      <4>3. Return(rest, "ok", ev.data)
        BY <4>1, <4>2 DEF OnEvent
      <4> QED
        BY <4>3
    <3> QED
      BY <3>1, <3>2, <3>3
  <2>3. PICK e \in {rest, none} : \E outcome, data : Over(e, outcome, data, {})
    BY <2>2 DEF Return
  <2>4. PICK outcome, data : Over(e, outcome, data, {})
    BY <2>3
  <2>5. e \in Engine /\ e.outbox = <<>> /\ e.mode \notin {"AwaitingHead", "Idle"}
    BY <1>7, <1>11, <2>3 DEF Dead
  <2> QED
    BY <1>3, <2>4, <2>5, OverIsCareful
<1>12. polled.mode \in Mode
  BY <1>5 DEF Engine
<1> QED
  BY <1>8, <1>9, <1>10, <1>11, <1>12 DEF Mode, Reading, InFlight, Dead

-----------------------------------------------------------------------------
(* get_file, FileDownload and screenshot. *)

LEMMA StreamingFacts ==
  ASSUME Careful, op.at \in {"prefix", "body", "meta", "frame"}
  PROVE  /\ engine \in Engine /\ op \in Op /\ op.buf \in Seq(Byte) /\ op.got \in Seq(Byte)
         /\ op.left \in Nat /\ toClient \in Seq(Byte)
         /\ engine.mode = "StreamingBody" /\ engine.inbox = <<>> /\ engine.events = <<>>
         /\ engine.outbox = <<>> /\ Meant \in Nat
         /\ op.kind \in IF op.at \in {"prefix", "body"} THEN {"get", "range"} ELSE {"shot"}
         /\ op.at \in {"prefix", "meta"} =>
              StreamFits(op.buf \o toClient, op.kind, op.id, Meant)
         /\ op.at \in {"body", "frame"} => Len(op.buf \o toClient) <= op.left
         /\ link # "reset" => Quiet(toConsole, console)
         /\ link = "reset" \/ AtEof => toClient = <<>>
<1>1. op \in Op /\ engine \in Engine /\ answer \in [Tag -> Seq(InSym)] /\ toClient \in Seq(Byte)
  BY DEF Careful, Typed
<1>2. op.id \in Tag /\ op.buf \in Seq(Byte) /\ op.got \in Seq(Byte) /\ op.left \in Nat
  BY <1>1 DEF Op
<1>3. Meant \in Nat
  BY <1>1, <1>2, LenProperties DEF Meant
<1>4. engine.outbox = <<>>
  BY DEF Careful, Line
<1>5. link = "reset" \/ AtEof => toClient = <<>>
  BY DEF Careful, NothingAfterReset, AtEof
<1> QED
  BY <1>1, <1>2, <1>3, <1>4, <1>5 DEF Careful, Streaming

\* The stream is aborted.
LEMMA AbortIsCareful ==
  ASSUME Careful, op.at \in {"prefix", "body", "meta", "frame"},
         Return(AbortStream(engine), "err", <<>>),
         UNCHANGED <<toConsole, toClient, link, console, answer>>
  PROVE  Careful'
<1> DEFINE x == AbortStream(engine)
<1>1. engine \in Engine /\ engine.mode = "StreamingBody" /\ engine.outbox = <<>>
  BY StreamingFacts
<1>2. x \in Engine /\ x.mode = "Failed" /\ x.outbox = <<>>
  BY <1>1, AbortStreamFields
<1>3. Over(x, "err", <<>>, {}) /\ WireKept
  BY SameWire DEF Return
<1> HIDE DEF x
<1> QED
  BY <1>2, <1>3, OverIsCareful

\* It ends with nothing left of it.
LEMMA EndIsCareful ==
  ASSUME Careful, op.at \in {"prefix", "body", "meta", "frame"},
         NEW outcome, NEW data, NEW b, b = <<>>, toClient = <<>>,
         Return(EndStream(engine, b), outcome, data),
         UNCHANGED <<toConsole, toClient, link, console, answer>>
  PROVE  Careful'
<1> DEFINE x == EndStream(engine, b)
<1>1. /\ engine \in Engine /\ engine.mode = "StreamingBody" /\ engine.outbox = <<>>
      /\ engine.inbox = <<>> /\ engine.events = <<>>
      /\ link # "reset" => Quiet(toConsole, console)
  BY StreamingFacts
<1>2. b \in Seq(Byte) /\ <<>> \o b = <<>>
  BY EmptySeq, ConcatEmptySeq
<1>3. x \in Engine /\ x.mode = "Idle" /\ x.outbox = <<>> /\ x.events = <<>>
  BY <1>1, <1>2, EndStreamFields
<1>4. x.inbox = <<>>
  BY <1>1, <1>2 DEF EndStream, Engine
<1>5. Over(x, outcome, data, {}) /\ WireKept
  BY SameWire DEF Return
<1> HIDE DEF x
<1>6. x.inbox \o toClient' = <<>>
  BY <1>2, <1>4
<1> QED
  BY <1>1, <1>3, <1>5, <1>6, OverIsCareful

LEMMA PrefixFailsIsCareful ==
  ASSUME Careful, PrefixFails
  PROVE  Careful'
<1> DEFINE b == <<>>
<1>1. /\ op.at = "prefix" /\ toClient = <<>>
      /\ Return(EndStream(engine, b), "err", <<>>)
      /\ UNCHANGED <<toConsole, toClient, link, console, answer>>
  BY StreamingFacts DEF PrefixFails
<1> HIDE DEF b
<1>2. b = <<>>
  BY DEF b
<1> QED
  BY <1>1, <1>2, EndIsCareful

\* Both parts of an empty sequence are empty.
LEMMA NothingTogether ==
  ASSUME NEW a \in Seq(Byte), NEW b \in Seq(Byte), Len(a \o b) <= 0
  PROVE  a = <<>> /\ b = <<>>
<1>1. Len(a) \in Nat /\ Len(b) \in Nat /\ Len(a \o b) = Len(a) + Len(b)
  BY LenProperties, ConcatProperties
<1>2. Len(a) = 0 /\ Len(b) = 0
  BY <1>1
<1> QED
  BY <1>2, EmptySeq

LEMMA DoneIsCareful ==
  ASSUME Careful, FinishDownload \/ FrameDone
  PROVE  Careful'
<1>1. /\ op.at \in {"body", "frame"} /\ op.left = 0
      /\ Return(EndStream(engine, op.buf), "ok", op.got)
      /\ UNCHANGED <<toConsole, toClient, link, console, answer>>
  BY DEF FinishDownload, FrameDone
<1>2. op.buf \in Seq(Byte) /\ toClient \in Seq(Byte) /\ Len(op.buf \o toClient) <= 0
  BY <1>1, StreamingFacts
<1>3. op.buf = <<>> /\ toClient = <<>>
  BY <1>2, NothingTogether
<1> QED
  BY <1>1, <1>3, EndIsCareful

LEMMA GivesUpIsCareful ==
  ASSUME Careful, DownloadFails \/ DropDownload \/ ShotFails
  PROVE  Careful'
BY AbortIsCareful DEF DownloadFails, DropDownload, ShotFails

LEMMA TailFields ==
  ASSUME NEW s \in Seq(Byte), s # <<>>
  PROVE  /\ Tail(s) \in Seq(Byte) /\ Len(Tail(s)) = Len(s) - 1 /\ Head(s) = s[1]
         /\ Len(s) \in Nat \ {0}
BY LenProperties, EmptySeq, HeadTailProperties

LEMMA PrefixIsCareful ==
  ASSUME Careful, ReadPrefix
  PROVE  Careful'
<1> DEFINE s == op.buf \o toClient
<1>1. op.at = "prefix" /\ UNCHANGED <<toConsole, link, console, answer>>
  BY DEF ReadPrefix
<1>2. /\ engine \in Engine /\ op \in Op /\ op.buf \in Seq(Byte) /\ toClient \in Seq(Byte)
      /\ engine.mode = "StreamingBody" /\ engine.inbox = <<>> /\ engine.events = <<>>
      /\ engine.outbox = <<>> /\ Meant \in Nat /\ op.kind \in {"get", "range"}
      /\ StreamFits(s, op.kind, op.id, Meant)
      /\ link # "reset" => Quiet(toConsole, console)
  BY <1>1, StreamingFacts
<1>3. /\ Len(s) = Len(op.buf) + Len(toClient) /\ Len(op.buf) \in Nat /\ Len(toClient) \in Nat
      /\ \A i \in 1 .. Len(op.buf) + Len(toClient) :
           s[i] = IF i <= Len(op.buf) THEN op.buf[i] ELSE toClient[i - Len(op.buf)]
  BY <1>2, ConcatProperties, LenProperties
<1>4. /\ Len(s) <= Meant + 1
      /\ \A i \in 1 .. Len(s) : s[i].tag = op.id
      /\ op.kind = "range" => Meant = AskedLen
  BY <1>2 DEF StreamFits, Own
<1> HIDE DEF s
<1>5. ASSUME NEW b, NEW rest \in Seq(Byte), WithPrefix(b, rest), b.tag = op.id,
             toClient' \in Seq(Byte), Len(rest) + Len(toClient') <= Meant,
             toClient = <<>> => toClient' = <<>>
      PROVE  Careful'
  <2>1. PrefixOf(b) = Meant
    BY <1>5 DEF PrefixOf, Meant
  <2>2. /\ engine' = engine
        /\ op' = [op EXCEPT !.at = "body", !.left = Meant, !.buf = rest]
    BY <1>4, <1>5, <2>1 DEF WithPrefix, Await
  <2>3. /\ op' \in Op /\ op'.at = "body" /\ op'.kind = op.kind /\ op'.id = op.id
        /\ op'.buf = rest /\ op'.left = Meant
    BY <1>2, <1>5, <2>2 DEF Op, At
  <2>4. Len(rest \o toClient') = Len(rest) + Len(toClient')
    BY <1>5, ConcatProperties
  <2>5. WireKept
    BY <1>1, <1>5 DEF WireKept, Careful, Typed, ConsoleSide, NothingAfterReset
  <2>6. link # "reset" => Quiet(toConsole', console)
    BY <1>1, <1>2
  <2> HIDE <1>2
  <2>7. Len(op'.buf \o toClient') <= op'.left
    BY <1>5, <2>3, <2>4
  <2>8. /\ op'.at \in {"prefix", "body", "meta", "frame"} /\ op'.at \notin {"prefix", "meta"}
        /\ op.kind \in IF op'.at \in {"prefix", "body"} THEN {"get", "range"} ELSE {"shot"}
    BY <1>2, <2>3
  <2> QED
    BY <1>2, <2>2, <2>3, <2>5, <2>6, <2>7, <2>8, StreamsOn
<1>6. CASE op.buf # <<>>
  <2> DEFINE b    == Head(op.buf)
             rest == Tail(op.buf)
  <2>1. WithPrefix(b, rest) /\ UNCHANGED toClient
    BY <1>6 DEF ReadPrefix
  <2>2. rest \in Seq(Byte) /\ Len(rest) = Len(op.buf) - 1 /\ b = op.buf[1] /\ Len(op.buf) # 0
    BY <1>2, <1>6, TailFields
  <2> HIDE DEF b, rest
  <2>3. b = s[1] /\ 1 \in 1 .. Len(s)
    BY <1>3, <2>2
  <2>4. b.tag = op.id
    BY <1>4, <2>3
  <2>5. Len(rest) + Len(toClient') <= Meant
    BY <1>2, <1>3, <1>4, <2>1, <2>2
  <2> QED
    BY <1>2, <1>5, <2>1, <2>2, <2>4, <2>5
<1>7. CASE op.buf = <<>>
  <2> DEFINE b    == Head(toClient)
             rest == <<>>
  <2>1. toClient # <<>> /\ WithPrefix(b, rest) /\ toClient' = Tail(toClient)
    BY <1>7 DEF ReadPrefix
  <2>2. /\ toClient' \in Seq(Byte) /\ Len(toClient') = Len(toClient) - 1 /\ b = toClient[1]
        /\ Len(toClient) # 0
    BY <1>2, <2>1, TailFields
  <2>3. rest \in Seq(Byte) /\ Len(rest) = 0 /\ Len(op.buf) = 0
    BY <1>7, EmptySeq
  <2> HIDE DEF b, rest
  <2>4. b = s[1] /\ 1 \in 1 .. Len(s)
    BY <1>3, <2>2, <2>3
  <2>5. b.tag = op.id
    BY <1>4, <2>4
  <2>6. Len(rest) + Len(toClient') <= Meant
    BY <1>2, <1>3, <1>4, <2>2, <2>3
  <2> QED
    BY <1>5, <2>1, <2>2, <2>3, <2>5, <2>6
<1> QED
  BY <1>6, <1>7

\* A piece of k bytes of the payload, off the buffer or off the wire.
LEMMA PieceIsCareful ==
  ASSUME Careful, op.at \in {"body", "frame"}, engine' = engine,
         UNCHANGED <<toConsole, link, console, answer>>,
         NEW k \in Nat, k <= op.left,
         op' \in Op, op'.at = op.at, op'.kind = op.kind, op'.id = op.id,
         op'.left = op.left - k,
         toClient' \in Seq(Byte), toClient = <<>> => toClient' = <<>>,
         Len(op'.buf) + Len(toClient') = (Len(op.buf) + Len(toClient)) - k
  PROVE  Careful'
<1>1. /\ engine \in Engine /\ op \in Op /\ op.buf \in Seq(Byte) /\ op.left \in Nat
      /\ toClient \in Seq(Byte) /\ engine.mode = "StreamingBody" /\ engine.inbox = <<>>
      /\ engine.events = <<>> /\ engine.outbox = <<>>
      /\ op.kind \in IF op.at \in {"prefix", "body"} THEN {"get", "range"} ELSE {"shot"}
      /\ Len(op.buf \o toClient) <= op.left
      /\ link # "reset" => Quiet(toConsole, console)
  BY StreamingFacts
<1>2. op'.buf \in Seq(Byte)
  BY DEF Op
<1>3. /\ Len(op.buf \o toClient) = Len(op.buf) + Len(toClient)
      /\ Len(op'.buf \o toClient') = Len(op'.buf) + Len(toClient')
      /\ Len(op.buf) \in Nat /\ Len(toClient) \in Nat
      /\ Len(op'.buf) \in Nat /\ Len(toClient') \in Nat
  BY <1>1, <1>2, ConcatProperties, LenProperties
<1>4. Len(op'.buf \o toClient') <= op'.left
  BY <1>1, <1>3
<1>5. WireKept
  BY DEF WireKept, Careful, Typed, ConsoleSide, NothingAfterReset
<1>6. op'.at \in {"prefix", "body", "meta", "frame"} /\ op'.at \notin {"prefix", "meta"}
  OBVIOUS
<1>7. /\ op.kind \in IF op'.at \in {"prefix", "body"} THEN {"get", "range"} ELSE {"shot"}
      /\ link # "reset" => Quiet(toConsole', console)
  BY <1>1
<1> QED
  BY <1>1, <1>4, <1>5, <1>6, <1>7, StreamsOn

LEMMA BodyIsCareful ==
  ASSUME Careful, ReadBody \/ ReadFrame
  PROVE  Careful'
<1>1. /\ op.at \in {"body", "frame"} /\ op.left > 0 /\ engine' = engine
      /\ UNCHANGED <<toConsole, link, console, answer>>
  BY DEF ReadBody, ReadFrame, Await
<1>2. /\ op \in Op /\ op.buf \in Seq(Byte) /\ op.got \in Seq(Byte) /\ op.left \in Nat
      /\ toClient \in Seq(Byte) /\ Len(op.buf) \in Nat /\ Len(toClient) \in Nat
  BY <1>1, StreamingFacts, LenProperties
<1>3. CASE op.buf # <<>>
  <2>1. \E k \in 1 .. Min2(op.left, Len(op.buf)) :
          /\ op' = [op EXCEPT !.left = @ - k, !.got = @ \o SubSeq(op.buf, 1, k),
                              !.buf = SubSeq(@, k + 1, Len(@))]
          /\ UNCHANGED toClient
    <3>1. CASE ReadBody
      BY <1>3, <3>1 DEF ReadBody, Await
    <3>2. CASE ReadFrame
      <4> DEFINE k == Min2(op.left, Len(op.buf))
      <4>1. k \in 1 .. Min2(op.left, Len(op.buf))
        <5>1. Len(op.buf) # 0
          BY <1>2, <1>3, EmptySeq
        <5> QED
          BY <1>1, <1>2, <5>1 DEF Min2
      <4>2. /\ op' = [op EXCEPT !.left = @ - k, !.got = @ \o SubSeq(op.buf, 1, k),
                                !.buf = SubSeq(@, k + 1, Len(@))]
            /\ UNCHANGED toClient
        BY <1>3, <3>2 DEF ReadFrame, Await
      <4> HIDE DEF k
      <4> QED
        BY <4>1, <4>2
    <3> QED
      BY <3>1, <3>2
  <2>2. PICK k \in 1 .. Min2(op.left, Len(op.buf)) :
          /\ op' = [op EXCEPT !.left = @ - k, !.got = @ \o SubSeq(op.buf, 1, k),
                              !.buf = SubSeq(@, k + 1, Len(@))]
          /\ UNCHANGED toClient
    BY <2>1
  <2>3. k \in 0 .. Len(op.buf) /\ k \in Nat /\ k <= op.left /\ k <= Len(op.buf)
    BY <1>1, <1>2, <2>2 DEF Min2
  <2> DEFINE a == SubSeq(op.buf, 1, k)
             b == SubSeq(op.buf, k + 1, Len(op.buf))
  <2>4. a \in Seq(Byte) /\ b \in Seq(Byte) /\ Len(b) = Len(op.buf) - k
    BY <1>2, <2>3, TakeFields, DropFields
  <2>5. op' = [op EXCEPT !.left = @ - k, !.got = @ \o a, !.buf = b]
    BY <2>2
  <2> HIDE DEF a, b
  <2>6. op.got \o a \in Seq(Byte) /\ op.left - k \in Nat
    BY <1>2, <2>3, <2>4, ConcatProperties
  <2>7. /\ op' \in Op /\ op'.at = op.at /\ op'.kind = op.kind /\ op'.id = op.id
        /\ op'.left = op.left - k /\ op'.buf = b
    BY <1>2, <2>4, <2>5, <2>6 DEF Op
  <2>8. Len(op'.buf) + Len(toClient') = (Len(op.buf) + Len(toClient)) - k
    <3>1. Len(op'.buf) = Len(op.buf) - k /\ Len(toClient') = Len(toClient)
      BY <2>2, <2>4, <2>7
    <3> QED
      BY <1>2, <2>3, <3>1
  <2> QED
    BY <1>1, <1>2, <2>2, <2>3, <2>7, <2>8, PieceIsCareful
<1>4. CASE op.buf = <<>>
  <2>1. \E k \in 1 .. Min2(op.left, Len(toClient)) :
          /\ op' = [op EXCEPT !.left = @ - k, !.got = @ \o SubSeq(toClient, 1, k)]
          /\ toClient' = SubSeq(toClient, k + 1, Len(toClient))
    BY <1>4 DEF ReadBody, ReadFrame, Await
  <2>2. PICK k \in 1 .. Min2(op.left, Len(toClient)) :
          /\ op' = [op EXCEPT !.left = @ - k, !.got = @ \o SubSeq(toClient, 1, k)]
          /\ toClient' = SubSeq(toClient, k + 1, Len(toClient))
    BY <2>1
  <2>3. k \in 0 .. Len(toClient) /\ k \in Nat /\ k <= op.left /\ k <= Len(toClient) /\ k > 0
    BY <1>1, <1>2, <2>2 DEF Min2
  <2> DEFINE a == SubSeq(toClient, 1, k)
  <2>4. a \in Seq(Byte) /\ toClient' \in Seq(Byte) /\ Len(toClient') = Len(toClient) - k
    BY <1>2, <2>2, <2>3, TakeFields, DropFields
  <2>5. op' = [op EXCEPT !.left = @ - k, !.got = @ \o a]
    BY <2>2
  <2> HIDE DEF a
  <2>6. op.got \o a \in Seq(Byte) /\ op.left - k \in Nat
    BY <1>2, <2>3, <2>4, ConcatProperties
  <2>7. /\ op' \in Op /\ op'.at = op.at /\ op'.kind = op.kind /\ op'.id = op.id
        /\ op'.left = op.left - k /\ op'.buf = op.buf
    BY <1>2, <2>5, <2>6 DEF Op
  <2>8. Len(op'.buf) + Len(toClient') = (Len(op.buf) + Len(toClient)) - k
    BY <1>2, <2>3, <2>4, <2>7
  <2>9. toClient # <<>>
    BY <1>2, <2>3, EmptySeq
  <2> QED
    BY <1>1, <2>3, <2>4, <2>7, <2>8, <2>9, PieceIsCareful
<1> QED
  BY <1>3, <1>4

LEMMA MetaIsCareful ==
  ASSUME Careful, ReadMeta
  PROVE  Careful'
<1>1. op.at = "meta" /\ link # "reset" /\ UNCHANGED <<toConsole, link, console, answer>>
  BY DEF ReadMeta
<1>2. /\ engine \in Engine /\ op \in Op /\ op.buf \in Seq(Byte) /\ toClient \in Seq(Byte)
      /\ engine.mode = "StreamingBody" /\ engine.inbox = <<>> /\ engine.events = <<>>
      /\ engine.outbox = <<>> /\ op.kind = "shot" /\ Len(toClient) \in Nat
      /\ StreamFits(op.buf \o toClient, op.kind, op.id, Meant)
      /\ link # "reset" => Quiet(toConsole, console)
  BY <1>1, StreamingFacts, LenProperties
<1>3. PICK k \in 1 .. Len(toClient) :
        /\ engine' = engine
        /\ op' = [op EXCEPT !.buf = @ \o SubSeq(toClient, 1, k)]
        /\ toClient' = SubSeq(toClient, k + 1, Len(toClient))
  BY DEF ReadMeta, Await
<1> DEFINE a == SubSeq(toClient, 1, k)
<1>4. k \in 0 .. Len(toClient) /\ a \in Seq(Byte) /\ toClient' \in Seq(Byte)
  BY <1>2, <1>3, TakeFields, DropFields
<1>5. (op.buf \o a) \o toClient' = op.buf \o toClient
  BY <1>2, <1>3, Regroup
<1>6. op' = [op EXCEPT !.buf = @ \o a]
  BY <1>3
<1> HIDE DEF a
<1>7. op.buf \o a \in Seq(Byte)
  BY <1>2, <1>4, ConcatProperties
<1>8. /\ op' \in Op /\ op'.at = "meta" /\ op'.kind = op.kind /\ op'.id = op.id
      /\ op'.buf = op.buf \o a
  BY <1>1, <1>2, <1>6, <1>7 DEF Op
<1>9. WireKept
  BY <1>1, <1>4 DEF WireKept, Careful, Typed, ConsoleSide, NothingAfterReset
<1>10. StreamFits(op'.buf \o toClient', op.kind, op.id, Meant)
  BY <1>2, <1>5, <1>8
<1>11. /\ op'.at \in {"prefix", "body", "meta", "frame"} /\ op'.at \notin {"body", "frame"}
       /\ op.kind \in IF op'.at \in {"prefix", "body"} THEN {"get", "range"} ELSE {"shot"}
       /\ link # "reset" => Quiet(toConsole', console)
  BY <1>1, <1>2, <1>8
<1> QED
  BY <1>2, <1>3, <1>8, <1>9, <1>10, <1>11, StreamsOn

LEMMA ParseIsCareful ==
  ASSUME Careful, ParseMeta
  PROVE  Careful'
<1> DEFINE r == op.buf \o toClient
<1>1. op.at = "meta" /\ LfAt(op.buf) # 0 /\ UNCHANGED <<toConsole, toClient, link, console, answer>>
  BY DEF ParseMeta
<1>2. /\ engine \in Engine /\ op \in Op /\ op.buf \in Seq(Byte) /\ toClient \in Seq(Byte)
      /\ engine.mode = "StreamingBody" /\ engine.inbox = <<>> /\ engine.events = <<>>
      /\ engine.outbox = <<>> /\ op.kind = "shot" /\ Meant \in Nat
      /\ StreamFits(r, op.kind, op.id, Meant)
      /\ link # "reset" => Quiet(toConsole, console)
  BY <1>1, StreamingFacts
<1>3. /\ r \in Seq(Byte) /\ Len(r) = Len(op.buf) + Len(toClient)
      /\ Len(op.buf) \in Nat /\ Len(toClient) \in Nat
      /\ \A i \in 1 .. Len(op.buf) + Len(toClient) :
           r[i] = IF i <= Len(op.buf) THEN op.buf[i] ELSE toClient[i - Len(op.buf)]
  BY <1>2, ConcatProperties, LenProperties
<1>4. /\ Len(r) <= Meant + 2 /\ \A i \in 1 .. Len(r) : r[i].tag = op.id
      /\ 1 <= Len(r) => r[1].sym \in {"text", "dot"}
      /\ 2 <= Len(r) => r[2].sym = "LF"
  BY <1>2 DEF StreamFits, Own
<1>5. /\ LfAt(op.buf) = 2 /\ 2 <= Len(r)
      /\ SubSeq(op.buf, LfAt(op.buf) + 1, Len(op.buf)) \o toClient = Rest(r)
  <2>1. 1 <= Len(r) => r[1].sym \notin {"LF", "CR"}
    BY <1>4
  <2> QED
    BY <1>1, <1>2, <1>4, <2>1, TakesOneSymbol
<1> DEFINE line == SubSeq(op.buf, 1, LfAt(op.buf) - 1)
           rest == SubSeq(op.buf, LfAt(op.buf) + 1, Len(op.buf))
<1>6. LfAt(op.buf) \in 0 .. Len(op.buf)
  BY <1>3, LfAtIsFirst
<1>7. rest \in Seq(Byte)
  BY <1>2, <1>6, DropFields
<1>8. line[1].tag = op.id
  <2>1. 1 \in 0 .. Len(op.buf) /\ LfAt(op.buf) - 1 = 1
    BY <1>3, <1>5, <1>6
  <2>2. SubSeq(op.buf, 1, 1)[1] = op.buf[1]
    BY <1>2, <2>1, TakeFields
  <2> HIDE DEF r
  <2>3. op.buf[1] = r[1] /\ 1 \in 1 .. Len(r)
    BY <1>3, <1>5, <2>1
  <2> QED
    BY <1>4, <2>1, <2>2, <2>3
<1>9. Len(Rest(r)) <= Meant
  <2> HIDE DEF r
  <2>1. Len(Rest(r)) = Len(r) - 2
    BY <1>3, <1>5, RestFields
  <2> QED
    BY <1>2, <1>3, <1>4, <1>5, <2>1
<1>10. CASE line[1].sym = "dot"
  <2>1. Return(AbortStream(engine), "err", <<>>)
    BY <1>10 DEF ParseMeta
  <2> QED
    BY <1>1, <2>1, AbortIsCareful
<1>11. CASE line[1].sym # "dot"
  <2>1. /\ engine' = engine
        /\ op' = [op EXCEPT !.at = "frame", !.left = PrefixOf(line[1]), !.buf = rest]
    BY <1>11 DEF ParseMeta, Await
  <2>2. PrefixOf(line[1]) = Meant
    BY <1>8 DEF PrefixOf, Meant
  <2>3. rest \o toClient' = Rest(r)
    BY <1>1, <1>5
  <2> HIDE DEF line, rest, r
  <2>4. /\ op' \in Op /\ op'.at = "frame" /\ op'.kind = op.kind /\ op'.id = op.id
        /\ op'.left = Meant /\ op'.buf = rest
    BY <1>2, <1>7, <2>1, <2>2 DEF Op, At
  <2>5. WireKept
    BY <1>1, SameWire
  <2>6. Len(op'.buf \o toClient') <= op'.left
    BY <1>9, <2>3, <2>4
  <2>7. /\ op'.at \in {"prefix", "body", "meta", "frame"} /\ op'.at \notin {"prefix", "meta"}
        /\ op.kind \in IF op'.at \in {"prefix", "body"} THEN {"get", "range"} ELSE {"shot"}
        /\ link # "reset" => Quiet(toConsole', console)
    BY <1>1, <1>2, <2>4
  <2> QED
    BY <1>2, <2>1, <2>4, <2>5, <2>6, <2>7, StreamsOn
<1> QED
  BY <1>10, <1>11

-----------------------------------------------------------------------------
(* FileUpload. *)

LEMMA FinishIsCareful ==
  ASSUME Careful, FinishUpload
  PROVE  Careful'
<1> DEFINE x == ExpectResponse(engine)
           r == Incoming
<1>1. /\ op.at = "upload" /\ op.left = 0 /\ engine' = x
      /\ op' = [op EXCEPT !.kind = "finish", !.at = "flush"]
      /\ UNCHANGED <<toConsole, toClient, link, console, answer>>
  BY DEF Careful, Uploading, CanSubmit, FinishUpload, Await
<1>2. /\ engine \in Engine /\ op \in Op /\ toClient \in Seq(Byte)
      /\ engine.events = <<>> /\ engine.outbox = <<>>
      /\ StatusFits(r) /\ Own(r, op.id)
      /\ link # "reset" =>
           IF console.mode = "upload" THEN console.id = op.id /\ r = <<>>
                                      ELSE toConsole = <<>>
  BY <1>1 DEF Careful, Typed, Uploading, Line
<1>3. engine.inbox \in Seq(Byte) /\ r \in Seq(Byte) /\ Len(r) \in Nat
  BY <1>2, ConcatProperties, LenProperties DEF Incoming, Engine
<1>4. /\ x \in Engine /\ x.mode = "AwaitingHead" /\ x.expect = "NoBinary"
      /\ x.events = <<>> /\ x.outbox = <<>> /\ x.inbox \o toClient' = r
  BY <1>1, <1>2 DEF ExpectResponse, Engine, Mode, Expect, Incoming
<1> HIDE DEF x, r
<1>5. op' \in Op /\ op'.at = "flush" /\ op'.kind = "finish" /\ op'.id = op.id
  BY <1>1, <1>2 DEF Op, At
<1>6. HeadFits(r, "finish", op.id, Meant)
  <2>1. 1 <= Len(r) => r[1].sym \in {"200", "201", "4xx"}
    BY <1>2 DEF StatusFits
  <2>2. Len(r) <= 2 /\ (2 <= Len(r) => r[2].sym = "LF")
    BY <1>2 DEF StatusFits
  <2>3. {"200", "201", "4xx"} \subseteq Code \ {"202", "203", "204"}
    BY DEF Code, LineCode
  <2> QED
    BY <2>1, <2>2, <2>3 DEF HeadFits
<1>7. Fits(x, r, "finish", op.id, Meant)
  <2>1. ExpectOf("finish") = "NoBinary"
    BY DEF ExpectOf
  <2> QED
    BY <1>2, <1>4, <1>6, <2>1 DEF Fits, Dead
<1>8. ASSUME link # "reset" PROVE Asking(r, "finish", op.id, toConsole, console, link)
  <2>1. r # <<>> => r[1].sym # "204"
    <3>1. r # <<>> => 1 <= Len(r)
      BY <1>3, EmptySeq
    <3> QED
      BY <1>2, <3>1 DEF StatusFits
  <2>2. console.mode \in {"upload", "command"}
    BY DEF Careful, Typed, Console
  <2> QED
    BY <1>2, <1>8, <2>1, <2>2 DEF Asking
<1>9. Wire(x, r, "finish", op.id, toConsole', console, link)
  BY <1>1, <1>4, <1>8 DEF Wire
<1>10. WireKept
  BY <1>1, SameWire
<1> QED
  BY <1>1, <1>4, <1>5, <1>7, <1>9, <1>10, PumpsOn

\* What a piece of payload adds to what is on its way to the console.
LEMMA PayloadFields ==
  ASSUME NEW q \in Seq(OutByte), NEW k \in Nat, NEW t \in Tag
  PROVE  LET b == [sym |-> "payload", tag |-> t]
             s == q \o [i \in 1 .. k |-> b]
         IN /\ s \in Seq(OutByte) /\ Len(s) = Len(q) + k
            /\ \A i \in 1 .. Len(s) : s[i] = IF i <= Len(q) THEN q[i] ELSE b
<1> DEFINE b == [sym |-> "payload", tag |-> t]
           z == [i \in 1 .. k |-> b]
<1>1. b \in OutByte
  BY SessionAssumption DEF OutByte
<1> HIDE DEF b
<1>2. z \in Seq(OutByte) /\ Len(z) = k /\ \A i \in 1 .. k : z[i] = b
  <2>1. \A i \in 1 .. k : b \in OutByte
    BY <1>1
  <2>2. z \in Seq(OutByte)
    BY <2>1, IsASeq
  <2> QED
    BY <2>2, LenProperties
<1> HIDE DEF z
<1>3. Len(q) \in Nat
  BY LenProperties
<1>4. /\ q \o z \in Seq(OutByte) /\ Len(q \o z) = Len(q) + Len(z)
      /\ \A i \in 1 .. Len(q) + Len(z) : (q \o z)[i] = IF i <= Len(q) THEN q[i] ELSE z[i - Len(q)]
  BY <1>2, ConcatProperties
<1>5. \A i \in 1 .. Len(q) + k : ~ (i <= Len(q)) => i - Len(q) \in 1 .. k
  BY <1>3
<1>6. \A i \in 1 .. Len(q \o z) : (q \o z)[i] = IF i <= Len(q) THEN q[i] ELSE b
  BY <1>2, <1>4, <1>5
<1> QED
  BY <1>2, <1>4, <1>6 DEF z, b

LEMMA PayloadIsCareful ==
  ASSUME Careful, WriteBody
  PROVE  Careful'
<1>1. /\ op.at = "upload" /\ op.left > 0 /\ UNCHANGED <<toClient, link, console, answer>>
      /\ engine \in Engine /\ op \in Op /\ engine.outbox = <<>>
      /\ engine.mode = "Idle" /\ engine.events = <<>> /\ op.kind = "send"
      /\ StatusFits(Incoming) /\ Own(Incoming, op.id) /\ Incoming = <<>>
      /\ toConsole \in Seq(OutByte) /\ op.left \in Nat /\ op.id \in Tag
  BY DEF WriteBody, Careful, Typed, Uploading, Line, Op
<1>2. CASE link = "reset"
  <2>1. Over(engine, "err", <<>>, {}) /\ UNCHANGED toConsole
    BY <1>2 DEF WriteBody, Return
  <2>2. WireKept
    BY <1>1, <2>1, SameWire
  <2>3. engine.inbox \o toClient' = <<>>
    BY <1>1 DEF Incoming
  <2> QED
    BY <1>1, <1>2, <2>1, <2>2, <2>3, OverIsCareful
<1>3. CASE link # "reset"
  <2>1. PICK k \in 1 .. op.left :
          /\ toConsole' = toConsole \o [i \in 1 .. k |-> [sym |-> "payload", tag |-> op.id]]
          /\ engine' = engine /\ op' = [op EXCEPT !.left = @ - k]
    BY <1>3 DEF WriteBody, Await
  <2>2. k \in Nat /\ k <= op.left /\ op.left - k \in Nat
    BY <1>1, <2>1
  <2>3. /\ console.mode = "upload" /\ console.id = op.id
        /\ op.left + Len(toConsole) <= console.left
    BY <1>1, <1>3 DEF Careful, Uploading
  <2> DEFINE b == [sym |-> "payload", tag |-> op.id]
             q == toConsole'
  <2>4. /\ q \in Seq(OutByte) /\ Len(q) = Len(toConsole) + k
        /\ \A i \in 1 .. Len(q) : q[i] = IF i <= Len(toConsole) THEN toConsole[i] ELSE b
    <3> DEFINE z == toConsole \o [i \in 1 .. k |-> b]
    <3>1. /\ z \in Seq(OutByte) /\ Len(z) = Len(toConsole) + k
          /\ \A i \in 1 .. Len(z) : z[i] = IF i <= Len(toConsole) THEN toConsole[i] ELSE b
      BY <1>1, <2>2, PayloadFields
    <3>2. q = z
      BY <2>1
    <3> HIDE DEF z, b, q
    <3> QED
      BY <3>1, <3>2
  <2>5. /\ Len(toConsole) \in Nat
        /\ \A i \in 1 .. Len(toConsole) : toConsole[i] = b
    BY <1>1, <2>3, LenProperties DEF Careful, ConsoleSide, LineOrPayload
  <2> HIDE DEF b
  <2>6. \A i \in 1 .. Len(q) : q[i] = b
    BY <2>2, <2>4, <2>5
  <2>7. /\ op' \in Op /\ op'.at = "upload" /\ op'.kind = "send" /\ op'.id = op.id
        /\ op'.left = op.left - k
    BY <1>1, <2>1, <2>2 DEF Op
  <2>8. console.left \in Nat
    BY DEF Careful, Typed, Console
  <2>9. op'.left + Len(q) <= console.left /\ Len(q) <= console.left
    BY <1>1, <2>2, <2>3, <2>4, <2>5, <2>7, <2>8
  <2> HIDE DEF q
  <2>10. LineOrPayload(q, console)
    BY <2>3, <2>6, <2>9 DEF LineOrPayload, b
  <2>11. ConsoleSide'
    BY <1>1, <2>10 DEF ConsoleSide, q
  <2>12. Typed'
    BY <1>1, <2>1, <2>4, <2>7 DEF Typed, Careful, q
  <2>13. Incoming' = Incoming
    BY <1>1, <2>1 DEF Incoming
  <2>14. Uploading'
    BY <1>1, <2>1, <2>3, <2>7, <2>9, <2>13 DEF Uploading, q
  <2>15. Reads' /\ Writing' /\ Pumping' /\ Streaming' /\ Line' /\ AtRest'
    BY <1>1, <2>1, <2>7 DEF Reads, Writing, Pumping, Streaming, Line, AtRest
  <2>16. NothingAfterReset'
    BY <1>1 DEF Careful, NothingAfterReset
  <2> QED
    BY <2>11, <2>12, <2>14, <2>15, <2>16 DEF Careful
<1> QED
  BY <1>2, <1>3

-----------------------------------------------------------------------------
(* The caller drops the future. *)

LEMMA CancelReadIsCareful ==
  ASSUME Careful, CancelRead, op'.careless = {}
  PROVE  Careful'
<1> DEFINE late == {"flush"} \cap {op.at}
<1>1. /\ op.at \in {"read", "prefix", "meta", "frame", "flush"}
      /\ Over(engine, "err", <<>>, late)
      /\ UNCHANGED <<toConsole, toClient, link, console, answer>>
      /\ engine \in Engine /\ engine.outbox = <<>> /\ op \in Op
  BY DEF CancelRead, Dropped, Careful, Typed, Line
<1>2. op.at # "flush" /\ late \in SUBSET {"upload", "flush"}
  <2>1. op'.careless = op.careless \cup late
    BY <1>1 DEF Over, Op
  <2>2. op.at = "flush" => "flush" \in op'.careless
    BY <2>1
  <2> QED
    BY <2>2
<1> HIDE DEF late
<1>3. WireKept
  BY <1>1, SameWire
<1>4. engine.mode # "Idle"
  BY <1>1, <1>2 DEF Careful, Reads, Streaming, Reading, InFlight
<1>5. engine.mode = "AwaitingHead" =>
        /\ Fits(engine, engine.inbox \o toClient', op.kind, op.id, Meant)
        /\ Wire(engine, engine.inbox \o toClient', op.kind, op.id, toConsole', console, link)
  BY <1>1 DEF Careful, Pumping, Incoming
<1> QED
  BY <1>1, <1>2, <1>3, <1>4, <1>5, OverIsCareful

LEMMA CancelWriteIsCareful ==
  ASSUME Careful, CancelWrite
  PROVE  Careful'
<1> DEFINE x == Send(engine, Len(engine.outbox))
           s == CommandLine(op.kind, op.id)
<1>1. /\ engine \in Engine /\ op \in Op /\ op.at = "write" /\ op.kind \in OpKind
      /\ engine.mode = "AwaitingHead" /\ Incoming = <<>> /\ link # "reset"
      /\ toConsole = <<>> /\ console.mode = "command" /\ engine.outbox = s
      /\ UNCHANGED <<toClient, link, console, answer>> /\ Over(x, "err", <<>>, {})
  BY DEF CancelWrite, Return, Careful, Typed, Writing, Line, Quiet
<1>2. x \in Engine /\ x.outbox = <<>> /\ x.inbox = engine.inbox /\ Same(engine, x)
  BY <1>1, SendAll
<1>3. /\ s \in Seq(OutByte) /\ Len(s) = 3
      /\ s[1] = [sym |-> op.kind, tag |-> op.id]
      /\ s[2] = [sym |-> "CR", tag |-> op.id]
      /\ s[3] = [sym |-> "LF", tag |-> op.id]
  <2>1. op.kind \in Word /\ op.id \in Tag
    BY <1>1, SessionAssumption DEF Op
  <2> QED
    BY <2>1, CommandLineFields
<1> HIDE DEF x, s
<1>4. PICK k \in 0 .. Len(s) : toConsole' = toConsole \o SubSeq(s, 1, k)
  BY <1>1 DEF CancelWrite
<1> DEFINE q == SubSeq(s, 1, k)
<1>5. q \in Seq(OutByte) /\ Len(q) = k /\ \A i \in 1 .. k : q[i] = s[i]
  BY <1>3, TakeFields
<1>6. toConsole' = q
  BY <1>1, <1>4, <1>5, ConcatEmptySeq
<1> HIDE DEF q
<1>7. k \in Nat /\ k <= 3
  BY <1>3
<1>8. /\ 1 <= Len(q) => q[1].sym = op.kind
      /\ 2 <= Len(q) => q[2].sym = "CR"
      /\ 3 <= Len(q) => q[3].sym = "LF"
      /\ Own(q, op.id)
  <2>1. \A i \in 1 .. k : i \in {1, 2, 3}
    BY <1>7
  <2>2. Own(q, op.id)
    BY <1>3, <1>5, <2>1 DEF Own
  <2> QED
    BY <1>3, <1>5, <1>7, <2>2
<1>9. LineOrPayload(q, console)
  BY <1>1, <1>5, <1>7, <1>8 DEF LineOrPayload
<1>10. WireKept
  BY <1>1, <1>5, <1>6, <1>9 DEF WireKept, ConsoleSide, Careful, Typed, NothingAfterReset
<1>11. /\ Fits(engine, Incoming, op.kind, op.id, Meant)
  BY <1>1 DEF Careful, Pumping
<1>12. x.inbox \o toClient' = Incoming /\ x.mode = "AwaitingHead"
  BY <1>1, <1>2 DEF Incoming, Same
<1>13. Fits(x, x.inbox \o toClient', op.kind, op.id, Meant)
  BY <1>2, <1>11, <1>12, SameFits
<1>14. Asking(Incoming, op.kind, op.id, q, console, link)
  <2>1. q # <<>> => q[1].sym = op.kind
    BY <1>5, <1>7, <1>8, EmptySeq
  <2> QED
    BY <1>1, <1>8, <2>1 DEF Asking
<1>15. Wire(x, x.inbox \o toClient', op.kind, op.id, toConsole', console, link)
  BY <1>6, <1>12, <1>14 DEF Wire
<1> QED
  BY <1>1, <1>2, <1>10, <1>12, <1>13, <1>15, OverIsCareful

-----------------------------------------------------------------------------
(* The network. *)

\* What is on the wire is cut, for good.
LEMMA CutIsCareful ==
  ASSUME Careful, link # "reset", link' \in {"fin", "reset"},
         IsCut(toClient', toClient), link' = "reset" => toClient' = <<>>,
         UNCHANGED <<engine, op, toConsole, console, answer>>
  PROVE  Careful'
<1>1. /\ engine \in Engine /\ op \in Op /\ toClient \in Seq(Byte) /\ toClient' \in Seq(Byte)
      /\ engine.inbox \in Seq(Byte) /\ op.buf \in Seq(Byte) /\ op.id \in Tag
      /\ answer \in [Tag -> Seq(InSym)]
  BY DEF Careful, Typed, IsCut, Engine, Op
<1>2. Meant \in Nat /\ Meant' = Meant
  BY <1>1, LenProperties DEF Meant
<1> DEFINE r == Incoming
           x == Incoming'
           a == op.buf \o toClient
           b == op.buf \o toClient'
<1>3. IsCut(x, r)
  BY <1>1, CutOfConcat DEF Incoming
<1>4. IsCut(b, a)
  BY <1>1, CutOfConcat
<1> HIDE DEF r, x, a, b
<1>5. r = <<>> => x = <<>>
  BY <1>3, CutFields
<1>6. StatusFits(r) => StatusFits(x)
  BY <1>3, CutFits
<1>7. Own(r, op.id) => Own(x, op.id)
  BY <1>3, CutFits
<1>8. StreamFits(a, op.kind, op.id, Meant) => StreamFits(b, op.kind, op.id, Meant)
  BY <1>2, <1>4, CutFits
<1>9. Len(a) <= op.left => Len(b) <= op.left
  <2>1. op.left \in Nat /\ Len(a) \in Nat /\ Len(b) \in Nat /\ Len(b) <= Len(a)
    BY <1>1, <1>4, CutFields DEF IsCut, Op
  <2> QED
    BY <2>1
<1>10. Typed'
  BY <1>1 DEF Typed, Careful
<1>11. Pumping'
  <2> SUFFICES ASSUME op.at \in {"write", "flush", "read"} \/ engine.mode = "AwaitingHead"
               PROVE  /\ Fits(engine, x, op.kind, op.id, Meant)
                      /\ Wire(engine, x, op.kind, op.id, toConsole, console, link')
    BY <1>2 DEF Pumping, x
  <2>1. /\ Fits(engine, r, op.kind, op.id, Meant)
        /\ Wire(engine, r, op.kind, op.id, toConsole, console, link)
    BY DEF Careful, Pumping, r
  <2>2. Fits(engine, x, op.kind, op.id, Meant)
    BY <1>1, <1>2, <1>3, <2>1, CutOfFits
  <2>3. Wire(engine, x, op.kind, op.id, toConsole, console, link')
    BY <1>3, <2>1, CutOfWire
  <2> QED
    BY <2>2, <2>3
<1>12. Reads' /\ Line'
  BY DEF Careful, Reads, Line
<1>13. Writing'
  BY <1>5 DEF Careful, Writing, r, x
<1>14. Streaming'
  BY <1>2, <1>8, <1>9 DEF Careful, Streaming, a, b
<1>15. Uploading'
  BY <1>5, <1>6, <1>7 DEF Careful, Uploading, r, x
<1>16. AtRest'
  BY <1>5 DEF Careful, AtRest, r, x
<1>17. ConsoleSide' /\ NothingAfterReset'
  BY DEF Careful, ConsoleSide, NothingAfterReset
<1> QED
  BY <1>10, <1>11, <1>12, <1>13, <1>14, <1>15, <1>16, <1>17 DEF Careful

LEMMA NetworkIsCareful ==
  ASSUME Careful, ConsoleCloses \/ LinkBreaks
  PROVE  Careful'
<1>1. toClient \in Seq(Byte)
  BY DEF Careful, Typed
<1>2. CASE ConsoleCloses
  <2>1. PICK k \in 0 .. Len(toClient) : toClient' = SubSeq(toClient, 1, k)
    BY <1>2 DEF ConsoleCloses
  <2>2. IsCut(toClient', toClient)
    BY <1>1, <2>1, TakenIsCut
  <2>3. /\ link # "reset" /\ link' = "fin"
        /\ UNCHANGED <<engine, op, toConsole, console, answer>>
    BY <1>2 DEF ConsoleCloses
  <2> QED
    BY <2>2, <2>3, CutIsCareful
<1>3. CASE LinkBreaks
  <2>1. /\ link # "reset" /\ link' = "reset" /\ toClient' = <<>>
        /\ UNCHANGED <<engine, op, toConsole, console, answer>>
    BY <1>3 DEF LinkBreaks
  <2>2. IsCut(toClient', toClient)
    BY <1>1, <2>1, NothingIsCut
  <2> QED
    BY <2>1, <2>2, CutIsCareful
<1> QED
  BY <1>2, <1>3

-----------------------------------------------------------------------------
(* The console.                                                            *)

LEMMA UntaggedFields ==
  ASSUME NEW s \in Seq(InSym), NEW t \in Tag
  PROVE  LET u == Untagged(s, t)
         IN /\ u \in Seq(Byte) /\ Len(u) = Len(s) /\ Own(u, t)
            /\ \A i \in 1 .. Len(s) : u[i].sym = s[i]
<1> DEFINE u == Untagged(s, t)
<1>1. Len(s) \in Nat
  BY LenProperties
<1>2. u \in Seq(Byte)
  BY UntaggedIsBytes
<1>3. u = [i \in 1 .. Len(s) |-> [sym |-> s[i], tag |-> t]]
  BY DEF Untagged
<1> HIDE DEF u
<1>4. Len(u) = Len(s)
  BY <1>1, <1>2, <1>3, LenProperties
<1>5. \A i \in 1 .. Len(s) : u[i].sym = s[i] /\ u[i].tag = t
  BY <1>3
<1>6. Own(u, t) /\ \A i \in 1 .. Len(s) : u[i].sym = s[i]
  BY <1>4, <1>5 DEF Own
<1> QED
  BY <1>2, <1>4, <1>6 DEF u

\* A status line.
LEMMA StatusReply ==
  ASSUME NEW c \in Code, NEW t \in Tag
  PROVE  LET u == Untagged(<<c, "LF">>, t)
         IN /\ u \in Seq(Byte) /\ Len(u) = 2 /\ Own(u, t)
            /\ u[1].sym = c /\ u[2].sym = "LF" /\ Rest(u) = <<>>
<1> DEFINE s == <<c, "LF">>
           u == Untagged(s, t)
<1>1. s \in Seq(InSym) /\ Len(s) = 2 /\ s[1] = c /\ s[2] = "LF"
  BY DEF InSym
<1> HIDE DEF s
<1>2. /\ u \in Seq(Byte) /\ Len(u) = Len(s) /\ Own(u, t)
      /\ \A i \in 1 .. Len(s) : u[i].sym = s[i]
  BY <1>1, UntaggedFields
<1> HIDE DEF u
<1>3. u[1].sym = c /\ u[2].sym = "LF"
  BY <1>1, <1>2
<1>4. Rest(u) = <<>>
  BY <1>1, <1>2, RestFields, EmptySeq
<1> QED
  BY <1>1, <1>2, <1>3, <1>4 DEF u, s

\* A head of fixed symbols and a body.
LEMMA HeadAndBody ==
  ASSUME NEW h \in Seq(InSym), NEW b \in Seq(InSym), NEW t \in Tag
  PROVE  LET u == Untagged(h \o b, t)
         IN /\ u \in Seq(Byte) /\ Len(u) = Len(h) + Len(b) /\ Own(u, t)
            /\ \A i \in 1 .. Len(h) : u[i].sym = h[i]
            /\ \A i \in 1 .. Len(b) : u[Len(h) + i].sym = b[i]
<1> DEFINE s == h \o b
           u == Untagged(s, t)
<1>1. Len(h) \in Nat /\ Len(b) \in Nat
  BY LenProperties
<1>2. /\ s \in Seq(InSym) /\ Len(s) = Len(h) + Len(b)
      /\ \A i \in 1 .. Len(h) + Len(b) : s[i] = IF i <= Len(h) THEN h[i] ELSE b[i - Len(h)]
  BY ConcatProperties
<1> HIDE DEF s
<1>3. /\ u \in Seq(Byte) /\ Len(u) = Len(s) /\ Own(u, t)
      /\ \A i \in 1 .. Len(s) : u[i].sym = s[i]
  BY <1>2, UntaggedFields
<1> HIDE DEF u
<1>4. ASSUME NEW i \in 1 .. Len(h) PROVE u[i].sym = h[i]
  BY <1>1, <1>2, <1>3
<1>5. ASSUME NEW i \in 1 .. Len(b) PROVE u[Len(h) + i].sym = b[i]
  <2>1. Len(h) + i \in 1 .. Len(h) + Len(b) /\ ~ (Len(h) + i <= Len(h))
        /\ Len(h) + i - Len(h) = i
    BY <1>1
  <2>2. s[Len(h) + i] = b[i]
    BY <1>2, <2>1
  <2> QED
    BY <1>2, <1>3, <2>1, <2>2
<1> QED
  BY <1>2, <1>3, <1>4, <1>5 DEF u, s

\* The parts of a reply to a command of kind "k" with number "t".
ReplyFits(r, k, t) ==
  LET u == Untagged(r.wire, t)
  IN /\ r.means \in Seq(InSym)
     /\ u \in Seq(Byte) /\ 2 <= Len(u) /\ Own(u, t)
     /\ u[1].sym = r.wire[1]
     /\ u[1].sym = "204" => k = "send" /\ Len(u) = 2
     /\ HeadFits(u, k, t, Len(r.means))

LEMMA ReplyParts ==
  ASSUME NEW w, NEW m \in Seq(InSym), NEW k, NEW t, NEW u, u = Untagged(w, t),
         u \in Seq(Byte), 2 <= Len(u), Own(u, t), u[1].sym = w[1],
         u[1].sym = "204" => k = "send" /\ Len(u) = 2,
         HeadFits(u, k, t, Len(m))
  PROVE  ReplyFits([wire |-> w, means |-> m], k, t)
<1> DEFINE r == [wire |-> w, means |-> m]
<1>1. r.wire = w /\ r.means = m
  OBVIOUS
<1> HIDE DEF r
<1>2. ReplyFits(r, k, t)
  BY <1>1 DEF ReplyFits
<1> QED
  BY <1>2 DEF r

LEMMA StatusReplyFits ==
  ASSUME NEW k \in OpKind, NEW t \in Tag, NEW c \in {"200", "4xx", "unknown", "204"},
         c = "204" => k = "send"
  PROVE  ReplyFits([wire |-> <<c, "LF">>, means |-> <<c>>], k, t)
<1> DEFINE u == Untagged(<<c, "LF">>, t)
           m == <<c>>
           w == <<c, "LF">>
<1>1. c \in Code /\ m \in Seq(InSym) /\ w[1] = c
  BY DEF Code, LineCode, InSym
<1>2. /\ u \in Seq(Byte) /\ Len(u) = 2 /\ Own(u, t)
      /\ u[1].sym = c /\ u[2].sym = "LF" /\ Rest(u) = <<>>
  BY <1>1, StatusReply
<1>3. u = Untagged(w, t)
  OBVIOUS
<1> HIDE DEF u, m, w
<1>4. StatusFits(Rest(u))
  BY <1>2, EmptySeq DEF StatusFits
<1>5. HeadFits(u, k, t, Len(m))
  BY <1>1, <1>2, <1>4 DEF HeadFits
<1>6. 2 <= Len(u) /\ u[1].sym = w[1] /\ (u[1].sym = "204" => k = "send" /\ Len(u) = 2)
  BY <1>1, <1>2
<1>7. ReplyFits([wire |-> w, means |-> m], k, t)
  BY <1>1, <1>2, <1>3, <1>5, <1>6, ReplyParts
<1> QED
  BY <1>7 DEF w, m

LEMMA ListingFits ==
  ASSUME NEW t \in Tag, NEW c \in {"text", "200"}
  PROVE  ReplyFits([wire |-> <<"202", "LF">> \o <<c>> \o <<"LF", "dot", "LF">>,
                    means |-> <<"202">> \o <<c>> \o <<"dot">>], "line", t)
<1> DEFINE a == <<"202", "LF">>
           b == <<c>>
           d == <<"LF", "dot", "LF">>
           w == a \o b \o d
           m == <<"202">> \o <<c>> \o <<"dot">>
           u == Untagged(w, t)
<1>1. /\ a \in Seq(InSym) /\ Len(a) = 2 /\ a[1] = "202" /\ a[2] = "LF"
      /\ b \in Seq(InSym) /\ Len(b) = 1 /\ b[1] = c
      /\ d \in Seq(InSym) /\ Len(d) = 3 /\ d[1] = "LF" /\ d[2] = "dot" /\ d[3] = "LF"
  BY DEF InSym, Code, LineCode, Text
<1>2. m \in Seq(InSym)
  <2> DEFINE x == <<"202">>
             y == <<c>>
             z == <<"dot">>
  <2>1. x \in Seq(InSym) /\ y \in Seq(InSym) /\ z \in Seq(InSym)
    BY DEF InSym, Code, LineCode, Text
  <2> HIDE DEF x, y, z
  <2>2. x \o y \o z \in Seq(InSym)
    BY <2>1, ConcatProperties
  <2> QED
    BY <2>2 DEF x, y, z
<1> HIDE DEF a, b, d, m
<1>3. /\ a \o b \in Seq(InSym) /\ Len(a \o b) = 3
      /\ \A i \in 1 .. 3 : (a \o b)[i] = IF i <= 2 THEN a[i] ELSE b[i - 2]
  <2>1. /\ a \o b \in Seq(InSym) /\ Len(a \o b) = Len(a) + Len(b)
        /\ \A i \in 1 .. Len(a) + Len(b) :
             (a \o b)[i] = IF i <= Len(a) THEN a[i] ELSE b[i - Len(a)]
    BY <1>1, ConcatProperties
  <2> DEFINE ab == a \o b
  <2> HIDE DEF ab
  <2> QED
    BY <1>1, <2>1
<1>4. (a \o b)[1] = "202" /\ (a \o b)[2] = "LF" /\ (a \o b)[3] = c
  BY <1>1, <1>3
<1>5. /\ u \in Seq(Byte) /\ Len(u) = Len(a \o b) + Len(d) /\ Own(u, t)
      /\ \A i \in 1 .. Len(a \o b) : u[i].sym = (a \o b)[i]
      /\ \A i \in 1 .. Len(d) : u[Len(a \o b) + i].sym = d[i]
  BY <1>1, <1>3, HeadAndBody
<1>6. /\ w \in Seq(InSym) /\ Len(w) = 6 /\ w[1] = "202"
  <2>1. /\ w \in Seq(InSym) /\ Len(w) = Len(a \o b) + Len(d)
        /\ \A i \in 1 .. Len(a \o b) + Len(d) :
             w[i] = IF i <= Len(a \o b) THEN (a \o b)[i] ELSE d[i - Len(a \o b)]
    BY <1>1, <1>3, ConcatProperties
  <2> HIDE DEF w
  <2> QED
    BY <1>1, <1>3, <1>4, <2>1
<1> HIDE DEF u
<1>7. /\ Len(u) = 6 /\ u[1].sym = "202" /\ u[2].sym = "LF" /\ u[3].sym = c
      /\ u[4].sym = "LF" /\ u[5].sym = "dot" /\ u[6].sym = "LF"
  <2>1. u[1].sym = "202" /\ u[2].sym = "LF" /\ u[3].sym = c
    BY <1>3, <1>4, <1>5
  <2>2. u[3 + 1].sym = "LF" /\ u[3 + 2].sym = "dot" /\ u[3 + 3].sym = "LF"
    BY <1>1, <1>3, <1>5
  <2> QED
    BY <1>1, <1>3, <1>5, <2>1, <2>2
<1>8. ListFits(Rest(u))
  <2> DEFINE x == Rest(u)
  <2>1. /\ Len(x) = IF 2 <= Len(u) THEN Len(u) - 2 ELSE 0
        /\ \A i \in 1 .. Len(x) : x[i] = u[i + 2]
    BY <1>5, RestFields
  <2> HIDE DEF x
  <2>2. Len(x) = 4
    BY <1>7, <2>1
  <2>3. x[1] = u[3] /\ x[2] = u[4] /\ x[3] = u[5] /\ x[4] = u[6]
    <3>1. \A i \in 1 .. 4 : x[i] = u[i + 2]
      BY <2>1, <2>2
    <3>2. \A i, j \in Int : i \in 1 .. 4 /\ j = i + 2 => x[i] = u[j]
      BY <3>1
    <3> QED
      BY <3>2
  <2>4. ListFits(x)
    BY <1>7, <2>3, <2>2 DEF ListFits
  <2> QED
    BY <2>4 DEF x
<1>9. HeadFits(u, "line", t, Len(m))
  BY <1>7, <1>8 DEF HeadFits, OpKind, Code, LineCode
<1> HIDE DEF w
<1>10. u = Untagged(w, t)
  BY DEF u
<1>11. 2 <= Len(u) /\ u[1].sym = w[1] /\ u[1].sym # "204"
  BY <1>6, <1>7
<1>12. ReplyFits([wire |-> w, means |-> m], "line", t)
  BY <1>2, <1>5, <1>9, <1>10, <1>11, ReplyParts
<1> QED
  BY <1>12 DEF w, m, a, b, d

LEMMA PayloadReplyFits ==
  ASSUME NEW t \in Tag, NEW b \in Seq(InSym), Len(b) = AskedLen
  PROVE  ReplyFits([wire |-> <<"203", "LF">> \o b, means |-> <<"203">> \o b], "eager", t)
<1> DEFINE a == <<"203", "LF">>
           w == a \o b
           m == <<"203">> \o b
           u == Untagged(w, t)
<1>1. a \in Seq(InSym) /\ Len(a) = 2 /\ a[1] = "203" /\ a[2] = "LF" /\ Len(b) \in Nat
  BY LenProperties DEF InSym, Code
<1>2. m \in Seq(InSym)
  <2> DEFINE x == <<"203">>
  <2>1. x \in Seq(InSym)
    BY DEF InSym, Code
  <2> HIDE DEF x
  <2>2. x \o b \in Seq(InSym)
    BY <2>1, ConcatProperties
  <2> QED
    BY <2>2 DEF x
<1> HIDE DEF a, m
<1>3. /\ u \in Seq(Byte) /\ Len(u) = Len(a) + Len(b) /\ Own(u, t)
      /\ \A i \in 1 .. Len(a) : u[i].sym = a[i]
  BY <1>1, HeadAndBody
<1>4. w[1] = "203"
  <2>1. \A i \in 1 .. Len(a) + Len(b) : w[i] = IF i <= Len(a) THEN a[i] ELSE b[i - Len(a)]
    BY <1>1, ConcatProperties
  <2> HIDE DEF w
  <2> QED
    BY <1>1, <2>1
<1>5. u = Untagged(w, t)
  OBVIOUS
<1> HIDE DEF u, w
<1>6. Len(u) = AskedLen + 2 /\ 2 <= Len(u) /\ u[1].sym = "203" /\ u[2].sym = "LF"
  BY <1>1, <1>3
<1>7. HeadFits(u, "eager", t, Len(m))
  BY <1>1, <1>6 DEF HeadFits, OpKind, Code
<1>8. u[1].sym = w[1] /\ u[1].sym # "204"
  BY <1>4, <1>6
<1>9. ReplyFits([wire |-> w, means |-> m], "eager", t)
  BY <1>2, <1>3, <1>6, <1>7, <1>5, <1>8, ReplyParts
<1> QED
  BY <1>9 DEF w, m, a

LEMMA PrefixedReplyFits ==
  ASSUME NEW k \in {"get", "range"}, NEW t \in Tag, NEW b \in Seq(InSym),
         k = "range" => Len(b) = AskedLen
  PROVE  ReplyFits([wire |-> <<"203", "LF", "text">> \o b, means |-> b], k, t)
<1> DEFINE a == <<"203", "LF", "text">>
           w == a \o b
           u == Untagged(w, t)
           v == Rest(u)
<1>1. /\ a \in Seq(InSym) /\ Len(a) = 3 /\ a[1] = "203" /\ a[2] = "LF" /\ a[3] = "text"
      /\ Len(b) \in Nat
  BY LenProperties DEF InSym, Code, Text
<1> HIDE DEF a
<1>2. /\ u \in Seq(Byte) /\ Len(u) = Len(a) + Len(b) /\ Own(u, t)
      /\ \A i \in 1 .. Len(a) : u[i].sym = a[i]
  BY <1>1, HeadAndBody
<1>3. w[1] = "203"
  <2>1. \A i \in 1 .. Len(a) + Len(b) : w[i] = IF i <= Len(a) THEN a[i] ELSE b[i - Len(a)]
    BY <1>1, ConcatProperties
  <2> HIDE DEF w
  <2> QED
    BY <1>1, <2>1
<1>4. u = Untagged(w, t)
  OBVIOUS
<1> HIDE DEF u, w
<1>5. Len(u) = 3 + Len(b) /\ 2 <= Len(u) /\ u[1].sym = "203" /\ u[2].sym = "LF"
  BY <1>1, <1>2
<1>6. StreamFits(v, k, t, Len(b))
  <2>1. /\ v \in Seq(Byte) /\ Len(v) = IF 2 <= Len(u) THEN Len(u) - 2 ELSE 0
        /\ Own(v, t)
    BY <1>2, RestFields, RestIsOwn
  <2> HIDE DEF v
  <2>2. Len(v) = Len(b) + 1
    BY <1>1, <1>5, <2>1
  <2>3. Len(v) <= Len(b) + 1
    BY <1>1, <2>2
  <2> QED
    BY <2>1, <2>3 DEF StreamFits, Streamed
<1>7. HeadFits(u, k, t, Len(b))
  BY <1>5, <1>6 DEF HeadFits, OpKind, Code
<1>8. u[1].sym = w[1] /\ u[1].sym # "204"
  BY <1>3, <1>5
<1>9. ReplyFits([wire |-> w, means |-> b], k, t)
  BY <1>2, <1>4, <1>5, <1>7, <1>8, ReplyParts
<1> QED
  BY <1>9 DEF w, a

LEMMA FramedReplyFits ==
  ASSUME NEW t \in Tag, NEW m \in {"text", "dot"}, NEW b \in Seq(InSym)
  PROVE  ReplyFits([wire |-> <<"203", "LF", m, "LF">> \o b, means |-> b], "shot", t)
<1> DEFINE a == <<"203", "LF", m, "LF">>
           w == a \o b
           u == Untagged(w, t)
           v == Rest(u)
<1>1. /\ a \in Seq(InSym) /\ Len(a) = 4 /\ a[1] = "203" /\ a[2] = "LF" /\ a[3] = m /\ a[4] = "LF"
      /\ Len(b) \in Nat
  BY LenProperties DEF InSym, Code, Text
<1> HIDE DEF a
<1>2. /\ u \in Seq(Byte) /\ Len(u) = Len(a) + Len(b) /\ Own(u, t)
      /\ \A i \in 1 .. Len(a) : u[i].sym = a[i]
  BY <1>1, HeadAndBody
<1>3. w[1] = "203"
  <2>1. \A i \in 1 .. Len(a) + Len(b) : w[i] = IF i <= Len(a) THEN a[i] ELSE b[i - Len(a)]
    BY <1>1, ConcatProperties
  <2> HIDE DEF w
  <2> QED
    BY <1>1, <2>1
<1>4. u = Untagged(w, t)
  OBVIOUS
<1> HIDE DEF u, w
<1>5. /\ Len(u) = 4 + Len(b) /\ 2 <= Len(u) /\ u[1].sym = "203" /\ u[2].sym = "LF"
      /\ u[3].sym = m /\ u[4].sym = "LF"
  BY <1>1, <1>2
<1>6. StreamFits(v, "shot", t, Len(b))
  <2>1. /\ v \in Seq(Byte) /\ Len(v) = IF 2 <= Len(u) THEN Len(u) - 2 ELSE 0
        /\ \A i \in 1 .. Len(v) : v[i] = u[i + 2]
        /\ Own(v, t)
    BY <1>2, RestFields, RestIsOwn
  <2> HIDE DEF v
  <2>2. Len(v) = Len(b) + 2
    BY <1>1, <1>5, <2>1
  <2>3. v[1].sym = m /\ v[2].sym = "LF"
    <3>1. \A i, j \in Int : i \in 1 .. Len(b) + 2 /\ j = i + 2 => v[i] = u[j]
      BY <2>1, <2>2
    <3>2. v[1] = u[3] /\ v[2] = u[4]
      BY <1>1, <3>1
    <3> QED
      BY <1>5, <3>2
  <2>4. Len(v) <= Len(b) + 2
    BY <1>1, <2>2
  <2> QED
    BY <2>1, <2>3, <2>4 DEF StreamFits, Streamed
<1>7. HeadFits(u, "shot", t, Len(b))
  BY <1>5, <1>6 DEF HeadFits, OpKind, Code
<1>8. u[1].sym = w[1] /\ u[1].sym # "204"
  BY <1>3, <1>5
<1>9. ReplyFits([wire |-> w, means |-> b], "shot", t)
  BY <1>2, <1>4, <1>5, <1>7, <1>8, ReplyParts
<1> QED
  BY <1>9 DEF w, a

\* Every reply of the console fits the command it answers.
LEMMA RepliesFit ==
  ASSUME ~ ShortRanges, NEW k \in OpKind, NEW t \in Tag, NEW r \in Reply(k)
  PROVE  ReplyFits(r, k, t)
<1> DEFINE refusal == {[wire |-> <<c, "LF">>, means |-> <<c>>] : c \in {"4xx", "unknown"}}
<1>1. Bodies \subseteq Seq(InSym)
  BY SessionAssumption
<1>2. ASSUME NEW c \in {"200", "4xx", "unknown", "204"}, c = "204" => k = "send",
             r = [wire |-> <<c, "LF">>, means |-> <<c>>]
      PROVE  ReplyFits(r, k, t)
  BY <1>2, StatusReplyFits
<1>3. CASE r \in refusal
  BY <1>2, <1>3
<1>4. CASE k = "line" /\ r \notin refusal
  <2>1. \/ r = [wire |-> <<"200", "LF">>, means |-> <<"200">>]
        \/ \E c \in {"text", "200"} :
             r = [wire |-> <<"202", "LF">> \o <<c>> \o <<"LF", "dot", "LF">>,
                  means |-> <<"202">> \o <<c>> \o <<"dot">>]
    BY <1>4 DEF Reply
  <2> QED
    BY <1>2, <1>4, <2>1, ListingFits
<1>5. CASE k = "eager" /\ r \notin refusal
  <2>1. \E b \in Bodies : /\ Len(b) = AskedLen
                          /\ r = [wire |-> <<"203", "LF">> \o b, means |-> <<"203">> \o b]
    BY <1>5 DEF Reply
  <2> QED
    BY <1>1, <1>5, <2>1, PayloadReplyFits
<1>6. CASE k \in {"get", "range"} /\ r \notin refusal
  <2>1. \E b \in Bodies : /\ k = "range" => Len(b) = AskedLen
                          /\ r = [wire |-> <<"203", "LF", "text">> \o b, means |-> b]
    BY <1>6 DEF Reply
  <2> QED
    BY <1>1, <1>6, <2>1, PrefixedReplyFits
<1>7. CASE k = "shot" /\ r \notin refusal
  <2>1. \E m \in {"text", "dot"}, b \in Bodies :
          r = [wire |-> <<"203", "LF", m, "LF">> \o b, means |-> b]
    BY <1>7 DEF Reply
  <2> QED
    BY <1>1, <1>7, <2>1, FramedReplyFits
<1>8. CASE k \in {"send", "bye"} /\ r \notin refusal
  <2>1. \E c \in {"200", "204"} : /\ c = "204" => k = "send"
                                  /\ r = [wire |-> <<c, "LF">>, means |-> <<c>>]
    BY <1>8 DEF Reply
  <2> QED
    BY <1>2, <2>1
<1> QED
  BY <1>3, <1>4, <1>5, <1>6, <1>7, <1>8 DEF OpKind

\* Who can hear the console while it has something to do.
LEMMA Hears ==
  ASSUME Careful, link = "up", ~ Quiet(toConsole, console)
  PROVE  /\ op.at \notin {"write", "prefix", "body", "meta", "frame"}
         /\ ~ (op.at = "idle" /\ engine.mode = "Idle")
         /\ op.at = "upload" => engine.mode = "Idle" /\ (console.mode = "command" => toConsole = <<>>)
         /\ engine.mode = "AwaitingHead" =>
              /\ Fits(engine, Incoming, op.kind, op.id, Meant)
              /\ Asking(Incoming, op.kind, op.id, toConsole, console, link)
         /\ op.at \in {"flush", "read"} =>
              /\ engine.mode \in {"AwaitingHead", "Idle"} \cup Dead
              /\ Fits(engine, Incoming, op.kind, op.id, Meant)
              /\ engine.mode = "Idle" =>
                   /\ engine.events[1].kind = "SendBinary"
                   /\ Invited(Incoming, op.id, toConsole, console)
<1>1. op.at \notin {"write", "prefix", "body", "meta", "frame"}
  BY DEF Careful, Writing, Streaming
<1>2. ~ (op.at = "idle" /\ engine.mode = "Idle")
  BY DEF Careful, AtRest
<1>3. op.at = "upload" => engine.mode = "Idle" /\ (console.mode = "command" => toConsole = <<>>)
  BY DEF Careful, Uploading
<1>4. engine.mode = "AwaitingHead" =>
        /\ Fits(engine, Incoming, op.kind, op.id, Meant)
        /\ Asking(Incoming, op.kind, op.id, toConsole, console, link)
  BY DEF Careful, Pumping, Wire
<1>5. ASSUME op.at \in {"flush", "read"}
      PROVE  /\ engine.mode \in {"AwaitingHead", "Idle"} \cup Dead
             /\ Fits(engine, Incoming, op.kind, op.id, Meant)
             /\ engine.mode = "Idle" =>
                  /\ engine.events[1].kind = "SendBinary"
                  /\ Invited(Incoming, op.id, toConsole, console)
  <2>1. /\ Fits(engine, Incoming, op.kind, op.id, Meant)
        /\ Wire(engine, Incoming, op.kind, op.id, toConsole, console, link)
        /\ engine.mode \in Mode
    BY <1>5 DEF Careful, Pumping, Typed, Engine
  <2>2. engine.mode \in {"AwaitingHead", "Idle"} \cup Dead
    BY <2>1 DEF Wire, Mode, Dead
  <2>3. engine.mode = "Idle" => /\ engine.events[1].kind = "SendBinary"
                                /\ Invited(Incoming, op.id, toConsole, console)
    BY <2>1 DEF Wire
  <2> QED
    BY <2>1, <2>2, <2>3
<1> QED
  BY <1>1, <1>2, <1>3, <1>4, <1>5

\* What the console does, to those who can hear it.
LEMMA SpeaksIsCareful ==
  ASSUME Careful, link = "up", ~ Quiet(toConsole, console), UNCHANGED <<engine, op>>,
         Typed', ConsoleSide', link' \in {"up", "fin"},
         engine.mode = "AwaitingHead" =>
           /\ Fits(engine, Incoming', op.kind, op.id, Meant')
           /\ Asking(Incoming', op.kind, op.id, toConsole', console', link'),
         op.at \in {"flush", "read"} /\ engine.mode = "Idle" =>
           /\ Fits(engine, Incoming', op.kind, op.id, Meant')
           /\ Invited(Incoming', op.id, toConsole', console'),
         op.at = "upload" => Uploading'
  PROVE  Careful'
<1>1. /\ op.at \notin {"write", "prefix", "body", "meta", "frame"}
      /\ ~ (op.at = "idle" /\ engine.mode = "Idle")
      /\ op.at = "upload" => engine.mode = "Idle"
      /\ op.at \in {"flush", "read"} =>
           /\ engine.mode \in {"AwaitingHead", "Idle"} \cup Dead
           /\ Fits(engine, Incoming, op.kind, op.id, Meant)
           /\ engine.mode = "Idle" => engine.events[1].kind = "SendBinary"
  BY Hears
<1>2. Pumping'
  <2>1. CASE engine.mode = "AwaitingHead"
    BY <2>1 DEF Pumping, Wire
  <2>2. CASE engine.mode = "Idle" /\ op.at \in {"flush", "read"}
    BY <1>1, <2>2 DEF Pumping, Wire
  <2>3. CASE engine.mode \in Dead /\ op.at \in {"flush", "read"}
    <3>1. Fits(engine, Incoming', op.kind, op.id, Meant')
      BY <1>1, <2>3 DEF Fits, Reading, InFlight, Dead
    <3>2. Wire(engine, Incoming', op.kind, op.id, toConsole', console', link')
      BY <2>3 DEF Wire, Dead
    <3> QED
      BY <2>3, <3>1, <3>2 DEF Pumping, Dead
  <2>4. CASE engine.mode # "AwaitingHead" /\ op.at \notin {"flush", "read"}
    BY <1>1, <2>4 DEF Pumping
  <2> QED
    BY <1>1, <2>1, <2>2, <2>3, <2>4
<1>3. Writing' /\ Streaming' /\ AtRest'
  BY <1>1 DEF Writing, Streaming, AtRest
<1>4. Uploading'
  BY DEF Uploading
<1>5. Reads' /\ Line' /\ NothingAfterReset'
  BY DEF Careful, Reads, Line, NothingAfterReset
<1> QED
  BY <1>2, <1>3, <1>4, <1>5 DEF Careful

\* The command line the console has been given.
LEMMA CommandGiven ==
  ASSUME Careful, console.mode = "command", LfAt(toConsole) > 0
  PROVE  /\ Len(toConsole) = 3 /\ LfAt(toConsole) = 3 /\ toConsole[1].sym \in OpKind
         /\ toConsole[3].tag \in Tag /\ toConsole # <<>>
         /\ SubSeq(toConsole, 4, Len(toConsole)) = <<>>
<1> DEFINE q == toConsole
           p == LfAt(q)
<1>1. q \in Seq(OutByte) /\ Len(q) \in Nat
  BY LenProperties DEF Careful, Typed
<1>2. /\ Len(q) <= 3
      /\ 1 <= Len(q) => q[1].sym \in OpKind
      /\ 2 <= Len(q) => q[2].sym = "CR"
      /\ 3 <= Len(q) => q[3].sym = "LF"
  BY DEF Careful, ConsoleSide, LineOrPayload
<1>3. p \in 0 .. Len(q) /\ p # 0 /\ q[p].sym = "LF"
  BY <1>1, LfAtIsFirst
<1> HIDE DEF p, q
<1>4. p = 3 /\ Len(q) = 3
  <2>1. p \in 1 .. 3
    BY <1>1, <1>2, <1>3
  <2>2. p # 1
    BY <1>1, <1>2, <1>3 DEF OpKind
  <2>3. p # 2
    BY <1>1, <1>2, <1>3
  <2>4. p = 3
    BY <2>1, <2>2, <2>3
  <2>5. ~ (Len(q) < 3)
    BY <1>1, <1>3, <2>4
  <2>6. Len(q) = 3
    <3> DEFINE n == Len(q)
    <3>1. n \in Nat /\ n <= 3 /\ ~ (n < 3)
      BY <1>1, <1>2, <2>5
    <3> HIDE DEF n
    <3>2. n = 3
      BY <3>1
    <3> QED
      BY <3>2 DEF n
  <2> QED
    BY <2>4, <2>6
<1>5. q[3] \in OutByte
  BY <1>1, <1>4, ElementOfSeq
<1>6. SubSeq(q, 4, Len(q)) = <<>>
  BY <1>1, <1>4, SubSeqEmpty
<1>7. q # <<>>
  <2>1. q = <<>> => Len(q) = 0
    BY EmptySeq
  <2> QED
    BY <1>4, <2>1
<1> QED
  BY <1>2, <1>4, <1>5, <1>6, <1>7 DEF OutByte, p, q

LEMMA AnswerIsCareful ==
  ASSUME ~ ShortRanges, Careful, ConsoleAnswers
  PROVE  Careful'
<1> DEFINE t == toConsole[3].tag
           kind == toConsole[1].sym
<1>1. /\ link = "up" /\ console.mode = "command" /\ UNCHANGED <<engine, op>>
      /\ Len(toConsole) = 3 /\ LfAt(toConsole) = 3 /\ kind \in OpKind /\ t \in Tag
      /\ toConsole # <<>> /\ SubSeq(toConsole, 4, Len(toConsole)) = <<>>
  BY CommandGiven DEF ConsoleAnswers
<1>2. PICK r \in Reply(kind) :
        /\ toClient' = toClient \o Untagged(r.wire, t)
        /\ answer' = [answer EXCEPT ![t] = r.means]
        /\ toConsole' = SubSeq(toConsole, 3 + 1, Len(toConsole))
        /\ console' = IF r.wire[1] = "204"
                      THEN [mode |-> "upload", left |-> UploadLen, id |-> t]
                      ELSE console
        /\ link' = IF kind = "bye" THEN "fin" ELSE link
  BY <1>1 DEF ConsoleAnswers, Tagged
<1> DEFINE u == Untagged(r.wire, t)
<1>3. /\ r.means \in Seq(InSym)
      /\ u \in Seq(Byte) /\ 2 <= Len(u) /\ Own(u, t)
      /\ u[1].sym = r.wire[1]
      /\ u[1].sym = "204" => kind = "send" /\ Len(u) = 2
      /\ HeadFits(u, kind, t, Len(r.means))
  <2> HIDE DEF t, kind
  <2> QED
    BY <1>1, RepliesFit DEF ReplyFits
<1>4. toConsole' = <<>> /\ link' \in {"up", "fin"}
  BY <1>1, <1>2
<1>5. /\ engine \in Engine /\ op \in Op /\ toClient \in Seq(Byte) /\ console \in Console
      /\ answer \in [Tag -> Seq(InSym)] /\ engine.inbox \in Seq(Byte)
  BY DEF Careful, Typed, Engine
<1> HIDE DEF t, kind, u
<1>6. toClient' = toClient \o u /\ toClient' \in Seq(Byte)
  BY <1>2, <1>3, <1>5, ConcatProperties DEF u
<1>7. /\ console' = IF u[1].sym = "204"
                    THEN [mode |-> "upload", left |-> UploadLen, id |-> t]
                    ELSE console
      /\ console' \in Console /\ answer' \in [Tag -> Seq(InSym)] /\ answer'[t] = r.means
  <2>1. UploadLen \in Nat
    BY SessionAssumption
  <2> QED
    BY <1>1, <1>2, <1>3, <1>5, <2>1 DEF Console
<1>8. Typed'
  <2>1. toConsole' \in Seq(OutByte)
    BY <1>4, EmptySeq
  <2> QED
    BY <1>1, <1>4, <1>5, <1>6, <1>7, <2>1 DEF Typed
<1>9. ConsoleSide'
  <2>1. console'.left \in Nat /\ Len(toConsole') = 0
    BY <1>4, <1>7, EmptySeq DEF Console
  <2> QED
    BY <2>1 DEF ConsoleSide, LineOrPayload
<1>10. ~ Quiet(toConsole, console)
  BY <1>1 DEF Quiet
<1>11. ASSUME engine.mode = "AwaitingHead"
       PROVE  /\ Fits(engine, Incoming', op.kind, op.id, Meant')
              /\ Asking(Incoming', op.kind, op.id, toConsole', console', link')
  <2>1. /\ Fits(engine, Incoming, op.kind, op.id, Meant)
        /\ Asking(Incoming, op.kind, op.id, toConsole, console, link)
    BY <1>1, <1>10, <1>11, Hears
  <2>2. Incoming = <<>> /\ op.id = t /\ op.kind = kind
    <3>1. Incoming = <<>> /\ Own(toConsole, op.id) /\ toConsole[1].sym = op.kind
      BY <1>1, <2>1 DEF Asking
    <3>2. 3 \in 1 .. Len(toConsole)
      BY <1>1
    <3> QED
      BY <3>1, <3>2 DEF Own, t, kind
  <2>3. Incoming' = u /\ Meant' = Len(r.means)
    <3>1. Incoming' = engine.inbox \o (toClient \o u)
      BY <1>1, <1>6 DEF Incoming
    <3>2. engine.inbox \o (toClient \o u) = Incoming \o u
      <4>1. (engine.inbox \o toClient) \o u = engine.inbox \o (toClient \o u)
        <5> DEFINE i == engine.inbox
                   w == toClient
        <5>1. i \in Seq(Byte) /\ w \in Seq(Byte) /\ u \in Seq(Byte)
          BY <1>3, <1>5
        <5> HIDE DEF i, w
        <5>2. (i \o w) \o u = i \o (w \o u)
          BY <5>1, Together
        <5> QED
          BY <5>2 DEF i, w
      <4> QED
        BY <4>1 DEF Incoming
    <3>3. <<>> \o u = u
      BY <1>3, ConcatEmptySeq
    <3>4. Meant' = Len(r.means)
      BY <1>1, <1>7, <2>2 DEF Meant
    <3> QED
      BY <2>2, <3>1, <3>2, <3>3, <3>4
  <2>4. Fits(engine, u, op.kind, op.id, Len(r.means))
    BY <1>3, <1>11, <2>1, <2>2 DEF Fits, Dead
  <2>5. u # <<>> /\ console'.mode = (IF u[1].sym = "204" THEN "upload" ELSE "command")
    BY <1>1, <1>3, <1>7, EmptySeq
  <2>6. Asking(u, kind, t, toConsole', console', link')
    <3>1. u[1].sym = "204" => console'.id = t /\ console'.left = UploadLen
      BY <1>7
    <3> QED
      BY <1>3, <1>4, <2>5, <3>1 DEF Asking
  <2> QED
    BY <2>2, <2>3, <2>4, <2>6
<1>12. op.at \in {"flush", "read"} => engine.mode # "Idle"
  BY <1>1, <1>10, Hears DEF Invited
<1>13. op.at # "upload"
  BY <1>1, <1>10, Hears
<1> QED
  BY <1>1, <1>4, <1>8, <1>9, <1>10, <1>11, <1>12, <1>13, SpeaksIsCareful

\* What the stored upload leaves on its way, and the verdict it is given.
LEMMA StoreIsCareful ==
  ASSUME Careful, ConsoleStores
  PROVE  Careful'
<1> DEFINE q == toConsole
           k == Min2(console.left, Len(q))
<1>1. /\ link = "up" /\ console.mode = "upload" /\ UNCHANGED <<engine, op, link>>
      /\ toConsole' = SubSeq(q, k + 1, Len(q))
  BY DEF ConsoleStores
<1>2. /\ engine \in Engine /\ op \in Op /\ toClient \in Seq(Byte) /\ console \in Console
      /\ answer \in [Tag -> Seq(InSym)] /\ engine.inbox \in Seq(Byte)
      /\ q \in Seq(OutByte) /\ Len(q) \in Nat /\ op.left \in Nat
      /\ console.left \in Nat /\ console.id \in Tag
  BY LenProperties DEF Careful, Typed, Engine, Console, Op
<1>3. Len(q) <= console.left /\ k = Len(q)
  <2>1. Len(q) <= console.left
    BY <1>1 DEF Careful, ConsoleSide, LineOrPayload
  <2> QED
    BY <1>2, <2>1 DEF Min2
<1>4. toConsole' = <<>>
  <2>1. SubSeq(q, Len(q) + 1, Len(q)) = <<>>
    BY <1>2, SubSeqEmpty
  <2> QED
    BY <1>1, <1>3, <2>1
<1>5. ~ Quiet(toConsole, console)
  BY <1>1 DEF Quiet
<1>6. engine.mode = "AwaitingHead" =>
        /\ Fits(engine, Incoming, op.kind, op.id, Meant)
        /\ Asking(Incoming, op.kind, op.id, q, console, link)
  BY <1>1, <1>5, Hears
<1>7. op.at \in {"flush", "read"} /\ engine.mode = "Idle" =>
        /\ Fits(engine, Incoming, op.kind, op.id, Meant)
        /\ engine.events[1].kind = "SendBinary" /\ Invited(Incoming, op.id, q, console)
  BY <1>1, <1>5, Hears
<1>8. op.at = "upload" => engine.mode = "Idle" /\ Uploading
  BY <1>1, <1>5, Hears DEF Careful
<1> HIDE DEF q, k
<1>9. CASE Len(q) < console.left
  <2>1. /\ Len(q) > 0 /\ console' = [console EXCEPT !.left = @ - Len(q)]
        /\ UNCHANGED <<toClient, answer>>
    <3>1. k < console.left
      BY <1>3, <1>9
    <3>2. k > 0 /\ console' = [console EXCEPT !.left = @ - k] /\ UNCHANGED <<toClient, answer>>
      BY <3>1 DEF ConsoleStores, q, k
    <3> QED
      BY <1>3, <3>2
  <2>2. console.left - Len(q) \in Nat
    BY <1>2, <1>3
  <2>3. /\ console' \in Console /\ console'.mode = "upload" /\ console'.id = console.id
        /\ console'.left = console.left - Len(q)
    BY <1>1, <1>2, <2>1, <2>2 DEF Console
  <2>4. q # <<>>
    <3>1. q = <<>> => Len(q) = 0
      BY EmptySeq
    <3> QED
      BY <1>2, <2>1, <3>1
  <2>5. <<>> \in Seq(OutByte) /\ Len(<<>>) = 0
    BY EmptySeq
  <2>6. Typed'
    BY <1>1, <1>2, <1>4, <2>1, <2>3, <2>5 DEF Careful, Typed
  <2>7. ConsoleSide'
    BY <1>4, <2>2, <2>3, <2>5 DEF ConsoleSide, LineOrPayload
  <2>8. Incoming' = Incoming /\ Meant' = Meant
    BY <1>1, <2>1 DEF Incoming, Meant
  <2>9. engine.mode = "AwaitingHead" =>
          /\ Fits(engine, Incoming', op.kind, op.id, Meant')
          /\ Asking(Incoming', op.kind, op.id, toConsole', console', link')
    <3> SUFFICES ASSUME engine.mode = "AwaitingHead"
                 PROVE  Asking(Incoming, op.kind, op.id, toConsole', console', link')
      BY <1>6, <2>8
    <3>1. Asking(Incoming, op.kind, op.id, q, console, link)
      BY <1>6
    <3>2. op.kind \in {"send", "finish"} /\ op.kind # "send" /\ console.id = op.id /\ Incoming = <<>>
      BY <1>1, <2>4, <3>1 DEF Asking
    <3> QED
      BY <2>3, <3>2 DEF Asking
  <2>10. ~ (op.at \in {"flush", "read"} /\ engine.mode = "Idle")
    BY <1>7, <2>4 DEF Invited
  <2>11. op.at = "upload" => Uploading'
    <3> SUFFICES ASSUME op.at = "upload" PROVE Uploading'
      OBVIOUS
    <3>1. /\ engine.mode = "Idle" /\ engine.events = <<>> /\ op.kind = "send"
          /\ StatusFits(Incoming) /\ Own(Incoming, op.id) /\ console.id = op.id
          /\ Incoming = <<>> /\ op.left + Len(q) <= console.left
      BY <1>1, <1>8 DEF Uploading, q
    <3>2. op.left + Len(toConsole') <= console'.left
      BY <1>2, <1>4, <2>2, <2>3, <2>5, <3>1
    <3> QED
      BY <1>1, <2>3, <2>8, <3>1, <3>2 DEF Uploading
  <2> QED
    BY <1>1, <1>5, <2>6, <2>7, <2>9, <2>10, <2>11, SpeaksIsCareful
<1>10. CASE ~ (Len(q) < console.left)
  <2>1. PICK c \in {"200", "4xx"} :
          /\ toClient' = toClient \o Untagged(<<c, "LF">>, console.id)
          /\ answer' = [answer EXCEPT ![console.id] = <<c>>]
    <3>1. ~ (k < console.left)
      BY <1>3, <1>10
    <3> QED
      BY <3>1 DEF ConsoleStores, Tagged, q, k
  <2>2. console' = [console EXCEPT !.mode = "command", !.left = 0]
    <3>1. ~ (k < console.left)
      BY <1>3, <1>10
    <3> QED
      BY <3>1 DEF ConsoleStores, q, k
  <2>3. console' \in Console /\ console'.mode = "command" /\ console'.left = 0
    BY <1>2, <2>2 DEF Console
  <2> DEFINE u == Untagged(<<c, "LF">>, console.id)
             x == Incoming'
  <2>4. c \in Code /\ <<c>> \in Seq(InSym)
    BY DEF Code, LineCode, InSym
  <2>5. /\ u \in Seq(Byte) /\ Len(u) = 2 /\ Own(u, console.id)
        /\ u[1].sym = c /\ u[2].sym = "LF" /\ Rest(u) = <<>>
    BY <1>2, <2>4, StatusReply
  <2>6. toClient' = toClient \o u
    BY <2>1
  <2> HIDE DEF u
  <2>7. toClient' \in Seq(Byte)
    BY <1>2, <2>5, <2>6, ConcatProperties
  <2>8. x = Incoming \o u
    <3> DEFINE i == engine.inbox
               w == toClient
    <3>1. i \in Seq(Byte) /\ w \in Seq(Byte) /\ u \in Seq(Byte)
      BY <1>2, <2>5
    <3> HIDE DEF i, w
    <3>2. (i \o w) \o u = i \o (w \o u)
      BY <3>1, Together
    <3> QED
      BY <1>1, <2>6, <3>2 DEF Incoming, i, w
  <2>9. Incoming = <<>> => x = u
    BY <2>5, <2>8, ConcatEmptySeq
  <2> HIDE DEF x
  <2>10. StatusFits(u) /\ u # <<>>
    <3>1. u = <<>> => Len(u) = 0
      BY EmptySeq
    <3> QED
      BY <2>5, <3>1 DEF StatusFits
  <2>11. Typed'
    <3>1. answer' \in [Tag -> Seq(InSym)]
      BY <1>2, <2>1, <2>4
    <3>2. toConsole' \in Seq(OutByte)
      BY <1>4, EmptySeq
    <3> QED
      BY <1>1, <1>2, <2>3, <2>7, <3>1, <3>2 DEF Careful, Typed
  <2>12. ConsoleSide'
    <3>1. Len(toConsole') = 0
      BY <1>4, EmptySeq
    <3> QED
      BY <2>3, <3>1 DEF ConsoleSide, LineOrPayload
  <2>13. ASSUME engine.mode = "AwaitingHead"
         PROVE  /\ Fits(engine, x, op.kind, op.id, Meant')
                /\ Asking(x, op.kind, op.id, toConsole', console', link')
    <3>1. /\ Fits(engine, Incoming, op.kind, op.id, Meant)
          /\ Asking(Incoming, op.kind, op.id, q, console, link)
      BY <1>6, <2>13
    <3>2. /\ console.id = op.id /\ op.kind \in {"send", "finish"}
          /\ Incoming # <<>> => Incoming[1].sym = "204"
          /\ op.kind = "send" => /\ q = <<>> /\ console.left = UploadLen /\ Len(Incoming) = 2
      BY <1>1, <3>1 DEF Asking
    <3>3. HeadFits(Incoming, op.kind, op.id, Meant) /\ Own(Incoming, op.id)
      BY <2>13, <3>1 DEF Fits, Reading, InFlight
    <3>4. Incoming \in Seq(Byte) /\ Len(Incoming) \in Nat
      BY <1>2, ConcatProperties, LenProperties DEF Incoming
    <3>5. CASE op.kind = "finish"
      <4>1. Incoming = <<>>
        <5>1. Incoming # <<>> => 1 <= Len(Incoming)
          BY <3>4, EmptySeq
        <5>2. ~ (1 <= Len(Incoming) /\ Incoming[1].sym = "204")
          BY <3>3, <3>5 DEF HeadFits
        <5> QED
          BY <3>2, <5>1, <5>2
      <4>2. x = u
        BY <2>9, <4>1
      <4>3. HeadFits(u, op.kind, op.id, Meant')
        BY <2>4, <2>5, <3>5 DEF HeadFits
      <4>4. Fits(engine, u, op.kind, op.id, Meant')
        BY <2>5, <2>13, <3>1, <3>2, <4>3 DEF Fits, Dead
      <4>5. Asking(u, op.kind, op.id, toConsole', console', link')
        BY <1>4, <2>3, <2>5 DEF Asking
      <4> QED
        BY <4>2, <4>4, <4>5
    <3>6. CASE op.kind = "send"
      <4>1. UploadLen = 0
        <5>1. q = <<>> => Len(q) = 0
          BY EmptySeq
        <5> QED
          BY <1>2, <1>10, <3>2, <3>6, <5>1
      <4>2. /\ x \in Seq(Byte) /\ Len(x) = 2 + 2
            /\ \A i \in 1 .. 2 + 2 : x[i] = IF i <= 2 THEN Incoming[i] ELSE u[i - 2]
        <5> DEFINE s == Incoming
        <5>1. s \in Seq(Byte) /\ u \in Seq(Byte) /\ Len(s) = 2 /\ Len(u) = 2 /\ x = s \o u
          BY <2>5, <2>8, <3>2, <3>4, <3>6
        <5> HIDE DEF s
        <5>2. /\ s \o u \in Seq(Byte) /\ Len(s \o u) = Len(s) + Len(u)
              /\ \A i \in 1 .. Len(s) + Len(u) :
                   (s \o u)[i] = IF i <= Len(s) THEN s[i] ELSE u[i - Len(s)]
          BY <5>1, ConcatProperties
        <5> QED
          BY <5>1, <5>2 DEF s
      <4>3. /\ x \in Seq(Byte) /\ Len(x) = 4 /\ x[1] = Incoming[1] /\ x[2] = Incoming[2]
            /\ x[3] = u[1] /\ x[4] = u[2]
        <5>1. \A i, j \in Int : i \in 3 .. 4 /\ j = i - 2 => x[i] = u[j]
          BY <4>2
        <5> QED
          BY <4>2, <5>1
      <4>4. Incoming[1].sym = "204" /\ Incoming[2].sym = "LF"
        <5>1. Incoming # <<>>
          <6>1. Incoming = <<>> => Len(Incoming) = 0
            BY EmptySeq
          <6> QED
            BY <3>2, <3>6, <6>1
        <5>2. 2 <= Len(Incoming)
          <6> DEFINE n == Len(Incoming)
          <6>1. n = 2
            BY <3>2, <3>6
          <6> HIDE DEF n
          <6>2. 2 <= n
            BY <6>1
          <6> QED
            BY <6>2 DEF n
        <5> QED
          BY <3>2, <3>3, <5>1, <5>2 DEF HeadFits
      <4>5. Own(x, op.id)
        <5>1. \A i \in 1 .. Len(x) : i \in {1, 2, 3, 4}
          BY <4>3
        <5>2. /\ Incoming[1].tag = op.id /\ Incoming[2].tag = op.id
              /\ u[1].tag = op.id /\ u[2].tag = op.id
          BY <2>5, <3>2, <3>3, <3>6 DEF Own
        <5> QED
          BY <4>3, <5>1, <5>2 DEF Own
      <4>6. StatusFits(Rest(x))
        <5> DEFINE y == Rest(x)
        <5>1. /\ Len(y) = IF 2 <= Len(x) THEN Len(x) - 2 ELSE 0
              /\ \A i \in 1 .. Len(y) : y[i] = x[i + 2]
          BY <4>3, RestFields
        <5> HIDE DEF y
        <5>2. Len(y) = 2
          BY <4>3, <5>1
        <5>3. y[1] = x[3] /\ y[2] = x[4]
          <6>1. \A i, j \in Int : i \in 1 .. 2 /\ j = i + 2 => y[i] = x[j]
            BY <5>1, <5>2
          <6> QED
            BY <6>1
        <5>4. StatusFits(y)
          BY <2>5, <4>3, <5>2, <5>3 DEF StatusFits
        <5> QED
          BY <5>4 DEF y
      <4>7. HeadFits(x, op.kind, op.id, Meant')
        BY <3>6, <4>1, <4>3, <4>4, <4>6 DEF HeadFits, Code, OpKind
      <4>8. Fits(engine, x, op.kind, op.id, Meant')
        BY <2>13, <3>1, <4>5, <4>7 DEF Fits, Dead
      <4>9. Asking(x, op.kind, op.id, toConsole', console', link')
        BY <1>4, <2>3, <4>1 DEF Asking
      <4> QED
        BY <4>8, <4>9
    <3> QED
      BY <3>2, <3>5, <3>6
  <2>14. ASSUME op.at \in {"flush", "read"}, engine.mode = "Idle"
         PROVE  /\ Fits(engine, x, op.kind, op.id, Meant')
                /\ Invited(x, op.id, toConsole', console')
    <3>1. /\ Fits(engine, Incoming, op.kind, op.id, Meant)
          /\ engine.events[1].kind = "SendBinary"
          /\ q = <<>> /\ console.id = op.id /\ console.left = UploadLen /\ Incoming = <<>>
      BY <1>1, <1>7, <2>14 DEF Invited
    <3>2. UploadLen = 0 /\ x = u
      <4>1. q = <<>> => Len(q) = 0
        BY EmptySeq
      <4> QED
        BY <1>2, <1>10, <2>9, <3>1, <4>1
    <3>3. Fits(engine, u, op.kind, op.id, Meant')
      BY <2>5, <2>10, <2>14, <3>1, <3>2 DEF Fits, Reading, InFlight, Dead
    <3>4. Invited(u, op.id, toConsole', console')
      BY <1>4, <2>3, <3>2 DEF Invited
    <3> QED
      BY <3>2, <3>3, <3>4
  <2>15. ASSUME op.at = "upload"
         PROVE  Uploading'
    <3>1. /\ engine.mode = "Idle" /\ engine.events = <<>> /\ op.kind = "send"
          /\ console.id = op.id
          /\ Incoming = <<>> /\ op.left + Len(q) <= console.left
      BY <1>1, <1>8, <2>15 DEF Uploading, q
    <3>2. op.left = 0 /\ x = u
      BY <1>2, <1>10, <2>9, <3>1
    <3> QED
      BY <1>1, <1>4, <2>3, <2>5, <2>10, <2>15, <3>1, <3>2 DEF Uploading, x
  <2> QED
    BY <1>1, <1>5, <2>11, <2>12, <2>13, <2>14, <2>15, SpeaksIsCareful DEF x
<1> QED
  BY <1>9, <1>10

-----------------------------------------------------------------------------
(* Every step of every one of them.                                        *)

LEMMA InitIsCareful ==
  ASSUME Init
  PROVE  Careful
<1> DEFINE o == [kind |-> "banner", at |-> "flush", id |-> 0, left |-> 0,
                 buf |-> <<>>, got |-> <<>>, careless |-> {}]
<1>1. /\ engine = NewEngine /\ op = o /\ toConsole = <<>> /\ link = "up"
      /\ console = [mode |-> "command", left |-> 0, id |-> 0]
  BY DEF Init
<1>2. PICK c \in {"201", "4xx"} :
        /\ toClient = Untagged(<<c, "LF">>, 0)
        /\ answer = [t \in Tag |-> IF t = 0 THEN <<c>> ELSE <<>>]
  BY DEF Init
<1>3. 0 \in Tag
  BY SessionAssumption
<1>4. <<>> \in Seq(Byte) /\ <<>> \in Seq(OutByte) /\ <<>> \in Seq(Event) /\ <<>> \in Seq(InSym)
      /\ Len(<<>>) = 0
  BY EmptySeq
<1>5. /\ engine \in Engine /\ engine.mode = "NeedBanner" /\ engine.events = <<>>
      /\ engine.inbox = <<>> /\ engine.outbox = <<>>
  BY <1>1, <1>4 DEF NewEngine, Engine, Mode, Expect
<1>6. op \in Op /\ op.at = "flush" /\ op.kind = "banner" /\ op.id = 0
  BY <1>1, <1>3, <1>4 DEF Op, At
<1>7. console \in Console /\ console.mode = "command" /\ Quiet(toConsole, console)
  BY <1>1, <1>3 DEF Console, Quiet
<1> DEFINE u == Untagged(<<c, "LF">>, 0)
<1>8. c \in Code /\ <<c>> \in Seq(InSym)
  BY DEF Code, LineCode, InSym
<1>9. /\ u \in Seq(Byte) /\ Len(u) = 2 /\ Own(u, 0)
      /\ u[1].sym = c /\ u[2].sym = "LF"
  BY <1>3, <1>8, StatusReply
<1>10. toClient = u
  BY <1>2
<1> HIDE DEF o, u
<1>11. Incoming = u
  BY <1>5, <1>9, <1>10, ConcatEmptySeq DEF Incoming
<1>12. Typed
  BY <1>1, <1>2, <1>4, <1>5, <1>6, <1>7, <1>8, <1>9, <1>10 DEF Typed
<1>13. Pumping
  <2>1. StatusFits(u)
    BY <1>9 DEF StatusFits
  <2>2. Fits(engine, u, op.kind, op.id, Meant)
    BY <1>5, <1>6, <1>9, <2>1 DEF Fits, Dead
  <2>3. Wire(engine, u, op.kind, op.id, toConsole, console, link)
    BY <1>5, <1>7 DEF Wire
  <2> QED
    BY <1>11, <2>2, <2>3 DEF Pumping
<1>14. ConsoleSide
  BY <1>1, <1>4, <1>7 DEF ConsoleSide, LineOrPayload
<1>15. /\ Reads /\ Writing /\ Streaming /\ Uploading /\ AtRest /\ Line /\ NothingAfterReset
  BY <1>1, <1>5, <1>6 DEF Reads, Writing, Streaming, Uploading, AtRest, Line, NothingAfterReset
<1> QED
  BY <1>12, <1>13, <1>14, <1>15 DEF Careful

LEMMA InitInv ==
  ASSUME Init
  PROVE  SessionInv
<1>1. OpShape
  BY DEF Init, OpShape, Shape
<1> QED
  BY <1>1, InitIsCareful DEF SessionInv

\* Nobody who is careful disturbs another.
LEMMA NextIsCareful ==
  ASSUME ~ ShortRanges, Careful, Next, op'.careless = {}
  PROVE  Careful'
<1>1. CASE \/ PumpWrite \/ PumpFlush \/ PumpRead \/ PumpEof \/ PumpReadError
  BY <1>1, WriteIsCareful, FlushIsCareful, ReadIsCareful, EofIsCareful, ReadErrorIsCareful
<1>2. CASE \/ ReadPrefix \/ PrefixFails \/ ReadBody \/ FinishDownload \/ DownloadFails
           \/ ReadMeta \/ ParseMeta \/ ReadFrame \/ FrameDone \/ ShotFails
  BY <1>2, PrefixIsCareful, PrefixFailsIsCareful, BodyIsCareful, DoneIsCareful,
     GivesUpIsCareful, MetaIsCareful, ParseIsCareful
<1>3. CASE WriteBody \/ FinishUpload
  BY <1>3, PayloadIsCareful, FinishIsCareful
<1>4. CASE \E kind \in Ops : StartOp(kind)
  BY <1>4, StartIsCareful
<1>5. CASE DropDownload \/ CancelWrite \/ CancelRead
  BY <1>5, GivesUpIsCareful, CancelWriteIsCareful, CancelReadIsCareful
<1>6. CASE DropUpload
  <2>1. op \in Op /\ Over(engine, "err", <<>>, {"upload"})
    BY <1>6 DEF DropUpload, Dropped, Careful, Typed
  <2>2. op'.careless = op.careless \cup {"upload"}
    BY <2>1 DEF Over, Op
  <2> QED
    BY <2>2
<1>7. CASE ConsoleAnswers \/ ConsoleStores
  BY <1>7, AnswerIsCareful, StoreIsCareful
<1>8. CASE ConsoleCloses \/ LinkBreaks
  BY <1>8, NetworkIsCareful
<1> QED
  BY <1>1, <1>2, <1>3, <1>4, <1>5, <1>6, <1>7, <1>8 DEF Next, ClientStep, CallerStep, ConsoleStep

\* Only a caller is careless, and it stays so.
LEMMA ShapeKept ==
  ASSUME OpShape, [Next]_vars
  PROVE  OpShape' /\ op.careless \subseteq op'.careless
BY NextStays DEF Stays, LetsGo, OpShape

LEMMA StepInv ==
  ASSUME ~ ShortRanges, SessionInv, [Next]_vars
  PROVE  SessionInv'
<1>1. op.careless \subseteq op'.careless
  BY ShapeKept DEF SessionInv
<1>2. OpShape'
  BY ShapeKept DEF SessionInv
<1>3. ASSUME op'.careless = {} PROVE Careful'
  <2>1. Careful
    BY <1>1, <1>3 DEF SessionInv
  <2>2. CASE Next
    BY <1>3, <2>1, <2>2, NextIsCareful
  <2>3. CASE UNCHANGED vars
    <3>1. UNCHANGED <<engine, op, toConsole, toClient, link, console, answer>>
      BY <2>3 DEF vars
    <3> QED
      BY <2>1, <3>1
      DEF Careful, Typed, ConsoleSide, Pumping, Reads, Writing, Streaming, Uploading,
          AtRest, Line, NothingAfterReset, Incoming, Meant
  <2> QED
    BY <2>2, <2>3
<1> QED
  BY <1>2, <1>3 DEF SessionInv

\* Until somebody is careless, what is on its way to the client is a cut of
\* what is still to come of the one answer its operation waits for
\* (Client::pump_until, get_file, FileDownload, screenshot, FileUpload).
THEOREM SessionCorrect ==
  ASSUME ~ ShortRanges
  PROVE  Spec => []SessionInv
<1>1. Init => SessionInv
  BY InitInv
<1>2. SessionInv /\ [Next]_vars => SessionInv'
  BY StepInv
<1> QED
  BY <1>1, <1>2, PTL DEF Spec

-----------------------------------------------------------------------------

\* No byte of an earlier answer is ever read as the head of a later one:
\* what abort_stream, and failing a download that is let go of, are there
\* for (client/engine.rs, commands/file_transfer.rs).
THEOREM HeadsAreOwn ==
  ASSUME ~ ShortRanges
  PROVE  Spec => []HeadIsOwn
<1>1. SessionInv => HeadIsOwn
  BY DEF SessionInv, Careful, Pumping, Fits, Own, Reading, InFlight, Incoming, HeadIsOwn
<1> QED
  BY <1>1, SessionCorrect, PTL

\* Whenever a caller may start another operation on a client that works, the
\* last one has left nothing behind on either side of the connection
\* (FileDownload::drop hands what it read past the payload to end_stream).
THEOREM IdleIsQuiet ==
  ASSUME ~ ShortRanges
  PROVE  Spec => []QuietWhenIdle
<1>1. SessionInv => QuietWhenIdle
  <2> SUFFICES ASSUME SessionInv, op.at = "idle", engine.mode = "Idle", link # "reset",
                      op.careless = {}
               PROVE  /\ engine.inbox = <<>> /\ engine.outbox = <<>> /\ engine.events = <<>>
                      /\ toClient = <<>> /\ toConsole = <<>>
                      /\ console.mode = "command"
    BY DEF QuietWhenIdle
  <2>1. Careful
    BY DEF SessionInv
  <2>2. /\ Incoming = <<>> /\ engine.events = <<>> /\ Quiet(toConsole, console)
        /\ engine.outbox = <<>>
    BY <2>1 DEF Careful, AtRest, Line
  <2>3. engine.inbox \in Seq(Byte) /\ toClient \in Seq(Byte)
    BY <2>1 DEF Careful, Typed, Engine
  <2>4. Len(engine.inbox \o toClient) <= 0
    BY <2>2, EmptySeq DEF Incoming
  <2>5. engine.inbox = <<>> /\ toClient = <<>>
    BY <2>3, <2>4, NothingTogether
  <2> QED
    BY <2>2, <2>5 DEF Quiet
<1> QED
  BY <1>1, SessionCorrect, PTL

\* The payload of an upload reaches the console only while the console
\* stores one (FileUpload::poll_write clamps to what it has declared).
THEOREM PayloadIsStored ==
  ASSUME ~ ShortRanges
  PROVE  Spec => []PayloadNeverExecuted
<1>1. SessionInv => PayloadNeverExecuted
  <2> SUFFICES ASSUME Careful, console.mode = "command", NEW i \in 1 .. Len(toConsole)
               PROVE  toConsole[i].sym # "payload"
    BY DEF SessionInv, PayloadNeverExecuted
  <2>1. /\ Len(toConsole) \in Nat /\ Len(toConsole) <= 3
        /\ 1 <= Len(toConsole) => toConsole[1].sym \in OpKind
        /\ 2 <= Len(toConsole) => toConsole[2].sym = "CR"
        /\ 3 <= Len(toConsole) => toConsole[3].sym = "LF"
    BY LenProperties DEF Careful, Typed, ConsoleSide, LineOrPayload
  <2>2. CASE i = 1
    BY <2>1, <2>2 DEF OpKind
  <2>3. CASE i = 2
    BY <2>1, <2>3
  <2>4. CASE i = 3
    BY <2>1, <2>4
  <2> QED
    BY <2>1, <2>2, <2>3, <2>4
<1> QED
  BY <1>1, SessionCorrect, PTL

\* No command line is stored as part of a file (the client submits nothing
\* before finish has had the console's verdict).
THEOREM CommandsAreRun ==
  ASSUME ~ ShortRanges
  PROVE  Spec => []CommandsNeverStored
<1>1. SessionInv => CommandsNeverStored
  BY DEF SessionInv, Careful, ConsoleSide, LineOrPayload, CommandsNeverStored
<1> QED
  BY <1>1, SessionCorrect, PTL

-----------------------------------------------------------------------------
(* What the client is told.  The second layer: what the engine and the     *)
(* transfer have collected, with what is still to come of the reply behind *)
(* it, is the answer the console gave to the operation.  "m" is that       *)
(* answer, "s" and "r" are what is still to come.                          *)

\* From its element 1 - d on, s agrees with m, whose first d elements are
\* collected; when d is negative, a header of -d elements goes before m.
Continues(s, d, m) ==
  \A i \in 1 .. Len(s) : 1 <= i + d => i + d <= Len(m) /\ s[i] = m[i + d]

StatusTells(s, m) == 1 <= Len(s) => Len(m) = 1 /\ m[1] = s[1]

\* The first n lines of the listing are collected.
ListTells(s, n, m) ==
  /\ Len(m) = 3 /\ m[2].sym # "dot" /\ m[3].sym = "dot" /\ n \in {1, 2}
  /\ 1 <= Len(s) => s[1] = m[n + 1]
  /\ 3 <= Len(s) => n = 1 /\ s[3] = m[3]

HeaderLen(k) == IF k = "shot" THEN 2 ELSE 1

StreamTells(s, k, m) == Continues(s, - HeaderLen(k), m)

HeadTells(s, k, m) ==
  1 <= Len(s) =>
    /\ s[1].sym = "202" => m[1] = s[1] /\ ListTells(Rest(s), 1, m)
    /\ s[1].sym = "203" => IF k = "eager" THEN /\ m[1] = s[1] /\ Continues(Rest(s), 1, m)
                                               /\ Len(m) = AskedLen + 1
                                          ELSE StreamTells(Rest(s), k, m)
    /\ s[1].sym = "204" => StatusTells(Rest(s), m)
    /\ s[1].sym \notin {"202", "203", "204"} => StatusTells(s, m)

\* The line that invites an upload.
Invitation == {Untagged(<<"204">>, t) : t \in Tag}

\* An engine that waits for, reads, or has just read the answer.
Tells(e, r, k, m) ==
  /\ m \in Seq(Byte)
  /\ e.mode = "NeedBanner"       => StatusTells(r, m)
  /\ e.mode = "AwaitingHead"     => HeadTells(r, k, m)
  /\ e.mode = "ReadingMultiline" => IsCut(e.data, m) /\ ListTells(r, Len(e.data), m)
  /\ e.mode = "ReadingBinary"    => /\ IsCut(e.data, m) /\ Continues(r, Len(e.data), m)
                                    /\ Len(e.data) + e.remaining = Len(m)
  /\ e.mode = "StreamingBody"    => StreamTells(r, k, m)
  /\ e.mode = "Idle"             => IF e.events[1].kind = "SendBinary"
                                    THEN e.events[1].data \in Invitation /\ StatusTells(r, m)
                                    ELSE e.events[1].data = m
  /\ e.mode = "Failed"           => \A i \in 1 .. Len(e.events) : e.events[i].kind # "Closed"
  /\ e.mode = "Closed" /\ k = "bye" =>
       m = <<>> /\ \A i \in 1 .. Len(e.events) :
                     e.events[i].kind = "Closed" => e.events[i].data = <<>>

LEMMA ContinuesRest ==
  ASSUME NEW s \in Seq(Byte), NEW k \in 0 .. Len(s), NEW d \in Int, NEW m, Continues(s, d, m)
  PROVE  Continues(SubSeq(s, k + 1, Len(s)), d + k, m)
<1> DEFINE x == SubSeq(s, k + 1, Len(s))
<1>1. Len(s) \in Nat
  BY LenProperties
<1>2. Len(x) = Len(s) - k /\ \A i \in 1 .. Len(s) - k : x[i] = s[i + k]
  BY DropFields
<1> HIDE DEF x
<1>3. ASSUME NEW i \in 1 .. Len(x), 1 <= i + (d + k)
      PROVE  i + (d + k) <= Len(m) /\ x[i] = m[i + (d + k)]
  <2>1. i + k \in 1 .. Len(s) /\ i + (d + k) = (i + k) + d /\ i \in 1 .. Len(s) - k
    BY <1>1, <1>2
  <2>2. (i + k) + d <= Len(m) /\ s[i + k] = m[(i + k) + d]
    BY <1>3, <2>1 DEF Continues
  <2> QED
    BY <1>2, <2>1, <2>2
<1>4. Continues(x, d + k, m)
  BY <1>3 DEF Continues
<1> QED
  BY <1>4 DEF x

LEMMA ContinuesAfterLine ==
  ASSUME NEW s \in Seq(Byte), 2 <= Len(s), NEW d \in Int, NEW m, Continues(s, d, m)
  PROVE  Continues(Rest(s), d + 2, m)
<1> DEFINE k == 2
<1>1. Len(s) \in Nat
  BY LenProperties
<1>2. k \in 0 .. Len(s) /\ k + 1 = 3
  BY <1>1
<1> HIDE DEF k
<1>3. Continues(SubSeq(s, k + 1, Len(s)), d + k, m)
  BY <1>2, ContinuesRest
<1>4. k = 2
  BY DEF k
<1> QED
  BY <1>2, <1>3, <1>4 DEF Rest

LEMMA ContinuesCut ==
  ASSUME NEW x, NEW r, IsCut(x, r), NEW d, NEW m, Continues(r, d, m)
  PROVE  Continues(x, d, m)
<1>1. Len(x) \in Nat /\ Len(r) \in Nat /\ Len(x) <= Len(r) /\ \A i \in 1 .. Len(x) : x[i] = r[i]
  BY CutFields DEF IsCut
<1>2. \A i \in 1 .. Len(x) : i \in 1 .. Len(r)
  BY <1>1
<1> QED
  BY <1>1, <1>2 DEF Continues

\* What moves from the front of what is to come to what is collected.
LEMMA Collects ==
  ASSUME NEW g, NEW m, IsCut(g, m), NEW s \in Seq(Byte), NEW w \in Seq(Byte),
         NEW k \in 0 .. Len(s), Continues(s \o w, Len(g), m)
  PROVE  LET h == g \o SubSeq(s, 1, k)
             r == SubSeq(s, k + 1, Len(s)) \o w
         IN IsCut(h, m) /\ Len(h) = Len(g) + k /\ Continues(r, Len(h), m)
<1> DEFINE a == SubSeq(s, 1, k)
           h == g \o a
           u == s \o w
<1>1. /\ Len(s) \in Nat /\ Len(w) \in Nat /\ g \in Seq(Byte) /\ m \in Seq(Byte)
      /\ Len(g) \in Nat /\ Len(m) \in Nat /\ Len(g) <= Len(m)
      /\ \A i \in 1 .. Len(g) : g[i] = m[i]
  BY LenProperties DEF IsCut
<1>2. a \in Seq(Byte) /\ Len(a) = k /\ \A i \in 1 .. k : a[i] = s[i]
  BY TakeFields
<1>3. /\ u \in Seq(Byte) /\ Len(u) = Len(s) + Len(w)
      /\ \A i \in 1 .. Len(s) + Len(w) : u[i] = IF i <= Len(s) THEN s[i] ELSE w[i - Len(s)]
  BY ConcatProperties
<1>4. SubSeq(s, k + 1, Len(s)) \o w = SubSeq(u, k + 1, Len(u))
  BY DropOfConcat
<1>5. Continues(u, Len(g), m)
  OBVIOUS
<1> HIDE DEF a, u
<1>6. /\ h \in Seq(Byte) /\ Len(h) = Len(g) + k
      /\ \A i \in 1 .. Len(g) + k : h[i] = IF i <= Len(g) THEN g[i] ELSE a[i - Len(g)]
  BY <1>1, <1>2, ConcatProperties
<1>7. ASSUME NEW j \in 1 .. k PROVE j + Len(g) <= Len(m) /\ a[j] = m[j + Len(g)]
  <2>0. j \in Int /\ 1 <= j /\ j <= k /\ k <= Len(s) /\ k \in Int
    OBVIOUS
  <2>1. j \in 1 .. Len(u) /\ 1 <= j + Len(g) /\ u[j] = s[j]
    <3>1. j \in 1 .. Len(s) + Len(w) /\ j <= Len(s)
      BY <1>1, <2>0
    <3> QED
      BY <1>1, <1>3, <2>0, <3>1
  <2>2. j + Len(g) <= Len(m) /\ u[j] = m[j + Len(g)]
    BY <1>5, <2>1 DEF Continues
  <2> QED
    BY <1>2, <2>1, <2>2
<1> HIDE DEF h
<1>8. Len(h) <= Len(m)
  <2>1. CASE k = 0
    BY <1>1, <1>6, <2>1
  <2>2. CASE k # 0
    <3>1. k \in 1 .. k
      BY <1>1, <2>2
    <3> QED
      BY <1>1, <1>6, <1>7, <3>1
  <2> QED
    BY <2>1, <2>2
<1>9. ASSUME NEW i \in 1 .. Len(h) PROVE h[i] = m[i]
  <2>1. i \in 1 .. Len(g) + k
    BY <1>6
  <2>2. CASE i <= Len(g)
    <3>1. i \in 1 .. Len(g)
      BY <1>1, <2>1, <2>2
    <3> QED
      BY <1>1, <1>6, <2>1, <2>2, <3>1
  <2>3. CASE ~ (i <= Len(g))
    <3> DEFINE j == i - Len(g)
    <3>1. j \in 1 .. k /\ j + Len(g) = i
      BY <1>1, <2>1, <2>3
    <3>2. h[i] = a[j]
      BY <1>6, <2>1, <2>3
    <3> HIDE DEF j
    <3> QED
      BY <1>7, <3>1, <3>2
  <2> QED
    BY <2>2, <2>3
<1>10. IsCut(h, m)
  BY <1>1, <1>6, <1>8, <1>9 DEF IsCut
<1>11. Continues(SubSeq(u, k + 1, Len(u)), Len(g) + k, m)
  <2>1. k \in 0 .. Len(u) /\ Len(g) \in Int
    BY <1>1, <1>3
  <2> QED
    BY <1>3, <1>5, <2>1, ContinuesRest
<1>12. Continues(SubSeq(s, k + 1, Len(s)) \o w, Len(h), m)
  BY <1>4, <1>6, <1>11
<1> QED
  BY <1>6, <1>10, <1>12 DEF h, a

\* A cut that is as long as the whole is the whole.
LEMMA WholeCut ==
  ASSUME NEW g, NEW m, IsCut(g, m), Len(m) <= Len(g)
  PROVE  g = m
<1>1. g \in Seq(Byte) /\ m \in Seq(Byte) /\ Len(g) \in Nat /\ Len(m) \in Nat
      /\ Len(g) <= Len(m) /\ \A i \in 1 .. Len(g) : g[i] = m[i]
  BY LenProperties DEF IsCut
<1>2. Len(g) = Len(m)
  BY <1>1
<1> QED
  BY <1>1, <1>2, SeqEqual

LEMMA OneByte ==
  ASSUME NEW line \in Seq(Byte), NEW m \in Seq(Byte), Len(line) = 1, Len(m) = 1, line[1] = m[1]
  PROVE  line = m
<1>1. \A i \in 1 .. Len(line) : line[i] = m[i]
  <2>1. \A i \in 1 .. 1 : i = 1
    OBVIOUS
  <2> QED
    BY <2>1
<1> QED
  BY <1>1, SeqEqual

-----------------------------------------------------------------------------
(* Reading the reply, again: no step of the engine loses track of it.      *)

LEMMA FailTells ==
  ASSUME NEW e \in Engine, e.events = <<>>, NEW r, NEW k, NEW m \in Seq(Byte)
  PROVE  Tells(Fail(e), r, k, m)
<1> DEFINE ev == [kind |-> "Failed", data |-> <<>>]
           x  == Fail(e)
<1>1. ev \in Event /\ ev.kind = "Failed"
  BY DEF Event, EventKind
<1>2. x \in Engine /\ x.mode = "Failed" /\ x.events = Append(<<>>, ev)
  BY FailFields
<1> HIDE DEF ev, x
<1>3. Len(x.events) = 1 /\ x.events[1].kind = "Failed"
  BY <1>1, <1>2, FirstEvent
<1>4. \A i \in 1 .. 1 : i = 1
  OBVIOUS
<1>5. Tells(x, r, k, m)
  BY <1>2, <1>3, <1>4 DEF Tells
<1> QED
  BY <1>5 DEF x

\* The answer itself.
LEMMA AnswerTells ==
  ASSUME NEW e \in Engine, e.events = <<>>, NEW m \in Seq(Byte),
         NEW kind \in AnswerKind \ {"SendBinary"}, NEW r, NEW k
  PROVE  Tells(Answer(e, kind, m, "Idle"), r, k, m)
<1> DEFINE ev == [kind |-> kind, data |-> m]
           x  == Answer(e, kind, m, "Idle")
<1>1. ev \in Event /\ ev.kind = kind /\ ev.data = m /\ "Idle" \in Mode
  BY DEF Event, EventKind, AnswerKind, Mode
<1>2. x \in Engine /\ x.mode = "Idle" /\ x.events = Append(<<>>, ev)
  BY <1>1, AnswerFields
<1> HIDE DEF ev, x
<1>3. x.events[1] = ev
  BY <1>1, <1>2, FirstEvent
<1>4. Tells(x, r, k, m)
  BY <1>1, <1>2, <1>3 DEF Tells
<1> QED
  BY <1>4 DEF x

LEMMA BannerStepTells ==
  ASSUME NEW e, NEW w \in Seq(Byte), NEW k, NEW t, NEW n, NEW q, NEW c, NEW l, NEW m,
         Sound(e, w, k, t, n, q, c, l), e.mode = "NeedBanner", Tells(e, e.inbox \o w, k, m)
  PROVE  Tells(Step(e), Step(e).inbox \o w, k, m)
<1> DEFINE s    == e.inbox
           r    == s \o w
           p    == LfAt(s)
           line == SubSeq(s, 1, LineLen(s, p))
           rest == [e EXCEPT !.inbox = SubSeq(@, p + 1, Len(@))]
           u    == Step(e).inbox \o w
<1>1. e \in Engine /\ s \in Seq(Byte) /\ r \in Seq(Byte) /\ Len(r) \in Nat
  BY ConcatProperties, LenProperties DEF Sound, Engine
<1>2. e.events = <<>> /\ StatusFits(r)
  BY DEF Sound, Fits, Reading, InFlight
<1>3. StatusTells(r, m) /\ m \in Seq(Byte)
  BY DEF Tells
<1>4. Step(e) = IF Oversize(s) THEN Fail(e) ELSE IF p = 0 THEN e
                ELSE IF NonUtf8(line) THEN Fail(rest) ELSE OnBanner(rest, line)
  BY DEF Step, WithLine
<1> HIDE DEF u
<1>5. Tells(Fail(e), u, k, m)
  BY <1>1, <1>2, <1>3, FailTells
<1>6. ASSUME p # 0
      PROVE  Tells(Fail(rest), u, k, m) /\ Tells(OnBanner(rest, line), u, k, m)
  <2>1. (1 <= Len(r) => r[1].sym \notin {"LF", "CR"}) /\ (2 <= Len(r) => r[2].sym = "LF")
    BY <1>2 DEF StatusFits
  <2>2. /\ 2 <= Len(r) /\ line \in Seq(Byte) /\ Len(line) = 1 /\ line[1] = r[1]
        /\ rest \in Engine /\ rest.events = e.events
    BY <1>1, <1>6, <2>1, TakesLine
  <2> HIDE DEF rest, line, r
  <2>3. Tells(Fail(rest), u, k, m)
    BY <1>2, <1>3, <2>2, FailTells
  <2>4. line = m
    <3>1. Len(m) = 1 /\ line[1] = m[1]
      BY <1>1, <1>3, <2>2 DEF StatusTells
    <3> QED
      BY <1>3, <2>2, <3>1, OneByte
  <2>5. Tells(Enter(Push(rest, "Connected", line), "Idle"), u, k, m)
    <3> DEFINE ev == [kind |-> "Connected", data |-> line]
               y  == Push(rest, "Connected", line)
               x  == Enter(y, "Idle")
    <3>1. ev \in Event /\ ev.kind = "Connected" /\ ev.data = line
      BY <2>2 DEF Event, EventKind
    <3>2. y \in Engine /\ y.events = Append(<<>>, ev)
      BY <1>2, <2>2, PushFields DEF EventKind
    <3> HIDE DEF y, ev
    <3>3. x \in Engine /\ x.mode = "Idle" /\ x.events = y.events
      BY <3>2, EnterFields DEF Mode
    <3> HIDE DEF x
    <3>4. x.events[1] = ev
      BY <3>1, <3>2, <3>3, FirstEvent
    <3>5. Tells(x, u, k, m)
      BY <1>3, <2>4, <3>1, <3>3, <3>4 DEF Tells
    <3> QED
      BY <3>5 DEF x, y
  <2> QED
    BY <2>3, <2>5 DEF OnBanner
<1>7. Step(e) = e => Tells(Step(e), u, k, m)
  BY DEF u
<1> HIDE DEF rest, line, p
<1>8. Tells(Step(e), u, k, m)
  BY <1>4, <1>5, <1>6, <1>7
<1> QED
  BY <1>8 DEF u

\* A head: what it says will follow is what the answer has beyond it.
LEMMA LineInvites ==
  ASSUME NEW line \in Seq(Byte), Len(line) = 1, line[1].sym = "204"
  PROVE  line \in Invitation
<1> DEFINE t == line[1].tag
           s == <<"204">>
           u == Untagged(s, t)
<1>1. line[1] \in Byte /\ t \in Tag
  <2>1. line[1] \in Byte
    BY ElementOfSeq
  <2> QED
    BY <2>1 DEF Byte
<1>2. s \in Seq(InSym) /\ Len(s) = 1 /\ s[1] = "204"
  BY DEF InSym, Code
<1> HIDE DEF s
<1>3. /\ u \in Seq(Byte) /\ Len(u) = 1 /\ Own(u, t)
      /\ \A i \in 1 .. Len(s) : u[i].sym = s[i]
  BY <1>1, <1>2, UntaggedFields
<1> HIDE DEF u
<1>4. u[1] \in Byte /\ u[1].sym = "204" /\ u[1].tag = t
  <2>1. u[1] \in Byte
    BY <1>3, ElementOfSeq
  <2> QED
    BY <1>2, <1>3, <2>1 DEF Own
<1>5. u[1] = line[1]
  BY <1>1, <1>4 DEF Byte
<1>6. line = u
  BY <1>3, <1>5, OneByte
<1> QED
  BY <1>1, <1>6 DEF Invitation, u, s

LEMMA HeadTold ==
  ASSUME NEW e \in Engine, NEW line \in Seq(Byte), NEW r \in Seq(Byte), NEW w \in Seq(Byte),
         NEW k, NEW t, NEW n, NEW m \in Seq(Byte),
         2 <= Len(r), Len(line) = 1, line[1] = r[1], e.inbox \o w = Rest(r),
         e.mode = "AwaitingHead", Fits(e, r, k, t, n), HeadTells(r, k, m)
  PROVE  Tells(OnHead(e, line), OnHead(e, line).inbox \o w, k, m)
<1> DEFINE c == r[1].sym
<1>1. /\ HeadFits(r, k, t, n) /\ e.events = <<>> /\ e.expect = ExpectOf(k)
      /\ k = "eager" => e.remaining = AskedLen
      /\ e.data \in Seq(Byte) /\ Len(r) \in Nat
  BY LenProperties DEF Fits, Reading, InFlight, Engine
<1>2. HeadCode(line) = c /\ c \in Code
  <2>1. line # <<>>
    BY NotEmpty
  <2> QED
    BY <1>1, <2>1 DEF HeadCode, HeadFits
<1>3. c \notin {"202", "203", "204"} => line = m
  <2>1. c \notin {"202", "203", "204"} => Len(m) = 1 /\ m[1] = r[1]
    BY <1>1 DEF HeadTells, StatusTells
  <2> QED
    BY <2>1, OneByte
<1>4. CASE c \in {"4xx", "200", "201"}
  <2> DEFINE kind == IF c = "4xx" THEN "RemoteError" ELSE "Line"
  <2>1. OnHead(e, line) = Answer(e, kind, m, "Idle")
    BY <1>2, <1>3, <1>4 DEF OnHead, LineCode
  <2>2. kind \in AnswerKind \ {"SendBinary"}
    BY DEF AnswerKind
  <2> HIDE DEF kind
  <2> QED
    BY <1>1, <2>1, <2>2, AnswerTells
<1>5. CASE c = "unknown"
  <2>1. OnHead(e, line) = Fail(e)
    BY <1>2, <1>5 DEF OnHead, LineCode
  <2> QED
    BY <1>1, <2>1, FailTells
<1>6. CASE c = "202"
  <2> DEFINE x == [e EXCEPT !.mode = "ReadingMultiline", !.data = line]
  <2>1. x.mode = "ReadingMultiline" /\ x.data = line /\ x.inbox = e.inbox
    BY DEF Engine
  <2>2. OnHead(e, line) = x
    BY <1>2, <1>6 DEF OnHead, LineCode
  <2> HIDE DEF x
  <2>3. m[1] = r[1] /\ ListTells(Rest(r), 1, m)
    BY <1>1, <1>6 DEF HeadTells
  <2>4. IsCut(line, m)
    <3>1. \A i \in 1 .. 1 : i = 1
      OBVIOUS
    <3> QED
      BY <2>3, <3>1 DEF IsCut, ListTells
  <2>5. Tells(x, x.inbox \o w, k, m)
    BY <2>1, <2>3, <2>4 DEF Tells
  <2> QED
    BY <2>2, <2>5
<1>7. CASE c = "203"
  <2>1. OnHead(e, line) = OnBinaryHead(e, line)
    BY <1>2, <1>7 DEF OnHead, LineCode
  <2>2. CASE k = "eager"
    <3> DEFINE x == [e EXCEPT !.mode = "ReadingBinary", !.data = line]
    <3>1. /\ x.mode = "ReadingBinary" /\ x.data = line /\ x.inbox = e.inbox
          /\ x.remaining = AskedLen
      BY <1>1, <2>2 DEF Engine
    <3>2. OnHead(e, line) = x
      BY <1>1, <2>1, <2>2 DEF OnBinaryHead, ExpectOf
    <3> HIDE DEF x
    <3>3. m[1] = r[1] /\ Continues(Rest(r), 1, m) /\ Len(m) = AskedLen + 1
      BY <1>1, <1>7, <2>2 DEF HeadTells
    <3>4. AskedLen \in Nat
      BY SessionAssumption
    <3>5. IsCut(line, m)
      <4>1. \A i \in 1 .. 1 : i = 1
        OBVIOUS
      <4>2. 1 <= Len(m)
        BY <3>3, <3>4
      <4> QED
        BY <3>3, <4>1, <4>2 DEF IsCut
    <3>6. Len(line) + x.remaining = Len(m)
      BY <3>1, <3>3, <3>4
    <3>7. Tells(x, x.inbox \o w, k, m)
      BY <3>1, <3>3, <3>5, <3>6 DEF Tells
    <3> QED
      BY <3>2, <3>7
  <2>3. CASE k # "eager"
    <3>1. StreamTells(Rest(r), k, m) /\ k \in Streamed
      BY <1>1, <1>7, <2>3 DEF HeadTells, HeadFits, StreamFits
    <3> DEFINE x == Answer(e, "BinaryHead", line, "StreamingBody")
    <3>2. OnHead(e, line) = x
      BY <1>1, <2>1, <3>1 DEF OnBinaryHead, ExpectOf, Streamed
    <3>3. x.mode = "StreamingBody" /\ x.inbox = e.inbox
      BY DEF Answer, Enter, Push, Engine
    <3> HIDE DEF x
    <3>4. Tells(x, x.inbox \o w, k, m)
      BY <3>1, <3>3 DEF Tells
    <3> QED
      BY <3>2, <3>4
  <2> QED
    BY <2>2, <2>3
<1>8. CASE c = "204"
  <2> DEFINE ev == [kind |-> "SendBinary", data |-> line]
             x  == Answer(e, "SendBinary", line, "Idle")
  <2>1. OnHead(e, line) = x
    BY <1>2, <1>8 DEF OnHead, LineCode
  <2>2. ev \in Event /\ ev.kind = "SendBinary" /\ ev.data = line
    BY DEF Event, EventKind, AnswerKind
  <2>3. x.mode = "Idle" /\ x.inbox = e.inbox /\ x.events = Append(<<>>, ev)
    <3>1. "SendBinary" \in AnswerKind /\ "Idle" \in Mode
      BY DEF AnswerKind, Mode
    <3> QED
      BY <1>1, <3>1, AnswerFields
  <2> HIDE DEF x, ev
  <2>4. x.events[1].kind = "SendBinary" /\ x.events[1].data = line
    BY <2>2, <2>3, FirstEvent
  <2>5. StatusTells(Rest(r), m) /\ line \in Invitation
    BY <1>1, <1>8, LineInvites DEF HeadTells
  <2>6. Tells(x, x.inbox \o w, k, m)
    BY <2>3, <2>4, <2>5 DEF Tells
  <2> QED
    BY <2>1, <2>6
<1> QED
  BY <1>2, <1>4, <1>5, <1>6, <1>7, <1>8 DEF Code, LineCode

LEMMA HeadStepTells ==
  ASSUME NEW e, NEW w \in Seq(Byte), NEW k, NEW t, NEW n, NEW q, NEW c, NEW l, NEW m,
         Sound(e, w, k, t, n, q, c, l), e.mode = "AwaitingHead", Tells(e, e.inbox \o w, k, m)
  PROVE  Tells(Step(e), Step(e).inbox \o w, k, m)
<1> DEFINE s    == e.inbox
           r    == s \o w
           p    == LfAt(s)
           line == SubSeq(s, 1, LineLen(s, p))
           rest == [e EXCEPT !.inbox = SubSeq(@, p + 1, Len(@))]
<1>1. e \in Engine /\ s \in Seq(Byte) /\ r \in Seq(Byte) /\ Len(r) \in Nat
  BY ConcatProperties, LenProperties DEF Sound, Engine
<1>2. Fits(e, r, k, t, n) /\ e.events = <<>> /\ HeadFits(r, k, t, n)
  BY DEF Sound, Fits, Reading, InFlight
<1>3. HeadTells(r, k, m) /\ m \in Seq(Byte)
  BY DEF Tells
<1>4. Step(e) = IF Oversize(s) THEN Fail(e) ELSE IF p = 0 THEN e
                ELSE IF NonUtf8(line) THEN Fail(rest) ELSE OnHead(rest, line)
  BY DEF Step, WithLine
<1>5. \A u : Tells(Fail(e), u, k, m)
  BY <1>1, <1>2, <1>3, FailTells
<1>6. ASSUME p # 0
      PROVE  /\ \A u : Tells(Fail(rest), u, k, m)
             /\ Tells(OnHead(rest, line), OnHead(rest, line).inbox \o w, k, m)
  <2>1. (1 <= Len(r) => r[1].sym \notin {"LF", "CR"}) /\ (2 <= Len(r) => r[2].sym = "LF")
    BY <1>2 DEF HeadFits, Code, LineCode
  <2>2. /\ 2 <= Len(r) /\ line \in Seq(Byte) /\ Len(line) = 1 /\ line[1] = r[1]
        /\ rest \in Engine /\ rest.inbox \o w = Rest(r)
        /\ rest.mode = e.mode /\ rest.events = e.events
        /\ rest.expect = e.expect /\ rest.remaining = e.remaining
    BY <1>1, <1>6, <2>1, TakesLine
  <2> HIDE DEF rest, line
  <2>3. \A u : Tells(Fail(rest), u, k, m)
    BY <1>2, <1>3, <2>2, FailTells
  <2>4. Fits(rest, r, k, t, n)
    BY <1>2, <2>2 DEF Fits, Reading, InFlight, Dead
  <2> HIDE DEF r
  <2>5. Tells(OnHead(rest, line), OnHead(rest, line).inbox \o w, k, m)
    BY <1>1, <1>3, <2>2, <2>4, HeadTold
  <2> QED
    BY <2>3, <2>5
<1>7. Step(e) = e => Tells(Step(e), Step(e).inbox \o w, k, m)
  OBVIOUS
<1> HIDE DEF rest, line, p
<1> QED
  BY <1>4, <1>5, <1>6, <1>7

\* A line more.
LEMMA OneMore ==
  ASSUME NEW g, NEW m, IsCut(g, m), NEW line \in Seq(Byte), NEW one, one = 1, Len(line) = one,
         Len(g) + 1 <= Len(m), line[1] = m[Len(g) + 1]
  PROVE  IsCut(g \o line, m) /\ Len(g \o line) = Len(g) + 1
<1> DEFINE d == g \o line
<1>1. /\ g \in Seq(Byte) /\ m \in Seq(Byte) /\ Len(g) \in Nat /\ Len(m) \in Nat
      /\ \A i \in 1 .. Len(g) : g[i] = m[i]
  BY LenProperties DEF IsCut
<1>2. /\ d \in Seq(Byte) /\ Len(d) = Len(g) + Len(line)
      /\ \A i \in 1 .. Len(g) + Len(line) :
           d[i] = IF i <= Len(g) THEN g[i] ELSE line[i - Len(g)]
  <2> HIDE DEF d
  <2>1. \A x \in Seq(Byte) : LET y == g \o x IN
           /\ y \in Seq(Byte) /\ Len(y) = Len(g) + Len(x)
           /\ \A i \in 1 .. Len(g) + Len(x) :
                y[i] = IF i <= Len(g) THEN g[i] ELSE x[i - Len(g)]
    BY <1>1, ConcatProperties
  <2> QED
    BY <2>1 DEF d
<1> HIDE DEF d
<1>3. Len(d) = Len(g) + 1
  BY <1>1, <1>2
<1>4. ASSUME NEW i \in 1 .. Len(d) PROVE d[i] = m[i]
  <2>1. i \in 1 .. Len(g) + Len(line)
    BY <1>2
  <2>2. CASE i <= Len(g)
    <3>1. i \in 1 .. Len(g)
      BY <1>1, <2>2
    <3> QED
      BY <1>1, <1>2, <2>1, <2>2, <3>1
  <2>3. CASE ~ (i <= Len(g))
    <3>1. i = Len(g) + 1 /\ i - Len(g) = 1
      BY <1>1, <1>3, <2>3
    <3>2. d[i] = line[i - Len(g)]
      BY <1>2, <2>1, <2>3
    <3> QED
      BY <3>1, <3>2
  <2> QED
    BY <2>2, <2>3
<1>5. IsCut(d, m)
  BY <1>1, <1>2, <1>3, <1>4 DEF IsCut
<1> QED
  BY <1>3, <1>5 DEF d

\* A line of a listing, or its last.
LEMMA BodyLineTold ==
  ASSUME NEW e \in Engine, NEW line \in Seq(Byte), NEW r \in Seq(Byte), NEW w \in Seq(Byte),
         NEW k, NEW m \in Seq(Byte),
         2 <= Len(r), Len(line) = 1, line[1] = r[1], e.inbox \o w = Rest(r),
         e.mode = "ReadingMultiline", e.events = <<>>, Len(r) <= 4,
         IsCut(e.data, m), ListTells(r, Len(e.data), m)
  PROVE  Tells(OnBodyLine(e, line), OnBodyLine(e, line).inbox \o w, k, m)
<1> DEFINE g == e.data
           d == g \o line
           n == Len(g)
<1>1. /\ n \in Nat /\ n \in {1, 2} /\ Len(r) \in Nat
      /\ Len(m) = 3 /\ m[2].sym # "dot" /\ m[3].sym = "dot"
      /\ r[1] = m[n + 1]
      /\ 3 <= Len(r) => n = 1 /\ r[3] = m[3]
  <2>1. Len(r) \in Nat
    BY LenProperties
  <2>2. 1 <= Len(r)
    BY <2>1
  <2>3. n \in Nat
    BY LenProperties DEF IsCut
  <2> QED
    BY <2>1, <2>2, <2>3 DEF ListTells
<1> HIDE DEF n
<1>2. IsCut(d, m) /\ Len(d) = n + 1
  <2>1. n + 1 <= Len(m) /\ line[1] = m[n + 1]
    BY <1>1
  <2>2. Len(g) + 1 <= Len(m) /\ line[1] = m[Len(g) + 1] /\ IsCut(g, m)
    BY <2>1 DEF n
  <2> HIDE DEF g
  <2>3. IsCut(g \o line, m) /\ Len(g \o line) = Len(g) + 1
    BY <2>2, OneMore
  <2> QED
    BY <2>3 DEF n
<1> HIDE DEF d, g
<1>3. (n = 1 => line[1] = m[2]) /\ (n = 2 => line[1] = m[3])
  <2>1. ASSUME n = 1 PROVE line[1] = m[2]
    <3>1. n + 1 = 2 /\ r[1] = m[n + 1]
      BY <1>1, <2>1
    <3> QED
      BY <3>1
  <2>2. ASSUME n = 2 PROVE line[1] = m[3]
    <3>1. n + 1 = 3 /\ r[1] = m[n + 1]
      BY <1>1, <2>2
    <3> QED
      BY <3>1
  <2> QED
    BY <2>1, <2>2
<1>4. CASE IsDot(line)
  <2>1. n = 2
    BY <1>1, <1>3, <1>4 DEF IsDot
  <2>2. d = m
    BY <1>1, <1>2, <2>1, WholeCut
  <2>3. OnBodyLine(e, line) = Answer(e, "Multiline", m, "Idle")
    BY <1>4, <2>2 DEF OnBodyLine, d, g
  <2>4. "Multiline" \in AnswerKind \ {"SendBinary"}
    BY DEF AnswerKind
  <2> QED
    BY <2>3, <2>4, AnswerTells
<1>5. CASE ~ IsDot(line)
  <2>1. n = 1
    BY <1>1, <1>3, <1>5 DEF IsDot
  <2> DEFINE x == [e EXCEPT !.data = d]
             z == Rest(r)
  <2>2. x.mode = "ReadingMultiline" /\ x.data = d /\ x.inbox = e.inbox
    BY DEF Engine
  <2>3. OnBodyLine(e, line) = x
    BY <1>5 DEF OnBodyLine, d, g
  <2>4. z \in Seq(Byte) /\ Len(z) = Len(r) - 2 /\ \A i \in 1 .. Len(z) : z[i] = r[i + 2]
    BY <1>1, RestFields
  <2>5. Len(r) <= 4
    OBVIOUS
  <2> HIDE DEF x, z
  <2>6. ListTells(z, 2, m)
    <3>1. 1 <= Len(z) => z[1] = r[3] /\ 3 <= Len(r)
      <4>1. 1 <= Len(z) => 1 \in 1 .. Len(z) /\ 1 + 2 = 3 /\ 3 <= Len(r)
        BY <1>1, <2>4
      <4> QED
        BY <2>4, <4>1
    <3>2. ~ (3 <= Len(z))
      BY <1>1, <2>4, <2>5
    <3> QED
      BY <1>1, <3>1, <3>2 DEF ListTells
  <2>7. Len(d) = 2
    BY <1>2, <2>1
  <2>8. Tells(x, x.inbox \o w, k, m)
    BY <1>2, <2>2, <2>6, <2>7 DEF Tells, z
  <2> QED
    BY <2>3, <2>8
<1> QED
  BY <1>4, <1>5

LEMMA ListStepTells ==
  ASSUME NEW e, NEW w \in Seq(Byte), NEW k, NEW t, NEW n, NEW q, NEW c, NEW l, NEW m,
         Sound(e, w, k, t, n, q, c, l), e.mode = "ReadingMultiline",
         Tells(e, e.inbox \o w, k, m)
  PROVE  Tells(Step(e), Step(e).inbox \o w, k, m)
<1> DEFINE s    == e.inbox
           r    == s \o w
           p    == LfAt(s)
           line == SubSeq(s, 1, LineLen(s, p))
           rest == [e EXCEPT !.inbox = SubSeq(@, p + 1, Len(@))]
<1>1. e \in Engine /\ s \in Seq(Byte) /\ r \in Seq(Byte) /\ Len(r) \in Nat
  BY ConcatProperties, LenProperties DEF Sound, Engine
<1>2. e.events = <<>> /\ ListFits(r)
  BY DEF Sound, Fits, Reading, InFlight
<1>3. IsCut(e.data, m) /\ ListTells(r, Len(e.data), m) /\ m \in Seq(Byte)
  BY DEF Tells
<1>4. Step(e) = IF Oversize(s) THEN Fail(e) ELSE IF p = 0 THEN e
                ELSE IF NonUtf8(line) THEN Fail(rest) ELSE OnBodyLine(rest, line)
  BY DEF Step, WithLine
<1>5. \A u : Tells(Fail(e), u, k, m)
  BY <1>1, <1>2, <1>3, FailTells
<1>6. ASSUME p # 0
      PROVE  /\ \A u : Tells(Fail(rest), u, k, m)
             /\ Tells(OnBodyLine(rest, line), OnBodyLine(rest, line).inbox \o w, k, m)
  <2>1. /\ 1 <= Len(r) => r[1].sym \notin {"LF", "CR"}
        /\ 2 <= Len(r) => r[2].sym = "LF"
        /\ Len(r) <= 4
    BY <1>2 DEF ListFits
  <2>2. /\ 2 <= Len(r) /\ line \in Seq(Byte) /\ Len(line) = 1 /\ line[1] = r[1]
        /\ rest \in Engine /\ rest.inbox \o w = Rest(r)
        /\ rest.mode = e.mode /\ rest.events = e.events /\ rest.data = e.data
    BY <1>1, <1>6, <2>1, TakesLine
  <2> HIDE DEF rest, line
  <2>3. \A u : Tells(Fail(rest), u, k, m)
    BY <1>2, <1>3, <2>2, FailTells
  <2> HIDE DEF r
  <2>4. Tells(OnBodyLine(rest, line), OnBodyLine(rest, line).inbox \o w, k, m)
    BY <1>1, <1>2, <1>3, <2>1, <2>2, BodyLineTold
  <2> QED
    BY <2>3, <2>4
<1>7. Step(e) = e => Tells(Step(e), Step(e).inbox \o w, k, m)
  OBVIOUS
<1> HIDE DEF rest, line, p
<1> QED
  BY <1>4, <1>5, <1>6, <1>7

LEMMA BinaryStepTells ==
  ASSUME NEW e, NEW w \in Seq(Byte), NEW k, NEW t, NEW n, NEW q, NEW c, NEW l, NEW m,
         Sound(e, w, k, t, n, q, c, l), e.mode = "ReadingBinary",
         Tells(e, e.inbox \o w, k, m)
  PROVE  Tells(Step(e), Step(e).inbox \o w, k, m)
<1> DEFINE s    == e.inbox
           left == e.remaining
           take == IF left <= Len(s) THEN left ELSE Len(s)
           g    == e.data
           d    == g \o SubSeq(s, 1, take)
           i    == SubSeq(s, take + 1, Len(s))
           x    == [e EXCEPT !.data = d, !.inbox = i, !.remaining = left - take]
<1>1. /\ e \in Engine /\ s \in Seq(Byte) /\ Len(s) \in Nat /\ left \in Nat
      /\ g \in Seq(Byte) /\ Len(g) \in Nat
  BY LenProperties DEF Sound, Engine
<1>2. e.events = <<>>
  BY DEF Sound, Fits, Reading, InFlight
<1>3. /\ IsCut(g, m) /\ Continues(s \o w, Len(g), m) /\ Len(g) + left = Len(m)
      /\ m \in Seq(Byte)
  BY DEF Tells
<1>4. Step(e) = IF left = 0 THEN Answer(e, "Binary", g, "Idle") ELSE x
  BY DEF Step, StepBinary
<1>5. CASE left = 0
  <2>1. g = m
    <3>1. Len(m) <= Len(g)
      BY <1>1, <1>3, <1>5
    <3> QED
      BY <1>3, <3>1, WholeCut
  <2>2. Step(e) = Answer(e, "Binary", m, "Idle") /\ "Binary" \in AnswerKind \ {"SendBinary"}
    BY <1>4, <1>5, <2>1 DEF AnswerKind
  <2> QED
    BY <1>1, <1>2, <1>3, <2>2, AnswerTells
<1>6. CASE left # 0
  <2>1. take \in 0 .. Len(s) /\ take \in Nat /\ left - take \in Nat
    BY <1>1
  <2> HIDE DEF take
  <2>2. IsCut(d, m) /\ Len(d) = Len(g) + take /\ Continues(i \o w, Len(d), m)
    <3> HIDE DEF g, s
    <3> QED
      BY <1>1, <1>3, <2>1, Collects
  <2>3. x.mode = "ReadingBinary" /\ x.data = d /\ x.inbox = i /\ x.remaining = left - take
    BY <1>1 DEF Engine
  <2> HIDE DEF x, d, i, g, left
  <2>4. Len(d) + x.remaining = Len(m)
    <3>1. \A u, v, z \in Nat : z <= v => (u + z) + (v - z) = u + v
      OBVIOUS
    <3>2. Len(g) \in Nat /\ left \in Nat /\ take \in Nat /\ take <= left
      BY <1>1, <2>1
    <3>3. (Len(g) + take) + (left - take) = Len(g) + left
      BY <3>1, <3>2
    <3>4. Len(d) + x.remaining = (Len(g) + take) + (left - take)
      BY <2>2, <2>3
    <3> QED
      BY <1>3, <3>3, <3>4
  <2>5. Tells(x, x.inbox \o w, k, m)
    BY <1>3, <2>2, <2>3, <2>4 DEF Tells
  <2> QED
    BY <1>4, <1>6, <2>5
<1> QED
  BY <1>5, <1>6

LEMMA StepTells ==
  ASSUME NEW e, NEW w \in Seq(Byte), NEW k, NEW t, NEW n, NEW q, NEW c, NEW l, NEW m,
         Sound(e, w, k, t, n, q, c, l), Tells(e, e.inbox \o w, k, m)
  PROVE  Tells(Step(e), Step(e).inbox \o w, k, m)
<1>1. CASE e.mode \in Reading
  BY <1>1, BannerStepTells, HeadStepTells, ListStepTells, BinaryStepTells
  DEF Reading, InFlight
<1>2. CASE e.mode \notin Reading
  BY <1>2 DEF Step, Reading, InFlight
<1> QED
  BY <1>1, <1>2

LEMMA AdvanceTells ==
  ASSUME NEW e, NEW w \in Seq(Byte), NEW k, NEW t, NEW n, NEW q, NEW c \in Console, NEW l,
         NEW m, Sound(e, w, k, t, n, q, c, l), Tells(e, e.inbox \o w, k, m)
  PROVE  Tells(Advance(e), Advance(e).inbox \o w, k, m)
<1> DEFINE S == {x \in Engine : Sound(x, w, k, t, n, q, c, l) /\ Tells(x, x.inbox \o w, k, m)}
<1>1. e \in S /\ e \in Engine /\ Len(e.inbox) \in Nat
  BY LenProperties DEF Sound, Engine
<1>2. ASSUME NEW x \in S PROVE Step(x) \in S
  <2>1. Sound(Step(x), w, k, t, n, q, c, l)
    BY StepIsSound
  <2>2. Tells(Step(x), Step(x).inbox \o w, k, m)
    BY StepTells
  <2> QED
    BY <2>1, <2>2 DEF Sound
<1>3. Advance(e) \in S
  <2> HIDE DEF S
  <2> QED
    BY <1>1, <1>2, AdvanceStays
<1> QED
  BY <1>3

\* The network may cut what is still to come.
LEMMA CutOfTells ==
  ASSUME NEW e, NEW x, NEW r, IsCut(x, r), NEW k, NEW m, Tells(e, r, k, m)
  PROVE  Tells(e, x, k, m)
<1>1. /\ Len(x) \in Nat /\ Len(r) \in Nat /\ Len(x) <= Len(r)
      /\ 1 <= Len(x) => 1 <= Len(r) /\ x[1] = r[1]
      /\ 3 <= Len(x) => 3 <= Len(r) /\ x[3] = r[3]
  BY CutFields DEF IsCut
<1>2. \A d : Continues(r, d, m) => Continues(x, d, m)
  BY ContinuesCut
<1>3. /\ Len(Rest(x)) \in Nat /\ Len(Rest(r)) \in Nat
      /\ 1 <= Len(Rest(x)) => 1 <= Len(Rest(r)) /\ Rest(x)[1] = Rest(r)[1]
      /\ 3 <= Len(Rest(x)) => 3 <= Len(Rest(r)) /\ Rest(x)[3] = Rest(r)[3]
      /\ \A d : Continues(Rest(r), d, m) => Continues(Rest(x), d, m)
  <2>1. IsCut(Rest(x), Rest(r))
    BY CutOfRest
  <2> QED
    BY <2>1, CutFields, ContinuesCut
<1>4. StatusTells(r, m) => StatusTells(x, m)
  BY <1>1 DEF StatusTells
<1>5. \A n : ListTells(r, n, m) => ListTells(x, n, m)
  BY <1>1 DEF ListTells
<1>6. StreamTells(r, k, m) => StreamTells(x, k, m)
  BY <1>2 DEF StreamTells
<1>7. HeadTells(r, k, m) => HeadTells(x, k, m)
  <2>1. StatusTells(Rest(r), m) => StatusTells(Rest(x), m)
    BY <1>3 DEF StatusTells
  <2>2. ListTells(Rest(r), 1, m) => ListTells(Rest(x), 1, m)
    BY <1>3 DEF ListTells
  <2>3. StreamTells(Rest(r), k, m) => StreamTells(Rest(x), k, m)
    BY <1>3 DEF StreamTells
  <2>4. Continues(Rest(r), 1, m) => Continues(Rest(x), 1, m)
    BY <1>3
  <2> QED
    BY <1>1, <1>4, <2>1, <2>2, <2>3, <2>4 DEF HeadTells
<1> QED
  BY <1>2, <1>4, <1>5, <1>6, <1>7 DEF Tells

\* No step leads an engine into waiting for a head, and one that waits has
\* no line to read.
LEMMA StepLeavesWaiting ==
  ASSUME NEW x \in Engine, Step(x).mode = "AwaitingHead"
  PROVE  Step(x) = x /\ LfAt(x.inbox) = 0
<1> DEFINE p    == LfAt(x.inbox)
           line == SubSeq(x.inbox, 1, LineLen(x.inbox, p))
           rest == [x EXCEPT !.inbox = SubSeq(@, p + 1, Len(@))]
<1>1. Fail(x).mode = "Failed" /\ Fail(rest).mode = "Failed"
  BY DEF Fail, Enter, Push, Engine
<1>2. OnBanner(rest, line).mode # "AwaitingHead"
  BY DEF OnBanner, Fail, Enter, Push, Engine
<1>3. \A kind, data, mode : Answer(x, kind, data, mode).mode = mode
  BY DEF Answer, Enter, Push, Engine
<1>4. \A kind, data, mode : Answer(rest, kind, data, mode).mode = mode
  BY DEF Answer, Enter, Push, Engine
<1>5. p # 0 => line \in Seq(Byte) /\ rest \in Engine /\ rest.mode = x.mode
  BY TakeLineFields
<1>6. Step(x) = CASE x.mode = "NeedBanner"       -> WithLine(x, OnBanner)
                  [] x.mode = "AwaitingHead"     -> WithLine(x, OnHead)
                  [] x.mode = "ReadingMultiline" -> WithLine(x, OnBodyLine)
                  [] x.mode = "ReadingBinary"    -> StepBinary(x)
                  [] OTHER                       -> x
  BY DEF Step
<1>7. CASE x.mode = "NeedBanner"
  <2>1. Step(x) = WithLine(x, OnBanner)
    BY <1>6, <1>7
  <2> QED
    BY <1>1, <1>2, <1>7, <2>1 DEF WithLine
<1>8. CASE x.mode = "AwaitingHead"
  <2>1. Step(x) = WithLine(x, OnHead)
    BY <1>6, <1>8
  <2>2. ASSUME p # 0 PROVE OnHead(rest, line).mode # "AwaitingHead"
    <3>1. rest \in Engine /\ rest.expect \in Expect
      BY <1>5, <2>2 DEF Engine
    <3>2. \/ OnHead(rest, line) = Fail(rest)
          \/ \E kind, data : \E mode \in {"Idle", "StreamingBody"} :
               OnHead(rest, line) = Answer(rest, kind, data, mode)
          \/ OnHead(rest, line) = [rest EXCEPT !.mode = "ReadingMultiline", !.data = line]
          \/ OnHead(rest, line) = [rest EXCEPT !.mode = "ReadingBinary", !.data = line]
      <4>1. HeadCode(line) \in Code \cup {"malformed"}
        BY DEF HeadCode
      <4> HIDE DEF rest, line, p
      <4> QED
        BY <3>1, <4>1 DEF OnHead, OnBinaryHead, Code, LineCode, Expect
    <3>3. /\ [rest EXCEPT !.mode = "ReadingMultiline", !.data = line].mode = "ReadingMultiline"
          /\ [rest EXCEPT !.mode = "ReadingBinary", !.data = line].mode = "ReadingBinary"
      <4> HIDE DEF rest, line, p
      <4> QED
        BY <3>1 DEF Engine
    <3> HIDE DEF rest, line, p
    <3>4. OnHead(rest, line).mode \in {"Failed", "Idle", "StreamingBody", "ReadingMultiline", "ReadingBinary"}
      <4>1. CASE \E kind, data : \E mode \in {"Idle", "StreamingBody"} :
                   OnHead(rest, line) = Answer(rest, kind, data, mode)
        <5>1. PICK kind, data, mode : /\ mode \in {"Idle", "StreamingBody"}
                                      /\ OnHead(rest, line) = Answer(rest, kind, data, mode)
          BY <4>1
        <5>2. Answer(rest, kind, data, mode).mode = mode
          BY <1>4
        <5> QED
          BY <5>1, <5>2
      <4> QED
        BY <1>1, <3>2, <3>3, <4>1
    <3> QED
      BY <3>4
  <2> HIDE DEF rest, line
  <2>3. \/ Step(x) = Fail(x) \/ (p = 0 /\ Step(x) = x)
        \/ (p # 0 /\ (Step(x) = Fail(rest) \/ Step(x) = OnHead(rest, line)))
    BY <2>1 DEF WithLine, rest, line
  <2> QED
    BY <1>1, <2>2, <2>3
<1>9. CASE x.mode = "ReadingMultiline"
  <2>1. Step(x) = WithLine(x, OnBodyLine)
    BY <1>6, <1>9
  <2>2. p # 0 => OnBodyLine(rest, line).mode # "AwaitingHead"
    <3> HIDE DEF rest, line, p
    <3> QED
      BY <1>4, <1>5, <1>9 DEF OnBodyLine, Engine
  <2> QED
    BY <1>1, <1>9, <2>1, <2>2 DEF WithLine
<1>10. CASE x.mode = "ReadingBinary"
  <2>1. Step(x) = StepBinary(x)
    BY <1>6, <1>10
  <2> QED
    BY <1>3, <1>10, <2>1 DEF StepBinary, Engine
<1>11. CASE x.mode \notin Reading
  BY <1>6, <1>11 DEF Reading, InFlight
<1> QED
  BY <1>7, <1>8, <1>9, <1>10, <1>11 DEF Reading, InFlight

LEMMA WaitingSettles ==
  ASSUME NEW e \in Engine, Advance(e).mode = "AwaitingHead"
  PROVE  Advance(e) = e /\ LfAt(e.inbox) = 0
<1> DEFINE S == {x \in Engine : x.mode # "AwaitingHead"}
<1>1. Len(e.inbox) \in Nat
  BY LenProperties DEF Engine
<1>2. ASSUME NEW x \in S PROVE Step(x) \in S
  <2>1. Step(x) \in Engine
    BY StepProgress
  <2>2. Step(x).mode # "AwaitingHead"
    BY StepLeavesWaiting
  <2> QED
    BY <2>1, <2>2
<1>3. Step(e).mode = "AwaitingHead"
  <2> SUFFICES ASSUME Step(e).mode # "AwaitingHead" PROVE FALSE
    OBVIOUS
  <2>1. Step(e) \in S
    BY StepProgress
  <2> HIDE DEF S
  <2>2. Advance(e) \in S
    BY <1>1, <1>2, <2>1, AdvanceMoves
  <2> QED
    BY <2>2 DEF S
<1>4. Step(e) = e /\ LfAt(e.inbox) = 0
  BY <1>3, StepLeavesWaiting
<1>5. Advance(e) \in {e}
  <2>1. \A x \in {e} : Step(x) \in {e}
    BY <1>4
  <2> QED
    BY <1>1, <2>1, AdvanceStays
<1> QED
  BY <1>4, <1>5

-----------------------------------------------------------------------------
(* The second layer of the invariant. *)

\* The answer to the operation under way; "m" in the operators above.
Answered == Untagged(answer[op.id], op.id)

\* pump_until.
Pumped ==
  op.at \in {"write", "flush", "read"} => Tells(engine, Incoming, op.kind, Answered)

\* get_file, FileDownload and screenshot.
Transferred ==
  /\ op.at \in {"prefix", "meta"} => StreamTells(op.buf \o toClient, op.kind, Answered)
  /\ op.at \in {"body", "frame"} =>
       /\ IsCut(op.got, Answered)
       /\ Continues(op.buf \o toClient, Len(op.got), Answered)
       /\ Len(op.got) + op.left = Len(Answered)
  /\ op.at \notin {"body", "frame"} => op.got = <<>>

\* FileUpload.
Uploaded == op.at = "upload" => StatusTells(Incoming, Answered)

\* A bye ends with the whole answer to it, or with none.
Parting ==
  /\ engine.mode = "Closed" => link # "up"
  /\ (op.at \in {"write", "flush", "read"} /\ op.kind = "bye" /\ engine.mode = "AwaitingHead"
      /\ link # "reset") => \/ Incoming = <<>> /\ answer[op.id] = <<>>
                            \/ link = "fin" /\ Len(Incoming) = 2

Settled == op.at = "read" /\ engine.mode = "AwaitingHead" => LfAt(engine.inbox) = 0

\* Operations are numbered as they start.
Numbered ==
  /\ \A i \in 1 .. Len(toConsole) : toConsole[i].tag <= op.id
  /\ console.id <= op.id
  /\ \A t \in Tag : t > op.id => answer[t] = <<>>

\* What was reported stays true: the console has no more to say about it.
Reported ==
  result.outcome # "err" =>
    /\ result.data = Untagged(answer[result.id], result.id)
    /\ result.id \in Tag /\ result.id <= op.id
    /\ op.at \notin {"idle", "gone"} => result.id # op.id
    /\ link = "up" =>
         /\ \A i \in 1 .. Len(toConsole) : toConsole[i].tag # result.id
         /\ console.mode = "upload" => console.id # result.id

Told ==
  /\ Pumped /\ Transferred /\ Uploaded /\ Parting /\ Settled /\ Numbered /\ Reported

ToldInv == op.careless = {} => Told

Numbers ==
  op.id \in Tag /\ op.id \in Nat /\ console.id \in Nat /\ \A t \in Tag : t \in Nat

LEMMA CarefulNumbers ==
  ASSUME Careful
  PROVE  Numbers /\ Answered \in Seq(Byte) /\ Len(Answered) = Meant
<1>1. op.id \in Tag /\ console.id \in Tag /\ answer[op.id] \in Seq(InSym)
  BY DEF Careful, Typed, Op, Console
<1>2. \A t \in Tag : t \in Nat
  BY SessionAssumption
<1> QED
  BY <1>1, <1>2, UntaggedFields DEF Numbers, Answered, Meant

\* What is added to the wire belongs to the operation under way.
Adds ==
  \A i \in 1 .. Len(toConsole') :
    \/ toConsole'[i].tag = op.id
    \/ \E j \in 1 .. Len(toConsole) : toConsole'[i].tag = toConsole[j].tag

LEMMA HistoryKept ==
  ASSUME Careful, Told, op.at \notin {"idle", "gone"}, op'.id = op.id, Adds,
         UNCHANGED <<link, console, answer, result>>
  PROVE  Numbered' /\ Reported'
<1>1. Numbers /\ Numbered /\ Reported
  BY CarefulNumbers DEF Told
<1>2. \A i \in 1 .. Len(toConsole') : toConsole'[i].tag <= op.id
  BY <1>1 DEF Adds, Numbered, Numbers
<1>3. Numbered'
  BY <1>1, <1>2 DEF Numbered
<1>4. ASSUME result.outcome # "err", link = "up", NEW i \in 1 .. Len(toConsole')
      PROVE  toConsole'[i].tag # result.id
  BY <1>1, <1>4 DEF Adds, Reported
<1>5. Reported'
  BY <1>1, <1>4 DEF Reported
<1> QED
  BY <1>3, <1>5

\* The operation is over, with the whole answer or with an error.
LEMMA OverIsTold ==
  ASSUME Careful, Told, op.at \notin {"idle", "gone"}, Adds,
         UNCHANGED <<link, console, answer>>,
         NEW e, NEW outcome, NEW data, NEW careless, Over(e, outcome, data, careless),
         e.mode = "Closed" => link # "up",
         outcome # "err" => /\ data = Answered
                            /\ link = "up" => Quiet(toConsole', console)
  PROVE  Told'
<1> DEFINE at == IF op.kind = "bye" \/ (op.kind = "banner" /\ outcome # "ok")
                 THEN "gone" ELSE "idle"
<1>1. /\ engine' = e
      /\ op' = [op EXCEPT !.at = at, !.left = 0, !.buf = <<>>, !.got = <<>>,
                          !.careless = @ \cup careless]
      /\ result' = [kind |-> op.kind, id |-> op.id, outcome |-> outcome, data |-> data]
  BY DEF Over
<1>2. at \in {"gone", "idle"} /\ op \in Op
  BY DEF Careful, Typed
<1> HIDE DEF at
<1>3. op'.at = at /\ op'.id = op.id /\ op'.got = <<>>
  BY <1>1, <1>2 DEF Op
<1>4. /\ result'.id = op.id /\ result'.outcome = outcome /\ result'.data = data
  BY <1>1
<1>5. Numbers /\ Numbered
  BY CarefulNumbers DEF Told
<1>6. Numbered'
  <2>1. \A i \in 1 .. Len(toConsole') : toConsole'[i].tag <= op.id
    BY <1>5 DEF Adds, Numbered, Numbers
  <2> QED
    BY <1>3, <1>5, <2>1 DEF Numbered
<1>7. Reported'
  <2> SUFFICES ASSUME outcome # "err" PROVE Reported'
    BY <1>4 DEF Reported
  <2>1. data = Untagged(answer'[op.id], op.id)
    BY DEF Answered
  <2>2. ASSUME link = "up"
        PROVE  /\ \A i \in 1 .. Len(toConsole') : FALSE
               /\ console.mode # "upload"
    <3>1. Len(toConsole') = 0
      BY <2>2, EmptySeq DEF Quiet
    <3> QED
      BY <2>2, <3>1 DEF Quiet
  <2> QED
    BY <1>2, <1>3, <1>4, <1>5, <2>1, <2>2 DEF Reported, Numbers
<1>8. Pumped' /\ Transferred' /\ Uploaded' /\ Settled'
  BY <1>2, <1>3 DEF Pumped, Transferred, Uploaded, Settled
<1>9. Parting'
  BY <1>1, <1>2, <1>3 DEF Parting
<1> QED
  BY <1>6, <1>7, <1>8, <1>9 DEF Told

\* It goes on pumping.
LEMMA PumpingIsTold ==
  ASSUME Careful, Told, op.at \notin {"idle", "gone"}, Adds,
         UNCHANGED <<link, console, answer, result>>,
         NEW e, engine' = e, op'.at \in {"flush", "read"}, op'.id = op.id, op'.got = <<>>,
         Tells(e, e.inbox \o toClient', op'.kind, Answered),
         e.mode = "Closed" => link # "up",
         op'.kind = "bye" /\ e.mode = "AwaitingHead" =>
           /\ op.at \in {"write", "flush", "read"} /\ op.kind = "bye"
           /\ engine.mode = "AwaitingHead" /\ e.inbox \o toClient' = Incoming,
         op'.at = "read" /\ e.mode = "AwaitingHead" => LfAt(e.inbox) = 0
  PROVE  Told'
<1>1. Numbered' /\ Reported'
  BY HistoryKept
<1>2. Incoming' = e.inbox \o toClient' /\ Answered' = Answered
  BY DEF Incoming, Answered
<1>3. Pumped' /\ Transferred' /\ Uploaded' /\ Settled'
  BY <1>2 DEF Pumped, Transferred, Uploaded, Settled
<1>4. Parting'
  BY <1>2 DEF Parting, Told
<1> QED
  BY <1>1, <1>3, <1>4 DEF Told

\* It goes on with a transfer.
LEMMA TransferIsTold ==
  ASSUME Careful, Told, op.at \notin {"idle", "gone"}, Adds,
         UNCHANGED <<link, console, answer, result>>,
         engine'.mode # "Closed",
         op'.at \in {"prefix", "body", "meta", "frame", "upload"}, op'.id = op.id,
         Transferred', Uploaded'
  PROVE  Told'
<1>1. Numbered' /\ Reported'
  BY HistoryKept
<1>2. Pumped' /\ Settled' /\ Parting'
  BY DEF Pumped, Settled, Parting
<1> QED
  BY <1>1, <1>2 DEF Told

LEMMA StepCloses ==
  ASSUME NEW x \in Engine, x.mode # "Closed"
  PROVE  Step(x).mode # "Closed"
<1> DEFINE p    == LfAt(x.inbox)
           line == SubSeq(x.inbox, 1, LineLen(x.inbox, p))
           rest == [x EXCEPT !.inbox = SubSeq(@, p + 1, Len(@))]
<1>1. Fail(x).mode = "Failed" /\ Fail(rest).mode = "Failed"
  BY DEF Fail, Enter, Push, Engine
<1>2. OnBanner(rest, line).mode # "Closed"
  BY DEF OnBanner, Fail, Enter, Push, Engine
<1>3. \A kind, data, mode : Answer(x, kind, data, mode).mode = mode
  BY DEF Answer, Enter, Push, Engine
<1>4. \A kind, data, mode : Answer(rest, kind, data, mode).mode = mode
  BY DEF Answer, Enter, Push, Engine
<1>5. p # 0 => line \in Seq(Byte) /\ rest \in Engine /\ rest.mode = x.mode
  BY TakeLineFields
<1>6. Step(x) = CASE x.mode = "NeedBanner"       -> WithLine(x, OnBanner)
                  [] x.mode = "AwaitingHead"     -> WithLine(x, OnHead)
                  [] x.mode = "ReadingMultiline" -> WithLine(x, OnBodyLine)
                  [] x.mode = "ReadingBinary"    -> StepBinary(x)
                  [] OTHER                       -> x
  BY DEF Step
<1>7. CASE x.mode = "NeedBanner"
  <2>1. Step(x) = WithLine(x, OnBanner)
    BY <1>6, <1>7
  <2> QED
    BY <1>1, <1>2, <1>7, <2>1 DEF WithLine
<1>8. CASE x.mode = "AwaitingHead"
  <2>1. Step(x) = WithLine(x, OnHead)
    BY <1>6, <1>8
  <2>2. ASSUME p # 0 PROVE OnHead(rest, line).mode # "Closed"
    <3>1. rest \in Engine /\ rest.expect \in Expect
      BY <1>5, <2>2 DEF Engine
    <3>2. \/ OnHead(rest, line) = Fail(rest)
          \/ \E kind, data : \E mode \in {"Idle", "StreamingBody"} :
               OnHead(rest, line) = Answer(rest, kind, data, mode)
          \/ OnHead(rest, line) = [rest EXCEPT !.mode = "ReadingMultiline", !.data = line]
          \/ OnHead(rest, line) = [rest EXCEPT !.mode = "ReadingBinary", !.data = line]
      <4>1. HeadCode(line) \in Code \cup {"malformed"}
        BY DEF HeadCode
      <4> HIDE DEF rest, line, p
      <4> QED
        BY <3>1, <4>1 DEF OnHead, OnBinaryHead, Code, LineCode, Expect
    <3>3. /\ [rest EXCEPT !.mode = "ReadingMultiline", !.data = line].mode = "ReadingMultiline"
          /\ [rest EXCEPT !.mode = "ReadingBinary", !.data = line].mode = "ReadingBinary"
      <4> HIDE DEF rest, line, p
      <4> QED
        BY <3>1 DEF Engine
    <3>4. "Failed" # "Closed" /\ "Closed" \notin {"Idle", "StreamingBody", "ReadingMultiline", "ReadingBinary"}
      OBVIOUS
    <3>5. CASE OnHead(rest, line) = Fail(rest)
      BY <1>1, <3>4, <3>5
    <3>6. CASE \E kind, data : \E mode \in {"Idle", "StreamingBody"} :
                 OnHead(rest, line) = Answer(rest, kind, data, mode)
      <4>1. PICK kind, data : \E mode \in {"Idle", "StreamingBody"} :
                 OnHead(rest, line) = Answer(rest, kind, data, mode)
        BY <3>6
      <4>2. PICK mode \in {"Idle", "StreamingBody"} :
                 OnHead(rest, line) = Answer(rest, kind, data, mode)
        BY <4>1
      <4>3. Answer(rest, kind, data, mode).mode = mode
        BY <1>4
      <4> HIDE DEF rest, line
      <4> QED
        BY <4>2, <4>3
    <3> HIDE DEF rest, line
    <3> QED
      BY <3>2, <3>3, <3>5, <3>6
  <2> HIDE DEF rest, line
  <2>3. \/ Step(x) = Fail(x) \/ (p = 0 /\ Step(x) = x)
        \/ (p # 0 /\ (Step(x) = Fail(rest) \/ Step(x) = OnHead(rest, line)))
    BY <2>1 DEF WithLine, rest, line
  <2> QED
    BY <1>1, <1>8, <2>2, <2>3
<1>9. CASE x.mode = "ReadingMultiline"
  <2>1. Step(x) = WithLine(x, OnBodyLine)
    BY <1>6, <1>9
  <2>2. ASSUME p # 0 PROVE OnBodyLine(rest, line).mode # "Closed"
    <3>1. [rest EXCEPT !.data = rest.data \o line].mode = rest.mode /\ rest.mode # "Closed"
      <4>1. rest \in Engine /\ rest.mode = x.mode
        BY <1>5, <2>2
      <4> HIDE DEF rest, line
      <4> QED
        BY <1>9, <4>1 DEF Engine
    <3>2. Answer(rest, "Multiline", rest.data \o line, "Idle").mode = "Idle"
      BY <1>4
    <3> HIDE DEF rest, line
    <3> QED
      BY <3>1, <3>2 DEF OnBodyLine
  <2> QED
    BY <1>1, <1>9, <2>1, <2>2 DEF WithLine
<1>10. CASE x.mode = "ReadingBinary"
  <2>1. Step(x) = StepBinary(x)
    BY <1>6, <1>10
  <2> QED
    BY <1>3, <1>10, <2>1 DEF StepBinary, Engine
<1>11. CASE x.mode \notin Reading
  BY <1>6, <1>11 DEF Reading, InFlight
<1> QED
  BY <1>7, <1>8, <1>9, <1>10, <1>11 DEF Reading, InFlight

\* Only the end of the stream closes an engine.
LEMMA AdvanceCloses ==
  ASSUME NEW e \in Engine, e.mode # "Closed"
  PROVE  Advance(e).mode # "Closed"
<1> DEFINE S == {z \in Engine : z.mode # "Closed"}
<1>1. e \in S /\ Len(e.inbox) \in Nat
  BY LenProperties DEF Engine
<1>2. ASSUME NEW z \in S PROVE Step(z) \in S
  <2>1. Step(z) \in Engine
    BY StepProgress
  <2> QED
    BY <2>1, StepCloses
<1> HIDE DEF S
<1>3. Advance(e) \in S
  BY <1>1, <1>2, AdvanceStays
<1> QED
  BY <1>3 DEF S

-----------------------------------------------------------------------------
(* pump_until, again. *)

LEMMA NothingAdded ==
  ASSUME UNCHANGED toConsole
  PROVE  Adds
BY DEF Adds

LEMMA NothingTells ==
  ASSUME NEW e, e.mode = "AwaitingHead", NEW r, r = <<>>, NEW k, NEW m \in Seq(Byte)
  PROVE  Tells(e, r, k, m)
<1>1. Len(r) = 0
  BY EmptySeq
<1> QED
  BY <1>1 DEF Tells, HeadTells

LEMMA StartIsTold ==
  ASSUME Careful, Told, NEW kind \in Ops, StartOp(kind)
  PROVE  Told'
<1> DEFINE t == op.id + 1
           x == Submit(engine, kind, t, ExpectOf(kind),
                       IF kind = "eager" THEN AskedLen ELSE 0)
<1>1. /\ op.at = "idle" /\ op.id < MaxOps /\ engine.mode = "Idle" /\ engine' = x
      /\ op' = [op EXCEPT !.kind = kind, !.at = "write", !.id = t]
      /\ UNCHANGED <<toConsole, toClient, link, console, answer, result>>
  BY DEF StartOp, CanSubmit
<1>2. Incoming = <<>> /\ op \in Op /\ engine \in Engine /\ op.got = <<>>
  BY <1>1 DEF Careful, AtRest, Typed, Told, Transferred
<1>3. x.mode = "AwaitingHead" /\ x.inbox = engine.inbox
  BY <1>2 DEF Submit, Engine
<1> HIDE DEF x
<1>4. op'.at = "write" /\ op'.id = t /\ op'.got = <<>> /\ op'.kind = kind
  BY <1>1, <1>2 DEF Op
<1>5. Numbers /\ Numbered /\ Reported /\ answer \in [Tag -> Seq(InSym)]
  BY CarefulNumbers DEF Told, Careful, Typed
<1>6. t \in Tag /\ t > op.id /\ t \in Nat
  BY <1>1, <1>5, SessionAssumption DEF Numbers
<1> HIDE DEF t
<1>7. Incoming' = <<>> /\ answer'[t] = <<>>
  BY <1>1, <1>2, <1>3, <1>5, <1>6 DEF Incoming, Numbered
<1>8. Answered' \in Seq(Byte)
  BY <1>1, <1>4, <1>5, <1>6, UntaggedFields DEF Answered
<1>9. Pumped'
  BY <1>1, <1>3, <1>7, <1>8, NothingTells DEF Pumped
<1>10. Transferred' /\ Uploaded' /\ Settled'
  BY <1>4 DEF Transferred, Uploaded, Settled
<1>11. Parting'
  BY <1>1, <1>3, <1>4, <1>7 DEF Parting
<1>12. Numbered'
  <2>1. \A i \in 1 .. Len(toConsole) : toConsole[i].tag <= op.id
    BY <1>5 DEF Numbered
  <2>2. \A a \in Tag : a > t => a > op.id
    BY <1>5, <1>6 DEF Numbers
  <2>3. \A i \in 1 .. Len(toConsole) : toConsole[i].tag <= t
    <3>1. toConsole \in Seq(OutByte)
      BY DEF Careful, Typed
    <3>2. ASSUME NEW i \in 1 .. Len(toConsole) PROVE toConsole[i].tag <= t
      <4>1. toConsole[i] \in OutByte
        BY <3>1, ElementOfSeq
      <4>2. toConsole[i].tag \in Nat
        BY <1>5, <4>1 DEF Numbers, OutByte
      <4> QED
        BY <1>5, <1>6, <2>1, <4>2 DEF Numbers
    <3> QED
      BY <3>2
  <2>4. console.id <= t
    BY <1>5, <1>6 DEF Numbered, Numbers
  <2> QED
    BY <1>1, <1>4, <1>5, <2>2, <2>3, <2>4 DEF Numbered
<1>13. Reported'
  <2> SUFFICES ASSUME result.outcome # "err" PROVE Reported'
    BY <1>1 DEF Reported
  <2>1. result.id <= op.id /\ result.id \in Nat
    BY <1>5 DEF Reported, Numbers
  <2>2. result.id <= t /\ result.id # t
    BY <1>5, <1>6, <2>1 DEF Numbers
  <2> QED
    BY <1>1, <1>4, <1>5, <2>2 DEF Reported
<1> QED
  BY <1>9, <1>10, <1>11, <1>12, <1>13 DEF Told

LEMMA WriteIsTold ==
  ASSUME Careful, Told, PumpWrite
  PROVE  Told'
<1> DEFINE x == Send(engine, Len(engine.outbox))
           s == CommandLine(op.kind, op.id)
<1>1. /\ engine \in Engine /\ op \in Op /\ op.at = "write" /\ op.kind \in OpKind
      /\ engine.mode = "AwaitingHead" /\ Incoming = <<>>
      /\ engine.outbox = s /\ op.got = <<>>
      /\ UNCHANGED <<toClient, link, console, answer>>
  BY DEF PumpWrite, Careful, Typed, Writing, Line, Told, Transferred
<1>2. x.inbox = engine.inbox /\ x.mode = "AwaitingHead"
  BY <1>1, SendAll DEF Same
<1> HIDE DEF x
<1>3. CASE link = "reset"
  <2>1. Over(x, "err", <<>>, {}) /\ UNCHANGED toConsole
    BY <1>3 DEF PumpWrite, Return, x
  <2> QED
    BY <1>1, <1>2, <2>1, NothingAdded, OverIsTold
<1>4. CASE link # "reset"
  <2>1. /\ toConsole' = toConsole \o s /\ engine' = x
        /\ op' = [op EXCEPT !.at = "flush"] /\ UNCHANGED result
    BY <1>1, <1>4 DEF PumpWrite, Await, x
  <2>2. op.kind \in Word /\ op.id \in Tag
    BY <1>1, SessionAssumption DEF Op
  <2>3. /\ s \in Seq(OutByte) /\ Len(s) = 3
        /\ s[1] = [sym |-> op.kind, tag |-> op.id]
        /\ s[2] = [sym |-> "CR", tag |-> op.id]
        /\ s[3] = [sym |-> "LF", tag |-> op.id]
    BY <2>2, CommandLineFields
  <2> HIDE DEF s
  <2>4. toConsole = <<>>
    BY <1>1, <1>4 DEF Careful, Writing, Quiet
  <2>5. toConsole' = s
    BY <2>1, <2>3, <2>4, ConcatEmptySeq
  <2>6. Adds
    <3>1. \A i \in 1 .. 3 : i \in {1, 2, 3}
      OBVIOUS
    <3>2. s[1].tag = op.id /\ s[2].tag = op.id /\ s[3].tag = op.id
      BY <2>3
    <3>3. \A i \in 1 .. Len(s) : s[i].tag = op.id
      BY <2>3, <3>1, <3>2
    <3> QED
      BY <2>5, <3>3 DEF Adds
  <2>7. op'.at = "flush" /\ op'.id = op.id /\ op'.got = <<>> /\ op'.kind = op.kind
    BY <1>1, <2>1 DEF Op
  <2>8. x.inbox \o toClient' = Incoming
    BY <1>1, <1>2 DEF Incoming
  <2>9. Tells(x, Incoming, op.kind, Answered)
    BY <1>1, <1>2, CarefulNumbers, NothingTells
  <2> QED
    BY <1>1, <1>2, <2>1, <2>6, <2>7, <2>8, <2>9, PumpingIsTold
<1> QED
  BY <1>3, <1>4

LEMMA ReadIsTold ==
  ASSUME Careful, Told, PumpRead
  PROVE  Told'
<1>1. /\ engine \in Engine /\ op \in Op /\ toClient \in Seq(Byte) /\ Len(toClient) \in Nat
      /\ op.at = "read" /\ engine.mode \in Reading /\ link # "reset"
      /\ engine.inbox \in Seq(Byte) /\ console \in Console /\ op.got = <<>>
  BY LenProperties DEF PumpRead, Careful, Typed, Reads, Engine, Told, Transferred
<1>2. PICK i \in 1 .. Len(toClient) :
        /\ engine' = Recv(engine, SubSeq(toClient, 1, i))
        /\ op' = [op EXCEPT !.at = "flush"] /\ UNCHANGED result
        /\ toClient' = SubSeq(toClient, i + 1, Len(toClient))
  BY DEF PumpRead, Await
<1>3. UNCHANGED <<toConsole, link, console, answer>>
  BY DEF PumpRead
<1> DEFINE piece == SubSeq(toClient, 1, i)
           x     == [engine EXCEPT !.inbox = @ \o piece]
           w     == toClient'
           y     == Advance(x)
<1>4. i \in 0 .. Len(toClient) /\ piece \in Seq(Byte) /\ w \in Seq(Byte)
  BY <1>1, <1>2, TakeFields, DropFields
<1>5. engine' = y
  BY <1>1, <1>2 DEF Recv, Reading, InFlight, Dead
<1>6. (engine.inbox \o piece) \o w = Incoming
  BY <1>1, <1>2, Regroup DEF Incoming
<1>7. /\ x \in Engine /\ x.inbox = engine.inbox \o piece /\ x.data = engine.data
      /\ Same(engine, x)
  <2>1. engine.inbox \o piece \in Seq(Byte)
    BY <1>1, <1>4, ConcatProperties
  <2> QED
    BY <1>1, <2>1 DEF Engine, Same
<1> HIDE DEF x, piece
<1>8. x.inbox \o w = Incoming
  BY <1>6, <1>7
<1>9. Sound(x, w, op.kind, op.id, Meant, toConsole, console, link)
  <2>1. /\ Fits(engine, Incoming, op.kind, op.id, Meant)
        /\ Wire(engine, Incoming, op.kind, op.id, toConsole, console, link)
    BY <1>1 DEF Careful, Pumping
  <2> QED
    BY <1>7, <1>8, <2>1, SameFits DEF Sound
<1>10. Tells(x, x.inbox \o w, op.kind, Answered)
  <2>1. Tells(engine, Incoming, op.kind, Answered)
    BY <1>1 DEF Told, Pumped
  <2>2. Tells(x, Incoming, op.kind, Answered)
    BY <1>7, <2>1 DEF Tells, Same
  <2> QED
    BY <1>8, <2>2
<1> HIDE DEF w
<1>11. Tells(y, y.inbox \o w, op.kind, Answered)
  BY <1>1, <1>4, <1>9, <1>10, AdvanceTells
<1>12. y.mode = "AwaitingHead" => y = x /\ engine.mode = "AwaitingHead"
  BY <1>7, WaitingSettles DEF Same
<1>13. y.mode # "Closed"
  <2>1. x.mode # "Closed"
    BY <1>1, <1>7 DEF Same, Reading, InFlight
  <2> QED
    BY <1>7, <2>1, AdvanceCloses
<1> HIDE DEF y
<1>14. op'.at = "flush" /\ op'.id = op.id /\ op'.got = <<>> /\ op'.kind = op.kind
  BY <1>1, <1>2 DEF Op
<1>15. Adds
  BY <1>3, NothingAdded
<1> QED
  BY <1>1, <1>2, <1>3, <1>5, <1>8, <1>11, <1>12, <1>13, <1>14, <1>15, PumpingIsTold DEF w

LEMMA ReadErrorIsTold ==
  ASSUME Careful, Told, PumpReadError
  PROVE  Told'
<1>1. /\ op.at = "read" /\ link = "reset" /\ Over(engine, "err", <<>>, {})
      /\ UNCHANGED <<toConsole, toClient, link, console, answer>>
  BY DEF PumpReadError, Return
<1> QED
  BY <1>1, NothingAdded, OverIsTold

\* A bye whose answer has come is not waiting for the end of the stream.
LEMMA ByeUnanswered ==
  ASSUME Careful, Told, op.at = "read", op.kind = "bye", engine.mode \in Reading, AtEof
  PROVE  Answered = <<>>
<1>1. /\ engine \in Engine /\ engine.inbox \in Seq(Byte) /\ toClient = <<>> /\ link = "fin"
      /\ Len(engine.inbox) \in Nat
  BY LenProperties DEF AtEof, Careful, Typed, Engine
<1>2. Incoming = engine.inbox
  BY <1>1, ConcatEmptySeq DEF Incoming
<1>3. Fits(engine, Incoming, op.kind, op.id, Meant)
  BY DEF Careful, Pumping
<1>4. engine.mode = "AwaitingHead" /\ HeadFits(Incoming, "bye", op.id, Meant)
  BY <1>3 DEF Fits, Reading, InFlight
<1>5. LfAt(engine.inbox) = 0
  BY <1>4 DEF Told, Settled
<1>6. ASSUME Len(Incoming) = 2 PROVE FALSE
  <2> DEFINE s == engine.inbox
             two == 2
  <2>1. s[two].sym = "LF" /\ s[1].sym # "LF" /\ two \in 1 .. Len(s) /\ Len(s) \in Nat
    BY <1>1, <1>2, <1>4, <1>6 DEF HeadFits, Code, LineCode
  <2>2. \A i \in 1 .. two - 1 : i = 1
    OBVIOUS
  <2>3. \A i \in 1 .. two - 1 : s[i].sym # "LF"
    BY <2>1, <2>2
  <2>4. two # 0
    OBVIOUS
  <2> HIDE DEF two, s
  <2>5. LfAt(s) = two
    BY <2>1, <2>3, LfAtFound
  <2> QED
    BY <1>5, <2>4, <2>5 DEF s
<1>7. answer[op.id] = <<>>
  BY <1>1, <1>4, <1>6 DEF Told, Parting
<1>8. op.id \in Tag /\ answer[op.id] \in Seq(InSym)
  BY DEF Careful, Typed, Op
<1>9. Answered \in Seq(Byte) /\ Len(Answered) = 0
  <2>1. Len(answer[op.id]) = 0
    BY <1>7
  <2> QED
    BY <1>8, <2>1, UntaggedFields DEF Answered
<1> QED
  BY <1>9, EmptySeq

LEMMA EofIsTold ==
  ASSUME Careful, Told, PumpEof
  PROVE  Told'
<1> DEFINE x  == CloseRead(engine)
           ev == [kind |-> "Closed", data |-> <<>>]
<1>1. /\ engine \in Engine /\ op \in Op /\ op.at = "read" /\ engine.mode \in Reading
      /\ engine' = x /\ op' = [op EXCEPT !.at = "flush"] /\ AtEof /\ op.got = <<>>
      /\ UNCHANGED <<toConsole, toClient, link, console, answer, result>>
  BY DEF PumpEof, Await, Careful, Typed, Reads, Told, Transferred
<1>2. engine.events = <<>>
  BY <1>1 DEF Careful, Pumping, Fits
<1>3. x \in Engine /\ x.mode = "Closed" /\ x.events = Append(<<>>, ev)
  BY <1>1, <1>2, CloseReadFields DEF IsTerminal, Reading, InFlight, Dead
<1>4. ev \in Event /\ ev.kind = "Closed" /\ ev.data = <<>>
  BY EmptySeq DEF Event, EventKind
<1> HIDE DEF x, ev
<1>5. Len(x.events) = 1 /\ x.events[1].data = <<>>
  BY <1>3, <1>4, FirstEvent
<1>6. op'.at = "flush" /\ op'.id = op.id /\ op'.got = <<>> /\ op'.kind = op.kind
  BY <1>1 DEF Op
<1>7. link # "up"
  BY <1>1 DEF AtEof
<1>8. \A i \in 1 .. Len(x.events) : x.events[i].data = <<>>
  <2>1. \A i \in 1 .. 1 : i = 1
    OBVIOUS
  <2> QED
    BY <1>5, <2>1
<1>9. op.kind = "bye" => Answered = <<>>
  BY <1>1, ByeUnanswered
<1>10. Tells(x, x.inbox \o toClient', op'.kind, Answered)
  BY <1>3, <1>6, <1>8, <1>9, CarefulNumbers DEF Tells
<1> QED
  BY <1>1, <1>3, <1>6, <1>7, <1>10, NothingAdded, PumpingIsTold

LEMMA FlushIsTold ==
  ASSUME Careful, Told, PumpFlush
  PROVE  Told'
<1> DEFINE polled == Advance(engine)
           K      == Wanted(op.kind) \cup Dead
           i      == EventAt(polled.events, K)
           rest   == [polled EXCEPT !.events = SubSeq(@, i + 1, Len(@))]
           none   == [polled EXCEPT !.events = <<>>]
           r      == polled.inbox \o toClient
<1>1. /\ op.at = "flush" /\ engine \in Engine /\ op \in Op /\ op.got = <<>>
      /\ toClient \in Seq(Byte) /\ console \in Console
      /\ UNCHANGED <<toConsole, toClient, link, console, answer>>
  BY DEF PumpFlush, Careful, Typed, Told, Transferred
<1>2. IF i = 0
      THEN IF IsTerminal(polled) THEN Return(none, "err", <<>>)
                                 ELSE Await(none, [op EXCEPT !.at = "read"])
      ELSE IF polled.events[i].kind \in Wanted(op.kind)
           THEN OnEvent(rest, polled.events[i])
           ELSE Return(rest, "err", <<>>)
  BY DEF PumpFlush, EventAt
<1>3. Adds
  BY <1>1, NothingAdded
<1>4. /\ Sound(polled, toClient, op.kind, op.id, Meant, toConsole, console, link)
      /\ Tells(polled, r, op.kind, Answered)
  <2>1. Sound(engine, toClient, op.kind, op.id, Meant, toConsole, console, link)
    BY <1>1 DEF Sound, Careful, Pumping, Incoming
  <2>2. engine.outbox = <<>>
    BY <1>1 DEF Careful, Line
  <2>3. Sound(polled, toClient, op.kind, op.id, Meant, toConsole, console, link)
    BY <1>1, <2>1, <2>2, AdvanceIsSound
  <2>4. Tells(engine, engine.inbox \o toClient, op.kind, Answered)
    BY <1>1 DEF Told, Pumped, Incoming
  <2>5. Tells(polled, r, op.kind, Answered)
    BY <1>1, <2>1, <2>4, AdvanceTells
  <2> QED
    BY <2>3, <2>5
<1>5. polled.mode = "AwaitingHead" => polled = engine /\ LfAt(engine.inbox) = 0
  BY <1>1, WaitingSettles
<1>6. polled.mode = "Closed" => link # "up"
  <2>1. engine.mode = "Closed" => link # "up"
    BY DEF Told, Parting
  <2> QED
    BY <1>1, <2>1, AdvanceCloses
<1> HIDE DEF polled
<1>7. /\ polled \in Engine /\ Len(polled.events) \in Nat
      /\ Fits(polled, r, op.kind, op.id, Meant)
      /\ Wire(polled, r, op.kind, op.id, toConsole, console, link)
  BY <1>4, LenProperties DEF Sound, Engine
<1>8. /\ i \in 0 .. Len(polled.events)
      /\ i # 0 => polled.events[i].kind \in K
      /\ Len(polled.events) = 1 /\ polled.events[1].kind \in K => i = 1
  BY <1>7, EventAtFields
<1> HIDE DEF i
<1>9. /\ rest \in Engine /\ rest.mode = polled.mode /\ rest.inbox = polled.inbox
      /\ i = Len(polled.events) => rest.events = <<>>
      /\ none \in Engine /\ none.mode = polled.mode /\ none.inbox = polled.inbox
      /\ none.events = <<>>
      /\ none.expect = polled.expect /\ none.remaining = polled.remaining
  BY <1>7, <1>8, QueueFields
<1>10. none.data = polled.data
  BY <1>7 DEF Engine
<1> HIDE DEF rest, none
<1>11. CASE polled.mode \in Reading
  <2>1. polled.events = <<>>
    BY <1>7, <1>11 DEF Fits
  <2>2. i = 0
    BY <1>8, <2>1
  <2>3. engine' = none /\ op' = [op EXCEPT !.at = "read"] /\ UNCHANGED result
    BY <1>2, <1>11, <2>2 DEF IsTerminal, Reading, InFlight, Dead, Await
  <2>4. op'.at = "read" /\ op'.kind = op.kind /\ op'.id = op.id /\ op'.got = <<>>
    BY <1>1, <2>3 DEF Op
  <2>5. Tells(none, r, op.kind, Answered)
    BY <1>4, <1>9, <1>10, <1>11, <2>1 DEF Tells, Reading, InFlight
  <2>6. none.inbox \o toClient' = r
    BY <1>1, <1>9
  <2>7. none.mode # "Closed"
    BY <1>9, <1>11 DEF Reading, InFlight
  <2>8. none.mode = "AwaitingHead" =>
          engine.mode = "AwaitingHead" /\ r = Incoming /\ LfAt(none.inbox) = 0
    BY <1>5, <1>9 DEF Incoming
  <2> HIDE DEF r
  <2> QED
    BY <1>1, <1>3, <2>3, <2>4, <2>5, <2>6, <2>7, <2>8, PumpingIsTold
<1>12. CASE polled.mode = "Idle"
  <2> DEFINE ev == polled.events[1]
  <2>1. /\ Len(polled.events) = 1 /\ ev.kind \in Wanted(op.kind) \ {"BinaryHead", "Closed"}
        /\ ev.kind = "SendBinary" => op.kind = "send"
        /\ ev.kind # "SendBinary" /\ link # "reset" => Quiet(toConsole, console)
    BY <1>7, <1>12 DEF Fits, Wire
  <2>2. i = 1
    BY <1>8, <2>1
  <2>3. OnEvent(rest, ev)
    BY <1>2, <2>1, <2>2
  <2>4. IF ev.kind = "SendBinary" THEN StatusTells(r, Answered) ELSE ev.data = Answered
    BY <1>4, <1>12 DEF Tells
  <2>5. rest.mode # "Closed"
    BY <1>9, <1>12
  <2> HIDE DEF ev
  <2>6. CASE ev.kind = "SendBinary"
    <3>1. op' = [op EXCEPT !.at = "upload", !.left = UploadLen] /\ engine' = rest
          /\ UNCHANGED result
      BY <2>1, <2>3, <2>6 DEF OnEvent, Await
    <3>2. op'.at = "upload" /\ op'.id = op.id /\ op'.got = <<>>
      BY <1>1, <3>1 DEF Op
    <3>3. Incoming' = r /\ Answered' = Answered
      BY <1>1, <1>9, <3>1, <3>2 DEF Incoming, Answered
    <3>4. Uploaded' /\ Transferred'
      BY <2>4, <2>6, <3>2, <3>3 DEF Uploaded, Transferred
    <3> QED
      BY <1>1, <1>3, <2>5, <3>1, <3>2, <3>4, TransferIsTold
  <2>7. CASE ev.kind # "SendBinary"
    <3>1. \/ Return(rest, "remote", ev.data) \/ Return(rest, "ok", ev.data)
          \/ Return(rest, "err", <<>>)
      BY <2>1, <2>3, <2>7 DEF OnEvent
    <3>2. PICK outcome, data : /\ Over(rest, outcome, data, {})
                               /\ outcome # "err" => data = ev.data
      BY <3>1 DEF Return
    <3>3. outcome # "err" => data = Answered /\ (link = "up" => Quiet(toConsole', console))
      BY <1>1, <2>1, <2>4, <2>7, <3>2
    <3> QED
      BY <1>1, <1>3, <2>5, <3>2, <3>3, OverIsTold
  <2> QED
    BY <2>6, <2>7
<1>13. CASE polled.mode = "StreamingBody"
  <2> DEFINE ev == polled.events[1]
             x  == TakeInbox(rest)
             b  == polled.inbox
  <2>1. /\ Len(polled.events) = 1 /\ ev.kind = "BinaryHead"
        /\ StreamFits(r, op.kind, op.id, Meant)
    BY <1>7, <1>13 DEF Fits
  <2>2. op.kind \in Streamed /\ ev.kind \in Wanted(op.kind)
    BY <2>1 DEF StreamFits, Streamed, Wanted, AnswerKind
  <2>3. i = 1
    BY <1>8, <2>1, <2>2
  <2>4. OnEvent(rest, ev)
    BY <1>2, <2>1, <2>2, <2>3
  <2> HIDE DEF ev
  <2>5. /\ engine' = x /\ UNCHANGED result
        /\ IF op.kind = "shot" THEN op' = [op EXCEPT !.at = "meta", !.buf = b]
                               ELSE op' = [op EXCEPT !.at = "prefix", !.buf = b]
    BY <1>9, <2>1, <2>2, <2>4 DEF OnEvent, Await, Streamed
  <2>6. x.mode = "StreamingBody"
    BY <1>9, <1>13 DEF TakeInbox, Engine
  <2> HIDE DEF x
  <2>7. r = b \o toClient'
    BY <1>1
  <2>8. StreamTells(r, op.kind, Answered)
    BY <1>4, <1>13 DEF Tells
  <2> HIDE DEF b, r
  <2>9. /\ op'.kind = op.kind /\ op'.id = op.id /\ op'.buf = b /\ op'.got = <<>>
        /\ op'.at \in {"meta", "prefix"}
    BY <1>1, <2>5 DEF Op
  <2>10. Answered' = Answered
    BY <1>1, <2>9 DEF Answered
  <2>11. Transferred' /\ Uploaded'
    BY <2>7, <2>8, <2>9, <2>10 DEF Transferred, Uploaded
  <2> QED
    BY <1>1, <1>3, <2>5, <2>6, <2>9, <2>11, TransferIsTold
<1>14. CASE polled.mode \in Dead
  <2>1. i # 0 => polled.events[i].kind \in Dead
    BY <1>7, <1>8, <1>14 DEF Fits
  <2>2. \/ \E e \in {rest, none} : Return(e, "err", <<>>)
        \/ Return(rest, "ok", Answered) /\ link # "up"
    <3>1. CASE i = 0
      BY <1>2, <1>14, <3>1 DEF IsTerminal
    <3>2. CASE i # 0 /\ polled.events[i].kind \notin Wanted(op.kind)
      BY <1>2, <3>2
    <3>3. CASE i # 0 /\ polled.events[i].kind \in Wanted(op.kind)
      <4> DEFINE ev == polled.events[i]
      <4>1. OnEvent(rest, ev) /\ ev.kind \in Dead /\ ev.kind \in Wanted(op.kind)
        BY <1>2, <2>1, <3>3
      <4>2. i \in 1 .. Len(polled.events)
        BY <1>7, <1>8, <3>3
      <4>3. op.kind = "bye" /\ ev.kind = "Closed"
        <5> HIDE DEF ev
        <5> QED
          BY <4>1 DEF Wanted, AnswerKind, Dead
      <4>4. polled.mode = "Closed"
        BY <1>4, <1>14, <4>2, <4>3 DEF Tells, Dead
      <4>5. Answered = <<>> /\ ev.data = <<>>
        BY <1>4, <4>2, <4>3, <4>4 DEF Tells
      <4> HIDE DEF ev
      <4>6. Return(rest, "ok", ev.data)
        BY <4>1, <4>3 DEF OnEvent
      <4> QED
        BY <1>6, <4>4, <4>5, <4>6
    <3> QED
      BY <3>1, <3>2, <3>3
  <2>3. CASE \E e \in {rest, none} : Return(e, "err", <<>>)
    <3>1. PICK e \in {rest, none} : Over(e, "err", <<>>, {})
      BY <2>3 DEF Return
    <3>2. e.mode = "Closed" => link # "up"
      BY <1>6, <1>9, <3>1
    <3> QED
      BY <1>1, <1>3, <3>1, <3>2, OverIsTold
  <2>4. CASE Return(rest, "ok", Answered) /\ link # "up"
    <3>1. Over(rest, "ok", Answered, {})
      BY <2>4 DEF Return
    <3> QED
      BY <1>1, <1>3, <2>4, <3>1, OverIsTold
  <2> QED
    BY <2>2, <2>3, <2>4
<1>15. polled.mode \in Mode
  BY <1>7 DEF Engine
<1> QED
  BY <1>11, <1>12, <1>13, <1>14, <1>15 DEF Mode, Reading, InFlight, Dead

-----------------------------------------------------------------------------
(* The transfers, again. *)

LEMMA NowTransferred ==
  ASSUME Careful, Told, op.at \in {"prefix", "body", "meta", "frame"},
         engine' = engine, UNCHANGED <<toConsole, link, console, answer, result>>,
         op'.id = op.id, op'.at \in {"body", "frame"},
         NEW g, op'.got = g, IsCut(g, Answered), Len(g) + op'.left = Len(Answered),
         Continues(op'.buf \o toClient', Len(g), Answered)
  PROVE  Told'
<1>1. engine.mode = "StreamingBody"
  BY StreamingFacts
<1>2. Answered' = Answered
  BY DEF Answered
<1>3. Transferred' /\ Uploaded'
  BY <1>2 DEF Transferred, Uploaded
<1> QED
  BY <1>1, <1>3, NothingAdded, TransferIsTold

\* The transfer begins: nothing is collected of all that the console meant.
LEMMA PayloadBegins ==
  ASSUME Careful, Told, op.at \in {"prefix", "meta"},
         engine' = engine, UNCHANGED <<toConsole, link, console, answer, result>>,
         op'.id = op.id, op'.at \in {"body", "frame"}, op'.got = op.got, op'.left = Meant,
         Continues(op'.buf \o toClient', 0, Answered)
  PROVE  Told'
<1>1. Answered \in Seq(Byte) /\ Len(Answered) = Meant /\ Meant \in Nat
  BY CarefulNumbers, LenProperties
<1> DEFINE g == <<>>
<1>2. IsCut(g, Answered)
  BY <1>1, NothingIsCut
<1>3. Len(g) = 0 /\ op'.got = g
  BY EmptySeq DEF Told, Transferred
<1> HIDE DEF g
<1>4. Len(g) + op'.left = Len(Answered) /\ Continues(op'.buf \o toClient', Len(g), Answered)
  BY <1>1, <1>3
<1> QED
  BY <1>2, <1>3, <1>4, NowTransferred

LEMMA PrefixFailsIsTold ==
  ASSUME Careful, Told, PrefixFails
  PROVE  Told'
<1> DEFINE x == EndStream(engine, <<>>)
<1>1. /\ op.at = "prefix" /\ Over(x, "err", <<>>, {})
      /\ UNCHANGED <<toConsole, toClient, link, console, answer>>
  BY DEF PrefixFails, Return
<1>2. x.mode = "Idle"
  BY <1>1, StreamingFacts DEF EndStream, Engine
<1> HIDE DEF x
<1> QED
  BY <1>1, <1>2, NothingAdded, OverIsTold

LEMMA GivesUpIsTold ==
  ASSUME Careful, Told, op.at \in {"prefix", "body", "meta", "frame"},
         Return(AbortStream(engine), "err", <<>>),
         UNCHANGED <<toConsole, toClient, link, console, answer>>
  PROVE  Told'
<1> DEFINE x == AbortStream(engine)
<1>1. Over(x, "err", <<>>, {})
  BY DEF Return
<1>2. x.mode = "Failed"
  BY StreamingFacts, AbortStreamFields
<1> HIDE DEF x
<1> QED
  BY <1>1, <1>2, NothingAdded, OverIsTold

LEMMA DoneIsTold ==
  ASSUME Careful, Told, FinishDownload \/ FrameDone
  PROVE  Told'
<1> DEFINE x == EndStream(engine, op.buf)
<1>1. /\ op.at \in {"body", "frame"} /\ op.left = 0 /\ Over(x, "ok", op.got, {})
      /\ UNCHANGED <<toConsole, toClient, link, console, answer>>
  BY DEF FinishDownload, FrameDone, Return
<1>2. x.mode = "Idle"
  BY <1>1, StreamingFacts DEF EndStream, Engine
<1> HIDE DEF x
<1>3. op.got = Answered
  <2>1. IsCut(op.got, Answered) /\ Len(op.got) + op.left = Len(Answered)
    BY <1>1 DEF Told, Transferred
  <2>2. Len(op.got) \in Nat
    BY <2>1, CutFields
  <2> QED
    BY <1>1, <2>1, <2>2, WholeCut
<1>4. link = "up" => Quiet(toConsole', console)
  BY <1>1, StreamingFacts
<1> QED
  BY <1>1, <1>2, <1>3, <1>4, NothingAdded, OverIsTold

LEMMA PrefixIsTold ==
  ASSUME Careful, Told, ReadPrefix
  PROVE  Told'
<1> DEFINE s == op.buf \o toClient
           k == 1
<1>1. op.at = "prefix" /\ UNCHANGED <<toConsole, link, console, answer>>
  BY DEF ReadPrefix
<1>2. /\ engine \in Engine /\ op \in Op /\ op.buf \in Seq(Byte) /\ toClient \in Seq(Byte)
      /\ engine.mode = "StreamingBody" /\ Meant \in Nat /\ op.kind \in {"get", "range"}
      /\ StreamFits(s, op.kind, op.id, Meant)
  BY <1>1, StreamingFacts
<1>3. /\ s \in Seq(Byte) /\ Len(s) = Len(op.buf) + Len(toClient)
      /\ Len(op.buf) \in Nat /\ Len(toClient) \in Nat
      /\ \A i \in 1 .. Len(op.buf) + Len(toClient) :
           s[i] = IF i <= Len(op.buf) THEN op.buf[i] ELSE toClient[i - Len(op.buf)]
  BY <1>2, ConcatProperties, LenProperties
<1>4. /\ \A i \in 1 .. Len(s) : s[i].tag = op.id
      /\ op.kind = "range" => Meant = AskedLen
  BY <1>2 DEF StreamFits, Own
<1>5. Continues(s, - 1, Answered)
  <2>1. HeaderLen(op.kind) = 1
    BY <1>2 DEF HeaderLen
  <2>2. StreamTells(s, op.kind, Answered)
    BY <1>1 DEF Told, Transferred
  <2> HIDE DEF s
  <2> QED
    BY <2>1, <2>2 DEF StreamTells
<1> HIDE DEF s
<1>6. ASSUME NEW b, NEW rest, WithPrefix(b, rest), Len(s) # 0, b = s[1],
             rest \o toClient' = SubSeq(s, k + 1, Len(s))
      PROVE  Told'
  <2>1. 1 \in 1 .. Len(s) /\ k \in 0 .. Len(s)
    BY <1>3, <1>6
  <2>2. PrefixOf(b) = Meant
    BY <1>4, <1>6, <2>1 DEF PrefixOf, Meant
  <2>3. /\ engine' = engine /\ UNCHANGED result
        /\ op' = [op EXCEPT !.at = "body", !.left = Meant, !.buf = rest]
    BY <1>4, <1>6, <2>2 DEF WithPrefix, Await
  <2>4. /\ op'.at = "body" /\ op'.id = op.id /\ op'.got = op.got
        /\ op'.buf = rest /\ op'.left = Meant
    BY <1>2, <2>3 DEF Op
  <2>5. Continues(SubSeq(s, k + 1, Len(s)), (- 1) + k, Answered)
    <3>1. - 1 \in Int
      OBVIOUS
    <3> HIDE DEF k
    <3> QED
      BY <1>3, <1>5, <2>1, <3>1, ContinuesRest
  <2>6. (- 1) + k = 0
    OBVIOUS
  <2> HIDE DEF k
  <2>7. Continues(op'.buf \o toClient', 0, Answered)
    BY <1>6, <2>4, <2>5, <2>6
  <2> QED
    BY <1>1, <2>3, <2>4, <2>7, PayloadBegins
<1>7. CASE op.buf # <<>>
  <2> DEFINE b    == Head(op.buf)
             rest == Tail(op.buf)
  <2>1. WithPrefix(b, rest) /\ UNCHANGED toClient
    BY <1>7 DEF ReadPrefix
  <2>2. b = op.buf[1] /\ Len(op.buf) # 0
    BY <1>2, <1>7, TailFields
  <2>3. rest = SubSeq(op.buf, k + 1, Len(op.buf))
    BY <1>2, <1>7, TailIsSubSeq
  <2>4. k \in 0 .. Len(op.buf)
    BY <1>3, <2>2
  <2> HIDE DEF b, rest, k
  <2>5. rest \o toClient' = SubSeq(s, k + 1, Len(s))
    BY <1>2, <2>1, <2>3, <2>4, DropOfConcat DEF s
  <2>6. Len(s) # 0 /\ b = s[1]
    BY <1>3, <2>2
  <2> QED
    BY <1>6, <2>1, <2>5, <2>6
<1>8. CASE op.buf = <<>>
  <2> DEFINE b    == Head(toClient)
             rest == <<>>
  <2>1. toClient # <<>> /\ WithPrefix(b, rest) /\ toClient' = Tail(toClient)
    BY <1>8 DEF ReadPrefix
  <2>2. b = toClient[1] /\ Len(toClient) # 0 /\ toClient' \in Seq(Byte)
    BY <1>2, <2>1, TailFields
  <2>3. toClient' = SubSeq(toClient, k + 1, Len(toClient))
    BY <1>2, <2>1, TailIsSubSeq
  <2>4. s = toClient
    BY <1>2, <1>8, ConcatEmptySeq DEF s
  <2>5. rest \o toClient' = toClient'
    BY <2>2, ConcatEmptySeq
  <2> HIDE DEF b, rest, k
  <2>6. rest \o toClient' = SubSeq(s, k + 1, Len(s))
    BY <2>3, <2>4, <2>5
  <2> QED
    BY <1>6, <2>1, <2>2, <2>4, <2>6
<1> QED
  BY <1>7, <1>8

\* A piece of k bytes of the payload, off the buffer or off the wire.
LEMMA PieceIsTold ==
  ASSUME Careful, Told, op.at \in {"body", "frame"}, engine' = engine,
         UNCHANGED <<toConsole, link, console, answer, result>>,
         op'.at = op.at, op'.id = op.id,
         NEW s \in Seq(Byte), NEW w \in Seq(Byte), NEW k \in 0 .. Len(s),
         s \o w = op.buf \o toClient, op'.left = op.left - k,
         op'.got = op.got \o SubSeq(s, 1, k),
         op'.buf \o toClient' = SubSeq(s, k + 1, Len(s)) \o w
  PROVE  Told'
<1> DEFINE g == op.got
           h == g \o SubSeq(s, 1, k)
           v == SubSeq(s, k + 1, Len(s)) \o w
<1>1. /\ IsCut(g, Answered) /\ Continues(s \o w, Len(g), Answered)
      /\ Len(g) + op.left = Len(Answered)
  BY DEF Told, Transferred
<1>2. Len(g) \in Nat /\ op.left \in Nat /\ Len(s) \in Nat
  BY <1>1, CutFields, StreamingFacts, LenProperties
<1> HIDE DEF g
<1>3. IsCut(h, Answered) /\ Len(h) = Len(g) + k /\ Continues(v, Len(h), Answered)
  BY <1>1, Collects
<1>4. op'.got = h /\ op'.buf \o toClient' = v
  BY DEF g
<1> HIDE DEF h, v
<1>5. Len(h) + op'.left = Len(Answered)
  <2>1. k \in Int /\ op'.left = op.left - k
    OBVIOUS
  <2>2. (Len(g) + k) + (op.left - k) = Len(g) + op.left
    BY <1>2, <2>1
  <2> QED
    BY <1>1, <1>3, <2>1, <2>2
<1>6. Continues(op'.buf \o toClient', Len(h), Answered)
  BY <1>3, <1>4
<1> QED
  BY <1>3, <1>4, <1>5, <1>6, NowTransferred

LEMMA BodyIsTold ==
  ASSUME Careful, Told, ReadBody \/ ReadFrame
  PROVE  Told'
<1>1. /\ op.at \in {"body", "frame"} /\ op.left > 0 /\ engine' = engine
      /\ UNCHANGED <<toConsole, link, console, answer, result>>
  BY DEF ReadBody, ReadFrame, Await
<1>2. /\ op \in Op /\ op.buf \in Seq(Byte) /\ op.got \in Seq(Byte) /\ op.left \in Nat
      /\ toClient \in Seq(Byte) /\ Len(op.buf) \in Nat /\ Len(toClient) \in Nat
  BY <1>1, StreamingFacts, LenProperties
<1>3. CASE op.buf # <<>>
  <2>1. \E k \in 1 .. Min2(op.left, Len(op.buf)) :
          /\ op' = [op EXCEPT !.left = @ - k, !.got = @ \o SubSeq(op.buf, 1, k),
                              !.buf = SubSeq(@, k + 1, Len(@))]
          /\ UNCHANGED toClient
    <3>1. CASE ReadBody
      BY <1>3, <3>1 DEF ReadBody, Await
    <3>2. CASE ReadFrame
      <4> DEFINE k == Min2(op.left, Len(op.buf))
      <4>1. k \in 1 .. Min2(op.left, Len(op.buf))
        <5>1. Len(op.buf) # 0
          BY <1>2, <1>3, EmptySeq
        <5> QED
          BY <1>1, <1>2, <5>1 DEF Min2
      <4>2. /\ op' = [op EXCEPT !.left = @ - k, !.got = @ \o SubSeq(op.buf, 1, k),
                                !.buf = SubSeq(@, k + 1, Len(@))]
            /\ UNCHANGED toClient
        BY <1>3, <3>2 DEF ReadFrame, Await
      <4> HIDE DEF k
      <4> QED
        BY <4>1, <4>2
    <3> QED
      BY <3>1, <3>2
  <2>2. PICK k \in 1 .. Min2(op.left, Len(op.buf)) :
          /\ op' = [op EXCEPT !.left = @ - k, !.got = @ \o SubSeq(op.buf, 1, k),
                              !.buf = SubSeq(@, k + 1, Len(@))]
          /\ UNCHANGED toClient
    BY <2>1
  <2>3. k \in 0 .. Len(op.buf)
    BY <1>1, <1>2, <2>2 DEF Min2
  <2> DEFINE a == SubSeq(op.buf, 1, k)
             b == SubSeq(op.buf, k + 1, Len(op.buf))
  <2>4. op' = [op EXCEPT !.left = @ - k, !.got = @ \o a, !.buf = b]
    BY <2>2
  <2> HIDE DEF a, b
  <2>5. /\ op'.at = op.at /\ op'.id = op.id /\ op'.left = op.left - k
        /\ op'.buf = b /\ op'.got = op.got \o a
    BY <1>2, <2>4 DEF Op
  <2>6. op'.buf \o toClient' = b \o toClient
    BY <2>2, <2>5
  <2> QED
    BY <1>1, <1>2, <2>3, <2>5, <2>6, PieceIsTold DEF a, b
<1>4. CASE op.buf = <<>>
  <2>1. \E k \in 1 .. Min2(op.left, Len(toClient)) :
          /\ op' = [op EXCEPT !.left = @ - k, !.got = @ \o SubSeq(toClient, 1, k)]
          /\ toClient' = SubSeq(toClient, k + 1, Len(toClient))
    BY <1>4 DEF ReadBody, ReadFrame, Await
  <2>2. PICK k \in 1 .. Min2(op.left, Len(toClient)) :
          /\ op' = [op EXCEPT !.left = @ - k, !.got = @ \o SubSeq(toClient, 1, k)]
          /\ toClient' = SubSeq(toClient, k + 1, Len(toClient))
    BY <2>1
  <2>3. k \in 0 .. Len(toClient)
    BY <1>1, <1>2, <2>2 DEF Min2
  <2> DEFINE a == SubSeq(toClient, 1, k)
             w == <<>>
  <2>4. toClient' \in Seq(Byte)
    BY <1>2, <2>2, <2>3, DropFields
  <2>5. op' = [op EXCEPT !.left = @ - k, !.got = @ \o a]
    BY <2>2
  <2> HIDE DEF a
  <2>6. /\ op'.at = op.at /\ op'.id = op.id /\ op'.left = op.left - k
        /\ op'.buf = op.buf /\ op'.got = op.got \o a
    BY <1>2, <2>5 DEF Op
  <2>7. w \in Seq(Byte) /\ toClient \o w = toClient /\ toClient' \o w = toClient'
    BY <1>2, <2>4, EmptySeq, ConcatEmptySeq
  <2>8. op.buf \o toClient = toClient /\ op'.buf \o toClient' = toClient'
    BY <1>2, <1>4, <2>4, <2>6, ConcatEmptySeq
  <2> HIDE DEF w
  <2>9. /\ toClient \o w = op.buf \o toClient
        /\ op'.buf \o toClient' = SubSeq(toClient, k + 1, Len(toClient)) \o w
    BY <2>2, <2>7, <2>8
  <2> QED
    BY <1>1, <1>2, <2>3, <2>6, <2>7, <2>9, PieceIsTold DEF a
<1> QED
  BY <1>3, <1>4

LEMMA MetaIsTold ==
  ASSUME Careful, Told, ReadMeta
  PROVE  Told'
<1>1. op.at = "meta" /\ UNCHANGED <<toConsole, link, console, answer, result>>
  BY DEF ReadMeta, Await
<1>2. /\ op \in Op /\ op.buf \in Seq(Byte) /\ toClient \in Seq(Byte)
      /\ engine.mode = "StreamingBody" /\ op.got = <<>>
  BY <1>1, StreamingFacts DEF Told, Transferred
<1>3. PICK k \in 1 .. Len(toClient) :
        /\ engine' = engine
        /\ op' = [op EXCEPT !.buf = @ \o SubSeq(toClient, 1, k)]
        /\ toClient' = SubSeq(toClient, k + 1, Len(toClient))
  BY DEF ReadMeta, Await
<1> DEFINE a == SubSeq(toClient, 1, k)
<1>4. (op.buf \o a) \o toClient' = op.buf \o toClient
  BY <1>2, <1>3, Regroup
<1>5. op' = [op EXCEPT !.buf = @ \o a]
  BY <1>3
<1> HIDE DEF a
<1>6. /\ op'.at = "meta" /\ op'.kind = op.kind /\ op'.id = op.id
      /\ op'.buf = op.buf \o a /\ op'.got = <<>>
  BY <1>1, <1>2, <1>5 DEF Op
<1>7. op'.buf \o toClient' = op.buf \o toClient /\ Answered' = Answered
  BY <1>1, <1>4, <1>6 DEF Answered
<1>8. StreamTells(op.buf \o toClient, op.kind, Answered)
  BY <1>1 DEF Told, Transferred
<1>9. Transferred' /\ Uploaded'
  BY <1>6, <1>7, <1>8 DEF Transferred, Uploaded
<1> QED
  BY <1>1, <1>2, <1>3, <1>6, <1>9, NothingAdded, TransferIsTold

LEMMA ParseIsTold ==
  ASSUME Careful, Told, ParseMeta
  PROVE  Told'
<1> DEFINE r    == op.buf \o toClient
           line == SubSeq(op.buf, 1, LfAt(op.buf) - 1)
           rest == SubSeq(op.buf, LfAt(op.buf) + 1, Len(op.buf))
<1>1. op.at = "meta" /\ LfAt(op.buf) # 0 /\ UNCHANGED <<toConsole, toClient, link, console, answer>>
  BY DEF ParseMeta
<1>2. /\ engine \in Engine /\ op \in Op /\ op.buf \in Seq(Byte) /\ toClient \in Seq(Byte)
      /\ engine.mode = "StreamingBody" /\ op.kind = "shot"
      /\ StreamFits(r, op.kind, op.id, Meant)
  BY <1>1, StreamingFacts
<1>3. /\ r \in Seq(Byte) /\ Len(r) = Len(op.buf) + Len(toClient)
      /\ Len(op.buf) \in Nat /\ Len(toClient) \in Nat
      /\ \A i \in 1 .. Len(op.buf) + Len(toClient) :
           r[i] = IF i <= Len(op.buf) THEN op.buf[i] ELSE toClient[i - Len(op.buf)]
  BY <1>2, ConcatProperties, LenProperties
<1>4. /\ \A i \in 1 .. Len(r) : r[i].tag = op.id
      /\ 1 <= Len(r) => r[1].sym \in {"text", "dot"}
      /\ 2 <= Len(r) => r[2].sym = "LF"
  BY <1>2 DEF StreamFits, Own
<1>5. LfAt(op.buf) = 2 /\ 2 <= Len(r) /\ rest \o toClient = Rest(r)
  <2>1. 1 <= Len(r) => r[1].sym \notin {"LF", "CR"}
    BY <1>4
  <2> QED
    BY <1>1, <1>2, <1>4, <2>1, TakesOneSymbol
<1>6. LfAt(op.buf) \in 0 .. Len(op.buf)
  BY <1>3, LfAtIsFirst
<1>7. line[1].tag = op.id
  <2>1. 1 \in 0 .. Len(op.buf) /\ LfAt(op.buf) - 1 = 1
    BY <1>3, <1>5, <1>6
  <2>2. SubSeq(op.buf, 1, 1)[1] = op.buf[1]
    BY <1>2, <2>1, TakeFields
  <2> HIDE DEF r
  <2>3. op.buf[1] = r[1] /\ 1 \in 1 .. Len(r)
    BY <1>3, <1>5, <2>1
  <2> QED
    BY <1>4, <2>1, <2>2, <2>3
<1>8. CASE line[1].sym = "dot"
  <2>1. Return(AbortStream(engine), "err", <<>>)
    BY <1>8 DEF ParseMeta
  <2> QED
    BY <1>1, <2>1, GivesUpIsTold
<1>9. CASE line[1].sym # "dot"
  <2>1. /\ engine' = engine /\ UNCHANGED result
        /\ op' = [op EXCEPT !.at = "frame", !.left = PrefixOf(line[1]), !.buf = rest]
    BY <1>9 DEF ParseMeta, Await
  <2>2. PrefixOf(line[1]) = Meant
    BY <1>7 DEF PrefixOf, Meant
  <2>3. Continues(r, - 2, Answered)
    <3>1. HeaderLen(op.kind) = 2
      BY <1>2 DEF HeaderLen
    <3>2. StreamTells(r, op.kind, Answered)
      BY <1>1 DEF Told, Transferred
    <3> HIDE DEF r
    <3> QED
      BY <3>1, <3>2 DEF StreamTells
  <2> HIDE DEF line, rest, r
  <2>4. /\ op'.at = "frame" /\ op'.id = op.id /\ op'.got = op.got
        /\ op'.left = Meant /\ op'.buf = rest
    BY <1>2, <2>1, <2>2 DEF Op
  <2>5. Continues(Rest(r), (- 2) + 2, Answered)
    <3>1. - 2 \in Int
      OBVIOUS
    <3> QED
      BY <1>3, <1>5, <2>3, <3>1, ContinuesAfterLine
  <2>6. (- 2) + 2 = 0
    OBVIOUS
  <2>7. Continues(op'.buf \o toClient', 0, Answered)
    BY <1>1, <1>5, <2>4, <2>5, <2>6
  <2> QED
    BY <1>1, <2>1, <2>4, <2>7, PayloadBegins
<1> QED
  BY <1>8, <1>9

-----------------------------------------------------------------------------
(* FileUpload, the dropped futures and the network, again. *)

LEMMA FinishIsTold ==
  ASSUME Careful, Told, FinishUpload
  PROVE  Told'
<1> DEFINE x == ExpectResponse(engine)
           r == Incoming
<1>1. /\ op.at = "upload" /\ engine' = x
      /\ op' = [op EXCEPT !.kind = "finish", !.at = "flush"]
      /\ UNCHANGED <<toConsole, toClient, link, console, answer, result>>
  BY DEF Careful, Uploading, CanSubmit, FinishUpload, Await
<1>2. /\ engine \in Engine /\ op \in Op /\ op.got = <<>>
      /\ StatusFits(r) /\ StatusTells(r, Answered)
  BY <1>1 DEF Careful, Typed, Uploading, Told, Uploaded, Transferred
<1>3. x.mode = "AwaitingHead" /\ x.inbox \o toClient' = r
  BY <1>1, <1>2 DEF ExpectResponse, Engine, Incoming
<1> HIDE DEF x, r
<1>4. op'.at = "flush" /\ op'.kind = "finish" /\ op'.id = op.id /\ op'.got = <<>>
  BY <1>1, <1>2 DEF Op
<1>5. HeadTells(r, "finish", Answered)
  <2>1. 1 <= Len(r) => r[1].sym \notin {"202", "203", "204"}
    BY <1>2 DEF StatusFits
  <2> QED
    BY <1>2, <2>1 DEF HeadTells
<1>6. Tells(x, r, "finish", Answered)
  BY <1>3, <1>5, CarefulNumbers DEF Tells
<1>7. Tells(x, x.inbox \o toClient', op'.kind, Answered)
  BY <1>3, <1>4, <1>6
<1> QED
  BY <1>1, <1>3, <1>4, <1>7, NothingAdded, PumpingIsTold

LEMMA PayloadIsTold ==
  ASSUME Careful, Told, WriteBody
  PROVE  Told'
<1>1. /\ op.at = "upload" /\ op.left > 0 /\ UNCHANGED <<toClient, link, console, answer>>
      /\ op \in Op /\ engine.mode = "Idle" /\ op.got = <<>>
      /\ toConsole \in Seq(OutByte) /\ op.left \in Nat /\ op.id \in Tag
      /\ StatusTells(Incoming, Answered)
  BY DEF WriteBody, Careful, Typed, Uploading, Op, Told, Uploaded, Transferred
<1>2. CASE link = "reset"
  <2>1. Over(engine, "err", <<>>, {}) /\ UNCHANGED toConsole
    BY <1>2 DEF WriteBody, Return
  <2> QED
    BY <1>1, <2>1, NothingAdded, OverIsTold
<1>3. CASE link # "reset"
  <2>1. PICK k \in 1 .. op.left :
          /\ toConsole' = toConsole \o [i \in 1 .. k |-> [sym |-> "payload", tag |-> op.id]]
          /\ engine' = engine /\ op' = [op EXCEPT !.left = @ - k] /\ UNCHANGED result
    BY <1>3 DEF WriteBody, Await
  <2>2. k \in Nat
    BY <1>1, <2>1
  <2> DEFINE b == [sym |-> "payload", tag |-> op.id]
             z == toConsole \o [i \in 1 .. k |-> b]
  <2>3. Len(z) = Len(toConsole) + k /\ Len(toConsole) \in Nat
        /\ \A i \in 1 .. Len(z) : z[i] = IF i <= Len(toConsole) THEN toConsole[i] ELSE b
    BY <1>1, <2>2, PayloadFields, LenProperties
  <2>4. toConsole' = z /\ b.tag = op.id
    BY <2>1
  <2> HIDE DEF z, b
  <2>5. ASSUME NEW i \in 1 .. Len(z)
        PROVE  \/ z[i].tag = op.id
               \/ \E j \in 1 .. Len(toConsole) : z[i].tag = toConsole[j].tag
    <3>1. CASE i <= Len(toConsole)
      <4>1. i \in 1 .. Len(toConsole) /\ z[i] = toConsole[i]
        BY <2>3, <3>1
      <4> QED
        BY <4>1
    <3>2. CASE ~ (i <= Len(toConsole))
      BY <2>3, <2>4, <3>2
    <3> QED
      BY <3>1, <3>2
  <2>6. Adds
    BY <2>4, <2>5 DEF Adds
  <2>7. op'.at = "upload" /\ op'.id = op.id /\ op'.got = <<>>
    BY <1>1, <2>1 DEF Op
  <2>8. Incoming' = Incoming /\ Answered' = Answered
    BY <1>1, <2>1, <2>7 DEF Incoming, Answered
  <2>9. Transferred' /\ Uploaded'
    BY <1>1, <2>7, <2>8 DEF Transferred, Uploaded
  <2> QED
    BY <1>1, <2>1, <2>6, <2>7, <2>9, TransferIsTold
<1> QED
  BY <1>2, <1>3

LEMMA CancelReadIsTold ==
  ASSUME Careful, Told, CancelRead
  PROVE  Told'
<1> DEFINE late == {"flush"} \cap {op.at}
<1>1. /\ op.at \in {"read", "prefix", "meta", "frame", "flush"}
      /\ Over(engine, "err", <<>>, late)
      /\ UNCHANGED <<toConsole, toClient, link, console, answer>>
  BY DEF CancelRead, Dropped
<1> HIDE DEF late
<1>2. engine.mode = "Closed" => link # "up"
  BY DEF Told, Parting
<1> QED
  BY <1>1, <1>2, NothingAdded, OverIsTold

LEMMA CancelWriteIsTold ==
  ASSUME Careful, Told, CancelWrite
  PROVE  Told'
<1> DEFINE x == Send(engine, Len(engine.outbox))
           s == CommandLine(op.kind, op.id)
<1>1. /\ engine \in Engine /\ op \in Op /\ op.at = "write" /\ op.kind \in OpKind
      /\ engine.mode = "AwaitingHead" /\ link # "reset"
      /\ toConsole = <<>> /\ engine.outbox = s
      /\ UNCHANGED <<toClient, link, console, answer>> /\ Over(x, "err", <<>>, {})
  BY DEF CancelWrite, Return, Careful, Typed, Writing, Line, Quiet
<1>2. x.mode = "AwaitingHead"
  BY <1>1, SendAll DEF Same
<1>3. /\ s \in Seq(OutByte) /\ Len(s) = 3
      /\ s[1] = [sym |-> op.kind, tag |-> op.id]
      /\ s[2] = [sym |-> "CR", tag |-> op.id]
      /\ s[3] = [sym |-> "LF", tag |-> op.id]
  <2>1. op.kind \in Word /\ op.id \in Tag
    BY <1>1, SessionAssumption DEF Op
  <2> QED
    BY <2>1, CommandLineFields
<1> HIDE DEF x, s
<1>4. PICK k \in 0 .. Len(s) : toConsole' = toConsole \o SubSeq(s, 1, k)
  BY <1>1 DEF CancelWrite
<1> DEFINE q == SubSeq(s, 1, k)
<1>5. q \in Seq(OutByte) /\ Len(q) = k /\ \A i \in 1 .. k : q[i] = s[i]
  BY <1>3, TakeFields
<1>6. toConsole' = q
  BY <1>1, <1>4, <1>5, ConcatEmptySeq
<1> HIDE DEF q
<1>7. \A i \in 1 .. Len(q) : q[i].tag = op.id
  <2>1. k \in Nat /\ k <= 3
    BY <1>3
  <2>2. \A i \in 1 .. k : i \in {1, 2, 3}
    BY <2>1
  <2>3. s[1].tag = op.id /\ s[2].tag = op.id /\ s[3].tag = op.id
    BY <1>3
  <2> QED
    BY <1>5, <2>2, <2>3
<1>8. Adds
  BY <1>6, <1>7 DEF Adds
<1> QED
  BY <1>1, <1>2, <1>8, OverIsTold

\* What is on the wire is cut, for good.
LEMMA CutIsTold ==
  ASSUME Careful, Told, link' \in {"fin", "reset"}, link' = "fin" => link = "up",
         IsCut(toClient', toClient),
         UNCHANGED <<engine, op, toConsole, console, answer, result>>
  PROVE  Told'
<1> DEFINE r == Incoming
           x == Incoming'
           a == op.buf \o toClient
           b == op.buf \o toClient'
<1>1. engine.inbox \in Seq(Byte) /\ op.buf \in Seq(Byte)
  BY DEF Careful, Typed, Engine, Op
<1>2. Answered' = Answered
  BY DEF Answered
<1>3. IsCut(x, r)
  BY <1>1, CutOfConcat DEF Incoming
<1>4. IsCut(b, a)
  BY <1>1, CutOfConcat
<1> HIDE DEF r, x, a, b
<1>5. /\ r = <<>> => x = <<>>
      /\ 1 <= Len(x) => 1 <= Len(r) /\ x[1] = r[1]
  BY <1>3, CutFields
<1>6. \A d, m : Continues(a, d, m) => Continues(b, d, m)
  BY <1>4, ContinuesCut
<1>7. Pumped'
  <2> SUFFICES ASSUME op.at \in {"write", "flush", "read"}
               PROVE  Tells(engine, x, op.kind, Answered)
    BY <1>2 DEF Pumped, x
  <2>1. Tells(engine, r, op.kind, Answered)
    BY DEF Told, Pumped, r
  <2> QED
    BY <1>3, <2>1, CutOfTells
<1>8. Transferred'
  <2>1. Transferred
    BY DEF Told
  <2> QED
    BY <1>2, <1>6, <2>1 DEF Transferred, StreamTells, a, b
<1>9. Uploaded'
  BY <1>2, <1>5 DEF Told, Uploaded, StatusTells, r, x
<1>10. Parting'
  <2>1. Parting /\ engine' = engine /\ op' = op /\ answer' = answer
    BY DEF Told
  <2> SUFFICES ASSUME op.at \in {"write", "flush", "read"}, op.kind = "bye",
                      engine.mode = "AwaitingHead", link' # "reset"
               PROVE  x = <<>> /\ answer[op.id] = <<>>
    BY <2>1 DEF Parting, x
  <2>2. link = "up"
    OBVIOUS
  <2>3. r = <<>> /\ answer[op.id] = <<>>
    BY <2>1, <2>2 DEF Parting, r
  <2> QED
    BY <1>5, <2>3
<1>11. Settled' /\ Numbered' /\ Reported'
  BY DEF Told, Settled, Numbered, Reported
<1> QED
  BY <1>7, <1>8, <1>9, <1>10, <1>11 DEF Told

LEMMA NetworkIsTold ==
  ASSUME Careful, Told, ConsoleCloses \/ LinkBreaks
  PROVE  Told'
<1>1. toClient \in Seq(Byte)
  BY DEF Careful, Typed
<1>2. CASE ConsoleCloses
  <2>1. PICK k \in 0 .. Len(toClient) : toClient' = SubSeq(toClient, 1, k)
    BY <1>2 DEF ConsoleCloses
  <2>2. IsCut(toClient', toClient)
    BY <1>1, <2>1, TakenIsCut
  <2>3. /\ link = "up" /\ link' = "fin"
        /\ UNCHANGED <<engine, op, toConsole, console, answer, result>>
    BY <1>2 DEF ConsoleCloses
  <2> QED
    BY <2>2, <2>3, CutIsTold
<1>3. CASE LinkBreaks
  <2>1. /\ link' = "reset" /\ toClient' = <<>>
        /\ UNCHANGED <<engine, op, toConsole, console, answer, result>>
    BY <1>3 DEF LinkBreaks
  <2>2. IsCut(toClient', toClient)
    BY <1>1, <2>1, NothingIsCut
  <2> QED
    BY <2>1, <2>2, CutIsTold
<1> QED
  BY <1>2, <1>3

LEMMA UntaggedElements ==
  ASSUME NEW s \in Seq(InSym), NEW t
  PROVE  \A i \in 1 .. Len(s) : Untagged(s, t)[i] = [sym |-> s[i], tag |-> t]
BY DEF Untagged

\* A status line is its own answer.
LEMMA StatusIsAnswer ==
  ASSUME NEW c \in Code, NEW t \in Tag
  PROVE  LET m == Untagged(<<c>>, t)
         IN /\ m \in Seq(Byte) /\ Len(m) = 1
            /\ m[1] = Untagged(<<c, "LF">>, t)[1]
            /\ StatusTells(Untagged(<<c, "LF">>, t), m)
<1> DEFINE s == <<c>>
           w == <<c, "LF">>
           m == Untagged(s, t)
           u == Untagged(w, t)
<1>1. /\ s \in Seq(InSym) /\ Len(s) = 1 /\ s[1] = c
      /\ w \in Seq(InSym) /\ Len(w) = 2 /\ w[1] = c
  BY DEF InSym
<1> HIDE DEF s, w
<1>2. m \in Seq(Byte) /\ Len(m) = 1
  BY <1>1, UntaggedFields
<1>3. m[1] = u[1]
  <2>1. m[1] = [sym |-> s[1], tag |-> t]
    BY <1>1, UntaggedElements
  <2>2. u[1] = [sym |-> w[1], tag |-> t]
    BY <1>1, UntaggedElements
  <2> QED
    BY <1>1, <2>1, <2>2
<1> HIDE DEF m, u
<1>4. StatusTells(u, m)
  BY <1>2, <1>3 DEF StatusTells
<1> QED
  BY <1>2, <1>3, <1>4 DEF m, u, s, w

LEMMA InitIsTold ==
  ASSUME Init
  PROVE  Told
<1>1. /\ engine.mode = "NeedBanner" /\ engine.inbox = <<>>
      /\ op.at = "flush" /\ op.kind = "banner" /\ op.id = 0 /\ op.got = <<>>
      /\ toConsole = <<>> /\ link = "up" /\ console.id = 0 /\ result.outcome = "err"
  BY DEF Init, NewEngine
<1>2. PICK c \in {"201", "4xx"} :
        /\ toClient = Untagged(<<c, "LF">>, 0)
        /\ answer = [t \in Tag |-> IF t = 0 THEN <<c>> ELSE <<>>]
  BY DEF Init
<1>3. 0 \in Tag /\ c \in Code /\ \A t \in Tag : t \in Nat
  BY SessionAssumption DEF Code, LineCode
<1> DEFINE u == Untagged(<<c, "LF">>, 0)
           m == Untagged(<<c>>, 0)
<1>4. u \in Seq(Byte) /\ m \in Seq(Byte) /\ StatusTells(u, m)
  BY <1>3, StatusReply, StatusIsAnswer
<1>5. toClient = u
  BY <1>2
<1>6. Answered = m
  BY <1>1, <1>2, <1>3 DEF Answered
<1> HIDE DEF u, m
<1>7. Incoming = u
  BY <1>1, <1>4, <1>5, ConcatEmptySeq DEF Incoming
<1>8. Pumped
  BY <1>1, <1>4, <1>6, <1>7 DEF Pumped, Tells
<1>9. Transferred /\ Uploaded /\ Parting /\ Settled /\ Reported
  BY <1>1 DEF Transferred, Uploaded, Parting, Settled, Reported
<1>10. Numbered
  <2>1. Len(toConsole) = 0
    BY <1>1, EmptySeq
  <2>2. \A t \in Tag : t > 0 => answer[t] = <<>>
    BY <1>2, <1>3
  <2> QED
    BY <1>1, <2>1, <2>2 DEF Numbered
<1> QED
  BY <1>8, <1>9, <1>10 DEF Told

-----------------------------------------------------------------------------
(* What the console says, again: each reply tells what it means.           *)

LEMMA ConcatElements ==
  ASSUME NEW a \in Seq(InSym), NEW b \in Seq(InSym)
  PROVE  /\ a \o b \in Seq(InSym) /\ Len(a \o b) = Len(a) + Len(b)
         /\ \A i \in 1 .. Len(a) : (a \o b)[i] = a[i]
         /\ \A i \in 1 .. Len(b) : (a \o b)[Len(a) + i] = b[i]
<1> DEFINE s == a \o b
<1>1. Len(a) \in Nat /\ Len(b) \in Nat
  BY LenProperties
<1>2. /\ s \in Seq(InSym) /\ Len(s) = Len(a) + Len(b)
      /\ \A i \in 1 .. Len(a) + Len(b) : s[i] = IF i <= Len(a) THEN a[i] ELSE b[i - Len(a)]
  BY ConcatProperties
<1> HIDE DEF s
<1>3. ASSUME NEW i \in 1 .. Len(a) PROVE s[i] = a[i]
  BY <1>1, <1>2
<1>4. ASSUME NEW i \in 1 .. Len(b) PROVE s[Len(a) + i] = b[i]
  <2>1. Len(a) + i \in 1 .. Len(a) + Len(b) /\ ~ (Len(a) + i <= Len(a))
        /\ (Len(a) + i) - Len(a) = i
    BY <1>1
  <2> QED
    BY <1>2, <2>1
<1>5. /\ \A i \in 1 .. Len(a) : s[i] = a[i]
      /\ \A i \in 1 .. Len(b) : s[Len(a) + i] = b[i]
  BY <1>3, <1>4
<1> QED
  BY <1>2, <1>5 DEF s

\* The body of a reply behind its head "h", and of the answer behind "g".
LEMMA SharedBody ==
  ASSUME NEW h \in Seq(InSym), NEW g \in Seq(InSym), NEW b \in Seq(InSym), NEW t \in Tag,
         2 <= Len(h), Len(g) = 0 \/ Len(h) = 2
  PROVE  LET u == Untagged(h \o b, t)
             m == Untagged(g \o b, t)
         IN Continues(Rest(u), Len(g) - (Len(h) - 2), m) /\ Len(m) = Len(g) + Len(b)
<1> DEFINE w == h \o b
           x == g \o b
           u == Untagged(w, t)
           m == Untagged(x, t)
           v == Rest(u)
           d == Len(g) - (Len(h) - 2)
<1>1. Len(h) \in Nat /\ Len(g) \in Nat /\ Len(b) \in Nat /\ d \in Int
  BY LenProperties
<1>2. /\ w \in Seq(InSym) /\ Len(w) = Len(h) + Len(b)
      /\ \A i \in 1 .. Len(b) : w[Len(h) + i] = b[i]
  BY ConcatElements
<1>3. /\ x \in Seq(InSym) /\ Len(x) = Len(g) + Len(b)
      /\ \A i \in 1 .. Len(b) : x[Len(g) + i] = b[i]
  BY ConcatElements
<1> HIDE DEF w, x
<1>4. u \in Seq(Byte) /\ Len(u) = Len(w) /\ m \in Seq(Byte) /\ Len(m) = Len(x)
  BY <1>2, <1>3, UntaggedFields
<1>11. \A i \in 1 .. Len(w) : u[i] = [sym |-> w[i], tag |-> t]
  BY <1>2, UntaggedElements
<1>12. \A i \in 1 .. Len(x) : m[i] = [sym |-> x[i], tag |-> t]
  BY <1>3, UntaggedElements
<1>5. /\ \A i \in 1 .. Len(w) : u[i] = [sym |-> w[i], tag |-> t]
      /\ \A i \in 1 .. Len(x) : m[i] = [sym |-> x[i], tag |-> t]
  <2> HIDE DEF u, m
  <2> QED
    BY <1>11, <1>12
<1> HIDE DEF u, m
<1>6. /\ Len(v) = IF 2 <= Len(u) THEN Len(u) - 2 ELSE 0
      /\ \A i \in 1 .. Len(v) : v[i] = u[i + 2]
  BY <1>4, RestFields
<1> HIDE DEF v
<1>7. Len(v) = (Len(h) + Len(b)) - 2
  BY <1>1, <1>2, <1>4, <1>6
<1>8. ASSUME NEW i \in 1 .. Len(v), 1 <= i + d PROVE i + d <= Len(m) /\ v[i] = m[i + d]
  <2> DEFINE j == (i + 2) - Len(h)
  <2>1. i \in Int /\ 1 <= i /\ i <= (Len(h) + Len(b)) - 2
    BY <1>1, <1>7
  <2>2. 1 <= j
    <3>1. CASE Len(g) = 0
      BY <1>1, <1>8, <2>1, <3>1
    <3>2. CASE Len(h) = 2
      BY <2>1, <3>2
    <3> QED
      BY <3>1, <3>2
  <2>3. j \in 1 .. Len(b) /\ Len(h) + j = i + 2 /\ Len(g) + j = i + d
    BY <1>1, <2>1, <2>2
  <2> HIDE DEF j
  <2>4. i + 2 \in 1 .. Len(w) /\ i + d \in 1 .. Len(x)
    <3>1. i + 2 = Len(h) + j /\ i + d = Len(g) + j /\ j \in Nat /\ 1 <= j /\ j <= Len(b)
      BY <2>3, <1>1
    <3>2. Len(h) + j \in 1 .. Len(h) + Len(b) /\ Len(g) + j \in 1 .. Len(g) + Len(b)
      BY <1>1, <3>1
    <3> QED
      BY <1>2, <1>3, <3>1, <3>2
  <2>5. w[i + 2] = b[j] /\ x[i + d] = b[j]
    <3>1. w[Len(h) + j] = b[j] /\ x[Len(g) + j] = b[j]
      BY <1>2, <1>3, <2>3
    <3> QED
      BY <2>3, <3>1
  <2>6. u[i + 2] = [sym |-> w[i + 2], tag |-> t] /\ m[i + d] = [sym |-> x[i + d], tag |-> t]
    BY <1>5, <2>4
  <2>7. v[i] = m[i + d]
    BY <1>6, <2>5, <2>6
  <2>8. i + d <= Len(m)
    BY <1>1, <1>3, <1>4, <2>4
  <2> QED
    BY <2>7, <2>8
<1> HIDE DEF d
<1>9. Continues(v, d, m)
  BY <1>8 DEF Continues
<1>10. Len(m) = Len(g) + Len(b)
  BY <1>3, <1>4
<1> QED
  BY <1>9, <1>10 DEF v, u, m, w, x, d

ReplyTells(r, k, t) == HeadTells(Untagged(r.wire, t), k, Untagged(r.means, t))

LEMMA StatusReplyTells ==
  ASSUME NEW k, NEW t \in Tag, NEW c \in {"200", "4xx", "unknown", "204"},
         NEW r, r = [wire |-> <<c, "LF">>, means |-> <<c>>]
  PROVE  ReplyTells(r, k, t)
<1> DEFINE u == Untagged(<<c, "LF">>, t)
           m == Untagged(<<c>>, t)
<1>1. c \in Code /\ c \notin {"202", "203"}
  BY DEF Code, LineCode
<1>2. u[1].sym = c /\ Rest(u) = <<>>
  BY <1>1, StatusReply
<1>3. StatusTells(u, m)
  BY <1>1, StatusIsAnswer
<1>4. Untagged(r.wire, t) = u /\ Untagged(r.means, t) = m
  OBVIOUS
<1> HIDE DEF u, m
<1>5. StatusTells(Rest(u), m)
  <2>1. Len(Rest(u)) = 0
    BY <1>2, EmptySeq
  <2> QED
    BY <2>1 DEF StatusTells
<1>6. HeadTells(u, k, m)
  BY <1>1, <1>2, <1>3, <1>5 DEF HeadTells
<1> QED
  BY <1>4, <1>6 DEF ReplyTells

LEMMA ListingTells ==
  ASSUME NEW t \in Tag, NEW c \in {"text", "200"},
         NEW r, r = [wire |-> <<"202", "LF">> \o <<c>> \o <<"LF", "dot", "LF">>,
                     means |-> <<"202">> \o <<c>> \o <<"dot">>]
  PROVE  ReplyTells(r, "line", t)
<1> DEFINE a == <<"202", "LF">>
           b == <<c>>
           d == <<"LF", "dot", "LF">>
           e == <<"202">>
           f == <<"dot">>
           w == a \o b \o d
           x == e \o b \o f
<1>1. /\ a \in Seq(InSym) /\ Len(a) = 2 /\ a[1] = "202" /\ a[2] = "LF"
      /\ b \in Seq(InSym) /\ Len(b) = 1 /\ b[1] = c
      /\ d \in Seq(InSym) /\ Len(d) = 3 /\ d[1] = "LF" /\ d[2] = "dot" /\ d[3] = "LF"
      /\ e \in Seq(InSym) /\ Len(e) = 1 /\ e[1] = "202"
      /\ f \in Seq(InSym) /\ Len(f) = 1 /\ f[1] = "dot"
  BY DEF InSym, Code, LineCode, Text
<1>2. r.wire = w /\ r.means = x
  OBVIOUS
<1> HIDE DEF a, b, d, e, f
<1>3. a \o b \in Seq(InSym) /\ Len(a \o b) = 3 /\ (a \o b)[1] = "202" /\ (a \o b)[3] = c
  <2> DEFINE y == a \o b
  <2>1. /\ y \in Seq(InSym) /\ Len(y) = Len(a) + Len(b)
        /\ \A i \in 1 .. Len(a) : y[i] = a[i]
        /\ \A i \in 1 .. Len(b) : y[Len(a) + i] = b[i]
    BY <1>1, ConcatElements
  <2> HIDE DEF y
  <2>2. y[1] = a[1] /\ y[2 + 1] = b[1]
    BY <1>1, <2>1
  <2>3. y \in Seq(InSym) /\ Len(y) = 3 /\ y[1] = "202" /\ y[3] = c
    BY <1>1, <2>1, <2>2
  <2> QED
    BY <2>3 DEF y
<1>4. w \in Seq(InSym) /\ Len(w) = 6 /\ w[1] = "202" /\ w[3] = c /\ w[5] = "dot"
  <2>1. /\ w \in Seq(InSym) /\ Len(w) = Len(a \o b) + Len(d)
        /\ \A i \in 1 .. Len(a \o b) : w[i] = (a \o b)[i]
        /\ \A i \in 1 .. Len(d) : w[Len(a \o b) + i] = d[i]
    BY <1>1, <1>3, ConcatElements
  <2> HIDE DEF w
  <2>2. w[1] = (a \o b)[1] /\ w[3] = (a \o b)[3] /\ w[3 + 2] = d[2]
    BY <1>1, <1>3, <2>1
  <2> QED
    BY <1>1, <1>3, <2>1, <2>2
<1>5. e \o b \in Seq(InSym) /\ Len(e \o b) = 2 /\ (e \o b)[1] = "202" /\ (e \o b)[2] = c
  <2> DEFINE y == e \o b
  <2>1. /\ y \in Seq(InSym) /\ Len(y) = Len(e) + Len(b)
        /\ \A i \in 1 .. Len(e) : y[i] = e[i]
        /\ \A i \in 1 .. Len(b) : y[Len(e) + i] = b[i]
    BY <1>1, ConcatElements
  <2> HIDE DEF y
  <2>2. y[1] = e[1] /\ y[1 + 1] = b[1]
    BY <1>1, <2>1
  <2>3. y \in Seq(InSym) /\ Len(y) = 2 /\ y[1] = "202" /\ y[2] = c
    BY <1>1, <2>1, <2>2
  <2> QED
    BY <2>3 DEF y
<1>6. x \in Seq(InSym) /\ Len(x) = 3 /\ x[1] = "202" /\ x[2] = c /\ x[3] = "dot"
  <2>1. /\ x \in Seq(InSym) /\ Len(x) = Len(e \o b) + Len(f)
        /\ \A i \in 1 .. Len(e \o b) : x[i] = (e \o b)[i]
        /\ \A i \in 1 .. Len(f) : x[Len(e \o b) + i] = f[i]
    BY <1>1, <1>5, ConcatElements
  <2> HIDE DEF x
  <2>2. x[1] = (e \o b)[1] /\ x[2] = (e \o b)[2] /\ x[2 + 1] = f[1]
    BY <1>1, <1>5, <2>1
  <2> QED
    BY <1>1, <1>5, <2>1, <2>2
<1> HIDE DEF w, x
<1> DEFINE u == Untagged(w, t)
           m == Untagged(x, t)
           v == Rest(u)
<1>7. u \in Seq(Byte) /\ Len(u) = 6 /\ m \in Seq(Byte) /\ Len(m) = 3
  BY <1>4, <1>6, UntaggedFields
<1>8. /\ u[1] = [sym |-> "202", tag |-> t] /\ u[3] = [sym |-> c, tag |-> t]
      /\ u[5] = [sym |-> "dot", tag |-> t]
  <2>1. \A i \in 1 .. Len(w) : u[i] = [sym |-> w[i], tag |-> t]
    BY <1>4, UntaggedElements
  <2> HIDE DEF u
  <2> QED
    BY <1>4, <2>1
<1>9. /\ m[1] = [sym |-> "202", tag |-> t] /\ m[2] = [sym |-> c, tag |-> t]
      /\ m[3] = [sym |-> "dot", tag |-> t]
  <2>1. \A i \in 1 .. Len(x) : m[i] = [sym |-> x[i], tag |-> t]
    BY <1>6, UntaggedElements
  <2> HIDE DEF m
  <2> QED
    BY <1>6, <2>1
<1>10. /\ Len(v) = IF 2 <= Len(u) THEN Len(u) - 2 ELSE 0
       /\ \A i \in 1 .. Len(v) : v[i] = u[i + 2]
  BY <1>7, RestFields
<1> HIDE DEF u, m, v
<1>11. v[1] = u[3] /\ v[3] = u[5]
  <2>1. Len(v) = 4
    BY <1>7, <1>10
  <2>2. \A i, j \in Int : i \in 1 .. 4 /\ j = i + 2 => v[i] = u[j]
    BY <1>10, <2>1
  <2> QED
    BY <2>2
<1>12. ListTells(v, 1, m)
  <2>1. v[1] = m[1 + 1] /\ v[3] = m[3]
    BY <1>8, <1>9, <1>11
  <2> QED
    BY <1>7, <1>9, <2>1 DEF ListTells
<1>13. HeadTells(u, "line", m)
  BY <1>8, <1>9, <1>12 DEF HeadTells, v
<1> QED
  BY <1>2, <1>13 DEF ReplyTells, u, m

\* A payload behind the head: with it in the answer, or a header before it.
LEMMA BodyReplyTells ==
  ASSUME NEW k \in {"eager", "get", "range", "shot"}, NEW t \in Tag, NEW b \in Seq(InSym),
         NEW h \in Seq(InSym), NEW g \in Seq(InSym), 2 <= Len(h), h[1] = "203",
         k = "eager" => Len(h) = 2 /\ Len(g) = 1 /\ g[1] = "203" /\ Len(b) = AskedLen,
         k # "eager" => Len(h) = HeaderLen(k) + 2 /\ Len(g) = 0,
         NEW r, r.wire = h \o b, r.means = g \o b
  PROVE  ReplyTells(r, k, t)
<1> DEFINE w == h \o b
           x == g \o b
           u == Untagged(w, t)
           m == Untagged(x, t)
           d == Len(g) - (Len(h) - 2)
<1>1. Len(h) \in Nat /\ Len(g) \in Nat /\ Len(b) \in Nat
  BY LenProperties
<1>9. k = "eager" => Len(h) = 2 /\ Len(g) = 1 /\ g[1] = "203" /\ Len(b) = AskedLen
  OBVIOUS
<1>10. k # "eager" => Len(h) = HeaderLen(k) + 2 /\ Len(g) = 0
  OBVIOUS
<1>2. Continues(Rest(u), d, m) /\ Len(m) = Len(g) + Len(b)
  BY SharedBody
<1>3. u[1] = [sym |-> "203", tag |-> t]
  <2>1. /\ w \in Seq(InSym) /\ Len(w) = Len(h) + Len(b)
        /\ \A i \in 1 .. Len(h) : w[i] = h[i]
    BY ConcatElements
  <2> HIDE DEF w
  <2>2. w[1] = "203" /\ 1 \in 1 .. Len(w)
    BY <1>1, <2>1
  <2> QED
    BY <2>1, <2>2, UntaggedElements
<1>4. k = "eager" => m[1] = [sym |-> "203", tag |-> t]
  <2> SUFFICES ASSUME k = "eager" PROVE m[1] = [sym |-> "203", tag |-> t]
    OBVIOUS
  <2>1. /\ x \in Seq(InSym) /\ Len(x) = Len(g) + Len(b)
        /\ \A i \in 1 .. Len(g) : x[i] = g[i]
    BY ConcatElements
  <2> HIDE DEF x
  <2>3. Len(g) = 1 /\ g[1] = "203"
    BY <1>9
  <2>2. x[1] = "203" /\ 1 \in 1 .. Len(x)
    BY <1>1, <2>1, <2>3
  <2>4. \A i \in 1 .. Len(x) : m[i] = [sym |-> x[i], tag |-> t]
    BY <2>1, UntaggedElements
  <2> HIDE DEF m
  <2> QED
    BY <2>2, <2>4
<1>5. d = IF k = "eager" THEN 1 ELSE - HeaderLen(k)
  <2>1. HeaderLen(k) \in Nat
    BY DEF HeaderLen
  <2>2. CASE k = "eager"
    <3>1. Len(g) = 1 /\ Len(h) = 2
      BY <1>9, <2>2
    <3>2. d = 1
      BY <3>1
    <3> HIDE DEF d
    <3> QED
      BY <2>2, <3>2
  <2>3. CASE k # "eager"
    BY <1>10, <2>1, <2>3
  <2> QED
    BY <2>2, <2>3
<1>6. Untagged(r.wire, t) = u /\ Untagged(r.means, t) = m
  OBVIOUS
<1> HIDE DEF u, m, d
<1>7. CASE k = "eager"
  <2>1. Len(m) = AskedLen + 1
    <3>1. Len(g) = 1 /\ Len(b) = AskedLen
      BY <1>7, <1>9
    <3> QED
      BY <1>1, <1>2, <3>1
  <2>2. m[1] = u[1] /\ Continues(Rest(u), 1, m)
    BY <1>2, <1>3, <1>4, <1>5, <1>7
  <2> QED
    BY <1>3, <1>6, <1>7, <2>1, <2>2 DEF ReplyTells, HeadTells
<1>8. CASE k # "eager"
  <2>1. StreamTells(Rest(u), k, m)
    BY <1>2, <1>5, <1>8 DEF StreamTells
  <2> QED
    BY <1>3, <1>6, <1>8, <2>1 DEF ReplyTells, HeadTells
<1> QED
  BY <1>7, <1>8

LEMMA RepliesTell ==
  ASSUME NEW k \in OpKind, NEW t \in Tag, NEW r \in Reply(k)
  PROVE  ReplyTells(r, k, t)
<1> DEFINE refusal == {[wire |-> <<c, "LF">>, means |-> <<c>>] : c \in {"4xx", "unknown"}}
<1>1. Bodies \subseteq Seq(InSym)
  BY SessionAssumption
<1>2. ASSUME NEW c \in {"200", "4xx", "unknown", "204"},
             r = [wire |-> <<c, "LF">>, means |-> <<c>>]
      PROVE  ReplyTells(r, k, t)
  BY <1>2, StatusReplyTells
<1>3. CASE r \in refusal
  BY <1>2, <1>3
<1>4. CASE k = "line" /\ r \notin refusal
  <2>1. \/ r = [wire |-> <<"200", "LF">>, means |-> <<"200">>]
        \/ \E c \in {"text", "200"} :
             r = [wire |-> <<"202", "LF">> \o <<c>> \o <<"LF", "dot", "LF">>,
                  means |-> <<"202">> \o <<c>> \o <<"dot">>]
    BY <1>4 DEF Reply
  <2> QED
    BY <1>2, <1>4, <2>1, ListingTells
<1>5. CASE k = "eager" /\ r \notin refusal
  <2>1. PICK b \in Bodies : /\ Len(b) = AskedLen
                            /\ r = [wire |-> <<"203", "LF">> \o b, means |-> <<"203">> \o b]
    BY <1>5 DEF Reply
  <2> DEFINE h == <<"203", "LF">>
             g == <<"203">>
  <2>2. /\ h \in Seq(InSym) /\ Len(h) = 2 /\ h[1] = "203"
        /\ g \in Seq(InSym) /\ Len(g) = 1 /\ g[1] = "203"
    BY DEF InSym, Code
  <2>3. r.wire = h \o b /\ r.means = g \o b
    BY <2>1
  <2>4. b \in Seq(InSym)
    BY <1>1
  <2> HIDE DEF h, g
  <2>5. 2 <= Len(h) /\ (Len(g) = 0 \/ Len(h) = 2)
    BY <2>2
  <2>6. /\ k \in {"eager", "get", "range", "shot"}
        /\ k = "eager" => Len(h) = 2 /\ Len(g) = 1 /\ g[1] = "203" /\ Len(b) = AskedLen
        /\ k # "eager" => Len(h) = HeaderLen(k) + 2 /\ Len(g) = 0
    BY <1>5, <2>1, <2>2
  <2> QED
    BY <2>2, <2>3, <2>4, <2>5, <2>6, BodyReplyTells
<1>6. CASE k \in {"get", "range"} /\ r \notin refusal
  <2>1. PICK b \in Bodies : r = [wire |-> <<"203", "LF", "text">> \o b, means |-> b]
    BY <1>6 DEF Reply
  <2> DEFINE h == <<"203", "LF", "text">>
             g == <<>>
  <2>2. /\ h \in Seq(InSym) /\ Len(h) = 3 /\ h[1] = "203"
        /\ g \in Seq(InSym) /\ Len(g) = 0
    BY EmptySeq DEF InSym, Code, Text
  <2>3. b \in Seq(InSym)
    BY <1>1
  <2>4. r.wire = h \o b /\ r.means = g \o b
    BY <2>1, <2>3, ConcatEmptySeq
  <2>5. Len(h) = HeaderLen(k) + 2
    BY <1>6, <2>2 DEF HeaderLen
  <2> HIDE DEF h, g
  <2>6. /\ k \in {"eager", "get", "range", "shot"} /\ 2 <= Len(h)
        /\ k = "eager" => Len(h) = 2 /\ Len(g) = 1 /\ g[1] = "203" /\ Len(b) = AskedLen
        /\ k # "eager" => Len(h) = HeaderLen(k) + 2 /\ Len(g) = 0
    BY <1>6, <2>2, <2>5
  <2> QED
    BY <2>2, <2>3, <2>4, <2>6, BodyReplyTells
<1>7. CASE k = "shot" /\ r \notin refusal
  <2>1. PICK m \in {"text", "dot"}, b \in Bodies :
          r = [wire |-> <<"203", "LF", m, "LF">> \o b, means |-> b]
    BY <1>7 DEF Reply
  <2> DEFINE h == <<"203", "LF", m, "LF">>
             g == <<>>
  <2>2. /\ h \in Seq(InSym) /\ Len(h) = 4 /\ h[1] = "203"
        /\ g \in Seq(InSym) /\ Len(g) = 0
    BY EmptySeq DEF InSym, Code, Text
  <2>3. b \in Seq(InSym)
    BY <1>1
  <2>4. r.wire = h \o b /\ r.means = g \o b
    BY <2>1, <2>3, ConcatEmptySeq
  <2>5. Len(h) = HeaderLen(k) + 2
    BY <1>7, <2>2 DEF HeaderLen
  <2> HIDE DEF h, g
  <2>6. /\ k \in {"eager", "get", "range", "shot"} /\ 2 <= Len(h)
        /\ k = "eager" => Len(h) = 2 /\ Len(g) = 1 /\ g[1] = "203" /\ Len(b) = AskedLen
        /\ k # "eager" => Len(h) = HeaderLen(k) + 2 /\ Len(g) = 0
    <3>1. k \in {"eager", "get", "range", "shot"} /\ k # "eager" /\ Len(g) = 0
      BY <1>7, <2>2
    <3>2. 2 <= Len(h)
      <4>1. Len(h) = 4
        BY <2>2
      <4> QED
        BY <4>1
    <3> QED
      BY <2>5, <3>1, <3>2
  <2> QED
    BY <2>2, <2>3, <2>4, <2>6, BodyReplyTells
<1>8. CASE k \in {"send", "bye"} /\ r \notin refusal
  <2>1. \E c \in {"200", "204"} : r = [wire |-> <<c, "LF">>, means |-> <<c>>]
    BY <1>8 DEF Reply
  <2> QED
    BY <1>2, <2>1
<1> QED
  BY <1>3, <1>4, <1>5, <1>6, <1>7, <1>8 DEF OpKind

\* What the console says is the answer to the operation of those who hear it.
LEMMA SpeaksIsTold ==
  ASSUME Careful, Told, link = "up", ~ Quiet(toConsole, console),
         UNCHANGED <<engine, op, result>>, toConsole' = <<>>,
         answer' \in [Tag -> Seq(InSym)],
         NEW t \in Tag, t <= op.id, result.outcome # "err" => t # result.id,
         \A a \in Tag : a # t => answer'[a] = answer[a],
         console'.id <= op.id, console'.mode = "upload" => console'.id = t,
         op.at \in {"flush", "read"} /\ engine.mode = "AwaitingHead" =>
           /\ HeadTells(Incoming', op.kind, Answered')
           /\ op.kind = "bye" => link' = "fin" /\ Len(Incoming') = 2,
         (op.at \in {"flush", "read"} /\ engine.mode = "Idle") \/ op.at = "upload" =>
           StatusTells(Incoming', Answered')
  PROVE  Told'
<1>1. /\ op.at \notin {"write", "prefix", "body", "meta", "frame"}
      /\ op.at \in {"flush", "read"} =>
           /\ engine.mode \in {"AwaitingHead", "Idle"} \cup Dead
           /\ engine.mode = "Idle" => engine.events[1].kind = "SendBinary"
  BY Hears
<1>2. Pumped /\ Transferred /\ Parting /\ Settled /\ Numbered /\ Reported /\ Numbers
  BY CarefulNumbers DEF Told
<1>3. Answered' \in Seq(Byte)
  <2>1. answer'[op.id] \in Seq(InSym)
    BY <1>2 DEF Numbers
  <2> QED
    BY <1>2, <2>1, UntaggedFields DEF Answered, Numbers
<1>4. engine.mode # "Closed"
  BY <1>2 DEF Parting
<1>5. ASSUME op.at \in {"flush", "read"}
      PROVE  Tells(engine, Incoming', op.kind, Answered')
  <2>1. CASE engine.mode = "AwaitingHead"
    BY <1>3, <1>5, <2>1 DEF Tells
  <2>2. CASE engine.mode = "Idle"
    BY <1>1, <1>2, <1>3, <1>5, <2>2 DEF Tells, Pumped
  <2>3. CASE engine.mode = "Failed"
    <3>1. \A i \in 1 .. Len(engine.events) : engine.events[i].kind # "Closed"
      BY <1>2, <1>5, <2>3 DEF Pumped, Tells
    <3> QED
      BY <1>3, <2>3, <3>1 DEF Tells
  <2> QED
    BY <1>1, <1>4, <1>5, <2>1, <2>2, <2>3 DEF Dead
<1>6. Pumped'
  BY <1>1, <1>5 DEF Pumped
<1>7. Transferred'
  BY <1>1, <1>2 DEF Transferred
<1>8. Uploaded'
  BY DEF Uploaded
<1>9. Parting'
  BY <1>1, <1>4 DEF Parting
<1>10. Settled'
  BY <1>2 DEF Settled
<1>11. Len(toConsole') = 0
  BY EmptySeq
<1>12. Numbered'
  <2>1. \A a \in Tag : a > op.id => a # t /\ answer[a] = <<>>
    BY <1>2 DEF Numbered, Numbers
  <2>2. \A a \in Tag : a > op.id => answer'[a] = <<>>
    BY <2>1
  <2> QED
    BY <1>11, <2>2 DEF Numbered
<1>13. Reported'
  <2> SUFFICES ASSUME result.outcome # "err" PROVE Reported'
    BY DEF Reported
  <2>1. result.id \in Tag /\ answer'[result.id] = answer[result.id]
    BY <1>2 DEF Reported
  <2> QED
    BY <1>2, <1>11, <2>1 DEF Reported
<1> QED
  BY <1>6, <1>7, <1>8, <1>9, <1>10, <1>12, <1>13 DEF Told

\* What is sent comes after what is there.
LEMMA SentIsIncoming ==
  ASSUME Careful, UNCHANGED engine, NEW u \in Seq(Byte), toClient' = toClient \o u
  PROVE  Incoming' = Incoming \o u /\ (Incoming = <<>> => Incoming' = u)
<1> DEFINE i == engine.inbox
           w == toClient
<1>1. i \in Seq(Byte) /\ w \in Seq(Byte) /\ u \in Seq(Byte)
  BY DEF Careful, Typed, Engine
<1>2. Incoming' = i \o (w \o u) /\ Incoming = i \o w
  BY DEF Incoming
<1> HIDE DEF i, w
<1>3. (i \o w) \o u = i \o (w \o u)
  BY <1>1, Together
<1>4. Incoming' = Incoming \o u
  BY <1>2, <1>3
<1>5. <<>> \o u = u
  BY ConcatEmptySeq
<1> QED
  BY <1>4, <1>5

LEMMA AnswerIsTold ==
  ASSUME ~ ShortRanges, Careful, Told, ConsoleAnswers
  PROVE  Told'
<1> DEFINE t == toConsole[3].tag
           kind == toConsole[1].sym
<1>1. /\ link = "up" /\ console.mode = "command" /\ UNCHANGED <<engine, op, result>>
      /\ Len(toConsole) = 3 /\ LfAt(toConsole) = 3 /\ kind \in OpKind /\ t \in Tag
      /\ toConsole # <<>> /\ SubSeq(toConsole, 4, Len(toConsole)) = <<>>
  BY CommandGiven DEF ConsoleAnswers
<1>2. PICK r \in Reply(kind) :
        /\ toClient' = toClient \o Untagged(r.wire, t)
        /\ answer' = [answer EXCEPT ![t] = r.means]
        /\ toConsole' = SubSeq(toConsole, 3 + 1, Len(toConsole))
        /\ console' = IF r.wire[1] = "204"
                      THEN [mode |-> "upload", left |-> UploadLen, id |-> t]
                      ELSE console
        /\ link' = IF kind = "bye" THEN "fin" ELSE link
  BY <1>1 DEF ConsoleAnswers, Tagged
<1> DEFINE u == Untagged(r.wire, t)
           m == Untagged(r.means, t)
<1>3. t <= op.id /\ (result.outcome # "err" => t # result.id)
  <2>1. 3 \in 1 .. Len(toConsole)
    BY <1>1
  <2>2. toConsole[3].tag <= op.id
    BY <2>1 DEF Told, Numbered
  <2>3. result.outcome # "err" => toConsole[3].tag # result.id
    BY <1>1, <2>1 DEF Told, Reported
  <2> QED
    BY <2>2, <2>3
<1> HIDE DEF t, kind
<1>4. /\ r.means \in Seq(InSym)
      /\ u \in Seq(Byte) /\ 2 <= Len(u)
      /\ HeadFits(u, kind, t, Len(r.means))
  BY <1>1, RepliesFit DEF ReplyFits
<1>5. HeadTells(u, kind, m)
  BY <1>1, RepliesTell DEF ReplyTells
<1> HIDE DEF u, m
<1>6. kind = "bye" => Len(u) = 2
  <2>1. kind = "bye" => Len(u) <= 2
    BY <1>4 DEF HeadFits, StreamFits, Streamed
  <2> DEFINE n == Len(u)
  <2>2. n \in Nat /\ 2 <= n /\ (kind = "bye" => n <= 2)
    BY <1>4, <2>1, LenProperties
  <2> HIDE DEF n
  <2>3. kind = "bye" => n = 2
    BY <2>2
  <2> QED
    BY <2>3 DEF n
<1>7. toConsole' = <<>>
  BY <1>1, <1>2
<1>8. answer \in [Tag -> Seq(InSym)]
  BY DEF Careful, Typed
<1>9. /\ answer' \in [Tag -> Seq(InSym)] /\ answer'[t] = r.means
      /\ \A a \in Tag : a # t => answer'[a] = answer[a]
  BY <1>1, <1>2, <1>4, <1>8
<1>10. Numbers /\ console.id <= op.id
  BY CarefulNumbers DEF Told, Numbered
<1>11. console'.id <= op.id /\ (console'.mode = "upload" => console'.id = t)
  <2>1. CASE r.wire[1] = "204"
    BY <1>2, <1>3, <2>1
  <2>2. CASE r.wire[1] # "204"
    <3>1. console' = console
      BY <1>2, <2>2
    <3> QED
      BY <1>1, <1>10, <3>1
  <2> QED
    BY <2>1, <2>2
<1>12. ~ Quiet(toConsole, console)
  BY <1>1 DEF Quiet
<1>13. ASSUME op.at \in {"flush", "read"}, engine.mode = "AwaitingHead"
       PROVE  /\ HeadTells(Incoming', op.kind, Answered')
              /\ op.kind = "bye" => link' = "fin" /\ Len(Incoming') = 2
  <2>1. Asking(Incoming, op.kind, op.id, toConsole, console, link)
    BY <1>1, <1>12, <1>13, Hears
  <2>2. Incoming = <<>> /\ op.id = t /\ op.kind = kind
    <3>1. Incoming = <<>> /\ Own(toConsole, op.id) /\ toConsole[1].sym = op.kind
      BY <1>1, <2>1 DEF Asking
    <3>2. 3 \in 1 .. Len(toConsole)
      BY <1>1
    <3> QED
      BY <3>1, <3>2 DEF Own, t, kind
  <2>3. Incoming' = u
    <3>1. toClient' = toClient \o u
      BY <1>2 DEF u
    <3> QED
      BY <1>1, <1>4, <2>2, <3>1, SentIsIncoming
  <2>4. Answered' = m
    BY <1>1, <1>9, <2>2 DEF Answered, m
  <2> QED
    BY <1>2, <1>5, <1>6, <2>2, <2>3, <2>4
<1>14. /\ op.at # "upload"
       /\ ~ (op.at \in {"flush", "read"} /\ engine.mode = "Idle")
  BY <1>1, <1>12, Hears DEF Invited
<1> QED
  BY <1>1, <1>3, <1>7, <1>9, <1>11, <1>12, <1>13, <1>14, SpeaksIsTold

\* The verdict behind the invitation to upload.
LEMMA VerdictTells ==
  ASSUME NEW s \in Seq(Byte), Len(s) = 2, s[1].sym = "204",
         NEW u \in Seq(Byte), Len(u) = 2, NEW m, Len(m) = 1, m[1] = u[1]
  PROVE  HeadTells(s \o u, "send", m)
<1> DEFINE x == s \o u
           y == Rest(x)
<1>1. /\ x \in Seq(Byte) /\ Len(x) = 2 + 2
      /\ \A i \in 1 .. 2 + 2 : x[i] = IF i <= 2 THEN s[i] ELSE u[i - 2]
  <2>1. /\ x \in Seq(Byte) /\ Len(x) = Len(s) + Len(u)
        /\ \A i \in 1 .. Len(s) + Len(u) : x[i] = IF i <= Len(s) THEN s[i] ELSE u[i - Len(s)]
    BY ConcatProperties
  <2> QED
    BY <2>1
<1> HIDE DEF x
<1>2. x \in Seq(Byte) /\ Len(x) = 4 /\ x[1] = s[1] /\ x[3] = u[1]
  <2>1. \A i, j \in Int : i \in 3 .. 4 /\ j = i - 2 => x[i] = u[j]
    BY <1>1
  <2> QED
    BY <1>1, <2>1
<1>3. /\ Len(y) = IF 2 <= Len(x) THEN Len(x) - 2 ELSE 0
      /\ \A i \in 1 .. Len(y) : y[i] = x[i + 2]
  BY <1>2, RestFields
<1> HIDE DEF y
<1>4. y[1] = x[3]
  <2>1. Len(y) = 2
    BY <1>2, <1>3
  <2>2. \A i, j \in Int : i \in 1 .. 2 /\ j = i + 2 => y[i] = x[j]
    BY <1>3, <2>1
  <2> QED
    BY <2>2
<1>5. StatusTells(y, m)
  BY <1>2, <1>4 DEF StatusTells
<1>6. HeadTells(x, "send", m)
  BY <1>2, <1>5 DEF HeadTells, y
<1> QED
  BY <1>6 DEF x

LEMMA StoreIsTold ==
  ASSUME Careful, Told, ConsoleStores
  PROVE  Told'
<1> DEFINE q == toConsole
           k == Min2(console.left, Len(q))
           t == console.id
<1>1. /\ link = "up" /\ console.mode = "upload" /\ UNCHANGED <<engine, op, link, result>>
      /\ toConsole' = SubSeq(q, k + 1, Len(q))
  BY DEF ConsoleStores
<1>2. /\ toClient \in Seq(Byte) /\ console \in Console /\ op.left \in Nat
      /\ answer \in [Tag -> Seq(InSym)]
      /\ q \in Seq(OutByte) /\ Len(q) \in Nat
      /\ console.left \in Nat /\ t \in Tag
  BY LenProperties DEF Careful, Typed, Console, Op
<1>3. k = Len(q) /\ Len(q) <= console.left
  <2>1. Len(q) <= console.left
    BY <1>1 DEF Careful, ConsoleSide, LineOrPayload
  <2> QED
    BY <1>2, <2>1 DEF Min2
<1>4. toConsole' = <<>>
  <2>1. SubSeq(q, Len(q) + 1, Len(q)) = <<>>
    BY <1>2, SubSeqEmpty
  <2> QED
    BY <1>1, <1>3, <2>1
<1>5. ~ Quiet(toConsole, console)
  BY <1>1 DEF Quiet
<1>6. engine.mode = "AwaitingHead" =>
        /\ Fits(engine, Incoming, op.kind, op.id, Meant)
        /\ Asking(Incoming, op.kind, op.id, q, console, link)
  BY <1>1, <1>5, Hears
<1>7. op.at \in {"flush", "read"} /\ engine.mode = "Idle" =>
        Invited(Incoming, op.id, q, console)
  BY <1>1, <1>5, Hears
<1>8. op.at = "upload" => Uploading
  BY DEF Careful
<1>9. t <= op.id /\ (result.outcome # "err" => t # result.id)
  BY <1>1 DEF Told, Numbered, Reported
<1>10. engine.mode = "AwaitingHead" => t = op.id /\ op.kind # "bye"
  BY <1>1, <1>6 DEF Asking
<1> HIDE DEF q, k, t
<1>11. CASE Len(q) < console.left
  <2>1. /\ Len(q) > 0 /\ console' = [console EXCEPT !.left = @ - k]
        /\ UNCHANGED <<toClient, answer>>
    <3>1. k < console.left
      BY <1>3, <1>11
    <3>2. k > 0 /\ console' = [console EXCEPT !.left = @ - k] /\ UNCHANGED <<toClient, answer>>
      BY <3>1 DEF ConsoleStores, q, k
    <3> QED
      BY <1>3, <3>2
  <2>2. console'.id = t
    BY <1>2, <2>1 DEF Console, t
  <2>3. Incoming' = Incoming /\ Answered' = Answered
    BY <1>1, <2>1 DEF Incoming, Answered
  <2>4. q # <<>>
    <3>1. q = <<>> => Len(q) = 0
      BY EmptySeq
    <3> QED
      BY <1>2, <2>1, <3>1
  <2>5. ~ (op.at \in {"flush", "read"} /\ engine.mode = "Idle")
    BY <1>7, <2>4 DEF Invited
  <2>6. op.at \in {"flush", "read"} /\ engine.mode = "AwaitingHead" =>
          HeadTells(Incoming', op.kind, Answered')
    BY <2>3 DEF Told, Pumped, Tells
  <2>7. op.at = "upload" => StatusTells(Incoming', Answered')
    BY <2>3 DEF Told, Uploaded
  <2> QED
    BY <1>1, <1>2, <1>4, <1>5, <1>9, <1>10, <2>1, <2>2, <2>5, <2>6, <2>7, SpeaksIsTold
<1>12. CASE ~ (Len(q) < console.left)
  <2>1. PICK c \in {"200", "4xx"} :
          /\ toClient' = toClient \o Untagged(<<c, "LF">>, t)
          /\ answer' = [answer EXCEPT ![t] = <<c>>]
    <3>1. ~ (k < console.left)
      BY <1>3, <1>12
    <3> QED
      BY <3>1 DEF ConsoleStores, Tagged, q, k, t
  <2>2. console'.mode = "command" /\ console'.id = t
    <3>1. ~ (k < console.left)
      BY <1>3, <1>12
    <3>2. console' = [console EXCEPT !.mode = "command", !.left = 0]
      BY <3>1 DEF ConsoleStores, q, k
    <3> QED
      BY <1>2, <3>2 DEF Console, t
  <2> DEFINE u == Untagged(<<c, "LF">>, t)
             m == Untagged(<<c>>, t)
  <2>3. c \in Code /\ <<c>> \in Seq(InSym)
    BY DEF Code, LineCode, InSym
  <2>4. u \in Seq(Byte) /\ Len(u) = 2 /\ u[1].sym = c
    BY <1>2, <2>3, StatusReply
  <2>5. m \in Seq(Byte) /\ Len(m) = 1 /\ m[1] = u[1] /\ StatusTells(u, m)
    BY <1>2, <2>3, StatusIsAnswer
  <2>6. toClient' = toClient \o u /\ (t = op.id => Answered' = m)
    BY <1>1, <1>2, <2>1 DEF Answered
  <2> HIDE DEF u, m
  <2>7. Incoming' = Incoming \o u /\ (Incoming = <<>> => Incoming' = u)
    BY <1>1, <2>4, <2>6, SentIsIncoming
  <2>8. /\ answer' \in [Tag -> Seq(InSym)]
        /\ \A a \in Tag : a # t => answer'[a] = answer[a]
    BY <1>2, <2>1, <2>3
  <2>9. ASSUME engine.mode = "AwaitingHead"
        PROVE  HeadTells(Incoming', op.kind, Answered')
    <3>1. /\ op.kind \in {"send", "finish"}
          /\ Incoming # <<>> => Incoming[1].sym = "204"
          /\ op.kind = "send" => Len(Incoming) = 2
      BY <1>1, <1>6, <2>9 DEF Asking
    <3>2. HeadFits(Incoming, op.kind, op.id, Meant)
      BY <1>6, <2>9 DEF Fits
    <3>3. Incoming \in Seq(Byte) /\ Len(Incoming) \in Nat
      <4>1. engine.inbox \in Seq(Byte)
        BY DEF Careful, Typed, Engine
      <4> QED
        BY <1>2, <4>1, ConcatProperties, LenProperties DEF Incoming
    <3>4. CASE op.kind = "finish"
      <4>1. Incoming = <<>>
        <5>1. Incoming # <<>> => 1 <= Len(Incoming)
          BY <3>3, EmptySeq
        <5>2. ~ (1 <= Len(Incoming) /\ Incoming[1].sym = "204")
          BY <3>2, <3>4 DEF HeadFits
        <5> QED
          BY <3>1, <5>1, <5>2
      <4>2. HeadTells(u, op.kind, m)
        BY <2>4, <2>5 DEF HeadTells
      <4> QED
        BY <1>10, <2>6, <2>7, <2>9, <4>1, <4>2
    <3>5. CASE op.kind = "send"
      <4>1. Len(Incoming) = 2 /\ Incoming[1].sym = "204"
        <5>1. Incoming = <<>> => Len(Incoming) = 0
          BY EmptySeq
        <5> QED
          BY <3>1, <3>5, <5>1
      <4>2. HeadTells(Incoming \o u, "send", m)
        BY <2>4, <2>5, <3>3, <4>1, VerdictTells
      <4> QED
        BY <1>10, <2>6, <2>7, <2>9, <3>5, <4>2
    <3> QED
      BY <3>1, <3>4, <3>5
  <2>10. ASSUME (op.at \in {"flush", "read"} /\ engine.mode = "Idle") \/ op.at = "upload"
         PROVE  StatusTells(Incoming', Answered')
    <3>1. t = op.id /\ Incoming = <<>>
      <4>1. CASE op.at = "upload"
        BY <1>1, <1>8, <4>1 DEF Uploading, t
      <4>2. CASE op.at \in {"flush", "read"} /\ engine.mode = "Idle"
        BY <1>1, <1>7, <4>2 DEF Invited, t
      <4> QED
        BY <2>10, <4>1, <4>2
    <3> QED
      BY <2>5, <2>6, <2>7, <3>1
  <2> QED
    BY <1>1, <1>2, <1>4, <1>5, <1>9, <1>10, <2>2, <2>8, <2>9, <2>10, SpeaksIsTold
<1> QED
  BY <1>11, <1>12

-----------------------------------------------------------------------------
(* Every step, again.                                                      *)

LEMMA NextIsTold ==
  ASSUME ~ ShortRanges, Careful, Told, Next, op'.careless = {}
  PROVE  Told'
<1>1. CASE \/ PumpWrite \/ PumpFlush \/ PumpRead \/ PumpEof \/ PumpReadError
  BY <1>1, WriteIsTold, FlushIsTold, ReadIsTold, EofIsTold, ReadErrorIsTold
<1>2. CASE DownloadFails \/ DropDownload \/ ShotFails
  BY <1>2, GivesUpIsTold DEF DownloadFails, DropDownload, ShotFails
<1>3. CASE \/ ReadPrefix \/ PrefixFails \/ ReadBody \/ FinishDownload
           \/ ReadMeta \/ ParseMeta \/ ReadFrame \/ FrameDone
  BY <1>3, PrefixIsTold, PrefixFailsIsTold, BodyIsTold, DoneIsTold, MetaIsTold, ParseIsTold
<1>4. CASE WriteBody \/ FinishUpload
  BY <1>4, PayloadIsTold, FinishIsTold
<1>5. CASE \E kind \in Ops : StartOp(kind)
  BY <1>5, StartIsTold
<1>6. CASE CancelWrite \/ CancelRead
  BY <1>6, CancelWriteIsTold, CancelReadIsTold
<1>7. CASE DropUpload
  <2>1. op \in Op /\ Over(engine, "err", <<>>, {"upload"})
    BY <1>7 DEF DropUpload, Dropped, Careful, Typed
  <2>2. op'.careless = op.careless \cup {"upload"}
    BY <2>1 DEF Over, Op
  <2> QED
    BY <2>2
<1>8. CASE ConsoleAnswers \/ ConsoleStores
  BY <1>8, AnswerIsTold, StoreIsTold
<1>9. CASE ConsoleCloses \/ LinkBreaks
  BY <1>9, NetworkIsTold
<1> QED
  BY <1>1, <1>2, <1>3, <1>4, <1>5, <1>6, <1>7, <1>8, <1>9
  DEF Next, ClientStep, CallerStep, ConsoleStep

LEMMA ToldStep ==
  ASSUME ~ ShortRanges, SessionInv, ToldInv, [Next]_vars
  PROVE  ToldInv'
<1> SUFFICES ASSUME op'.careless = {} PROVE Told'
  BY DEF ToldInv
<1>1. op.careless \subseteq op'.careless
  BY ShapeKept DEF SessionInv
<1>2. Careful /\ Told
  BY <1>1 DEF SessionInv, ToldInv
<1>3. CASE Next
  BY <1>2, <1>3, NextIsTold
<1>4. CASE UNCHANGED vars
  <2>1. UNCHANGED <<engine, op, toConsole, toClient, link, console, answer, result>>
    BY <1>4 DEF vars
  <2> QED
    BY <1>2, <2>1 DEF Told, Pumped, Transferred, Uploaded, Parting, Settled, Numbered,
                      Reported, Incoming, Answered
<1> QED
  BY <1>3, <1>4

\* Until somebody is careless, what the engine and the transfer have
\* collected is the beginning of the answer the console gave to the operation
\* under way, and what is on its way to the client is the rest of it
\* (Engine::advance, FileDownload::poll_read, screenshot).
THEOREM SessionTells ==
  ASSUME ~ ShortRanges
  PROVE  Spec => []ToldInv
<1>1. Init => ToldInv
  BY InitIsTold DEF ToldInv
<1>2. SessionInv /\ ToldInv /\ [Next]_vars => ToldInv'
  BY ToldStep
<1>3. Spec => []SessionInv
  BY SessionCorrect
<1> QED
  BY <1>1, <1>2, <1>3, PTL DEF Spec

\* What an operation reports is what the console answered to it: all of it,
\* in order, and nothing else, wherever the stream was cut and whatever was
\* dropped or lost before (Client::run, get_file, FileDownload, screenshot).
THEOREM AnswersExact ==
  ASSUME ~ ShortRanges
  PROVE  Spec => []AnswersAreExact
<1>1. ToldInv => AnswersAreExact
  BY DEF ToldInv, Told, Reported, AnswersAreExact
<1> QED
  BY <1>1, SessionTells, PTL

-----------------------------------------------------------------------------
(* After a dropped flush.  What the operation waited for may stay in the   *)
(* engine's queue, and the next operation takes it for its own answer.     *)
(* Whatever is left there is whole, and whoever takes it leaves the engine *)
(* waiting for a head, so that nobody ever reads on.                       *)

\* Operations with a number below this one are over.
Upto == IF op.at \in {"idle", "gone"} THEN op.id + 1 ELSE op.id

World == [n |-> Upto, q |-> toConsole, c |-> console, l |-> link, a |-> answer]

\* The console has no more to say to operation t.
Through(t, w) ==
  w.l = "up" => /\ \A i \in 1 .. Len(w.q) : w.q[i].tag # t
                /\ w.c.mode = "upload" => w.c.id # t

\* An invitation, or all that is ever said to an operation that is over.
Given(d, w) ==
  \/ d \in Invitation
  \/ \E t \in Tag : t < w.n /\ d = Untagged(w.a[t], t) /\ Through(t, w)

\* What was said to the end stays said.
Later(v, w) ==
  /\ v.n \in Nat /\ w.n \in Nat /\ v.n <= w.n
  /\ \A t \in Tag : t < v.n /\ Through(t, v) => w.a[t] = v.a[t] /\ Through(t, w)

\* The verdict on an empty upload may have come with the invitation to it.
Verdict(s, w) ==
  LfAt(s) = 0 \/ /\ Len(s) = 2 /\ LfAt(s) = 2 /\ s[1].sym \in {"200", "201", "4xx"}
                 /\ Given(<<s[1]>>, w)

WholeEvents(s, w) ==
  \A i \in 1 .. Len(s) : s[i].kind \in AnswerKind \ {"BinaryHead"} /\ Given(s[i].data, w)

Leftover(e, w) ==
  1 <= Len(e.events) /\ WholeEvents(e.events, w) /\ Verdict(e.inbox, w)

AstrayTyped ==
  /\ engine \in Engine /\ op \in Op /\ toConsole \in Seq(OutByte) /\ console \in Console
  /\ DOMAIN answer = Tag

AstrayWaits ==
  /\ op.at \in {"idle", "gone", "write", "flush", "upload"}
  /\ op.at \in {"write", "flush"} => engine.mode = "AwaitingHead"
  /\ op.at = "write" => op.kind \in OpKind
  /\ op.at = "flush" => op.kind \in OpKind \cup {"finish"}

AstrayKeeps ==
  op.at \in {"write", "flush"} \/ (op.at \in {"idle", "upload"} /\ engine.mode = "Idle") =>
    Leftover(engine, World)

AstrayReports == result.outcome # "err" => Given(result.data, World)

Astray == AstrayTyped /\ Line /\ AstrayWaits /\ AstrayKeeps /\ AstrayReports

AstrayInv == op.careless = {"flush"} => Astray

LEMMA GivenLater ==
  ASSUME NEW v, NEW w, Later(v, w), NEW d, Given(d, v)
  PROVE  Given(d, w)
<1>1. CASE d \in Invitation
  BY <1>1 DEF Given
<1>2. ASSUME NEW t \in Tag, t < v.n, d = Untagged(v.a[t], t), Through(t, v)
      PROVE  Given(d, w)
  <2>1. t \in Nat
    BY SessionAssumption
  <2>2. t < w.n /\ w.a[t] = v.a[t] /\ Through(t, w)
    BY <1>2, <2>1 DEF Later
  <2> QED
    BY <1>2, <2>2 DEF Given
<1> QED
  BY <1>1, <1>2 DEF Given

LEMMA LeftoverLater ==
  ASSUME NEW v, NEW w, Later(v, w), NEW e, Leftover(e, v)
  PROVE  Leftover(e, w)
<1>1. \A d : Given(d, v) => Given(d, w)
  BY GivenLater
<1>2. WholeEvents(e.events, w)
  BY <1>1 DEF Leftover, WholeEvents
<1>3. Verdict(e.inbox, w)
  <2> DEFINE d == <<e.inbox[1]>>
  <2>1. Given(d, v) => Given(d, w)
    BY <1>1
  <2> HIDE DEF d
  <2>2. Verdict(e.inbox, v)
    BY DEF Leftover
  <2> QED
    BY <2>1, <2>2 DEF Verdict, d
<1> QED
  BY <1>2, <1>3 DEF Leftover

LEMMA AstrayNumbers ==
  ASSUME Astray
  PROVE  /\ op.id \in Tag /\ op.id \in Nat /\ Upto \in Nat
         /\ console.id \in Tag /\ \A t \in Tag : t \in Nat
<1>1. op.id \in Tag /\ console.id \in Tag
  BY DEF Astray, AstrayTyped, Op, Console
<1>2. \A t \in Tag : t \in Nat
  BY SessionAssumption
<1> QED
  BY <1>1, <1>2 DEF Upto

LEMMA WorldFields ==
  /\ World.n = Upto /\ World.q = toConsole /\ World.c = console
  /\ World.l = link /\ World.a = answer
BY DEF World

\* A step of the client adds nothing to what is past.
LEMMA ClientIsLater ==
  ASSUME Astray, op.at \notin {"idle", "gone"}, op'.id = op.id, Adds,
         UNCHANGED <<link, console, answer>>
  PROVE  Later(World, World')
<1>1. World'.n = Upto' /\ World'.q = toConsole' /\ World'.c = console
      /\ World'.l = link /\ World'.a = answer
  BY DEF World
<1>2. Upto = op.id /\ Upto' \in {op.id, op.id + 1} /\ op.id \in Nat
  BY AstrayNumbers DEF Upto
<1>3. ASSUME NEW t \in Tag, t < op.id, Through(t, World)
      PROVE  Through(t, World')
  <2>1. t \in Nat
    BY SessionAssumption
  <2> SUFFICES ASSUME link = "up" PROVE Through(t, World')
    BY <1>1 DEF Through
  <2>2. /\ \A i \in 1 .. Len(toConsole) : toConsole[i].tag # t
        /\ console.mode = "upload" => console.id # t
    BY <1>3, WorldFields DEF Through
  <2>3. \A i \in 1 .. Len(toConsole') : toConsole'[i].tag # t
    BY <1>2, <1>3, <2>1, <2>2 DEF Adds
  <2> QED
    BY <1>1, <2>2, <2>3 DEF Through
<1>4. Upto' \in Nat /\ Upto <= Upto'
  BY <1>2
<1> QED
  BY <1>1, <1>2, <1>3, <1>4, WorldFields DEF Later

LEMMA OverIsAstray ==
  ASSUME Astray, NEW e \in Engine, e.outbox = <<>>, e.mode = "Idle" => Leftover(e, World),
         NEW outcome, NEW data, outcome # "err" => Given(data, World),
         NEW careless \in SUBSET {"upload", "flush"}, Over(e, outcome, data, careless),
         op.at \notin {"idle", "gone"}, Adds,
         toConsole' \in Seq(OutByte), UNCHANGED <<link, console, answer>>
  PROVE  Astray'
<1> DEFINE at == IF op.kind = "bye" \/ (op.kind = "banner" /\ outcome # "ok")
                 THEN "gone" ELSE "idle"
<1>1. /\ engine' = e
      /\ op' = [op EXCEPT !.at = at, !.left = 0, !.buf = <<>>, !.got = <<>>,
                          !.careless = @ \cup careless]
      /\ result' = [kind |-> op.kind, id |-> op.id, outcome |-> outcome, data |-> data]
  BY DEF Over
<1>2. at \in {"gone", "idle"} /\ op \in Op
  BY DEF Astray, AstrayTyped
<1> HIDE DEF at
<1>3. op' \in Op /\ op'.at = at /\ op'.id = op.id
  <2>1. <<>> \in Seq(Byte) /\ at \in At
    BY <1>2, EmptySeq DEF At
  <2> QED
    BY <1>1, <1>2, <2>1 DEF Op
<1>4. result'.outcome = outcome /\ result'.data = data
  BY <1>1
<1>5. Later(World, World')
  BY <1>3, ClientIsLater
<1>6. AstrayTyped'
  BY <1>1, <1>3 DEF Astray, AstrayTyped
<1>7. AstrayWaits' /\ Line'
  BY <1>1, <1>2, <1>3 DEF AstrayWaits, Line
<1>8. AstrayKeeps'
  BY <1>1, <1>2, <1>3, <1>5, LeftoverLater DEF AstrayKeeps
<1>9. AstrayReports'
  BY <1>4, <1>5, GivenLater DEF AstrayReports
<1> QED
  BY <1>6, <1>7, <1>8, <1>9 DEF Astray

\* It goes on, over what is left in the queue.
LEMMA GoesOnAstray ==
  ASSUME Astray, Later(World, World'), NEW e \in Engine, engine' = e,
         op' \in Op, op'.at \in {"write", "flush", "upload"},
         e.outbox = IF op'.at = "write" THEN CommandLine(op'.kind, op'.id) ELSE <<>>,
         op'.at \in {"write", "flush"} => e.mode = "AwaitingHead",
         op'.at = "write" => op'.kind \in OpKind,
         op'.at = "flush" => op'.kind \in OpKind \cup {"finish"},
         op'.at \in {"write", "flush"} \/ e.mode = "Idle" => Leftover(e, World),
         toConsole' \in Seq(OutByte), UNCHANGED <<console, answer, result>>
  PROVE  Astray'
<1>1. AstrayTyped'
  BY DEF Astray, AstrayTyped
<1>2. AstrayWaits' /\ Line'
  BY DEF AstrayWaits, Line
<1>3. AstrayKeeps'
  BY LeftoverLater DEF AstrayKeeps
<1>4. AstrayReports'
  BY GivenLater DEF AstrayReports, Astray
<1> QED
  BY <1>1, <1>2, <1>3, <1>4 DEF Astray

\* The console and the network.
LEMMA OthersAstray ==
  ASSUME Astray, Later(World, World'), UNCHANGED <<engine, op, result>>,
         toConsole' \in Seq(OutByte), console' \in Console, DOMAIN answer' = Tag
  PROVE  Astray'
<1>1. AstrayTyped'
  BY DEF Astray, AstrayTyped
<1>2. AstrayWaits' /\ Line'
  BY DEF AstrayWaits, Line, Astray
<1>3. AstrayKeeps'
  BY LeftoverLater DEF AstrayKeeps, Astray
<1>4. AstrayReports'
  BY GivenLater DEF AstrayReports, Astray
<1> QED
  BY <1>1, <1>2, <1>3, <1>4 DEF Astray

LEMMA StartIsAstray ==
  ASSUME Astray, NEW kind \in Ops, StartOp(kind)
  PROVE  Astray'
<1> DEFINE t == op.id + 1
           n == IF kind = "eager" THEN AskedLen ELSE 0
           x == Submit(engine, kind, t, ExpectOf(kind), n)
<1>1. /\ op.at = "idle" /\ op.id < MaxOps /\ engine.mode = "Idle" /\ engine' = x
      /\ op' = [op EXCEPT !.kind = kind, !.at = "write", !.id = t]
      /\ UNCHANGED <<toConsole, link, console, answer, result>>
  BY DEF StartOp, CanSubmit
<1>2. Leftover(engine, World) /\ engine \in Engine /\ op \in Op /\ engine.outbox = <<>>
      /\ toConsole \in Seq(OutByte)
  BY <1>1 DEF Astray, AstrayTyped, AstrayKeeps, Line
<1>3. /\ kind \in OpKind /\ kind \in Word /\ t \in Tag /\ t \in Nat /\ n \in Nat
      /\ ExpectOf(kind) \in Expect
  <2>1. op.id \in Tag
    BY AstrayNumbers
  <2> QED
    BY <1>1, <2>1, SessionAssumption DEF ExpectOf, Expect
<1>4. World' = World /\ Upto \in Nat
  <2>1. op'.at = "write" /\ op'.id = t
    BY <1>1, <1>2 DEF Op
  <2>2. Upto' = Upto
    BY <1>1, <2>1 DEF Upto
  <2> QED
    BY <1>1, <2>2, AstrayNumbers DEF World
<1>5. Later(World, World')
  BY <1>4, WorldFields DEF Later
<1> HIDE DEF t, n
<1>6. x \in Engine /\ x.mode = "AwaitingHead" /\ x.events = engine.events
  BY <1>2, <1>3, SubmitFields
<1>7. x.inbox = engine.inbox /\ x.outbox = engine.outbox \o CommandLine(kind, t)
  BY <1>2 DEF Submit, Engine
<1>8. x.outbox = CommandLine(kind, t)
  BY <1>2, <1>3, <1>7, CommandLineFields, ConcatEmptySeq
<1> HIDE DEF x
<1>9. op' \in Op /\ op'.kind = kind /\ op'.at = "write" /\ op'.id = t
  BY <1>1, <1>2, <1>3 DEF Op, At
<1>10. Leftover(x, World)
  BY <1>2, <1>6, <1>7 DEF Leftover
<1> QED
  BY <1>1, <1>2, <1>3, <1>5, <1>6, <1>8, <1>9, <1>10, GoesOnAstray

\* What a client puts on the wire is its own.
LEMMA OwnBytesAdded ==
  ASSUME NEW q \in Seq(OutByte), NEW z \in Seq(OutByte), NEW t, Own(z, t)
  PROVE  /\ q \o z \in Seq(OutByte)
         /\ \A i \in 1 .. Len(q \o z) : \/ (q \o z)[i].tag = t
                                        \/ \E j \in 1 .. Len(q) : (q \o z)[i].tag = q[j].tag
<1> DEFINE x == q \o z
<1>1. /\ x \in Seq(OutByte) /\ Len(x) = Len(q) + Len(z)
      /\ \A i \in 1 .. Len(q) + Len(z) : x[i] = IF i <= Len(q) THEN q[i] ELSE z[i - Len(q)]
      /\ Len(q) \in Nat /\ Len(z) \in Nat
  BY ConcatProperties, LenProperties
<1> HIDE DEF x
<1>2. ASSUME NEW i \in 1 .. Len(x)
      PROVE  x[i].tag = t \/ \E j \in 1 .. Len(q) : x[i].tag = q[j].tag
  <2>1. CASE i <= Len(q)
    BY <1>1, <1>2, <2>1
  <2>2. CASE ~ (i <= Len(q))
    <3>1. i - Len(q) \in 1 .. Len(z) /\ x[i] = z[i - Len(q)]
      BY <1>1, <1>2, <2>2
    <3> QED
      BY <3>1 DEF Own
  <2> QED
    BY <2>1, <2>2
<1> QED
  BY <1>1, <1>2 DEF x

LEMMA LineIsOwn ==
  ASSUME Astray, op.at = "write"
  PROVE  LET s == engine.outbox
         IN /\ s \in Seq(OutByte) /\ Own(s, op.id)
            /\ \A k \in 0 .. Len(s) : SubSeq(s, 1, k) \in Seq(OutByte) /\ Own(SubSeq(s, 1, k), op.id)
<1> DEFINE s == engine.outbox
<1>1. op.kind \in Word /\ op.id \in Tag /\ s = CommandLine(op.kind, op.id)
  BY AstrayNumbers, SessionAssumption DEF Astray, AstrayWaits, Line
<1>2. /\ s \in Seq(OutByte) /\ Len(s) = 3
      /\ s[1] = [sym |-> op.kind, tag |-> op.id]
      /\ s[2] = [sym |-> "CR", tag |-> op.id]
      /\ s[3] = [sym |-> "LF", tag |-> op.id]
  BY <1>1, CommandLineFields
<1> HIDE DEF s
<1>3. Own(s, op.id)
  <2>1. \A i \in 1 .. 3 : i \in {1, 2, 3}
    OBVIOUS
  <2> QED
    BY <1>2, <2>1 DEF Own
<1>4. ASSUME NEW k \in 0 .. Len(s)
      PROVE  SubSeq(s, 1, k) \in Seq(OutByte) /\ Own(SubSeq(s, 1, k), op.id)
  <2> DEFINE z == SubSeq(s, 1, k)
  <2>1. z \in Seq(OutByte) /\ Len(z) = k /\ \A i \in 1 .. k : z[i] = s[i]
    BY <1>2, TakeFields
  <2> HIDE DEF z
  <2>2. \A i \in 1 .. k : i \in 1 .. Len(s)
    BY <1>2
  <2>3. Own(z, op.id)
    BY <1>3, <2>1, <2>2 DEF Own
  <2> QED
    BY <2>1, <2>3 DEF z
<1> QED
  BY <1>2, <1>3, <1>4 DEF s

LEMMA WriteIsAstray ==
  ASSUME Astray, PumpWrite \/ CancelWrite
  PROVE  Astray'
<1> DEFINE x == Send(engine, Len(engine.outbox))
<1>1. /\ op.at = "write" /\ engine \in Engine /\ op \in Op /\ toConsole \in Seq(OutByte)
      /\ engine.mode = "AwaitingHead" /\ op.kind \in OpKind /\ Leftover(engine, World)
      /\ UNCHANGED <<link, console, answer>>
  BY DEF PumpWrite, CancelWrite, Astray, AstrayTyped, AstrayWaits, AstrayKeeps
<1>2. x \in Engine /\ x.outbox = <<>> /\ x.inbox = engine.inbox /\ Same(engine, x)
  BY <1>1, SendAll
<1>3. x.mode = "AwaitingHead" /\ x.events = engine.events
  BY <1>1, <1>2 DEF Same
<1>4. \/ /\ op' = [op EXCEPT !.at = "flush"] /\ engine' = x /\ UNCHANGED result
         /\ toConsole' = toConsole \o engine.outbox
      \/ /\ Over(x, "err", <<>>, {})
         /\ \/ UNCHANGED toConsole
            \/ \E k \in 0 .. Len(engine.outbox) :
                 toConsole' = toConsole \o SubSeq(engine.outbox, 1, k)
  BY DEF PumpWrite, CancelWrite, Await, Return
<1> HIDE DEF x
<1>5. toConsole' \in Seq(OutByte) /\ Adds
  <2>1. CASE UNCHANGED toConsole
    BY <1>1, <2>1 DEF Adds
  <2>2. ASSUME NEW z \in Seq(OutByte), Own(z, op.id), toConsole' = toConsole \o z
        PROVE  toConsole' \in Seq(OutByte) /\ Adds
    BY <1>1, <2>2, OwnBytesAdded DEF Adds
  <2>3. CASE toConsole' = toConsole \o engine.outbox
    BY <1>1, <2>2, <2>3, LineIsOwn
  <2>4. ASSUME NEW k \in 0 .. Len(engine.outbox),
               toConsole' = toConsole \o SubSeq(engine.outbox, 1, k)
        PROVE  toConsole' \in Seq(OutByte) /\ Adds
    BY <1>1, <2>2, <2>4, LineIsOwn
  <2> QED
    BY <1>4, <2>1, <2>3, <2>4
<1>6. CASE Over(x, "err", <<>>, {})
  BY <1>1, <1>2, <1>3, <1>5, <1>6, OverIsAstray
<1>7. CASE op' = [op EXCEPT !.at = "flush"] /\ engine' = x /\ UNCHANGED result
  <2>1. op' \in Op /\ op'.at = "flush" /\ op'.kind = op.kind /\ op'.id = op.id
    BY <1>1, <1>7 DEF Op, At
  <2>2. Leftover(x, World)
    BY <1>1, <1>2, <1>3 DEF Leftover
  <2>3. Later(World, World')
    BY <1>1, <1>5, <2>1, ClientIsLater
  <2> QED
    BY <1>1, <1>2, <1>3, <1>5, <1>7, <2>1, <2>2, <2>3, GoesOnAstray
<1> QED
  BY <1>4, <1>6, <1>7

LEMMA PayloadIsAstray ==
  ASSUME Astray, WriteBody
  PROVE  Astray'
<1>1. /\ op.at = "upload" /\ op.left > 0 /\ UNCHANGED <<link, console, answer>>
      /\ engine \in Engine /\ op \in Op /\ engine.outbox = <<>> /\ toConsole \in Seq(OutByte)
      /\ engine.mode = "Idle" => Leftover(engine, World)
      /\ op.id \in Tag /\ op.left \in Nat
  BY AstrayNumbers DEF WriteBody, Astray, AstrayTyped, AstrayKeeps, Line, Op
<1>2. CASE Return(engine, "err", <<>>) /\ UNCHANGED toConsole
  <2>1. Over(engine, "err", <<>>, {}) /\ Adds /\ toConsole' \in Seq(OutByte)
    BY <1>1, <1>2 DEF Return, Adds
  <2> QED
    BY <1>1, <2>1, OverIsAstray
<1>3. ASSUME NEW k \in 1 .. op.left,
             toConsole' = toConsole \o [i \in 1 .. k |-> [sym |-> "payload", tag |-> op.id]],
             Await(engine, [op EXCEPT !.left = @ - k])
      PROVE  Astray'
  <2>1. /\ toConsole' \in Seq(OutByte) /\ Len(toConsole') = Len(toConsole) + k
        /\ \A i \in 1 .. Len(toConsole') :
             toConsole'[i] = IF i <= Len(toConsole) THEN toConsole[i]
                             ELSE [sym |-> "payload", tag |-> op.id]
    <3>1. k \in Nat
      BY <1>1, <1>3
    <3> QED
      BY <1>1, <1>3, <3>1, PayloadFields
  <2>2. Adds
    <3>1. Len(toConsole) \in Nat
      BY <1>1, LenProperties
    <3>2. \A i \in 1 .. Len(toConsole') : i <= Len(toConsole) => i \in 1 .. Len(toConsole)
      BY <1>1, <1>3, <2>1, <3>1
    <3> QED
      BY <2>1, <3>2 DEF Adds
  <2>3. engine' = engine /\ UNCHANGED result /\ op' = [op EXCEPT !.left = @ - k]
    BY <1>3 DEF Await
  <2>4. op' \in Op /\ op'.at = "upload" /\ op'.id = op.id
    <3>1. op.left - k \in Nat
      BY <1>1, <1>3
    <3> QED
      BY <1>1, <2>3, <3>1 DEF Op
  <2>5. Later(World, World')
    BY <1>1, <2>2, <2>4, ClientIsLater
  <2> QED
    BY <1>1, <2>1, <2>3, <2>4, <2>5, GoesOnAstray
<1> QED
  BY <1>1, <1>2, <1>3 DEF WriteBody

LEMMA FinishIsAstray ==
  ASSUME Astray, FinishUpload
  PROVE  Astray'
<1> DEFINE x == ExpectResponse(engine)
<1>1. /\ op.at = "upload" /\ UNCHANGED <<toConsole, link, console, answer>>
      /\ engine \in Engine /\ op \in Op /\ engine.outbox = <<>> /\ toConsole \in Seq(OutByte)
      /\ engine.mode = "Idle" => Leftover(engine, World)
  BY DEF FinishUpload, Astray, AstrayTyped, AstrayKeeps, Line
<1>2. Adds
  BY <1>1, NothingAdded
<1>3. CASE CanSubmit(engine)
  <2>1. engine.mode = "Idle" /\ engine' = x /\ UNCHANGED result
        /\ op' = [op EXCEPT !.kind = "finish", !.at = "flush"]
    BY <1>3 DEF FinishUpload, CanSubmit, Await
  <2>2. /\ x \in Engine /\ x.mode = "AwaitingHead" /\ x.events = engine.events
        /\ x.outbox = <<>> /\ x.inbox = engine.inbox
    BY <1>1 DEF ExpectResponse, Engine, Mode, Expect
  <2> HIDE DEF x
  <2>3. Leftover(x, World)
    BY <1>1, <2>1, <2>2 DEF Leftover
  <2>4. op' \in Op /\ op'.at = "flush" /\ op'.kind = "finish" /\ op'.id = op.id
    BY <1>1, <2>1 DEF Op, At
  <2>5. Later(World, World')
    BY <1>1, <1>2, <2>4, ClientIsLater
  <2> QED
    BY <1>1, <2>1, <2>2, <2>3, <2>4, <2>5, GoesOnAstray
<1>4. CASE ~ CanSubmit(engine)
  <2>1. Over(engine, "err", <<>>, {}) /\ engine.mode # "Idle"
    BY <1>4 DEF FinishUpload, CanSubmit, Return
  <2> QED
    BY <1>1, <1>2, <2>1, OverIsAstray
<1> QED
  BY <1>3, <1>4

\* Again in a pending flush.
LEMMA CancelIsAstray ==
  ASSUME Astray, CancelRead
  PROVE  Astray'
<1>1. /\ op.at = "flush" /\ UNCHANGED <<toConsole, link, console, answer>>
      /\ engine \in Engine /\ engine.outbox = <<>> /\ toConsole \in Seq(OutByte)
      /\ Leftover(engine, World)
  BY DEF CancelRead, Astray, AstrayTyped, AstrayWaits, AstrayKeeps, Line
<1>2. Over(engine, "err", <<>>, {"flush"} \cap {op.at})
  BY DEF CancelRead, Dropped
<1>3. {"flush"} \cap {op.at} \in SUBSET {"upload", "flush"} /\ Adds
  BY <1>1, NothingAdded
<1> QED
  BY <1>1, <1>2, <1>3, OverIsAstray

\* What an engine that had something left in its queue looks like after it
\* was polled: only a verdict can have been read, and nothing is behind it.
Read(x, e, w) ==
  /\ x \in Engine /\ x.outbox = <<>>
  /\ 1 <= Len(x.events) /\ x.events[1] = e.events[1]
  /\ \/ x = e
     \/ x.mode = "Failed"
     \/ /\ x.mode = "Idle" /\ x.inbox = <<>> /\ 2 <= Len(x.events)
        /\ WholeEvents(x.events, w)

LEMMA AppendFields ==
  ASSUME NEW s \in Seq(Event), 1 <= Len(s), NEW ev \in Event
  PROVE  LET x == Append(s, ev)
         IN /\ x \in Seq(Event) /\ 2 <= Len(x) /\ x[1] = s[1]
            /\ \A w : WholeEvents(s, w) /\ ev.kind \in AnswerKind \ {"BinaryHead"}
                      /\ Given(ev.data, w) => WholeEvents(x, w)
<1> DEFINE x == Append(s, ev)
<1>1. /\ x \in Seq(Event) /\ Len(x) = Len(s) + 1 /\ Len(s) \in Nat
      /\ \A i \in 1 .. Len(s) : x[i] = s[i]
      /\ x[Len(s) + 1] = ev
  BY AppendProperties, LenProperties
<1> HIDE DEF x
<1>2. \A i \in 1 .. Len(x) : i \in 1 .. Len(s) \/ i = Len(s) + 1
  BY <1>1
<1>3. ASSUME NEW w, WholeEvents(s, w), ev.kind \in AnswerKind \ {"BinaryHead"},
             Given(ev.data, w)
      PROVE  WholeEvents(x, w)
  BY <1>1, <1>2, <1>3 DEF WholeEvents
<1>4. x \in Seq(Event) /\ 2 <= Len(x) /\ x[1] = s[1]
  BY <1>1
<1> QED
  BY <1>3, <1>4 DEF x

LEMMA FailIsRead ==
  ASSUME NEW e, NEW x \in Engine, x.outbox = <<>>, x.events = e.events, 1 <= Len(e.events), NEW w
  PROVE  Read(Fail(x), e, w)
<1> DEFINE ev == [kind |-> "Failed", data |-> <<>>]
<1>1. /\ Fail(x) \in Engine /\ Fail(x).mode = "Failed" /\ Fail(x).outbox = <<>>
      /\ Fail(x).events = Append(x.events, ev)
  BY FailFields
<1>2. ev \in Event /\ x.events \in Seq(Event)
  BY EmptySeq DEF Event, EventKind, Engine
<1> HIDE DEF ev
<1>3. 2 <= Len(Append(x.events, ev)) /\ Append(x.events, ev)[1] = e.events[1]
      /\ Append(x.events, ev) \in Seq(Event)
  BY <1>2, AppendFields
<1>4. Len(Append(x.events, ev)) \in Nat
  BY <1>3, LenProperties
<1> QED
  BY <1>1, <1>3, <1>4 DEF Read

LEMMA VerdictIsRead ==
  ASSUME NEW e \in Engine, NEW w, e.mode = "AwaitingHead", e.outbox = <<>>, Leftover(e, w)
  PROVE  Read(Step(e), e, w)
<1> DEFINE s    == e.inbox
           p    == LfAt(s)
           line == SubSeq(s, 1, LineLen(s, p))
           rest == [e EXCEPT !.inbox = SubSeq(@, p + 1, Len(@))]
<1>1. s \in Seq(Byte) /\ s \o <<>> = s /\ 1 <= Len(e.events) /\ <<>> \in Seq(Byte)
      /\ Len(s) \in Nat
  BY ConcatEmptySeq, EmptySeq, LenProperties DEF Engine, Leftover
<1>2. Step(e) = IF Oversize(s) THEN Fail(e) ELSE IF p = 0 THEN e
                ELSE IF NonUtf8(line) THEN Fail(rest) ELSE OnHead(rest, line)
  BY DEF Step, WithLine
<1>3. Read(Fail(e), e, w) /\ Read(e, e, w)
  BY <1>1, FailIsRead DEF Read
<1>4. ASSUME p # 0
      PROVE  Read(Fail(rest), e, w) /\ Read(OnHead(rest, line), e, w)
  <2>1. Len(s) = 2 /\ p = 2 /\ s[1].sym \in {"200", "201", "4xx"} /\ Given(<<s[1]>>, w)
    BY <1>4 DEF Leftover, Verdict
  <2>2. s[2].sym = "LF"
    BY <1>1, <2>1, LfAtIsFirst
  <2>3. /\ line \in Seq(Byte) /\ Len(line) = 1 /\ line[1] = s[1]
        /\ rest \in Engine /\ rest.inbox \o <<>> = Rest(s)
        /\ rest.mode = e.mode /\ rest.events = e.events /\ rest.outbox = e.outbox
    BY <1>1, <1>4, <2>1, <2>2, TakesLine
  <2> HIDE DEF rest, line, p
  <2>4. rest.inbox = <<>>
    <3>1. Rest(s) = <<>>
      <4>1. Len(s) <= 2
        BY <2>1
      <4> HIDE DEF s
      <4> QED
        BY <1>1, <4>1, RestOfShort
    <3>2. rest.inbox \in Seq(Byte)
      BY <2>3 DEF Engine
    <3> QED
      BY <2>3, <3>1, <3>2, ConcatEmptySeq
  <2>5. line = <<s[1]>>
    <3>1. s[1] \in Byte
      BY <1>1, <2>1, ElementOfSeq
    <3>2. <<s[1]>> \in Seq(Byte) /\ Len(<<s[1]>>) = 1 /\ <<s[1]>>[1] = s[1]
      BY <3>1
    <3> QED
      BY <2>3, <3>2, OneByte
  <2>6. Read(Fail(rest), e, w)
    BY <1>1, <2>3, FailIsRead
  <2> DEFINE kind == IF s[1].sym = "4xx" THEN "RemoteError" ELSE "Line"
             ev   == [kind |-> kind, data |-> line]
             x    == Answer(rest, kind, line, "Idle")
  <2>7. OnHead(rest, line) = x
    <3>1. line # <<>> /\ HeadCode(line) = s[1].sym
      <4>1. line # <<>>
        BY <2>3, NotEmpty
      <4>2. s[1].sym \in Code
        BY <2>1 DEF Code, LineCode
      <4> QED
        BY <2>3, <4>1, <4>2 DEF HeadCode
    <3> QED
      BY <2>1, <3>1 DEF OnHead, LineCode
  <2>8. kind \in AnswerKind \ {"BinaryHead"} /\ "Idle" \in Mode
    BY DEF AnswerKind, Mode
  <2> HIDE DEF kind
  <2>9. ev \in Event /\ ev.kind = kind /\ ev.data = line
    BY <2>3, <2>8 DEF Event, EventKind
  <2>10. /\ x \in Engine /\ x.mode = "Idle" /\ x.inbox = <<>> /\ x.outbox = <<>>
         /\ x.events = Append(e.events, ev)
    BY <2>3, <2>4, <2>8, AnswerFields
  <2> HIDE DEF x, ev
  <2>11. /\ x.events \in Seq(Event) /\ 2 <= Len(x.events) /\ x.events[1] = e.events[1]
         /\ WholeEvents(x.events, w)
    <3>1. e.events \in Seq(Event) /\ WholeEvents(e.events, w) /\ Given(ev.data, w)
      BY <2>1, <2>5, <2>9 DEF Engine, Leftover
    <3> QED
      BY <1>1, <2>8, <2>9, <2>10, <3>1, AppendFields
  <2>12. Len(x.events) \in Nat
    BY <2>11, LenProperties
  <2>13. Read(x, e, w)
    BY <2>10, <2>11, <2>12 DEF Read
  <2> QED
    BY <2>6, <2>7, <2>13
<1> HIDE DEF rest, line, p
<1> QED
  BY <1>2, <1>3, <1>4

LEMMA LeftoverIsRead ==
  ASSUME NEW e \in Engine, NEW w, e.mode = "AwaitingHead", e.outbox = <<>>, Leftover(e, w)
  PROVE  Read(Advance(e), e, w)
<1> DEFINE S == {x \in Engine : Read(x, e, w)}
<1>1. e \in S /\ Len(e.inbox) \in Nat
  BY LenProperties DEF Read, Leftover, Engine
<1>2. ASSUME NEW x \in S PROVE Step(x) \in S
  <2>1. CASE x = e
    BY <2>1, VerdictIsRead DEF Read
  <2>2. CASE x # e
    <3>1. x.mode \in {"Failed", "Idle"}
      BY <1>2, <2>2 DEF Read
    <3>2. Step(x) = x
      BY <3>1 DEF Step
    <3> QED
      BY <1>2, <3>2
  <2> QED
    BY <2>1, <2>2
<1> HIDE DEF S
<1>3. Advance(e) \in S
  BY <1>1, <1>2, AdvanceStays
<1> QED
  BY <1>3 DEF S

LEMMA FirstIsFound ==
  ASSUME NEW s, Len(s) \in Nat, 1 <= Len(s), NEW K, s[1].kind \in K
  PROVE  EventAt(s, K) = 1
<1> DEFINE I == {i \in 1 .. Len(s) : s[i].kind \in K}
<1>1. EventAt(s, K) = IF I # {} THEN CHOOSE x \in I : \A y \in I : x <= y ELSE 0
  BY DEF EventAt, SelectInSeq, Min
<1>2. 1 \in I /\ \A y \in I : 1 <= y /\ y \in Nat
  OBVIOUS
<1> HIDE DEF I
<1>3. \E x \in I : \A y \in I : x <= y
  BY <1>2
<1>4. PICK x \in I : x = (CHOOSE z \in I : \A y \in I : z <= y) /\ \A y \in I : x <= y
  BY <1>3, Zenon
<1>5. x = 1
  BY <1>2, <1>4
<1> QED
  BY <1>1, <1>2, <1>4, <1>5

LEMMA FlushIsAstray ==
  ASSUME Astray, PumpFlush
  PROVE  Astray'
<1> DEFINE polled == Advance(engine)
           K      == Wanted(op.kind) \cup Dead
           i      == EventAt(polled.events, K)
           rest   == [polled EXCEPT !.events = SubSeq(@, i + 1, Len(@))]
           none   == [polled EXCEPT !.events = <<>>]
           ev     == engine.events[1]
<1>1. /\ op.at = "flush" /\ UNCHANGED <<toConsole, link, console, answer>>
      /\ engine \in Engine /\ op \in Op /\ engine.outbox = <<>> /\ toConsole \in Seq(OutByte)
      /\ engine.mode = "AwaitingHead" /\ op.kind \in OpKind \cup {"finish"}
      /\ Leftover(engine, World)
  BY DEF PumpFlush, Astray, AstrayTyped, AstrayWaits, AstrayKeeps, Line
<1>2. IF i = 0
      THEN IF IsTerminal(polled) THEN Return(none, "err", <<>>)
                                 ELSE Await(none, [op EXCEPT !.at = "read"])
      ELSE IF polled.events[i].kind \in Wanted(op.kind)
           THEN OnEvent(rest, polled.events[i])
           ELSE Return(rest, "err", <<>>)
  BY DEF PumpFlush, EventAt
<1>3. Read(polled, engine, World)
  BY <1>1, LeftoverIsRead
<1> HIDE DEF polled
<1>4. /\ polled \in Engine /\ polled.outbox = <<>> /\ polled.events[1] = ev
      /\ polled.events \in Seq(Event) /\ Len(polled.events) \in Nat /\ 1 <= Len(polled.events)
  BY <1>3, LenProperties DEF Read, Engine
<1>5. ev.kind \in AnswerKind \ {"BinaryHead"} /\ Given(ev.data, World)
  <2>1. 1 \in 1 .. Len(engine.events)
    <3>1. Len(engine.events) \in Nat
      BY <1>1, LenProperties DEF Engine
    <3> QED
      BY <1>1, <3>1 DEF Leftover
  <2> QED
    BY <1>1, <2>1 DEF Leftover, WholeEvents
<1>6. ev.kind \in Wanted(op.kind)
  BY <1>1, <1>5 DEF Wanted, OpKind
<1>7. i = 1
  <2>1. polled.events[1].kind \in K
    BY <1>4, <1>6
  <2> HIDE DEF K
  <2> QED
    BY <1>4, <2>1, FirstIsFound
<1> HIDE DEF i
<1>8. OnEvent(rest, ev)
  BY <1>2, <1>4, <1>6, <1>7
<1>9. rest \in Engine /\ rest.mode = polled.mode /\ rest.inbox = polled.inbox /\ rest.outbox = <<>>
  <2>1. i \in 0 .. Len(polled.events)
    BY <1>4, <1>7
  <2> QED
    BY <1>4, <2>1, QueueFields
<1>10. /\ Len(rest.events) = Len(polled.events) - 1
       /\ \A j \in 1 .. Len(polled.events) - 1 : rest.events[j] = polled.events[j + 1]
  <2> DEFINE x == polled.events
  <2>1. rest.events = SubSeq(x, 1 + 1, Len(x))
    BY <1>4, <1>7 DEF Engine
  <2>2. 1 \in 0 .. Len(x) /\ x \in Seq(Event)
    BY <1>4
  <2> HIDE DEF x
  <2>3. /\ Len(SubSeq(x, 1 + 1, Len(x))) = Len(x) - 1
        /\ \A j \in 1 .. Len(x) - 1 : SubSeq(x, 1 + 1, Len(x))[j] = x[j + 1]
    BY <2>2, DropFields
  <2> QED
    BY <2>1, <2>3 DEF x
<1> HIDE DEF rest
<1>11. rest.mode = "Idle" => Leftover(rest, World)
  <2> SUFFICES ASSUME rest.mode = "Idle" PROVE Leftover(rest, World)
    OBVIOUS
  <2>1. polled.inbox = <<>> /\ 2 <= Len(polled.events) /\ WholeEvents(polled.events, World)
    BY <1>1, <1>3, <1>9 DEF Read
  <2>2. Verdict(rest.inbox, World)
    <3>1. Len(rest.inbox) = 0
      BY <1>9, <2>1, EmptySeq
    <3>2. LfAt(rest.inbox) = 0
      BY <3>1, LfAtIsFirst
    <3> QED
      BY <3>2 DEF Verdict
  <2>3. 1 <= Len(rest.events)
    BY <1>4, <1>10, <2>1
  <2>4. ASSUME NEW j \in 1 .. Len(rest.events)
        PROVE  rest.events[j].kind \in AnswerKind \ {"BinaryHead"} /\ Given(rest.events[j].data, World)
    <3>1. j \in 1 .. Len(polled.events) - 1 /\ j + 1 \in 1 .. Len(polled.events)
      BY <1>4, <1>10, <2>4
    <3> QED
      BY <1>10, <2>1, <3>1 DEF WholeEvents
  <2> QED
    BY <2>2, <2>3, <2>4 DEF Leftover, WholeEvents
<1>12. Adds
  BY <1>1, NothingAdded
<1> HIDE DEF ev
<1>13. \/ Return(rest, "remote", ev.data) \/ Return(rest, "ok", ev.data)
       \/ Return(rest, "err", <<>>)
       \/ Await(rest, [op EXCEPT !.at = "upload", !.left = UploadLen])
  BY <1>5, <1>8 DEF OnEvent
<1>14. CASE Await(rest, [op EXCEPT !.at = "upload", !.left = UploadLen])
  <2>1. engine' = rest /\ UNCHANGED result /\ op' = [op EXCEPT !.at = "upload", !.left = UploadLen]
    BY <1>14 DEF Await
  <2>2. op' \in Op /\ op'.at = "upload" /\ op'.id = op.id
    <3>1. UploadLen \in Nat
      BY SessionAssumption
    <3> QED
      BY <1>1, <2>1, <3>1 DEF Op, At
  <2>3. Later(World, World')
    BY <1>1, <1>12, <2>2, ClientIsLater
  <2> QED
    BY <1>1, <1>9, <1>11, <2>1, <2>2, <2>3, GoesOnAstray
<1>15. ASSUME NEW outcome, NEW data, Over(rest, outcome, data, {}),
              outcome # "err" => data = ev.data
       PROVE  Astray'
  BY <1>1, <1>5, <1>9, <1>11, <1>12, <1>15, OverIsAstray
<1> QED
  BY <1>13, <1>14, <1>15 DEF Return

\* The console answers to an operation it is not through with.
LEMMA SpeaksIsLater ==
  ASSUME Astray, UNCHANGED <<engine, op, result>>, link = "up",
         NEW t \in Tag, ~ Through(t, World),
         \A a \in Tag : a # t => answer'[a] = answer[a],
         \A i \in 1 .. Len(toConsole') :
           \E j \in 1 .. Len(toConsole) : toConsole'[i].tag = toConsole[j].tag,
         console'.mode = "upload" =>
           console'.id = t \/ (console.mode = "upload" /\ console'.id = console.id)
  PROVE  Later(World, World')
<1>1. /\ World'.n = Upto' /\ World'.q = toConsole' /\ World'.c = console'
      /\ World'.l = link' /\ World'.a = answer'
  BY DEF World
<1>2. Upto' = Upto /\ Upto \in Nat
  BY AstrayNumbers DEF Upto
<1>3. ASSUME NEW a \in Tag, Through(a, World)
      PROVE  answer'[a] = answer[a] /\ Through(a, World')
  <2>1. a # t
    BY <1>3
  <2>2. /\ \A i \in 1 .. Len(toConsole) : toConsole[i].tag # a
        /\ console.mode = "upload" => console.id # a
    BY <1>3, WorldFields DEF Through
  <2>3. \A i \in 1 .. Len(toConsole') : toConsole'[i].tag # a
    BY <2>2
  <2>4. console'.mode = "upload" => console'.id # a
    BY <2>1, <2>2
  <2> QED
    BY <1>1, <2>1, <2>3, <2>4 DEF Through
<1> QED
  BY <1>1, <1>2, <1>3, WorldFields DEF Later

LEMMA AnswerIsAstray ==
  ASSUME Astray, ConsoleAnswers
  PROVE  Astray'
<1> DEFINE p == LfAt(toConsole)
           t == toConsole[p].tag
           kind == IF p = 3 /\ toConsole[1].sym \in OpKind THEN toConsole[1].sym ELSE "none"
<1>1. /\ link = "up" /\ console.mode = "command" /\ p > 0 /\ UNCHANGED <<engine, op, result>>
      /\ toConsole \in Seq(OutByte) /\ console \in Console /\ DOMAIN answer = Tag
  BY DEF ConsoleAnswers, Astray, AstrayTyped
<1>2. PICK r \in Reply(kind) :
        /\ answer' = [answer EXCEPT ![t] = r.means]
        /\ toConsole' = SubSeq(toConsole, p + 1, Len(toConsole))
        /\ console' = IF r.wire[1] = "204"
                      THEN [mode |-> "upload", left |-> UploadLen, id |-> t]
                      ELSE console
  BY DEF ConsoleAnswers
<1>3. p \in 1 .. Len(toConsole) /\ Len(toConsole) \in Nat
  BY <1>1, LenProperties, LfAtIsFirst
<1>4. t \in Tag
  <2>1. toConsole[p] \in OutByte
    BY <1>1, <1>3, ElementOfSeq
  <2> QED
    BY <2>1 DEF OutByte
<1> HIDE DEF t, kind, p
<1>5. /\ toConsole' \in Seq(OutByte) /\ Len(toConsole') = Len(toConsole) - p
      /\ \A i \in 1 .. Len(toConsole) - p : toConsole'[i] = toConsole[i + p]
  <2>1. p \in 0 .. Len(toConsole)
    BY <1>3
  <2> QED
    BY <1>1, <1>2, <2>1, DropFields
<1>6. \A i \in 1 .. Len(toConsole') :
        \E j \in 1 .. Len(toConsole) : toConsole'[i].tag = toConsole[j].tag
  <2>1. \A i \in 1 .. Len(toConsole) - p : i + p \in 1 .. Len(toConsole)
    BY <1>3
  <2> QED
    BY <1>5, <2>1
<1>7. ~ Through(t, World)
  BY <1>1, <1>3, WorldFields DEF Through, t
<1>8. DOMAIN answer' = Tag /\ \A a \in Tag : a # t => answer'[a] = answer[a]
  BY <1>1, <1>2
<1>9. console' \in Console
  <2>1. UploadLen \in Nat
    BY SessionAssumption
  <2> QED
    BY <1>1, <1>2, <1>4, <2>1 DEF Console
<1>10. console'.mode = "upload" => console'.id = t
  <2>1. CASE r.wire[1] = "204"
    BY <1>2, <2>1
  <2>2. CASE r.wire[1] # "204"
    <3>1. console' = console
      BY <1>2, <2>2
    <3> QED
      BY <1>1, <3>1
  <2> QED
    BY <2>1, <2>2
<1>11. Later(World, World')
  BY <1>1, <1>4, <1>6, <1>7, <1>8, <1>10, SpeaksIsLater
<1> QED
  BY <1>1, <1>5, <1>8, <1>9, <1>11, OthersAstray

LEMMA StoreIsAstray ==
  ASSUME Astray, ConsoleStores
  PROVE  Astray'
<1> DEFINE t == console.id
           k == Min2(console.left, Len(toConsole))
<1>1. /\ link = "up" /\ console.mode = "upload" /\ UNCHANGED <<engine, op, link, result>>
      /\ toConsole' = SubSeq(toConsole, k + 1, Len(toConsole))
      /\ toConsole \in Seq(OutByte) /\ console \in Console /\ DOMAIN answer = Tag
  BY DEF ConsoleStores, Astray, AstrayTyped
<1>2. t \in Tag /\ console.left \in Nat /\ Len(toConsole) \in Nat
  BY <1>1, AstrayNumbers, LenProperties DEF Console
<1>3. k \in 0 .. Len(toConsole) /\ k <= console.left
  BY <1>2 DEF Min2
<1>4. /\ console' = [console EXCEPT !.left = console.left - k] /\ k < console.left
         /\ UNCHANGED answer
      \/ /\ console' = [console EXCEPT !.mode = "command", !.left = 0]
         /\ \E c \in {"200", "4xx"} : answer' = [answer EXCEPT ![t] = <<c>>]
  BY DEF ConsoleStores
<1> HIDE DEF t, k
<1>5. /\ toConsole' \in Seq(OutByte) /\ Len(toConsole') = Len(toConsole) - k
      /\ \A i \in 1 .. Len(toConsole) - k : toConsole'[i] = toConsole[i + k]
  BY <1>1, <1>3, DropFields
<1>6. \A i \in 1 .. Len(toConsole') :
        \E j \in 1 .. Len(toConsole) : toConsole'[i].tag = toConsole[j].tag
  <2>1. \A i \in 1 .. Len(toConsole) - k : i + k \in 1 .. Len(toConsole)
    BY <1>2, <1>3
  <2> QED
    BY <1>5, <2>1
<1>7. ~ Through(t, World)
  BY <1>1, WorldFields DEF Through, t
<1>8. DOMAIN answer' = Tag /\ \A a \in Tag : a # t => answer'[a] = answer[a]
  BY <1>1, <1>4
<1>9. console' \in Console /\ console'.id = console.id
  <2> DEFINE n == console.left - k
  <2>1. n \in Nat
    BY <1>2, <1>3
  <2>2. \/ console' = [console EXCEPT !.left = n]
        \/ console' = [console EXCEPT !.mode = "command", !.left = 0]
    BY <1>4
  <2> HIDE DEF n
  <2>3. console \in Console
    BY <1>1
  <2>4. CASE console' = [console EXCEPT !.left = n]
    BY <2>1, <2>3, <2>4 DEF Console
  <2>5. CASE console' = [console EXCEPT !.mode = "command", !.left = 0]
    BY <2>3, <2>5 DEF Console
  <2> QED
    BY <2>2, <2>4, <2>5
<1>10. Later(World, World')
  BY <1>1, <1>2, <1>6, <1>7, <1>8, <1>9, SpeaksIsLater
<1> QED
  BY <1>1, <1>5, <1>8, <1>9, <1>10, OthersAstray

\* A link that is down says nothing more.
LEMMA NetworkIsAstray ==
  ASSUME Astray, \/ ConsoleCloses \/ LinkBreaks \/ UNCHANGED vars
  PROVE  Astray'
<1>1. /\ UNCHANGED <<engine, op, toConsole, console, answer, result>>
      /\ link' = link \/ link' # "up"
  BY DEF ConsoleCloses, LinkBreaks, vars
<1>2. /\ World'.n = Upto /\ World'.q = toConsole /\ World'.c = console
      /\ World'.l = link' /\ World'.a = answer /\ Upto \in Nat
  BY <1>1, AstrayNumbers DEF World, Upto
<1>3. \A t \in Tag : Through(t, World) => Through(t, World')
  BY <1>1, <1>2, WorldFields DEF Through
<1>4. Later(World, World')
  BY <1>2, <1>3, WorldFields DEF Later
<1> QED
  BY <1>1, <1>4, OthersAstray DEF Astray, AstrayTyped

LEMMA NextIsAstray ==
  ASSUME Astray, [Next]_vars, ~ DropUpload
  PROVE  Astray'
<1>1. op.at \in {"idle", "gone", "write", "flush", "upload"}
  BY DEF Astray, AstrayWaits
<1>2. CASE \/ PumpRead \/ PumpEof \/ PumpReadError
           \/ ReadPrefix \/ PrefixFails \/ ReadBody \/ FinishDownload \/ DownloadFails
           \/ ReadMeta \/ ParseMeta \/ ReadFrame \/ FrameDone \/ ShotFails \/ DropDownload
  BY <1>1, <1>2
  DEF PumpRead, PumpEof, PumpReadError, ReadPrefix, PrefixFails, ReadBody, FinishDownload,
      DownloadFails, ReadMeta, ParseMeta, ReadFrame, FrameDone, ShotFails, DropDownload
<1>3. CASE PumpWrite \/ PumpFlush \/ CancelWrite \/ CancelRead
  BY <1>3, WriteIsAstray, FlushIsAstray, CancelIsAstray
<1>4. CASE WriteBody \/ FinishUpload
  BY <1>4, PayloadIsAstray, FinishIsAstray
<1>5. CASE \E kind \in Ops : StartOp(kind)
  BY <1>5, StartIsAstray
<1>6. CASE ConsoleAnswers \/ ConsoleStores
  BY <1>6, AnswerIsAstray, StoreIsAstray
<1>7. CASE ConsoleCloses \/ LinkBreaks \/ UNCHANGED vars
  BY <1>7, NetworkIsAstray
<1> QED
  BY <1>2, <1>3, <1>4, <1>5, <1>6, <1>7 DEF Next, ClientStep, CallerStep, ConsoleStep

\* What a careful operation leaves in the queue when it is dropped in a flush
\* is the answer it was given, or the invitation it was waiting for.
LEMMA FlushLeaves ==
  ASSUME Careful, Told, UNCHANGED <<toConsole, toClient, link, console, answer>>,
         op.at = "flush", op.kind # "banner", engine.mode = "Idle",
         op'.at = "idle", op'.id = op.id
  PROVE  Leftover(engine, World')
<1> DEFINE ev == engine.events[1]
           s  == engine.inbox
           r  == Incoming
<1>1. /\ engine \in Engine /\ toClient \in Seq(Byte) /\ s \in Seq(Byte)
      /\ Len(s) \in Nat /\ engine.events \in Seq(Event)
  BY LenProperties DEF Careful, Typed, Engine
<1>2. /\ r \in Seq(Byte) /\ Len(s) <= Len(r) /\ Len(r) \in Nat
      /\ \A i \in 1 .. Len(s) : r[i] = s[i]
  <2> DEFINE w == toClient
  <2>1. /\ s \o w \in Seq(Byte) /\ Len(s \o w) = Len(s) + Len(w) /\ Len(w) \in Nat
        /\ \A i \in 1 .. Len(s) + Len(w) : (s \o w)[i] = IF i <= Len(s) THEN s[i] ELSE w[i - Len(s)]
    BY <1>1, ConcatProperties, LenProperties
  <2>2. r = s \o w
    BY DEF Incoming
  <2> HIDE DEF s, w, r
  <2> QED
    BY <1>1, <2>1, <2>2
<1>3. Fits(engine, r, op.kind, op.id, Meant)
      /\ Wire(engine, r, op.kind, op.id, toConsole, console, link)
      /\ Tells(engine, r, op.kind, Answered)
  BY DEF Careful, Pumping, Told, Pumped
<1>4. /\ Len(engine.events) = 1 /\ ev.kind \in AnswerKind \ {"BinaryHead"}
      /\ IF ev.kind = "SendBinary" THEN StatusFits(r) ELSE r = <<>>
      /\ IF ev.kind = "SendBinary" THEN ev.data \in Invitation /\ StatusTells(r, Answered)
                                   ELSE ev.data = Answered
      /\ link # "reset" => IF ev.kind = "SendBinary" THEN Invited(r, op.id, toConsole, console)
                                                     ELSE Quiet(toConsole, console)
  BY <1>3 DEF Fits, Wire, Tells, Wanted, AnswerKind
<1>5. op.id \in Tag /\ op.id \in Nat /\ Answered \in Seq(Byte)
  BY CarefulNumbers DEF Numbers
<1>6. /\ World'.n = op.id + 1 /\ World'.q = toConsole /\ World'.c = console
      /\ World'.l = link /\ World'.a = answer
  BY DEF World, Upto
<1>7. ASSUME link = "up" => Quiet(toConsole, console)
      PROVE  Given(Answered, World')
  <2>1. Len(<<>>) = 0
    OBVIOUS
  <2>2. Through(op.id, World')
    BY <1>6, <1>7, <2>1 DEF Through, Quiet
  <2>3. Answered = Untagged(World'.a[op.id], op.id)
    BY <1>6 DEF Answered
  <2> QED
    BY <1>5, <1>6, <2>2, <2>3 DEF Given
<1> HIDE DEF r, s
<1>8. Given(ev.data, World')
  <2>1. CASE ev.kind = "SendBinary"
    BY <1>4, <2>1 DEF Given
  <2>2. CASE ev.kind # "SendBinary"
    BY <1>4, <1>7, <2>2
  <2> QED
    BY <2>1, <2>2
<1>9. Verdict(s, World')
  <2> SUFFICES ASSUME LfAt(s) # 0 PROVE Verdict(s, World')
    BY DEF Verdict
  <2>1. LfAt(s) \in 1 .. Len(s) /\ s[LfAt(s)].sym = "LF"
    BY <1>1, LfAtIsFirst
  <2>2. ev.kind = "SendBinary" /\ StatusFits(r)
    <3>1. Len(<<>>) = 0
      OBVIOUS
    <3>2. r # <<>>
      BY <1>2, <2>1, <3>1
    <3> QED
      BY <1>4, <3>2
  <2>3. s[1] = r[1] /\ s[1].sym \in {"200", "201", "4xx"} /\ Len(s) <= 2
    BY <1>1, <1>2, <2>1, <2>2 DEF StatusFits
  <2>4. LfAt(s) = 2 /\ Len(s) = 2
    <3> DEFINE p == LfAt(s)
               n == Len(s)
    <3>1. p # 1
      BY <2>1, <2>3
    <3>2. p \in 1 .. n /\ n \in Nat /\ n <= 2
      BY <1>1, <2>1, <2>3
    <3> HIDE DEF p, n
    <3>3. p = 2 /\ n = 2
      BY <3>1, <3>2
    <3> QED
      BY <3>3 DEF p, n
  <2>5. Answered = <<s[1]>>
    <3>1. Len(Answered) = 1 /\ Answered[1] = r[1]
      BY <1>2, <1>4, <2>2, <2>4 DEF StatusTells
    <3>2. s[1] \in Byte
      <4>1. 1 \in 1 .. Len(s)
        BY <2>4
      <4>2. s \in Seq(Byte)
        BY <1>1
      <4> QED
        BY <4>1, <4>2, ElementOfSeq
    <3>3. <<s[1]>> \in Seq(Byte) /\ Len(<<s[1]>>) = 1 /\ <<s[1]>>[1] = s[1]
      BY <3>2
    <3> QED
      BY <1>5, <2>3, <3>1, <3>3, OneByte
  <2>6. link = "up" => Quiet(toConsole, console)
    <3> SUFFICES ASSUME link = "up" PROVE Quiet(toConsole, console)
      OBVIOUS
    <3>1. Invited(r, op.id, toConsole, console)
      BY <1>4, <2>2
    <3>2. r # <<>>
      <4>1. Len(<<>>) = 0
        OBVIOUS
      <4> QED
        BY <1>2, <2>4, <4>1
    <3>3. console.mode \in {"upload", "command"}
      BY DEF Careful, Typed, Console
    <3> QED
      BY <3>1, <3>2, <3>3 DEF Invited, Quiet
  <2> QED
    BY <1>7, <2>3, <2>4, <2>5, <2>6 DEF Verdict
<1>10. WholeEvents(engine.events, World')
  <2>1. \A i \in 1 .. 1 : i = 1
    OBVIOUS
  <2> QED
    BY <1>4, <1>8, <2>1 DEF WholeEvents
<1> QED
  BY <1>4, <1>9, <1>10 DEF Leftover, s

LEMMA GoesAstray ==
  ASSUME Careful, Told, CancelRead, op.at = "flush"
  PROVE  Astray'
<1> DEFINE at == IF op.kind = "bye" \/ (op.kind = "banner" /\ "err" # "ok")
                 THEN "gone" ELSE "idle"
<1>1. /\ engine' = engine
      /\ op' = [op EXCEPT !.at = at, !.left = 0, !.buf = <<>>, !.got = <<>>,
                          !.careless = @ \cup ({"flush"} \cap {op.at})]
      /\ result'.outcome = "err"
      /\ UNCHANGED <<toConsole, toClient, link, console, answer>>
  BY DEF CancelRead, Dropped, Over
<1>2. /\ engine \in Engine /\ op \in Op /\ toConsole \in Seq(OutByte) /\ console \in Console
      /\ DOMAIN answer = Tag /\ engine.outbox = <<>>
  BY DEF Careful, Typed, Line
<1>3. at \in {"gone", "idle"} /\ (at = "idle" => op.kind # "banner")
  OBVIOUS
<1> HIDE DEF at
<1>4. op' \in Op /\ op'.at = at /\ op'.id = op.id
  <2>1. <<>> \in Seq(Byte) /\ at \in At
    BY <1>3, EmptySeq DEF At
  <2>2. {"flush"} \cap {op.at} \subseteq {"upload", "flush"}
    OBVIOUS
  <2> QED
    BY <1>1, <1>2, <2>1, <2>2 DEF Op
<1>5. AstrayTyped'
  BY <1>1, <1>2, <1>4 DEF AstrayTyped
<1>6. AstrayWaits' /\ Line' /\ AstrayReports'
  BY <1>1, <1>2, <1>3, <1>4 DEF AstrayWaits, Line, AstrayReports
<1>7. at = "idle" /\ engine.mode = "Idle" => Leftover(engine, World')
  BY <1>1, <1>3, <1>4, FlushLeaves
<1>8. AstrayKeeps'
  BY <1>1, <1>3, <1>4, <1>7 DEF AstrayKeeps
<1> QED
  BY <1>5, <1>6, <1>8 DEF Astray

LEMMA AstrayStep ==
  ASSUME SessionInv, ToldInv, AstrayInv, [Next]_vars
  PROVE  AstrayInv'
<1> SUFFICES ASSUME op'.careless = {"flush"} PROVE Astray'
  BY DEF AstrayInv
<1>1. OpShape /\ op.careless \in SUBSET {"upload", "flush"}
  BY DEF SessionInv, OpShape, Shape
<1>2. CASE Stays(op') /\ ~ DropUpload
  <2>1. op.careless = {"flush"}
    BY <1>2 DEF Stays
  <2> QED
    BY <1>2, <2>1, NextIsAstray DEF AstrayInv
<1>3. CASE DropUpload
  <2>1. Over(engine, "err", <<>>, {"upload"})
    BY <1>3 DEF DropUpload, Dropped
  <2>2. LetsGo(op', {"upload"})
    BY <1>1, <2>1, OverStays
  <2>3. "upload" \in op'.careless
    BY <2>2 DEF LetsGo
  <2> QED
    BY <2>3
<1>4. CASE CancelRead /\ op.at = "flush" /\ LetsGo(op', {"flush"}) /\ ~ DropUpload
  <2>1. op.careless \subseteq {"flush"}
    BY <1>4 DEF LetsGo
  <2>2. CASE op.careless = {}
    BY <1>4, <2>2, GoesAstray DEF SessionInv, ToldInv
  <2>3. CASE op.careless = {"flush"}
    BY <1>4, <2>3, NextIsAstray DEF AstrayInv
  <2> QED
    BY <1>1, <2>1, <2>2, <2>3
<1> QED
  BY <1>1, <1>2, <1>3, <1>4, NextStays

\* As long as no upload was abandoned, what is left in the engine for the
\* next operation is whole, and whoever takes it waits for a head behind it
\* (Client::pump_until drains the queue before it reads).
THEOREM SessionAstray ==
  ASSUME ~ ShortRanges
  PROVE  Spec => []AstrayInv
<1>1. Init => AstrayInv
  <2> SUFFICES ASSUME Init PROVE AstrayInv
    OBVIOUS
  <2>1. op.careless = {}
    BY DEF Init
  <2> QED
    BY <2>1 DEF AstrayInv
<1>2. SessionInv /\ ToldInv /\ AstrayInv /\ [Next]_vars => AstrayInv'
  BY AstrayStep
<1>3. Spec => []SessionInv /\ []ToldInv
  BY SessionCorrect, SessionTells
<1> QED
  BY <1>1, <1>2, <1>3, PTL DEF Spec

\* A caller that drops futures in a pending flush, but abandons no upload,
\* may be shown the answer to another operation, and never a mixture of two
\* (Client::run, pump_until).
THEOREM AnswersWhole ==
  ASSUME ~ ShortRanges
  PROVE  Spec => []AnswersAreWhole
<1>1. SessionInv /\ ToldInv /\ AstrayInv => AnswersAreWhole
  <2> SUFFICES ASSUME SessionInv, ToldInv, AstrayInv,
                      result.outcome # "err", "upload" \notin op.careless
               PROVE  \E t \in Tag : result.data \in {Untagged(answer[t], t),
                                                      Untagged(<<"204">>, t)}
    BY DEF AnswersAreWhole
  <2>1. op.careless \in SUBSET {"upload", "flush"}
    BY DEF SessionInv, OpShape, Shape
  <2>2. CASE op.careless = {}
    <3>1. result.id \in Tag /\ result.data = Untagged(answer[result.id], result.id)
      BY <2>2 DEF ToldInv, Told, Reported
    <3> QED
      BY <3>1
  <2>3. CASE op.careless = {"flush"}
    <3>1. Given(result.data, World)
      BY <2>3 DEF AstrayInv, Astray, AstrayReports
    <3> QED
      BY <3>1, WorldFields DEF Given, Invitation
  <2> QED
    BY <2>1, <2>2, <2>3
<1> QED
  BY <1>1, SessionCorrect, SessionTells, SessionAstray, PTL

=============================================================================
