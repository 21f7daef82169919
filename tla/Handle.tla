------------------------------- MODULE Handle -------------------------------
(***************************************************************************)
(* One XeedeeClient shared by the threads of a C program (xeedee-ffi,      *)
(* inner.rs): a client behind a mutex, which Inner::run holds from before  *)
(* the command line is built until the answer is parsed.  Client::run is   *)
(* what ClientSession shows it to be: one line out, one answer back, or    *)
(* the end of the connection.  A thread may also put a line together with  *)
(* the raw builder, XeedeeCommand, which no other thread sees.             *)
(*                                                                         *)
(* The console is external.  What it holds is one number, clock, of which  *)
(* every field of every answer is a function of its own, so that an answer *)
(* tells when it was given and which field is where.                       *)
(***************************************************************************)
EXTENDS CInterface

CONSTANTS
  Thread,
  MayCall,   \* the entry points each thread uses
  Builders,  \* the threads that use the raw builder
  Starts,    \* what the console may hold at first
  LastClock, \* bound on the number it holds
  MaxCalls,  \* bound on the calls of a thread
  MaxAppends \* bound on the arguments appended to a raw command

\* The commands the interface leaves to Rust callers run in the same way.
Entry ==
  XeedeeClient
    @@ [load_extension |-> Runs(LoadDebuggerExtension, One({"handle"})),
        unload_extension |-> Runs(UnloadDebuggerExtension, Nothing)]

ASSUME HandleAssumption ==
  /\ MayCall \in [Thread -> SUBSET DOMAIN Entry]
  /\ Builders \subseteq Thread
  /\ LastClock \in 0 .. W - 1 /\ Starts \subseteq 0 .. LastClock
  /\ MaxCalls \in Nat /\ MaxAppends \in Nat

VARIABLES
  caller,     \* of each thread: its call and how far it is
  builder,    \* of each thread: its XeedeeCommand
  holder,     \* the threads inside the mutex
  toConsole,  \* lines sent, not yet read
  toClient,   \* answers given, not yet read
  link,       \* is the connection up?
  clock, calls

vars == <<caller, builder, holder, toConsole, toClient, link, clock, calls>>

\* "since" is history: the clock at the call.
Idle == [at |-> "idle", method |-> "", given |-> "", since |-> 0]

\* "open" is whether the builder is still there, "line" what it holds;
\* "appended" is history, "finished" the line finish returned.
NewBuilder == [open |-> TRUE, line |-> <<>>, appended |-> <<>>, finished |-> FALSE]

Init ==
  /\ caller = [t \in Thread |-> Idle]
  /\ builder = [t \in Thread |-> NewBuilder]
  /\ holder = {} /\ toConsole = <<>> /\ toClient = <<>> /\ link = "up"
  /\ clock \in Starts /\ calls = [t \in Thread |-> 0]

-----------------------------------------------------------------------------
(* A call. *)

\* What a text argument may be, for those that have one.
Texts(method) ==
  LET arg == Entry[method].command.arg
  IN {"good"} \cup (IF method = "set_data_breakpoint" THEN {"unknown kind"} ELSE {})
       \cup (IF arg = "any" THEN {} ELSE {"empty"})
       \cup (IF arg \in {"name", "text"} THEN {"quote", "line break"} ELSE {})

Call(t, method, given) ==
  /\ caller[t].at \in {"idle", "returned"} /\ calls[t] < MaxCalls
  /\ caller' = [caller EXCEPT ![t] =
       IF RefusedAtOnce(method, given) THEN [Idle EXCEPT !.at = "returned"]
       ELSE [at |-> "waiting", method |-> method, given |-> given, since |-> clock]]
  /\ builder' = [builder EXCEPT ![t] = NewBuilder]
  /\ calls' = [calls EXCEPT ![t] = @ + 1]
  /\ UNCHANGED <<holder, toConsole, toClient, link, clock>>

\* Mutant: the lock is not taken.
EnterUnlocked(t) ==
  /\ caller[t].at = "waiting"
  /\ holder' = holder \cup {t}
  /\ caller' = [caller EXCEPT ![t].at = "inside"]
  /\ UNCHANGED <<builder, toConsole, toClient, link, clock, calls>>

Enter(t) ==
  /\ caller[t].at = "waiting" /\ holder = {}
  /\ holder' = {t}
  /\ caller' = [caller EXCEPT ![t].at = "inside"]
  /\ UNCHANGED <<builder, toConsole, toClient, link, clock, calls>>

Return(t) ==
  /\ caller' = [caller EXCEPT ![t] = [Idle EXCEPT !.at = "returned"]]
  /\ holder' = holder \ {t}

\* A line break in an argument would make two lines of one.
Lines(given) == IF given = "line break" THEN 2 ELSE 1

Submit(t) ==
  LET method == caller[t].method
      given == caller[t].given
  IN /\ caller[t].at = "inside"
     /\ IF link = "up" /\ Builds(Entry[method].command, given)
        THEN /\ caller' = [caller EXCEPT ![t].at = "reading"]
             /\ toConsole' = toConsole \o [i \in 1 .. Lines(given) |-> method]
             /\ UNCHANGED holder
        ELSE Return(t) /\ UNCHANGED toConsole
     /\ UNCHANGED <<builder, toClient, link, clock, calls>>

\* What the call returns: an error of the console, an answer of another shape
\* and one that does not parse are errors of the call alone, and leave the
\* connection to the next one.
AnswerTo(method, reply) ==
  LET entry == Entry[method]
      answer == Parse(entry.command, reply)
  IN [ok |-> answer.ok, rows |-> Read(entry.container, answer.rows)]

Answer(t) == AnswerTo(caller[t].method, Head(toClient))

\* The answer goes to the C program, which keeps it to itself.
Receive(t) ==
  /\ caller[t].at = "reading" /\ toClient # <<>>
  /\ toClient' = Tail(toClient)
  /\ Return(t)
  /\ UNCHANGED <<builder, toConsole, link, clock, calls>>

\* Mutant: at the end of the stream the thread leaves with the lock held.
ReceiveEndKeepsLock(t) ==
  /\ caller[t].at = "reading" /\ toClient = <<>> /\ link = "down"
  /\ caller' = [caller EXCEPT ![t].at = "returned"]
  /\ UNCHANGED <<holder, builder, toConsole, toClient, link, clock, calls>>

ReceiveEnd(t) ==
  /\ caller[t].at = "reading" /\ toClient = <<>> /\ link = "down"
  /\ Return(t)
  /\ UNCHANGED <<builder, toConsole, toClient, link, clock, calls>>

-----------------------------------------------------------------------------
(* XeedeeCommand. *)

StartBuilding(t) ==
  /\ t \in Builders /\ caller[t].at = "idle" /\ calls[t] < MaxCalls
  /\ caller' = [caller EXCEPT ![t].at = "building"]
  /\ calls' = [calls EXCEPT ![t] = @ + 1]
  /\ UNCHANGED <<builder, holder, toConsole, toClient, link, clock>>

Building(t, b) ==
  /\ caller[t].at = "building" /\ ~builder[t].finished
  /\ builder' = [builder EXCEPT ![t] = b]
  /\ UNCHANGED <<caller, holder, toConsole, toClient, link, clock, calls>>

With(b, argument) == [b EXCEPT !.appended = Append(@, argument)]

\* flag, dec, int, hex32, hex, qword, qword_pair: nothing happens, and nobody
\* is told, once the builder is gone.
Mutate(t) ==
  LET b == builder[t]
      argument == Len(b.appended)
  IN /\ argument < MaxAppends
     /\ Building(t, IF b.open THEN [With(b, argument) EXCEPT !.line = Append(@, argument)]
                    ELSE With(b, argument))

\* Mutant: a text that is refused leaves the builder as it was.
QuotedKeepsBuilder(t, given) ==
  LET b == builder[t]
      argument == Len(b.appended)
  IN /\ argument < MaxAppends
     /\ Building(t, IF b.open /\ Quotable(given)
                    THEN [With(b, argument) EXCEPT !.line = Append(@, argument)]
                    ELSE With(b, argument))

\* quoted takes the builder out and puts it back only if the text is accepted.
Quoted(t, given) ==
  LET b == builder[t]
      argument == Len(b.appended)
  IN /\ argument < MaxAppends
     /\ Building(t, IF ~b.open THEN With(b, argument)
                    ELSE IF Quotable(given)
                    THEN [With(b, argument) EXCEPT !.line = Append(@, argument)]
                    ELSE [With(b, argument) EXCEPT !.open = FALSE])

\* finish takes the builder out for good; without one it is an error.
Finish(t) ==
  LET b == builder[t]
  IN Building(t, [b EXCEPT !.open = FALSE, !.finished = b.open])

-----------------------------------------------------------------------------
(* The console, and the connection (external). *)

Digits(form, n) ==
  IF form = "0x" THEN << (n \div 4) % 4, n % 4 >>
  ELSE << (n \div 9) % 3, (n \div 3) % 3, n % 3 >>

SignedValue(n) == IF n < W \div 2 THEN n ELSE n - W
SignedToken(key, n) ==
  Token(key, "plain", SignedValue(n) < 0,
        Digits("plain", IF SignedValue(n) < 0 THEN -SignedValue(n) ELSE n))

\* What it holds at clock c: rows, and in row i under the key of field f a
\* number.  A list has up to two rows, memory three cells.
Size(command, c) ==
  CASE command.shape \in {"each", "keyed", "words"} -> c % 3
    [] command.shape = "cells" -> 3
    [] command.shape = "ok" -> 0
    [] OTHER -> 1

Held(command, c, i, f) ==
  LET same == {k \in DOMAIN command.fields : command.fields[k].keys[1] = f.keys[1]}
  IN (c + 5 * i + 3 * (CHOOSE k \in same : \A j \in same : k <= j)) % W

\* How it spells the number n, in one of the two forms.
Spelled(f, n, form) ==
  LET key == f.keys[1]
      Spell(k, m) == << Token(k, form, FALSE, Digits(form, m)) >>
  IN CASE f.kind \in {"u32", "u32 or 0"} -> Spell(key, n)
       [] f.kind \in {"u16", "u16 or 0"} -> Spell(key, n % Narrow)
       [] f.kind = "u64" -> Spell(key, n) \o Spell(f.keys[2], (n + 1) % W)
       [] f.kind = "hex" -> << Token(key, form, FALSE, Digits("0x", n)) >>
       [] f.kind \in {"i32", "id"} -> << SignedToken(key, n) >>
       [] f.kind = "text" -> << Token(key, "text", FALSE, <<n>>) >>
       [] f.kind = "byte" -> IF n % 3 = 0 THEN << Token("", "text", FALSE, <<n>>) >>
                             ELSE << Token("", "plain", FALSE, Digits("0x", n)) >>
       [] f.kind = "count" -> << Token("", "text", FALSE, <<n>>), SignedToken("", n % Narrow) >>
       [] f.kind = "flag" /\ n % 2 = 1 -> << Token(key, "flag", FALSE, <<>>) >>
       [] OTHER -> <<>>

\* What is to be read of it.
Value(f, n) ==
  CASE f.kind \in {"u16", "u16 or 0", "count"} -> n % Narrow
    [] f.kind = "u64" -> n * W + ((n + 1) % W)
    [] f.kind = "i32" -> SignedValue(n)
    [] f.kind = "byte" -> IF n % 3 = 0 THEN 0 ELSE n
    [] f.kind = "hole" -> IF n % 3 = 0 THEN 1 ELSE 0
    [] f.kind = "flag" -> n % 2
    [] f.kind = "is u32" -> 1
    [] OTHER -> n

Line(command, c, i, form) ==
  FlattenSeq([k \in DOMAIN command.fields |->
                Spelled(command.fields[k], Held(command, c, i, command.fields[k]), form)])

\* A thread is stopped for one of seven reasons, or running.
Reason(c) == c % 8
StopHead(c, form) ==
  LET f == IsStopped.fields
      At(k) == Spelled(f[k], Held(IsStopped, c, 1, f[k]), form)
      Is(name) == << Token(name, "flag", FALSE, <<>>) >>
  IN CASE Reason(c) = 1 -> Is("breakpoint") \o At(1)
       [] Reason(c) = 2 -> Is("data") \o At(1) \o At(2)
       [] Reason(c) = 3 -> Is("singlestep")
       [] Reason(c) = 4 -> Is("exception") \o At(3)
       [] Reason(c) = 5 -> Is("hwexcp")
       [] Reason(c) = 6 -> Is("assert")
       [] OTHER -> Is("else")

StopRow(c) ==
  LET n(k) == Held(IsStopped, c, 1, IsStopped.fields[k])
  IN Stopped(Reason(c), IF Reason(c) \in {1, 2} THEN n(1) ELSE 0,
             IF Reason(c) = 2 THEN n(2) ELSE 0, IF Reason(c) = 4 THEN n(3) ELSE 0)

\* What a caller should see of the console at clock c.
Meant(method, c) ==
  LET command == Entry[method].command
      Fields == ToSet(command.fields)
      Kept(name) == CHOOSE f \in Fields : f.name = name
  IN CASE Entry[method].container = Nothing -> <<>>
       [] command.shape = "stop" -> << StopRow(c) >>
       [] OTHER -> [i \in 1 .. Size(command, c) |->
                      [name \in {f.name : f \in Fields} |->
                         Value(Kept(name), Held(command, c, i, Kept(name)))]]

\* The answer: pairs in either order, a line that is none of the rows before
\* those that are, a row spread over lines where the client gathers it.
Reply(method, c, form, backwards) ==
  LET command == Entry[method].command
      line == [i \in 1 .. 3 |-> Line(command, c, i, form)]
      row == IF backwards THEN [i \in 1 .. 3 |-> Reverse(line[i])] ELSE line
      rows == SubSeq(row, 1, Size(command, c))
      other == << <<Token("other", "text", FALSE, <<1>>)>> >>
      head == CASE command.shape = "head" -> row[1]
                [] command.shape = "stop" -> StopHead(c, form)
                [] command.shape = "words" -> FlattenSeq(rows)
                [] OTHER -> <<>>
      lines == CASE command.shape \in {"each", "cells"} -> rows
                 [] command.shape = "last" -> << row[2], row[1] >>
                 [] command.shape = "keyed" -> other \o rows
                 [] command.shape = "fold" -> [k \in DOMAIN row[1] |-> << row[1][k] >>]
                 [] OTHER -> <<>>
  IN [status |-> CASE command.shape \in Multiline -> 202
                   [] command.shape = "stop" /\ Reason(c) = Running -> 408
                   [] OTHER -> 200,
      head |-> head, lines |-> lines]

Forms == {"0x", "plain"}
Spellings(method, c) ==
  {Reply(method, c, form, backwards) : form \in Forms, backwards \in BOOLEAN}

\* An error, and a success no typed command takes.
Refusals == {[status |-> status, head |-> <<>>, lines |-> <<>>] : status \in {201, 400}}

\* It answers the first line it has read.
ConsoleAnswers ==
  /\ toConsole # <<>> /\ link = "up"
  /\ \/ \E form \in Forms, backwards \in BOOLEAN :
          toClient' = Append(toClient, Reply(Head(toConsole), clock, form, backwards))
     \/ \E refusal \in Refusals : toClient' = Append(toClient, refusal)
  /\ toConsole' = Tail(toConsole)
  /\ UNCHANGED <<caller, builder, holder, link, clock, calls>>

LinkBreaks ==
  /\ link = "up" /\ link' = "down" /\ toConsole' = <<>>
  /\ UNCHANGED <<caller, builder, holder, toClient, clock, calls>>

Tick ==
  /\ clock < LastClock /\ clock' = clock + 1
  /\ UNCHANGED <<caller, builder, holder, toConsole, toClient, link, calls>>

-----------------------------------------------------------------------------

Works(t) == Enter(t) \/ Submit(t) \/ Receive(t) \/ ReceiveEnd(t)

Next ==
  \/ \E t \in Thread :
       \/ \E method \in MayCall[t] : \E given \in Texts(method) : Call(t, method, given)
       \/ Works(t)
       \/ StartBuilding(t) \/ Mutate(t) \/ Finish(t)
       \/ \E given \in {"good", "quote", "line break"} : Quoted(t, given)
  \/ ConsoleAnswers \/ LinkBreaks \/ Tick

Spec == Init /\ [][Next]_vars

\* The threads are scheduled and the console answers what it has read, or the
\* connection ends.  There is no timeout: a console that does neither keeps
\* the thread inside the mutex, and every other one in front of it.
FairSpec == Spec /\ \A t \in Thread : WF_vars(Works(t)) /\ WF_vars(ConsoleAnswers)

-----------------------------------------------------------------------------

Receives(t) ==
  caller[t].at = "reading" /\ caller'[t].at = "returned" /\ toClient # <<>>

\* What the clock has been since t called.
During(t) == caller[t].since .. clock

\* An answer without the address of a breakpoint, which is read otherwise.
ButForBreakpoints(rows) ==
  [i \in DOMAIN rows |->
     IF "reason" \in DOMAIN rows[i] /\ rows[i].reason = 1
     THEN [rows[i] EXCEPT !.address = 0] ELSE rows[i]]

\* Whichever threads call which entry points, and however the console spells
\* and orders what it says, what a C caller reads is, in every field of every
\* row, what the console held at one moment of that very call: never another
\* call's answer, a mixture of two moments, or a field read as its neighbour.
AnswersAreCurrent ==
  [][\A t \in Thread :
       (Receives(t) /\ Answer(t).ok) =>
         \E c \in During(t) :
           ButForBreakpoints(Answer(t).rows) = ButForBreakpoints(Meant(caller[t].method, c))]_vars

\* The entry points with an answer that is read as something else than what
\* the console held.
Misread ==
  {method \in DOMAIN Entry :
     \E c \in 0 .. W - 1 :
       \E read \in {AnswerTo(method, reply) : reply \in Spellings(method, c)} :
         read.ok /\ ButForBreakpoints(read.rows) # ButForBreakpoints(Meant(method, c))}

\* However a console spells and orders it, an answer to what a thread asks is
\* read back as what the console held at any moment: no field is taken for its
\* neighbour, no half for the other, no number by the wrong base.
ParsingIsExact ==
  \A t \in Thread : caller[t].at = "reading" => caller[t].method \notin Misread

\* What is under way between the client and the console belongs to the one
\* thread that reads: its line, or one answer the console gave to that very
\* line since the call.  Nothing is left over for the thread after it.
OneExchange ==
  /\ (\A t \in Thread : caller[t].at # "reading") => (toConsole = <<>> /\ toClient = <<>>)
  /\ \A t \in Thread : caller[t].at = "reading" =>
       \/ toConsole = <<caller[t].method>> /\ toClient = <<>> /\ link = "up"
       \/ toConsole = <<>> /\ toClient = <<>> /\ link = "down"
       \/ /\ toConsole = <<>>
          /\ \E c \in During(t) : \E reply \in Spellings(caller[t].method, c) \cup Refusals :
               toClient = <<reply>>

\* A line the raw builder returns holds every argument that was appended to
\* it, whichever of the appends were refused on the way.
NothingDropped ==
  \A t \in Thread : builder[t].finished => builder[t].line = builder[t].appended

\* A call returns, whatever the other threads do, if the console answers.
CallsReturn ==
  \A t \in Thread : caller[t].at = "waiting" ~> caller[t].at = "returned"

\* "hex (`ADDR=0x80123456`)" (kv.rs): the address of a breakpoint is read as
\* the hexadecimal number it is spelled as.
BreakpointAddressExact ==
  [][\A t \in Thread :
       (Receives(t) /\ caller[t].method = "isstopped" /\ Answer(t).ok) =>
         \E c \in During(t) : Answer(t).rows = Meant("isstopped", c)]_vars

=============================================================================
