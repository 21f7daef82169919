--------------------------- MODULE TypedCommands ---------------------------
(***************************************************************************)
(* The typed commands (commands/*.rs): for each of them the arguments it   *)
(* refuses to send, the shape of response it takes, and the fields it      *)
(* reads from it; and the grammar those fields are spelled in (kv.rs,      *)
(* protocol/parse.rs).  No variables: Handle runs them.                    *)
(*                                                                         *)
(* A 32-bit word is a number below W, a 64-bit one has two of them as its  *)
(* halves.  A number on the wire is its digits: two of them in "hex", three*)
(* in decimal, bases four and three, so that one spelling may be read as   *)
(* the other.  A name or another text is one number that is not spelled.   *)
(***************************************************************************)
EXTENDS Integers, Sequences, SequencesExt

W == 16          \* the numbers of a u32
Narrow == 8      \* those of a u16 or a u8
None == -100     \* nothing there, or nothing a parser accepts

-----------------------------------------------------------------------------
(* The grammar. *)

\* One key with its value, a bare flag (no digits), or a bare value (no key).
Token(key, form, minus, digits) ==
  [key |-> key, form |-> form, minus |-> minus, digits |-> digits]

Number(base, digits) == FoldLeft(LAMBDA n, d : base * n + d, 0, digits)

\* str::parse and from_str_radix: every digit must be one of the base.
Decimal(t) ==
  IF t.form = "plain" /\ \A d \in ToSet(t.digits) : d < 3
  THEN (IF t.minus THEN -1 ELSE 1) * Number(3, t.digits) ELSE None

Hex(t) == IF t.form = "text" \/ t.minus THEN None ELSE Number(4, t.digits)

\* KvLine: has_flag, and get, the first pair of that key whatever follows.
HasFlag(line, name) == \E i \in DOMAIN line : line[i].key = name /\ line[i].form = "flag"
PairsOf(line, key) == SelectSeq(line, LAMBDA t : t.key = key /\ t.form # "flag")
Has(line, key) == PairsOf(line, key) # <<>>
Get(line, key) == Head(PairsOf(line, key))

\* value_u32: hexadecimal behind 0x, decimal without it, no sign.
ValueU32(line, key) ==
  IF ~Has(line, key) THEN None
  ELSE IF Get(line, key).form = "0x" THEN Hex(Get(line, key))
  ELSE IF Get(line, key).minus THEN None
  ELSE Decimal(Get(line, key))

\* Mutant: the halves of a 64-bit value in the order of the words in memory.
SwapHalves(hi, lo) == lo * W + hi

CombineHalves(hi, lo) == hi * W + lo

\* hi_lo_u64, FileTime::from_halves.
HiLoU64(line, hi, lo) ==
  IF None \in {ValueU32(line, hi), ValueU32(line, lo)} THEN None
  ELSE CombineHalves(ValueU32(line, hi), ValueU32(line, lo))

-----------------------------------------------------------------------------
(* Fields and commands. *)

Field(kind, name, keys) == << [kind |-> kind, name |-> name, keys |-> keys] >>
U32(name, key) == Field("u32", name, <<key>>)
U16(name, key) == Field("u16", name, <<key>>)
U64(name, hi, lo) == Field("u64", name, <<hi, lo>>)
Signed(name, key) == Field("i32", name, <<key>>)
HexOnly(name, key) == Field("hex", name, <<key>>)
Text(name, key) == Field("text", name, <<key>>)
Flag(name) == Field("flag", name, <<name>>)

\* shape: "ok" looks at the status only; "head" makes a row of the head, "stop"
\* as isstopped does, "words" one of every word in it; "each" makes a row of
\* every line, "keyed" of the lines that have the key, "last" of the last one,
\* "fold" one row of them all, "cells" one of every token in them.
\* arg: what wire_line refuses, see Builds.
Command(shape, arg, fields) == [shape |-> shape, arg |-> arg, fields |-> fields]

Multiline == {"each", "keyed", "last", "fold", "cells"}

\* debug.rs, debug_ext.rs
Stop == Command("ok", "any", <<>>)
Go == Command("ok", "any", <<>>)
Halt == Command("ok", "any", <<>>)
Continue == Command("ok", "any", <<>>)
Suspend == Command("ok", "any", <<>>)
Resume == Command("ok", "any", <<>>)
IsStopped == Command("stop", "any",
  HexOnly("address", "addr") \o HexOnly("access", "access") \o HexOnly("code", "code"))
Breakpoint == Command("ok", "any", <<>>)
SetInitialBreakpoint == Command("ok", "any", <<>>)
DataBreakpoint == Command("ok", "any", <<>>)
ClearAllBreakpoints == Command("ok", "any", <<>>)
IsBreak == Command("head", "any", HexOnly("kind", "type"))
UnloadDebuggerExtension == Command("ok", "any", <<>>)
LoadDebuggerExtension == Command("head", "name", Field("u32 or 0", "handle", <<"module">>))

\* info.rs
DbgNameGet == Command("head", "any", Text("name", ""))
DbgNameSet == Command("head", "text", Text("name", ""))
SysTime == Command("head", "any", U64("file_time", "clockhi", "clocklo"))
DmVersion == Command("head", "any", Text("version", ""))
GetConsoleType == Command("head", "any", Text("type", ""))
GetConsoleFeatures == Command("words", "any", Text("feature", ""))
AltAddr == Command("head", "any", U32("addr", "addr"))
GetPid == Command("head", "any", U32("pid", "pid"))
GetConsoleMem == Command("head", "any", U16("class", "consolemem"))
GetNetAddrs == Command("head", "any",
  Text("name", "name") \o Text("debug", "debug") \o Text("title", "title"))
DriveList == Command("keyed", "any", Text("drive", "drivename"))

\* fs.rs
DriveFreeSpace == Command("last", "name",
  U64("free_to_caller", "freetocallerhi", "freetocallerlo")
    \o U64("total", "totalbyteshi", "totalbyteslo")
    \o U64("total_free", "totalfreebyteshi", "totalfreebyteslo"))
FileStat ==
  U64("size", "sizehi", "sizelo") \o U64("create_time", "createhi", "createlo")
    \o U64("change_time", "changehi", "changelo") \o Flag("directory")
DirList == Command("each", "name", Text("name", "name") \o FileStat)
GetFileAttributes == Command("last", "name", FileStat)
MakeDirectory == Command("ok", "name", <<>>)
Delete == Command("ok", "name", <<>>)
FileEof == Command("ok", "name", <<>>)
Rename == Command("ok", "name", <<>>)

\* process.rs
Modules == Command("each", "any",
  Text("name", "name") \o U32("base", "base") \o U32("size", "size")
    \o U32("checksum", "check") \o U32("timestamp", "timestamp") \o U32("pdata", "pdata")
    \o U32("psize", "psize") \o U32("thread", "thread") \o U32("osize", "osize")
    \o Flag("dll") \o Flag("tls") \o Flag("xbe"))
ModuleSections == Command("each", "name",
  Text("name", "name") \o U32("base", "base") \o U32("size", "size")
    \o U32("index", "index") \o U32("flags", "flags"))
Threads == Command("each", "any", Field("id", "thread", <<"">>))
ThreadInfo == Command("last", "any",
  U32("suspend", "suspend") \o Signed("priority", "priority") \o U32("tls_base", "tlsbase")
    \o U32("start", "start") \o U32("base", "base") \o U32("limit", "limit")
    \o U32("slack", "slack") \o U64("create_time", "createhi", "createlo")
    \o U32("name_address", "nameaddr") \o U32("name_length", "namelen")
    \o U32("processor", "proc") \o U32("last_error", "lasterr"))
XbeInfoFields ==
  U32("timestamp", "timestamp") \o U32("checksum", "checksum") \o Text("name", "name")
XbeInfoRunning == Command("fold", "any", XbeInfoFields)
XbeInfoNamed == Command("fold", "text", XbeInfoFields)

\* memory.rs
GetMem == Command("cells", "some", Field("byte", "data", <<"">>) \o Field("hole", "unmapped", <<"">>))
SetMem == Command("head", "some", Field("count", "written", <<"">>))
WalkMem == Command("each", "any",
  U32("base", "base") \o U32("size", "size") \o U32("protect", "protect"))

\* perf.rs
PerfCounterList == Command("each", "any", Text("name", "name") \o U32("kind", "type"))
QueryPerfCounter == Command("last", "name",
  U32("kind", "type") \o U64("value", "valhi", "vallo") \o U64("rate", "ratehi", "ratelo"))
GetSocketInfo == Command("each", "any",
  U32("handle", "handle") \o U32("owner_type", "ownertype") \o U32("flags", "flags")
    \o U32("addr_family", "addrfamily") \o U32("socket_type", "socktype")
    \o U32("protocol", "protocol") \o U32("local_addr", "localaddr")
    \o U32("remote_addr", "remoteaddr") \o U16("local_port", "localport")
    \o U16("remote_port", "remoteport") \o U32("tcp_state", "tcpstate"))

\* system.rs
Reboot == Command("ok", "text", <<>>)
TitleSet == Command("ok", "text", <<>>)
TitleNoPersist == Command("ok", "any", <<>>)
StopOn == Command("ok", "any", <<>>)
NoStopOn == Command("ok", "any", <<>>)
Notify == Command("head", "any",
  Field("is u32", "has_reconnect_port", <<"reconnectport">>)
    \o Field("u16 or 0", "reconnect_port", <<"reconnectport">>))

-----------------------------------------------------------------------------
(* Building a line. *)

\* ArgBuilder::quoted.
Quotable(text) == text \notin {"quote", "line break"}

\* wire_line: a name must not be empty, nor may the data of setmem or the
\* length of getmem; every text goes through quoted, or, for dbgname, through
\* a check of its own.
Builds(command, text) ==
  /\ command.arg \in {"some", "name"} => text # "empty"
  /\ command.arg \in {"name", "text"} => Quotable(text)

-----------------------------------------------------------------------------
(* Reading a response: its status, the tokens of its head and of its lines. *)

\* The first token of setmem's answer that is a number.
Count(line) ==
  LET numbers == SelectSeq(line, LAMBDA t : Decimal(t) # None)
  IN IF numbers = <<>> THEN None ELSE Decimal(Head(numbers))

\* A byte getmem cannot read is "??": it counts as zero and is listed.
IsHole(t) == t.form = "text"

ReadField(f, line) ==
  LET key == f.keys[1]
      Absent(default) == IF Has(line, key) THEN ValueU32(line, key) ELSE default
  IN CASE f.kind = "u32" -> Absent(None)
       [] f.kind = "u32 or 0" -> Absent(0)
       [] f.kind = "u16" -> IF Absent(None) = None THEN None ELSE Absent(None) % Narrow
       [] f.kind = "u16 or 0" -> IF Absent(None) = None THEN 0 ELSE Absent(None) % Narrow
       [] f.kind = "is u32" -> IF Absent(None) = None THEN 0 ELSE 1
       [] f.kind = "u64" -> HiLoU64(line, key, f.keys[2])
       [] f.kind = "i32" -> IF Has(line, key) THEN Decimal(Get(line, key)) ELSE None
       [] f.kind = "hex" -> IF Has(line, key) THEN Hex(Get(line, key)) ELSE None
       [] f.kind = "text" -> IF Has(line, key) THEN Head(Get(line, key).digits) ELSE None
       [] f.kind = "flag" -> IF HasFlag(line, key) THEN 1 ELSE 0
       [] f.kind = "id" -> IF Decimal(Head(line)) = None THEN None ELSE Decimal(Head(line)) % W
       [] f.kind = "byte" -> IF IsHole(Head(line)) THEN 0 ELSE Hex(Head(line))
       [] f.kind = "hole" -> IF IsHole(Head(line)) THEN 1 ELSE 0
       [] f.kind = "count" -> Count(line)

Row(fields, line) ==
  [name \in {f.name : f \in ToSet(fields)} |->
     ReadField(CHOOSE f \in ToSet(fields) : f.name = name, line)]

\* isstopped.  The kinds are numbered as the C interface numbers them.
Running == 0
Trimmed(t) == [t EXCEPT !.form = "plain"]
HexOr0(t) == IF Hex(t) = None THEN 0 ELSE Hex(t)

\* The address of a breakpoint loses its 0x and is read as a decimal number
\* first, as a hexadecimal one only when that fails.
BreakpointAddress(t) == IF Decimal(Trimmed(t)) = None THEN Hex(t) ELSE Decimal(Trimmed(t))

Stopped(reason, address, access, code) ==
  [reason |-> reason, address |-> address, access |-> access, code |-> code]

\* The first of the reasons that the head names in full.
StopReason(head) ==
  LET Named(guard, reason) == IF guard THEN << reason >> ELSE <<>>
      At(key) == Get(head, key)
      Kind(t) == IF t.form = "text" THEN Head(t.digits) ELSE HexOr0(t)
  IN Head(
       Named(HasFlag(head, "breakpoint") /\ Has(head, "addr") /\ BreakpointAddress(At("addr")) # None,
             Stopped(1, BreakpointAddress(At("addr")), 0, 0))
         \o Named(HasFlag(head, "singlestep"), Stopped(3, 0, 0, 0))
         \o Named(HasFlag(head, "hwexcp"), Stopped(5, 0, 0, 0))
         \o Named(HasFlag(head, "assert"), Stopped(6, 0, 0, 0))
         \o Named(HasFlag(head, "data") /\ Has(head, "addr") /\ Has(head, "access"),
                  Stopped(2, HexOr0(At("addr")), Kind(At("access")), 0))
         \o Named(HasFlag(head, "exception") /\ Has(head, "code"),
                  Stopped(4, 0, 0, HexOr0(At("code"))))
         \o << Stopped(7, 0, 0, 0) >>)

\* The lines it makes a row of.
LinesRead(command, reply) ==
  LET Alone(line) == [i \in DOMAIN line |-> <<line[i]>>]
  IN CASE command.shape = "head" -> << reply.head >>
       [] command.shape = "words" -> Alone(reply.head)
       [] command.shape = "each" -> reply.lines
       [] command.shape = "keyed" ->
            SelectSeq(reply.lines, LAMBDA l : Has(l, command.fields[1].keys[1]))
       [] command.shape = "last" -> << Last(reply.lines) >>
       [] command.shape = "fold" -> << FlattenSeq(Reverse(reply.lines)) >>
       [] command.shape = "cells" -> Alone(FlattenSeq(reply.lines))
       [] OTHER -> <<>>

Rows(command, reply) ==
  LET lines == LinesRead(command, reply)
  IN IF command.shape = "stop" THEN << StopReason(reply.head) >>
     ELSE [i \in DOMAIN lines |-> Row(command.fields, lines[i])]

Failed == [ok |-> FALSE, rows |-> <<>>]

\* expect_ok, expect_multiline and parse; the error "not stopped" is an answer.
Parse(command, reply) ==
  IF reply.status = 408 /\ command.shape = "stop"
  THEN [ok |-> TRUE, rows |-> << Stopped(Running, 0, 0, 0) >>]
  ELSE IF \/ reply.status # (IF command.shape \in Multiline THEN 202 ELSE 200)
          \/ command.shape = "last" /\ reply.lines = <<>>
  THEN Failed
  ELSE LET rows == Rows(command, reply)
       IN IF \E i \in DOMAIN rows : \E name \in DOMAIN rows[i] : rows[i][name] = None
          THEN Failed ELSE [ok |-> TRUE, rows |-> rows]

=============================================================================
