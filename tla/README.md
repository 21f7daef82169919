# xeedee in TLA+

xeedee is a Rust client for XBDM, the debug monitor of Xbox 360 development
kits: a sans-io protocol engine, an asynchronous client on top of it, console
discovery over UDP, a few dangerous console patches, a command line tool and a
C interface. This directory holds TLA+ models of the parts whose correctness
depends on order, interruption and failure, TLC configurations that check them
on small instances, and TLAPS proofs of what they promise for every instance:
of the engine, a client's connection, discovery, the command line tool, the
drivemap enabler, the capture loop, recordings and screenshots, and the shared
client.

## The system

Paths are relative to `src/crates/xeedee/src/` unless they say otherwise.

| Component | State it keeps | Operations | Interacts with |
| --- | --- | --- | --- |
| Protocol engine, `client/engine.rs` | mode, what the next head may be, inbox, outbox, event queue | `recv`, `send`, `close_read`, `submit`, `submit_streaming`, `expect_response`, `take_inbox`, `end_stream`, `abort_stream`, `poll` | whoever owns the socket: bytes in and out, events out |
| Async client, `client/mod.rs` | an engine and a transport | `read_banner`, `run`, `send_raw`, `bye`, `submit_streaming`, all through `pump_until` | awaits the transport at every write, flush and read; its futures may be dropped there |
| File transfers, `commands/file.rs` | bytes left, bytes read too far | `get_file` and `FileDownload`, `send_file` and `FileUpload` | borrow the client's transport and engine, and give them back on drop (download) or not at all (upload) |
| Screenshot, `commands/screenshot.rs` | as a download, after a metadata line | `screenshot` | the same |
| Discovery engine, `discovery/engine.rs` | next send, sends left, sources seen, consoles kept, completed | `poll(now)`, `handle_inbound` | whoever owns the UDP socket and the clock |
| Discovery runner, `discovery/runner.rs` | a discovery engine and a socket | `find_by_name`, `discover_all`, both through `drive` | UDP, timers |
| Drivemap enabler, `commands/dangerous/drivemap.rs` | none of its own; a handler pointer and a flag in the console's memory | `discover`, `status`, `enable`, `persist` | two connections, one of which it expects to wedge; memory commands through `sigscan.rs` |
| Typed commands, `commands/*.rs` | none | build a line, parse an answer | `Client::run` |
| PIX capture, `commands/pix/` | none of its own; a recording on the console | `CaptureSession`, `Notification::parse`, container decoding | `Client::send_raw`, a second connection for notifications |
| PE and PowerPC readers, `commands/dangerous/{pe,ppc,sigscan}.rs` | none | decode bytes | `getmem` |
| Wire grammar, `protocol/`, `time.rs`, `error.rs` | none | text to values and back | engine and commands |
| Transports, `transport/` | a socket, or a script of expected traffic | TCP connect, mock, recording, capture files | client |
| Command line tool, `src/crates/xeedee-cli/` | local files | one subcommand per feature; `tree`, `get -r`, `run_nand_dump` and `run_capture` are sequences of exchanges of their own | everything above |
| C interface, `src/crates/xeedee-ffi/` | a client behind a mutex, a runtime, a command builder | one function per operation, getters on what it returns | client, discovery, the threads of a C program |

### What is hard here, and what makes it correct

*Engine.* Bytes arrive in pieces of any size; one piece may hold parts of two
answers; the type is public, so the methods may be called in any order.
Correct: each accepted command owns one answer at most; a dead engine is dead
for good; events come in order; where TCP cuts the stream makes no difference.

*Client and transfers.* Every await is a place where the caller may drop the
future, where the peer may close, where the connection may break. Client and
console must agree at all times on whether bytes are a command, a response
head, a body or an upload. Correct: an answer reported for an operation is
exactly the console's answer to it; a client that looks usable is in step with
the console; every operation ends.

*Discovery.* Datagrams are lost, repeated, late and malformed; polls are late.
Correct: what is returned is what came in, once; the sends keep to budget and
spacing; the runner sleeps only on timers ahead of it and returns.

*Drivemap.* Five writes on two connections with a command in between that
wedges the first one. Correct: the handler is back whenever `enable` reports
success, and the routine is not run twice.

*Capture.* A recording is made by the title on the console, in its own time; it
says how far it is on a second connection, in lines a task of its own reads;
the segments it leaves are then fetched and deleted one after another. Correct:
the tool records only on a file the title has made for it, misses no line it
waits for, and deletes no segment it does not hold whole.

*The tool.* One invocation is many exchanges over a connection that may end at
each of them, about files another program changes meanwhile. Correct: success
means that what was asked for is here and whole; nothing that changes the
console is asked twice.

*Commands and the C interface.* Some sixty fields are read from answers that
say nothing of the question they belong to, through one connection that several
threads share. Correct: each caller reads, in each field, what the console held
during that caller's own call.

*Containers.* Records are found by adding up sizes computed from their headers,
and pixels by undoing two tilings. Correct: a file cut anywhere yields exactly
its whole records, and every byte lands where its pixel is.

`PROJECT.json` lists the hazards line by line, with the properties that watch
each of them.

## Modules

| Module | What it is | EXTENDS / INSTANCE |
| --- | --- | --- |
| `EngineCore` | the engine as a value and its methods as operators; no variables | |
| `CommandChannel` | what the engine promises, without bytes | |
| `ClientEngine` | one engine under any caller and any peer | `EngineCore`, `CommandChannel` as a refinement |
| `MCClientEngine` | chunks for TLC | `ClientEngine` |
| `ClientSession` | client, transfers, network, console | `EngineCore` |
| `MCClientSession` | payloads for TLC | `ClientSession` |
| `DiscoveryCore` | the discovery engine as a value; the reference `Accepted` | |
| `Discovery` | one discovery engine under any caller | `DiscoveryCore` |
| `DiscoveryRun` | `drive`, UDP and the clock | `DiscoveryCore`, `Discovery` as a refinement |
| `MCDiscoveryRun` | consoles and stray datagrams for TLC | `DiscoveryRun` |
| `DrivemapState` | the console's memory, the calls of `enable`, and what it promises | |
| `Drivemap` | `enable`, step by step, by a set of tools | `DrivemapState` |
| `Capture` | `run_capture`, `CaptureSession` and the notification task, against a title | |
| `TypedCommands` | every typed command as data, the grammar of their answers, and how they are read; no variables | |
| `CInterface` | the entry points of the C interface and the containers they return; no variables | `TypedCommands` |
| `Handle` | one `XeedeeClient` shared by threads, and the command builder | `CInterface` |
| `MCHandle` | who calls what, for TLC | `Handle` |
| `ConsoleTool` | one invocation of the tool, any subcommand | |
| `MCConsoleTool` | command lines and file systems for TLC | `ConsoleTool` |
| `Surfaces` | the two tilings and how they are undone; no variables | |
| `Pictures` | recordings and screenshots as a console sends them, how far the tool has come with one, and what it promises to make of it | `Surfaces` |
| `Recording` | the frame cursor, `xbm info`, `extract` and `encode`, and the conversion of a screenshot | `Pictures` |
| `MCRecording` | frame and screen sizes for TLC | `Recording` |
| `EngineCoreProofs` | lemmas about the engine's operators | `EngineCore` |
| `ClientEngineProofs` | theorems about `ClientEngine` | `ClientEngine`, `EngineCoreProofs` |
| `ClientSessionProofs` | theorems about `ClientSession` | `ClientSession`, `EngineCoreProofs` |
| `DiscoveryProofs` | theorems about `Discovery` | `Discovery` |
| `DiscoveryRunProofs` | theorems about `DiscoveryRun` | `DiscoveryRun`, `DiscoveryProofs` under the refinement mapping |
| `ToolProofs` | theorems about `ConsoleTool`, and about `Drivemap`, which two of its subcommands run | `ConsoleTool`, `DrivemapState`, an instance of `Drivemap` |
| `CaptureProofs` | theorems about `Capture`, and about `Recording`, which takes over the file that is captured | `Capture`, `Pictures`, an instance of `Recording` |
| `HandleProofs` | theorems about `Handle` | `Handle` |

### EngineCore

`Engine` is the struct of `client/engine.rs`: `mode` and `expect` are `State`
and `HeadExpect`; `remaining` and `data` are what `ReadingMultiline` and
`ReadingBinary` carry; `inbox`, `outbox`, `events` are the three buffers. Each
method is an operator of the same name, written from its guards and early
returns. `Step` is one call of `step`, `Advance` the loop around it. The loop
is a recursive function bounded by the length of the inbox; that the bound is
enough is proved (`AdvanceStays`, below), not assumed.

The wire is a sequence of symbols: a status code, a piece of text, a lone dot,
CR, LF, a byte that is not UTF-8. The text after a status code carries no
decision in the engine, so it is one symbol; a payload may hold any symbol,
status codes and line ends included. Status codes are reduced to the classes
`step` tells apart; `200` stands for 200, 205 and 206. Every byte carries a
ghost tag which no method reads: properties use it to say whose byte it is.
`answers` is history as well.

### ClientEngine

One action per public method, with the method's operator applied to the engine.
A call the engine rejects returns an error and changes nothing, so it is no
action. `asked`, `fed` and `pulled` are history; `MaxAsked` and `MaxFed` bound
the first two.

### ClientSession

`op` is the future under way: its kind and the await it is suspended at. An
action runs the code from that await to the next. `PumpWrite`, `PumpFlush`,
`PumpRead`, `PumpEof` and `PumpReadError` are `pump_until`; `ReadPrefix` to
`DropDownload` are `get_file` and `FileDownload`, its `Drop` included; `ReadMeta`
to `ShotFails` are `screenshot`; `WriteBody` to `DropUpload` are `FileUpload`,
which has no `Drop`. `CancelWrite` and `CancelRead` drop the future at an
await: a dropped write leaves any prefix of the line on the wire, a dropped
read leaves the engine as it is. The error a flush may return
(`client/mod.rs:301`) has no action: the library's own transport is a TCP stream
(`transport/tokio.rs`), whose flush does nothing and cannot fail. A transport
that buffers could fail there with the answer already read; the operation would
return an error, and the next one would fail on its write to the same broken
link, as after a failed write.

The read buffer of `pump_until` (`READ_CHUNK`, 8 KiB) is left out: a line never
fills it in the instances, and a read returns any non-empty prefix of what is on
the wire.
The four bytes of a length prefix are one symbol; the value they spell is the
length of the payload the console put behind it.

External, and marked so in the map: the console (`ConsoleAnswers`,
`ConsoleStores`, `Reply`), written from what the client code and its tests
expect, and the network (`ConsoleCloses` cuts what was sent anywhere,
`LinkBreaks` loses it).

### DiscoveryCore, Discovery, DiscoveryRun

The struct and its two methods as operators; time in ticks since construction.
A datagram is its source and what it parses to. `Discovery` calls the methods
in any order at any time, also after `Done`. `DiscoveryRun` is the loop of
`drive`: one action per arm of the match, and one per outcome of the wait. A
datagram may be received after the timer has fired, since `timeout_at` polls
the receive first. Opening the socket happens before the loop and is left out.
`DiscoveryRun` implements `Discovery` (`ImplementsDiscovery`): what was heard is
what was handed in, what `drive` returns is what its one `Done` yielded, and the
network is invisible.

### Drivemap

`pc` is the last step of `enable` a tool completed. The scan of xbdm's sections
is its result: the pointer found in the table. `Write` has four outcomes (done;
reported as done but lost, since nobody reads the byte count of `setmem`; done
but reported as failed; neither), the first of them always possible. `Faults`
names the kinds of steps that may fail in an instance: a write, a read, the
reconnect, or the process, which `Killed` ends between any two steps. `status`
changes nothing and `persist` is one upload; both are subcommands of
`ConsoleTool`. Nothing in the code keeps two tools apart, so calls may overlap;
`overlapped` remembers that some did, since most of what `enable` promises can
only be promised of calls that follow one another.

### Capture

`pc` is the step of `run_capture` done last. `wire` holds the lines on the
notify connection, `chan` what the task has parsed and the tool not yet taken;
`Listen` is `into_inner`, which drops any number of lines the engine had
buffered. A PIX! command is one exchange with four answers (`PIX!OK`; the plain
`OK` of a console without a handler; `PIX!NO`; busy), of which `send_ok` rejects
the last only. The timeouts may come at any time. Segments are the files of one
recording; `Foreign` is a file of another one whose name has the same shape,
since the tool goes by prefix and number. The title reports a failed creation
with a code; `Codes` are the ways to write one, in decimal digits or not, and
`ParsedNumber` is what the parser makes of each. `Convert` is one round of the loop
over `encode_xbm_to_mp4`. External: the title, which creates, writes and closes
in its own time, forgets a session or never answers, and the disk.

### TypedCommands, CInterface, Handle

A typed command is a record: what `wire_line` refuses, the shape of answer
`parse` takes, and a list of fields with the keys they are read from and the
kind of number each is. `LinesRead` says which lines of an answer become rows;
`ReadField`, `Rows` and `Parse` are the readers, with
the two number formats, the pairs that come first under a key, the 64-bit
values in two halves, the values cut to 16 bits, and the special rules of
`isstopped`, `getmem`, `setmem`, `xbeinfo` and `notify`. A word has 16 values
(`W`), spelled in two digits of base four or three of base three: enough for one
spelling to be readable as the other, which is where one of these readers goes
wrong. A name is a number that no parser reads.

`CInterface` says which command each entry point runs and which fields its
getters copy. `Handle` is `Inner::run`: the mutex taken, the line built, the
answer awaited and read, the mutex released; what happens to the line in
between is `ClientSession`. `Mutate`, `Quoted` and `Finish` are `XeedeeCommand`.
The console is external: it holds one number, of which every field of every
answer is a function of its own, so that an answer tells its age and a field
its place; it spells numbers either way, orders pairs either way, puts other
lines before those that count, spreads a row over lines, refuses, or answers
with another success. The number only grows, up to `LastClock`, so a stale
answer can never pass for a new one. `Spellings` are the ways to answer, `Misread`
the entry points some answer of which is read as something else than the
console held: a statement about the readers alone, for every number and every
spelling, which `ParsingIsExact` says of what the threads ask.

Left out: keys are compared without regard to case and are symbols here; a line
in which a token begins with `=` parses to nothing; `ArgBuilder`'s formatting of
numbers and the flags of `reboot`, `stopon` and `databp`; the sizes of C
buffers, which Rust checks; a mutex poisoned by a panic, which makes every later
call an error.

### ConsoleTool

`job` is the command line, `remote` the console's file system, `local` what has
been written here. The subcommands that run one command and print it are one
action, `RunCommand`; the others have an action for each exchange or local step.
The directories under way are a stack, which the code keeps as recursive
futures. `Fails` is a refusal or the end of the connection, after which every
exchange fails. `Edit` is the other program: it removes, rewrites and creates
files and directories while the tool runs. `sent` is what the console was asked,
on which connection: nand-dump has a connection for its probe, which it leaves
with bye, those of `enable` and one for the download. `Enable` is one action for
the whole of `enable`, whose steps are `Drivemap`'s: it asks the first so many of
`Enabling`, as far as it gets. Two things of one invocation count as one request
each: the several reads of `drivemap-status`, and those of `enable`'s discovery;
and `raw` sends whatever line the user typed. A console's files form a finite tree
(`IsTree`), which the named assumption says of every file system the tool may
meet at its start. `tree` sorts what it lists (`InOrder`); `get -r` and the drives keep
the order of the console, which may be any.

### Surfaces, Pictures, Recording

A buffer is its length and a conversion a function from the bytes it writes to
those it reads; shifts and masks are products and remainders. `Recording` walks
a file of records with `NextFrame`, for each combination of the header's flags,
and then decodes them; what stands between records is noise that is no header.
Sizes wrap at `Word` (2^32 in the code), and the assumption says that a
console's frames do not reach it. `Pictures` holds what is the console's: where
it put each record (`StartOf`), and where a file may have been cut (`Cuts`). The alternate magics are decoded like the
standard one. The raw output of `extract` and the display fields of the header
are left out.

## Runs

| Run | Instance | What it shows |
| --- | --- | --- |
| `EngineAnyCaller` | ten chunks: every status, answers cut in a line and in a body, two answers in one piece, a line no parser accepts; 7 bytes, 2 commands, lines of up to 2 bytes | one answer each, events in order, death for good, cuts without effect, and that it refines `CommandChannel`, which says that no call brings two answers |
| `SessionAllOps` | all seven kinds of operation, two in a row, payloads that look like response lines, futures dropped at any await, uploads abandoned, the stream cut, closed or broken anywhere | answers are exact, heads are the command's own, a usable client is in step with the console, payload and commands never change places, and every operation ends; after a dropped flush a result is still one whole answer |
| `DiscoveryAnyCaller` | two sources, both filters, deadline 5, two sends two ticks apart, three datagrams, two `Done`s | nothing accepted is lost or repeated; budget and spacing of the sends |
| `DiscoveryNetwork` | three consoles, two with the wanted name, one of which also sends something malformed; deadline 3, two sends | that `drive` is one of the callers of `Discovery`, what it returns, its timers, and that it returns |
| `DrivemapCalls` | two tools, three calls that overlap or do not, every step may fail | the promises about a wedged invocation, that success means restored, and that with nothing failing only a call that read another's hijack leaves the console hijacked |
| `CaptureAnyTitle` | two calls, two segments, a foreign file, two lines of noise, error codes in decimal and not | no awaited notification is missed, recording starts on a file made for it or on an error code that is not decimal, no completed segment is lost, none is fetched unfinished, and `run_capture` returns |
| `HandleShared` | two threads, one of which tries all fifty entry points while the other asks for the time or builds a raw line of two arguments; the console's number moves once | every answer there may be, for all sixteen numbers, is read back in every field; each thread reads what the console held during its call; a finished line holds every argument; every call returns |
| `Tool` | every subcommand, the options of `tree` and `get`; two file systems, three levels; two edits | whole files on success, an exact tree, no request twice but those that change nothing, and an end |
| `Recording` | frames of two super-blocks side by side and one above the other, up to two records, both blocks, sound; cut at, before and after each record's end; three screens on whole and on cut tiles | whole records in order; both detilings exact |
| `SessionShortRange` | the console advertises another length than asked for | violated: see below |
| `DrivemapError` | two calls of one tool, of which only the reconnect may fail | violated: see below |
| `HandleStopAddress` | one thread asks why it is stopped, ten contents of the console | violated: see below |

*Bounds.* Two commands or operations are enough for what one of them leaves
behind to meet the next; a third meets nothing new, since the engine keeps
nothing of a command but its inbox, its mode and its queue.
A line limit of 2 lets lines below, at and above it appear. Payloads of length
0 and 2 cover the empty payload, a payload moved in one piece and in two, and
one that ends in a line terminator. Seven bytes let an answer be cut, completed
and followed by the start of another. Two sends in five ticks leave room for
late polls, for a budget used up before the deadline, and for one that is not;
three datagrams from two sources give repeats from both sides of a decision.
Three calls of `enable` are one that fails, one that starts from what it left,
and one after that; two tools, so that the state one leaves meets the other, and
so that calls overlap. Two calls of `run_capture` let the second meet what the
first left on the disk and in the title; two segments are one that is being
written while another is done. Two threads are one inside the mutex and one in
front of it; each calls once, because a call leaves nothing behind but its
answer; starting at 4 the console's number gives rows, halves and signs that
differ between neighbouring fields. Three levels of directories are one the walk
returns into twice; two edits can remove a directory and make it again. Two
records are one that is reached by the size of another; the frame sizes are the
two that differ in the order of their super-blocks.

*Deadlock* is not checked: callers may stop calling, clocks and histories are
bounded, and a closed connection has nothing left to do. What must not stop is
stated as a liveness property instead. `Recording` ends by itself and has no
liveness property: each of its steps moves on in a bounded file.

*Fairness.* `ClientSession`: weak fairness of `ClientStep`, because an executor
polls a future whose await is ready, and of `ConsoleStep`, because a console
that never answers leaves a client without timeouts waiting, which is what the
code does. Starting, dropping and abandoning operations, and failures of the
network, are owed by nobody. `Capture`: weak fairness of the tool and of each of
its two timeouts; nothing is owed by the title, so `CaptureEnds` rests on the
timeouts alone. `Handle`: weak fairness of each thread inside or in front of the
mutex, and of the console or the end of the connection, since no call has a
timeout; the mutex needs no more because each thread calls a bounded number of
times. `ConsoleTool`: weak fairness of the tool's next step, and the other
program changes a bounded number of things, as a tree that grows for ever is
walked for ever. Nothing is owed by a notification channel: pix-notify with a
`--duration` ends at its deadline, and without one, the default, it listens until
its channel ends or it is stopped, which may be never; `ToolEnds` leaves it
there. `Drivemap` and `ConsoleTool` too suppose that a console answers or the
connection ends: of their waits only that for the invocation has a timeout.
`DiscoveryRun`: weak fairness of the runner and of
the clock; datagrams, losses and receive errors are owed by nobody, so
`DriveReturns` needs none of them. `Drivemap`: weak fairness of each tool's next
step, calls are started at will.

Some properties are conditional, and say on what: `AnswersAreExact` and its
neighbours end with the first carelessness of the caller (an abandoned upload, a
future dropped in a pending flush). After a dropped flush `AnswersAreWhole` is
what is left, after an abandoned upload not even that: the command that follows
is stored as payload, the verdict on the upload answers it, its own answer is
taken for the body of a third, and that is a mixture of two (`AnswersAreWhole`
without its condition on uploads, with three operations). `op.careless` is the
set of what was let go of.
`CutsDoNotMatter` names its one exception, a line of exactly the limit;
`EverySegmentKept`, `ReadyUnlessMisread` and `FetchesCompleted` exempt a
call that found the title busy with another, and the first and the last a call
that went on without CaptureEnded. Type invariants are parts of the inductive
invariants of the proof modules and are no properties of runs: what TLC could
say of them there, TLAPS says for every instance.

Each property of a passing run has a mutant: an operator, defined just before
the one it replaces, that changes the code's behaviour the way a plausible bug
would, and under which the property fails.

## Where code and documentation disagree

Three runs end in a counterexample, each about one sentence of the repository.

- `SessionShortRange`: a ranged transfer refused for its length returns the
  engine to `Idle` with the body unread (`commands/file.rs:373`); the next
  command reads body bytes as its head, which is what `abort_stream` exists to
  prevent (`client/engine.rs:339`).
- `DrivemapError`: "the patch is reversed even on error"
  (`commands/dangerous/drivemap.rs:20`), but not when the reconnect fails
  (`drivemap.rs:562`), and not by the next call either. A handler outside `.text`
  is refused as that of "a console that was left in a broken state from a prior
  run" (`drivemap.rs:530`); the broken state `enable` itself leaves, with the
  handler at the routine, lies inside: the next call takes it for the original,
  puts it "back", and reports success. With the other kinds of `Faults` the same
  is found of a hijack that took and was reported as failed, of the restoring
  write, and of a tool killed between the two.
- `HandleStopAddress`: `parse_stop_reason` tries the address of a breakpoint as
  a decimal number first, its `0x` stripped, so `addr=0x80123456` is reported as
  80123456 (`commands/debug.rs:240`); `commands/kv.rs:9` names this very spelling
  as hexadecimal.

Others, met while modelling and not kept as runs: "the hresult is on the
notification line as a trailing hex; a 0 means success" (`main.rs:2283`), but
`Notification::parse` reads decimal, and 0 when it cannot
(`commands/pix/session.rs:119`), so that an error such as 8007000E is a success
and the tool records on a file that was not made (`ReadyUnlessMisread` with
`"letters"` left out of it, and `"letters"` in `Codes`); a line of exactly the
maximum length is accepted in one piece and kills the session when its CR
arrives before its LF, because the unterminated line is measured with its CR
(`client/engine.rs:537`; `LineAtLimit` is that line, and `CutsAreInvisible` that
nothing else depends on the cuts); a future dropped while `flush` is pending, after the
answer was read and before it was polled, leaves the answer in the queue of an
idle engine, and the next command returns it as its own (`client/mod.rs:301`); a
malformed datagram is not ignored, as `discovery/engine.rs:234` says, but
silences its source (`discovery/engine.rs:241`); `PIX!NO` counts as accepted
(`commands/pix/session.rs:302`); a wait for CaptureEnded that times out goes on to fetch and delete, and segments still
being written are then lost (`main.rs:2364`); a call that fails tells the title
nothing, and the next one meets its recording; a file of another recording whose
name continues with digits is fetched and deleted as a segment (`main.rs:2425`);
`get` takes a path it cannot ask for its attributes for a file; `quoted` gives
up the builder when it refuses its text, and the appends that follow are silent
(`xeedee-ffi/src/lib.rs:109`); the two other magics of a recording are decoded
with the standard layout, though `commands/pix/xbm.rs:67` says they are not
decoded; `to_rgba8` accepts data that covers the visible pixels but not their
tiles, and leaves the rest black (`commands/screenshot.rs:130`); a command is accepted
before the previous answer was pulled (`client/engine.rs:40`); a terminal
engine still hands out queued events (`client/engine.rs:359`); a datagram
handed in after `Done` is returned by the next one (`discovery/engine.rs:433`);
a lookup handed two matches before its next poll returns both
(`discovery/engine.rs:163`); `enable` reports success without having looked at the
drive list (`drivemap.rs:21`); two tools that overlap undo each other: one
discovers the other's hijacked pointer as the original, hijacks what is
hijacked, restores that, and reports success, while the other, whose own restore
came in between, is told that the pointer it reads back is wrong
(`drivemap.rs:547`; no document promises anything of overlapping calls, and
`HungInvokeCannotStrand` says that without a failure no other order of their
steps leaves the console hijacked); a ranged `getfile` is
read with a length prefix, which `commands/file.rs:7-8` says it does not have; a
screenshot is undone from tiles, though `commands/screenshot.rs:13-16` calls the
layout linear, with padding to strip from each row; `MAX_PREFIX_LENGTH` can never be exceeded by a
32-bit prefix (`commands/file.rs:496`).

## What is proved

`tlapm` on each of the proof modules checks, for every value of the constants
that satisfies the modules' named assumptions (TLC evaluates those in the runs):

| Theorem | States | For every |
| --- | --- | --- |
| `AnswersMatchCommands` | `Spec => []OneAnswerEach` | alphabet of chunks, line limit, caller, peer |
| `NeverTwoAnswers` | `Spec => OneAnswerPerBatch` | the same |
| `EventsInOrder` | `Spec => []EventOrder` | the same |
| `DeadForGood` | `Spec => DeadStaysDead` | the same |
| `CutsAreInvisible` | `Spec => []CutsDoNotMatter` | the same, and every cut |
| `EngineImplementsChannel` | `Spec => ImplementsChannel` | the same |
| `TypeCorrect` | `Spec => []TypeOK` of `ClientEngine` | the same |
| `HeadsAreOwn` | `Spec => []HeadIsOwn` | operations, payloads, lengths, line limit, cuts and losses, while `~ ShortRanges` |
| `IdleIsQuiet` | `Spec => []QuietWhenIdle` | the same |
| `PayloadIsStored` | `Spec => []PayloadNeverExecuted` | the same |
| `CommandsAreRun` | `Spec => []CommandsNeverStored` | the same |
| `AnswersExact` | `Spec => []AnswersAreExact` | the same |
| `AnswersWhole` | `Spec => []AnswersAreWhole` | the same |
| `NothingLostOrRepeated` | `Spec => []AcceptedOnce` | sources, names, filters, order of calls |
| `BudgetKept` | `Spec => []SendsSpaced` | budget, interval, deadline, lateness |
| `DriveIsACaller` | `Spec => ImplementsDiscovery` | network and clock |
| `DriveIsExact` | `Spec => []ReturnsWhatItHeard` | network and clock |
| `LookupReturnsOne` | `Spec => []LookupIsExact` | network and clock |
| `SleepIsAhead` | `Spec => SleepsAhead` | network and clock |
| `ConsoleAskedOnce` | `Spec => []AskedOnce` | command line, file systems that are trees, changes by another program, failures |
| `TreeExact` | `Spec => []TreeIsExact` | the same |
| `DownloadIsWhole` | `Spec => []SuccessMeansWhole` | the same |
| `HandlerComesBack` | `Spec => []HungInvokeCannotStrand` of `Drivemap` | number of tools and calls |
| `FlagIsLast` | `Spec => []FlagAfterRestore` | the same |
| `RoutineRunsOnce` | `Spec => []RegisteredOnce` | the same |
| `SuccessIsReal` | `Spec => SuccessMeansRestored` | the same |
| `NoSegmentLost` | `Spec => []EverySegmentKept` | number of segments, lines, calls, failures |
| `NoHalfSegment` | `Spec => []FetchesCompleted` | the same |
| `SubscribedInTime` | `Spec => []NothingMissed` | the same, however error codes are written |
| `CreatedFirst` | `Spec => []ReadyUnlessMisread` | the same |
| `RecordingIsWhole` | `Spec => []ImagesAreWhole` of `Recording` | number of records, header blocks, sound, size of frames, any of the cuts |
| `ColourTrue` | `Spec => []ColourStaysWithItsPixel` | the same |
| `PixelsCopiedOnce` | `Spec => []PixelsOnce` | size of screenshots and of framebuffers |
| `NothingOfAnother` | `Spec => []OneExchange` | set of threads, whatever they call |
| `NoArgumentDropped` | `Spec => []NothingDropped` | number of builders and appends |
| `ReadersAreCurrent` | `Spec /\ []ParsingIsExact => AnswersAreCurrent` | set of threads, whatever they call |

### The arguments

*Engine.* The difficulty is `Advance`: a method calls `step` any number of
times, and an invariant of single steps says nothing of how many answers a call
produces. `Progress(e, f)` relates an engine to what any number of steps make
of it: it stays alike, or a command in flight stays in flight, or gets its one
answer, or the banner opens it, or it dies. One step makes progress
(`StepProgress`), and progress composes because an engine that has answered is
in a mode where a step does nothing; so `Advance` makes progress
(`AdvanceProgress`, by induction over the recursive function `run`, with the
least number principle in place of the library's induction theorem). That no
engine moves after `Advance`'s bound is `AdvanceStays`. From there each method
is one of the `Moves`, the action-level form of `CommandChannel`'s steps
(`StepMoves`, one case per action); `OneAnswerPerBatch` and the refinement are
read off `Moves`, and `TypeOK /\ OneAnswerEach` is inductive. `OneAnswerEach`
alone is not: its induction needs the mode to be one of the eight. What a call
adds to the event queue follows the same way (`Emits`: nothing, one answer, the
banner, or one last event that kills), which with what was pulled before gives
the order of events; `DeadStaysDead` needs no invariant but the types.

That cuts do not matter is about `Advance` again, now given some of the bytes
and then the rest. A step that found its line or its body in the inbox finds the
same one when more bytes stand behind it, so it commutes with the arrival of
bytes, mode by mode; what a step leaves is what `Advance` would have gone on
from (`AdvanceOfStep`), and `Advance` goes on until no step moves
(`AdvanceSettles`). So `Advance` of some bytes and then of all of them is
`Advance` of all (`AdvanceOfMore`), by the least number of steps for which it
were not. The case left over is the engine that waits for the end of a line:
there the code measures what it has against the limit, and the proof shows that
only a line of exactly the limit, cut between its CR and its LF, is measured
differently (`LineAtLimit`). An engine that hands its body out is excepted,
because its bytes no longer go through `recv`.

*Session.* None of the six properties is inductive. The first four say that
bytes are absent, and what keeps them absent is that every byte still to come is
expected.
The invariant therefore follows what is on its way to the client, the bytes in
the engine's inbox and on the wire behind them: at any moment they are a cut of
what is still to come of the one reply the operation waits for, in the form the
engine's mode reads (`Fits`), and the console is in the state that goes with it
(`Wire`: it has the command to read, or the upload to store, or it has
answered). One step of the engine keeps that (`StepIsSound`), so `Advance` does;
the network may only cut (`CutOfFits`, `CutOfWire`), so whatever a lost
connection leaves still fits; and a transfer that ends has taken its payload to
the last byte. The invariant ends with the first carelessness, and so do the
first five properties: an abandoned upload, or a future dropped in a pending
flush, breaks them (see the runs). The hypothesis `~ ShortRanges` says that the console
advertises the length a ranged transfer asked for; without it the body is left
on the wire with the engine idle, which `SessionShortRange` shows. A line longer
than the limit needs no hypothesis: it kills the engine.

`AnswersAreExact` takes a second layer, `Told`, on top of the first: what the
engine has collected of a reply (its head, its lines, its body), what the
transfer has taken out of it, and what is still to come make up the answer the
console gave, and an operation that reports has nothing left to come
(`Reported`, which also says that the console has no more to say of it). It
needs that operations are numbered as they start (`Numbered`), that a client
reads on only when the head is not there yet (`Settled`), and that a bye ends
with the whole answer or with none (`Parting`).

`AnswersAreWhole` is about the states that both leave out, those after a dropped
flush (`SessionAstray`). Commands may then be on the wire that nobody waits for,
and answers in the engine that the next operation takes for its own. The
invariant `Astray` says what these can be: everything in the engine's queue is a
whole answer that the console gave to some operation, and to which it has no more
to say, or the invitation to send an upload; the inbox holds at most the one-line
verdict on an empty upload; and whoever takes an answer out of the queue leaves
the engine waiting for a head, so that nobody reads on and nothing is mixed. That
carelessness begins in a state where all of this holds is `GoesAstray`, and there
the first two layers are what it follows from. After an abandoned upload no such
invariant exists.

*Discovery.* `Accepted`, the reference, is a recursive function of the whole
history. Its one property that the invariant needs, what a further datagram adds
to it (`AcceptedOfAppend`), is proved by building the function for n + 1 from
the one for n (`ListsExtends`) and an induction over sets of naturals
(`SetInduction`). The invariant says that what was yielded, followed by what the
machine has found and not handed out, is `Accepted` of what was handed in
(`SeenIsHeard`, which it needs, says that who was seen is who was heard); and
that a send is planned exactly while one is left, an interval after the last
(`PlanKept`).

*The runner.* `drive` with its network maps to `Discovery` step by step, so
`DiscoveryRunProofs` takes the theorems of `DiscoveryProofs` under the mapping
instead of proving them again. What a lookup returns needs more, because a
`Discovery` handed two matches before its next poll returns both: drive polls
after every datagram, so it never waits with something found (`LookupInv`).

*The tool.* The three properties look back: at what was asked, printed or
stored. What makes them inductive is what is still on the stack. No entry of it
is at or below another (`Apart`), and nothing visited is at or below an entry
still to come (`Ahead`); both hold because what a listing adds is just below the
one entry that left. From there no path is asked for or printed twice. For the
tree, `Tree` keeps of every level of the stack that its entries belong under a
line that says it was listed, and of everything untouched that the listings so
far should show that it is shown or on the stack (`Found`): when the stack is
empty the tree is whole. For `get -r`, `Mirror` says the same of files: whatever
is untouched below the job's path is here, below an entry still to come, or being
fetched (`Covered`), and what is fetched serves what the console held. Steps that
visit nothing (`Plain`) keep all of it for one reason. `Ahead` is needed for more
than `AskedOnce`: another program may remove a file and create it again
while the tool runs, and only the paths it touched are let off. What is asked of
no path is asked in stages: nothing before the first request, then at most what
the probe said (`Probed`), and no bye but the probe's before the end (`Spoken`);
of `enable`'s requests only the list of drives is there twice, before and after
the connection changes (`EnableAsksAre`).

*Drivemap.* The promises are about what holds when no call is under way; the
invariant says what holds at each step of the one that is (`HijackIsBrief`,
`FlagGuards`), while nothing but the invocation has failed. `ReadBack` holds
whatever fails, and is all that `SuccessMeansRestored` needs. All of this ends
with the first overlap (`CallsInv`); beyond it the invariant gives a hijacked console a reason (`HijackHasReason`): a
call that has hijacked it and not yet put back, or one that read a hijack.

*Capture.* Two facts meet: a title that has said it ended writes no more in this
call, with its word anywhere between its socket and the tool (`EndedIsEnded`);
and what is deleted was fetched whole just before (`FetchedFirst`). For the
notifications, `TitleFollows` bounds how far the title can have come at each
step of the call, so that what is awaited has not been said, or is under way.
A failed creation leaves its code in the title's phase, so that the invariant can
tell a failure that was read as one, which ends the call, from one that was read
as 0, after which the title is free and the tool goes on.

*Recordings.* The cursor knows where it is only by the sizes it has added up, so
the invariant (`Walked`) is that it stands where a record starts, or would. That
needs three things of the sizes: `PixelsFound`, that the padding the code
computes is the one a writer leaves; that no size reaches the word it wraps at
(`SizeIsWritten`); and that records lie apart, so that what is parsed at a start
is that record's header and no other's (`StartsApart`, `HeaderFound`). The
magic of the first header is taken on trust, so a file without records could be
misread if it went on long enough; `Walked` says that no cut leaves one so long.
`StartOf` is a function over the records of one file; that it has values is
proved with the least number principle (`StartsExist`).

*Pixels.* Both proofs take coordinates apart digit by digit. `TileForm`: the
shifts and masks of a screenshot address 4096 bytes for each tile before, plus a
sum of the digits of the place in the tile (`Within`); one digit is twisted by
another, and still no two places meet (`WithinApart`), nor two tiles
(`GridApart`). For a recorded frame, `PlacedByGroup` says which patch of 16x2
pixels each group of 48 bytes fills; patches tile the picture (`PatchInside`,
`PatchReached`), `Y_MAP` goes once over a patch (`YMapReached`), and chroma lands
at half the row of its patch (`LumaSpot`, `ChromaSpot`).

*Shared client.* `OneInside` is the mutex, `OneExchange` what it is for: what is
between client and console is the line, or the answer to the line, of the one
thread inside, and nothing when none is. So an answer is to the reader's own
question and was given during its call. That it is then read back right is no
matter of threads: `Misread` is a constant, the entry points one of whose
answers is read wrong, and TLC computes it whole, for all entry points, all
sixteen numbers and all spellings. `ReadersAreCurrent` takes that as its
hypothesis, since what the readers do is computed by recursion over lines, which
the provers cannot follow.

### Only model-checked

Liveness (`OperationsEnd`, `DriveReturns`, `CallsEnd`, `CaptureEnds`,
`CallsReturn`, `ToolEnds`): fairness and ENABLED are beyond the prover.
`ParsingIsExact`: it compares what recursive definitions compute for every input,
and the library's induction theorems take an operator as a parameter, which no
installed prover can instantiate.

## What is not modelled

*PE and PowerPC readers* (`commands/dangerous/{pe,ppc}.rs`, the scans of
`sigscan.rs`): pure decoders of one image; what they find enters `Drivemap` as
any outcome of `discover`. That `read_u32_be` panics on a short answer
(`sigscan.rs:53`) is left out with them.

*Transports*: TCP is the external network of `ClientSession`; mock, recording
and capture transports are tools for tests, and the tool's `--capture` is the
step `WriteCapture`.

*Of the C interface*: discovery (which is `DiscoveryRun` behind one call), the
screenshot (an operation of `ClientSession`, and `Surfaces`), time conversions,
buffer sizes.

*Of the PIX code*: `profile.rs`, tables and decoders nothing in the capture loop
uses.

*Formats*: character-level parsing and the formatting of numbers, dates and
paths. *Memory use*: the screenshot's metadata line is buffered without a limit
(`commands/screenshot.rs:276`), which a bounded instance cannot show.

## Plan

1. *Done:* engine, session, discovery, drivemap; capture, commands and C
   interface, the tool, containers and surfaces.
2. *Done:* the theorems above.
3. *Models left*: `getmem` paging under `sigscan::read`.
