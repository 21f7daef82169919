---------------------------- MODULE ConsoleTool ----------------------------
(***************************************************************************)
(* One invocation of the command line tool (xeedee-cli/src/main.rs) against*)
(* a console whose files another program changes meanwhile.  Every step is *)
(* what the tool does from one answer of the console to the next; how a    *)
(* command and its answer travel is ClientSession, what drivemap-enable    *)
(* does is Drivemap, capture is Capture.                                   *)
(*                                                                         *)
(* A path is a sequence of names, a drive first; a file system maps the    *)
(* paths there are to what they hold: Dir, or the version of a file.       *)
(***************************************************************************)
EXTENDS Integers, Sequences, SequencesExt, FiniteSets

CONSTANTS
  Jobs,         \* the command lines to try
  FileSystems,  \* what the console may hold at first
  MaxEdits      \* bound on what the other program changes

Dir == 0
Part == -1        \* of a local file: some of the bytes only
Uploaded == -2    \* of a remote file: what this invocation put there
Image == -3       \* of a local file: the raw NAND flash

\* The drive that drivemap-enable mounts; getfile of it is the raw image.
Flash == <<0>>

-----------------------------------------------------------------------------
(* The subcommands. *)

\* Those that run one typed command, or send one line, and print the answer;
\* the several reads of drivemap-status are one here.  What mkdir, rm, mv and
\* setmem do to the console is the console's affair, like a file that changes
\* by itself.
InfoArms == {"dbgname", "systime", "dmversion", "consoletype", "consolefeatures",
             "drivelist", "df"}
FileArms == {"ls", "stat", "mkdir", "rm", "mv"}
HostArms == {"fileeof", "altaddr", "getpid", "consolemem", "netaddrs", "modules"}
ProcessArms == {"modsections", "threads", "threadinfo", "xbeinfo"}
MemoryArms == {"walkmem", "getmem", "pclist", "querypc", "sockets"}
ControlArms == {"isstopped", "reboot", "set-title", "setmem", "bp", "databp"}
OtherArms == {"screenshot", "pixcmd-probe", "raw", "drivemap-status"}
Arms == UNION {InfoArms, FileArms, HostArms, ProcessArms, MemoryArms, ControlArms, OtherArms}

\* parse_u32, parse_thread_id, decode_hex and the kind of databp: what is not
\* a number is refused before anything is sent.
Checked == {"threadinfo", "getmem", "isstopped", "setmem", "bp", "databp"}

Uploads == {"put", "writeto", "drivemap-persist"}
LocalOnly == {"discover", "resolve", "xbm"}
OwnConnections == {"drivemap-enable", "nand-dump", "pix-notify"}
Commands == UNION {Arms, Uploads, LocalOnly, OwnConnections, {"ping", "tree", "get"}}

\* range: none of --offset and --size, one, or both.  timed: pix-notify was
\* given a --duration; without one it is 0, for ever.
Job == [command : Commands, path : Seq(Nat), recursive : BOOLEAN,
        range : {"none", "one", "both"}, depth : Nat, files : BOOLEAN,
        timed : BOOLEAN, capture : BOOLEAN]

\* A console holds finitely many files, each in a directory that is in a
\* directory, and so on up to a drive.
IsTree(fs) ==
  /\ IsFiniteSet(DOMAIN fs) /\ DOMAIN fs \subseteq Seq(Nat) \ {<< >>}
  /\ \A p \in DOMAIN fs :
       /\ fs[p] \in Nat
       /\ \A n \in 1 .. Len(p) - 1 : SubSeq(p, 1, n) \in DOMAIN fs /\ fs[SubSeq(p, 1, n)] = Dir

ASSUME ToolAssumption ==
  Jobs \subseteq Job /\ MaxEdits \in Nat /\ \A fs \in FileSystems : IsTree(fs)

VARIABLES
  job, at,
  link,     \* the connection
  remote,   \* the console's file system
  local,    \* what the tool has written to this disk
  stack,    \* of each directory being walked: the entries still to come
  fetch,    \* the file being downloaded, and what the console serves of it
  printed,  \* lines of the tree: a path, and what became of its listing
  result,
  sent,     \* history: what the console was asked, on which connection
  touched,  \* history: the paths the other program changed
  edits

vars == <<job, at, link, remote, local, stack, fetch, printed, result, sent, touched, edits>>

tool == <<job, remote, touched, edits>>    \* what a step of the tool leaves alone

Init ==
  /\ job \in Jobs /\ remote \in FileSystems
  /\ at = "start" /\ link = "down" /\ result = "none"
  /\ local = << >> /\ stack = << >> /\ printed = << >> /\ sent = << >>
  /\ fetch = [path |-> << >>, serves |-> Part]
  /\ touched = {} /\ edits = 0

Put(f, p, what) == [q \in DOMAIN f \cup {p} |-> IF q = p THEN what ELSE f[q]]
Holds(p) == p \in DOMAIN remote
IsDir(p) == Holds(p) /\ remote[p] = Dir
Children(p) == {q \in DOMAIN remote : Len(q) = Len(p) + 1 /\ IsStrictPrefix(p, q)}

\* With --capture the one connection there is was recorded, and the recording
\* is written whatever the outcome.
Recorded == job.capture /\ job.command \notin LocalOnly \cup OwnConnections
Ends(outcome) ==
  /\ at' = IF Recorded THEN "recording" ELSE "done"
  /\ result' = outcome

Proceeds(next) == at' = next /\ UNCHANGED result

\* One connection serves the whole invocation, but for nand-dump.
Connection ==
  CASE job.command # "nand-dump" -> "main"
    [] job.command = "nand-dump" /\ at = "probing" -> "probe"
    [] job.command = "nand-dump" /\ at # "probing" -> "download"
Exchange(request) == [on |-> Connection, asks |-> request]

\* One exchange: the console answers it as asked; or refuses it, or the
\* connection ends, as it has for every exchange after that.
Answers(request) == link = "up" /\ sent' = Append(sent, Exchange(request)) /\ UNCHANGED link
Refuses(request) == Answers(request)
Breaks(request) ==
  /\ link' = "down"
  /\ sent' = IF link = "up" THEN Append(sent, Exchange(request)) ELSE sent
Fails(request) == Refuses(request) \/ Breaks(request)

NothingElse == UNCHANGED <<local, stack, fetch, printed>> /\ UNCHANGED tool

-----------------------------------------------------------------------------
(* From the command line to the console. *)

First(command) ==
  CASE command \in Arms -> "running"
    [] command = "ping" -> "leaving"
    [] command = "tree" -> "rooting"
    [] command = "get" -> "stating"
    [] command \in Uploads -> "opening"
    [] command = "nand-dump" -> "probing"
    [] command = "drivemap-enable" -> "enabling"
    [] command = "pix-notify" -> "subscribing"

\* Connecting; reading the banner.
Start ==
  /\ at = "start" /\ job.command \notin LocalOnly
  /\ \/ link' = "up" /\ Proceeds(First(job.command))
     \/ at' = "done" /\ result' = "error" /\ UNCHANGED link
     \/ Ends("error") /\ UNCHANGED link
  /\ UNCHANGED sent /\ NothingElse

\* No console is an error of resolve, not of discover.
RunLocal ==
  /\ at = "start" /\ job.command \in LocalOnly
  /\ \E outcome \in {"ok", "error"} : Ends(outcome)
  /\ UNCHANGED <<link, sent>> /\ NothingElse

\* Mutant: a command that failed is tried again.
RunCommandAgain ==
  /\ at = "running"
  /\ \/ Answers(<<job.command>>) /\ Proceeds("leaving")
     \/ /\ Fails(<<job.command>>)
        /\ IF sent = << >> THEN Proceeds("running") ELSE Ends("error")
  /\ NothingElse

RunCommand ==
  /\ at = "running"
  /\ \/ job.command \in Checked /\ Ends("error") /\ UNCHANGED <<link, sent>>
     \/ /\ Answers(<<job.command>>)
        /\ Proceeds(IF job.command = "screenshot" THEN "saving" ELSE "leaving")
     \/ Fails(<<job.command>>) /\ Ends("error")
  /\ NothingElse

\* The picture is converted and written, or neither.
SaveScreenshot ==
  /\ at = "saving"
  /\ Proceeds("leaving") \/ Ends("error")
  /\ UNCHANGED <<link, sent>> /\ NothingElse

\* bye is sent after a success only, and its answer does not matter.
Leave ==
  /\ at = "leaving"
  /\ Fails(<<"bye">>)
  /\ Ends("ok") /\ NothingElse

\* A recording that cannot be written is an error, also of a success.
WriteCapture ==
  /\ at = "recording"
  /\ at' = "done" /\ result' \in {result, "error"}
  /\ UNCHANGED <<link, sent>> /\ NothingElse

\* pix-notify; its log may not be made, once the console has answered.
Subscribe ==
  /\ at = "subscribing"
  /\ \/ Answers(<<"notify">>) /\ Proceeds("listening")
     \/ Fails(<<"notify">>) /\ Ends("error")
  /\ NothingElse

\* The deadline is looked at before every read, and bounds it.
ListenUntilDeadline ==
  /\ at = "listening" /\ job.timed
  /\ Ends("ok")
  /\ UNCHANGED <<link, sent>> /\ NothingElse

\* The end of the channel; a read error, or Ctrl-C.  Neither is bound to come.
ListenUntilClosed ==
  /\ at = "listening"
  /\ \E outcome \in {"ok", "error"} : Ends(outcome)
  /\ UNCHANGED <<link, sent>> /\ NothingElse

-----------------------------------------------------------------------------
(* tree: run_tree and walk. *)

\* Directories before files, each by name, as walk sorts them.
Before(a, b) ==
  \/ a.dir /\ ~ b.dir
  \/ a.dir = b.dir /\ Last(a.path) < Last(b.path)

\* The entry at place i is the one with i - 1 before it.
InOrder(S) ==
  [i \in 1 .. Cardinality(S) |->
     CHOOSE e \in S : Cardinality({x \in S : Before(x, e)}) = i - 1]

Listing(p) == {[path |-> q, dir |-> IsDir(q)] : q \in Children(p)}
Shown(p) == InOrder({e \in Listing(p) : job.files \/ e.dir})
DirEntry(p) == [path |-> p, dir |-> TRUE]

\* The drives are the roots when no path is given, in the console's order.
ListRoots ==
  /\ at = "rooting"
  /\ \/ /\ job.path # << >>
        /\ stack' = << <<DirEntry(job.path)>> >>
        /\ Proceeds("walking") /\ UNCHANGED <<link, sent>>
     \/ /\ job.path = << >> /\ Answers(<<"drivelist">>)
        /\ \E drives \in SetToSeqs(Listing(<< >>)) : stack' = << drives >>
        /\ Proceeds("walking")
     \/ /\ job.path = << >> /\ Fails(<<"drivelist">>)
        /\ Ends("error") /\ UNCHANGED stack
  /\ UNCHANGED <<local, fetch, printed>> /\ UNCHANGED tool

Top == Last(stack)
Entry == Head(Top)
Rest == Front(stack) \o << Tail(Top) >>
Lists(p) == <<"dirlist", p>>

Line(listing) == Append(printed, [path |-> Entry.path, listing |-> listing])

\* The bottom of the stack holds the roots, at depth 0.
Descends == Entry.dir /\ (job.depth = 0 \/ Len(stack) - 1 < job.depth)

WalkPast ==
  /\ at = "walking" /\ Top # << >> /\ ~ Descends
  /\ printed' = Line("none") /\ stack' = Rest
  /\ UNCHANGED <<at, result, link, sent, local, fetch>> /\ UNCHANGED tool

\* Mutant: a directory that cannot be read ends the walk of its parent.
WalkIntoGivesUp ==
  /\ at = "walking" /\ Top # << >> /\ Descends
  /\ \/ /\ Answers(Lists(Entry.path)) /\ IsDir(Entry.path)
        /\ printed' = Line("listed")
        /\ stack' = Append(Rest, Shown(Entry.path))
     \/ /\ Fails(Lists(Entry.path))
        /\ printed' = Line("unreadable")
        /\ stack' = Front(stack) \o << << >> >>
  /\ UNCHANGED <<at, result, local, fetch>> /\ UNCHANGED tool

\* Mutant: a listing that got no answer is asked for again.
WalkIntoRetries ==
  /\ at = "walking" /\ Top # << >> /\ Descends
  /\ \/ /\ Answers(Lists(Entry.path)) /\ IsDir(Entry.path)
        /\ printed' = Line("listed")
        /\ stack' = Append(Rest, Shown(Entry.path))
     \/ Breaks(Lists(Entry.path)) /\ UNCHANGED <<printed, stack>>
  /\ UNCHANGED <<at, result, local, fetch>> /\ UNCHANGED tool

\* A listing that fails, for whatever reason, is a line of the tree.
WalkInto ==
  /\ at = "walking" /\ Top # << >> /\ Descends
  /\ \/ /\ Answers(Lists(Entry.path)) /\ IsDir(Entry.path)
        /\ printed' = Line("listed")
        /\ stack' = Append(Rest, Shown(Entry.path))
     \/ /\ Fails(Lists(Entry.path))
        /\ printed' = Line("unreadable")
        /\ stack' = Rest
  /\ UNCHANGED <<at, result, local, fetch>> /\ UNCHANGED tool

\* The end of a directory, in walk and in download_dir_recursive.
Return ==
  /\ at \in {"walking", "mirroring"} /\ Top = << >>
  /\ IF Len(stack) = 1 THEN stack' = << >> /\ Proceeds("leaving")
     ELSE stack' = Front(stack) /\ UNCHANGED <<at, result>>
  /\ UNCHANGED <<link, sent, local, fetch, printed>> /\ UNCHANGED tool

-----------------------------------------------------------------------------
(* get: one file, or a tree with -r. *)

Fetches(p) == fetch' = [path |-> p, serves |-> Part]

\* What cannot be asked for its attributes is taken for a file; a drive has no
\* name to give to one.
Stat ==
  /\ at = "stating"
  /\ \/ /\ Answers(<<"getfileattributes">>) /\ IsDir(job.path)
        /\ IF job.recursive /\ job.range = "none"
           THEN stack' = << <<DirEntry(job.path)>> >> /\ Proceeds("mirroring")
           ELSE Ends("error") /\ UNCHANGED stack
        /\ UNCHANGED fetch
     \/ /\ \/ Answers(<<"getfileattributes">>) /\ Holds(job.path) /\ ~ IsDir(job.path)
           \/ Fails(<<"getfileattributes">>)
        /\ IF job.range = "one" \/ Len(job.path) = 1 THEN Ends("error") /\ UNCHANGED fetch
           ELSE Fetches(job.path) /\ Proceeds("fetching")
        /\ UNCHANGED stack
  /\ UNCHANGED <<local, printed>> /\ UNCHANGED tool

\* download_dir_recursive: the directory is made here, then listed there, in
\* the console's order; the first error of any kind is the end.
MirrorDir ==
  /\ at = "mirroring" /\ Top # << >> /\ Entry.dir
  /\ \/ Ends("error") /\ UNCHANGED <<local, stack, link, sent>>
     \/ /\ local' = Put(local, Entry.path, Dir)
        /\ Answers(Lists(Entry.path)) /\ IsDir(Entry.path)
        /\ \E entries \in SetToSeqs(Listing(Entry.path)) : stack' = Append(Rest, entries)
        /\ UNCHANGED <<at, result>>
     \/ /\ local' = Put(local, Entry.path, Dir)
        /\ Fails(Lists(Entry.path)) /\ Ends("error") /\ UNCHANGED stack
  /\ UNCHANGED <<fetch, printed>> /\ UNCHANGED tool

MirrorFile ==
  /\ at = "mirroring" /\ Top # << >> /\ ~ Entry.dir
  /\ Fetches(Entry.path) /\ stack' = Rest /\ Proceeds("fetching")
  /\ UNCHANGED <<link, sent, local, printed>> /\ UNCHANGED tool

\* download_single_file: the console accepts before there is a local file.
GetFile ==
  /\ at = "fetching"
  /\ \/ /\ Answers(<<"getfile", fetch.path>>) /\ Holds(fetch.path)
        /\ fetch.path = Flash \/ ~ IsDir(fetch.path)
        /\ fetch' = [fetch EXCEPT !.serves =
             IF fetch.path = Flash THEN Image ELSE remote[fetch.path]]
        /\ Proceeds("storing")
     \/ Fails(<<"getfile", fetch.path>>) /\ Ends("error") /\ UNCHANGED fetch
  /\ UNCHANGED <<local, stack, printed>> /\ UNCHANGED tool

Stored == Proceeds(IF stack = << >> THEN "leaving" ELSE "mirroring")

\* Mutant: a download that breaks off is as good as its end.
StoreShort ==
  /\ at = "storing"
  /\ \E what \in {fetch.serves, Part} : local' = Put(local, fetch.path, what)
  /\ Stored
  /\ UNCHANGED <<link, sent, stack, fetch, printed>> /\ UNCHANGED tool

\* The file cannot be made; or is written in full; or the connection or the
\* disk fails on the way.
Store ==
  /\ at = "storing"
  /\ \/ Ends("error") /\ UNCHANGED <<local, link>>
     \/ local' = Put(local, fetch.path, fetch.serves) /\ Stored /\ UNCHANGED link
     \/ /\ local' = Put(local, fetch.path, Part)
        /\ link' = "down" /\ Ends("error")
  /\ UNCHANGED <<sent, stack, fetch, printed>> /\ UNCHANGED tool

-----------------------------------------------------------------------------
(* put, writeto, persist. *)

\* The local file may be missing; persist has none.
OpenSource ==
  /\ at = "opening"
  /\ \/ Proceeds("sending")
     \/ job.command # "drivemap-persist" /\ Ends("error")
  /\ UNCHANGED <<link, sent>> /\ NothingElse

\* A source that ends before the declared length, or a connection that does,
\* leaves some of it on the console.
Upload ==
  /\ at = "sending"
  /\ \/ /\ Answers(<<"sendfile", job.path>>)
        /\ remote' = Put(remote, job.path, Uploaded) /\ Proceeds("leaving")
     \/ /\ Fails(<<"sendfile", job.path>>)
        /\ remote' \in {remote, Put(remote, job.path, Part)}
        /\ Ends("error")
  /\ touched' = touched \cup {job.path}
  /\ UNCHANGED <<job, edits, local, stack, fetch, printed>>

-----------------------------------------------------------------------------
(* drivemap-enable and nand-dump. *)

\* A probe that fails is one that shows no drive.  Its connection is left with
\* bye, which goes out unless the connection has broken.
Probe ==
  /\ at = "probing" /\ link' = "down"
  /\ \/ /\ sent' = sent \o << Exchange(<<"drivelist">>), Exchange(<<"bye">>) >>
        /\ Proceeds("enabling") \/ (Holds(Flash) /\ Proceeds("reconnecting"))
     \/ sent' = Append(sent, Exchange(<<"drivelist">>)) /\ Proceeds("enabling")
  /\ NothingElse

\* What enable asks, in order, its discovery (the modules, and the sections of
\* xbdm in memory) counted as one exchange.  What comes after altaddr is asked
\* of a connection of its own; neither is left with bye.
Enabling ==
  << <<"modules">>, <<"drivelist">>, <<"getmem", "flag">>,
     <<"setmem", "drivemap">>, <<"altaddr">>,
     <<"setmem", "handler">>, <<"getmem", "handler">>, <<"setmem", "flag">>, <<"drivelist">> >>
Looked == 3
Invoked == 5
Enabled == 9
EnableAsks ==
  [i \in 1 .. Enabled |->
     [on |-> IF i <= Invoked THEN "hijack" ELSE "restore", asks |-> Enabling[i]]]

\* enable gets as far as its connections and the console let it; it is done
\* after looking when the flag is set already.  Once altaddr went out the drive
\* may be mounted, whether or not enable reports success.
Enable ==
  /\ at = "enabling"
  /\ \E n \in 0 .. Enabled :
       /\ sent' = sent \o SubSeq(EnableAsks, 1, n)
       /\ remote' = remote \/ (n >= Invoked /\ remote' = Put(remote, Flash, Dir))
       /\ \/ (n < Enabled \/ job.command = "nand-dump") /\ Ends("error")
          \/ /\ n \in {Looked, Enabled}
             /\ \/ job.command = "drivemap-enable" /\ Ends("ok")
                \/ /\ job.command = "nand-dump" /\ Flash \in DOMAIN remote'
                   /\ Proceeds("reconnecting")
  /\ UNCHANGED <<link, local, stack, fetch, printed, job, touched, edits>>

Reconnect ==
  /\ at = "reconnecting"
  /\ \/ link' = "up" /\ Fetches(Flash) /\ Proceeds("fetching")
     \/ link' = "down" /\ Ends("error") /\ UNCHANGED fetch
  /\ UNCHANGED <<sent, local, stack, printed>> /\ UNCHANGED tool

-----------------------------------------------------------------------------
(* The other program (external). *)

Known == UNION {DOMAIN fs : fs \in FileSystems}

Edit ==
  /\ at # "done" /\ edits < MaxEdits /\ edits' = edits + 1
  /\ \E p \in {q \in Known : Len(q) > 1 /\ IsDir(Front(q))} :
       \/ /\ Holds(p)
          /\ remote' = [q \in {r \in DOMAIN remote : ~ IsPrefix(p, r)} |-> remote[q]]
          /\ touched' = touched \cup {p}
       \/ /\ ~ IsDir(p)
          /\ remote' = Put(remote, p, IF Holds(p) THEN remote[p] + 1 ELSE 1)
          /\ touched' = touched \cup {p}
       \/ /\ ~ Holds(p)
          /\ remote' = Put(remote, p, Dir)
          /\ touched' = touched \cup {p}
  /\ UNCHANGED <<job, at, link, local, stack, fetch, printed, result, sent>>

-----------------------------------------------------------------------------

Steps ==
  \/ Start \/ RunLocal \/ RunCommand \/ SaveScreenshot \/ Leave \/ WriteCapture
  \/ Subscribe \/ ListenUntilDeadline
  \/ ListRoots \/ WalkPast \/ WalkInto \/ Return
  \/ Stat \/ MirrorDir \/ MirrorFile \/ GetFile \/ Store
  \/ OpenSource \/ Upload
  \/ Probe \/ Enable \/ Reconnect

Next == Steps \/ ListenUntilClosed \/ Edit

Spec == Init /\ [][Next]_vars

\* The console answers or the connection ends; and the other program does not
\* make directories for ever.  Nothing is asked of a notification channel.
FairSpec == Spec /\ WF_vars(Steps)

-----------------------------------------------------------------------------

Succeeded(command) == at = "done" /\ result = "ok" /\ job.command = command

\* Nothing on the way to p was changed while the tool ran.
Untouched(p) == \A q \in touched : ~ IsPrefix(q, p)

\* A download that reports success left no part of a file behind; with -r
\* everything under the directory that nobody changed meanwhile is here as it
\* is there, and the NAND dump is the image, whether its drive was mounted
\* already or had to be.
SuccessMeansWhole ==
  /\ result = "ok" => \A p \in DOMAIN local : local[p] # Part
  /\ (Succeeded("get") /\ job.path \in DOMAIN local /\ local[job.path] = Dir) =>
       \A p \in DOMAIN remote :
         (IsPrefix(job.path, p) /\ Untouched(p)) =>
           (p \in DOMAIN local /\ local[p] = remote[p])
  /\ Succeeded("nand-dump") => Flash \in DOMAIN local /\ local[Flash] = Image

Roots == IF job.path = << >> THEN Children(<< >>) ELSE {job.path}
WasListed(p) == \E i \in DOMAIN printed : printed[i] = [path |-> p, listing |-> "listed"]
Below(root, p) == IsPrefix(root, p) /\ (job.depth = 0 \/ Len(p) - Len(root) <= job.depth)

\* The tree shows no path twice, no path before its directory was listed, none
\* below the depth asked for; and of what nobody changed meanwhile it leaves
\* out nothing but what is under a directory it calls unreadable.
TreeIsExact ==
  job.command = "tree" =>
    /\ \A i, j \in DOMAIN printed : printed[i].path = printed[j].path => i = j
    /\ \A i \in DOMAIN printed :
         /\ \E root \in Prefixes(printed[i].path) :
              /\ Below(root, printed[i].path)
              /\ \E k \in 1 .. i : printed[k].path = root /\ (job.path # << >> => root = job.path)
         /\ printed[i].path = job.path \/ Len(printed[i].path) = 1
              \/ \E k \in 1 .. i - 1 :
                   printed[k] = [path |-> Front(printed[i].path), listing |-> "listed"]
    /\ Succeeded("tree") =>
         \A root \in Roots : \A p \in DOMAIN remote :
           (/\ Below(root, p) /\ Untouched(p) /\ (IsDir(p) \/ job.files)
            /\ (p = root \/ WasListed(Front(p)))) =>
             \E i \in DOMAIN printed : printed[i].path = p

\* What may be asked again, of another connection: it changes nothing there.
Harmless == {<<"drivelist">>, <<"bye">>}

\* The console is never asked the same thing twice in one invocation, so that
\* nothing is rebooted, written or deleted again; but the list of drives and
\* the bye of one connection may be those of another, too.  Nothing is asked
\* on a connection after its bye.
AskedOnce ==
  \A i, j \in DOMAIN sent : i < j =>
    /\ sent[i].asks = sent[j].asks => sent[i].on # sent[j].on /\ sent[i].asks \in Harmless
    /\ sent[i].asks = <<"bye">> => sent[i].on # sent[j].on

\* Every invocation ends, but for pix-notify without a duration, which listens
\* until its channel ends or it is stopped.
ToolEnds == at = "start" ~> (at = "done" \/ (at = "listening" /\ ~ job.timed))

=============================================================================
