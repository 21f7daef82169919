------------------------------ MODULE Capture ------------------------------
(***************************************************************************)
(* run_capture (xeedee-cli) over CaptureSession (commands/pix/session.rs): *)
(* a recording made by the title running on the console.  The tool holds   *)
(* three connections in turn: one on which notifications arrive, read by a *)
(* task of its own; one dedicated to the PIX! commands; and a fresh one    *)
(* that fetches and deletes the segments the recording left on the disk.   *)
(* What is fetched may then be encoded with ffmpeg, and its raw file       *)
(* removed.                                                                *)
(*                                                                         *)
(* The title, the console's disk and ffmpeg are external: they do what     *)
(* run_capture waits for, in their own time or never.  Calls of the tool   *)
(* follow one another with the same remote path, each with an output       *)
(* directory of its own; the local copies are those of the latest call.    *)
(***************************************************************************)
EXTENDS Integers, Sequences, FiniteSets

CONSTANTS
  Segments,  \* bound on the segments one recording writes
  Answers,   \* how the console may answer a PIX! command
  Codes,     \* how a title may write the number of a failed creation
  MaxRuns,   \* bound on the calls of run_capture
  MaxNoise   \* bound on unrelated lines waiting on the notify connection

ASSUME CaptureAssumption ==
  /\ Segments \in Nat \ {0} /\ MaxRuns \in Nat /\ MaxNoise \in Nat
  /\ Answers \subseteq {"ok", "noop", "no", "busy"}
  /\ Codes \subseteq {"digits", "letters"}

VARIABLES
  pc,         \* the step of run_capture done last
  run,        \* calls so far: the number of the current one
  todo,       \* segments, or local files, the current loop still has to visit
  title,      \* external: what the title is doing, for which call; the phase
              \* of a creation that failed is the way its number was written
  disk,       \* external: the files that match the remote path: whose call's
              \* each is, and "absent", "empty", "part" or "whole"
  wire,       \* notification lines sent and not yet read
  chan,       \* parsed notifications, not yet received
  task,       \* the task that reads the notify connection
  raw, mp4,   \* local copies of segments, as fetched and as encoded
  made,       \* history: the segments completed on the disk, this call or before
  hasty,      \* history: has this call gone on without seeing CaptureEnded?
  abandoned   \* history: did this call begin while the title served another?

tool == <<pc, run, todo>>
console == <<title, disk, made>>
notify == <<wire, chan, task>>
local == <<raw, mp4>>
history == <<hasty, abandoned>>
vars == <<tool, console, notify, local, history>>

-----------------------------------------------------------------------------

\* A recording <stem>.<ext> writes <stem>0.<ext>, <stem>1.<ext>, ...  A file
\* of another recording, whose stem is this one with digits after it, looks
\* like one more segment.
Own == 0 .. Segments - 1
Foreign == 10 * Segments
File == Own \cup {Foreign}

Over == {"idle", "done", "failed"}

TitleFree == title.phase \in {"idle"} \cup Codes

\* What reaches the tool: "created" carries a number, "text" stands for every
\* other PIX! line, "line" for one that is none.
Line == [kind : {"created", "ended", "text", "line"},
         number : {"zero"} \cup Codes, of : 0 .. MaxRuns]

\* The segments that are whole on the disk.
Completed ==
  {[file |-> f, of |-> disk[f].of] : f \in {g \in File : disk[g].data = "whole"}}

Init ==
  /\ pc = "idle" /\ run = 0 /\ todo = {}
  /\ title = [phase |-> "idle", of |-> 0]
  /\ disk = [f \in File |->
               [data |-> IF f = Foreign THEN "whole" ELSE "absent", of |-> 0]]
  /\ made = Completed
  /\ wire = <<>> /\ chan = <<>> /\ task = "off"
  /\ raw = {} /\ mp4 = {}
  /\ hasty = FALSE /\ abandoned = FALSE

-----------------------------------------------------------------------------
(* The notify connection.                                                  *)

\* Connect, read the banner, `notify reverse`: from here on the console sends
\* what the title says.
Subscribe ==
  /\ pc \in Over /\ run < MaxRuns
  /\ pc' = "subscribed" /\ run' = run + 1 /\ todo' = {}
  /\ wire' = <<>> /\ chan' = <<>> /\ task' = "unread"
  /\ raw' = {} /\ mp4' = {} /\ made' = Completed
  /\ hasty' = FALSE /\ abandoned' = ~TitleFree
  /\ UNCHANGED <<title, disk>>

\* into_inner drops the engine with every line it had read past the answer.
Listen ==
  /\ pc = "subscribed"
  /\ \E k \in 0 .. Len(wire) : wire' = SubSeq(wire, k + 1, Len(wire))
  /\ task' = "reading" /\ pc' = "listening"
  /\ UNCHANGED <<run, todo, chan, console, local, history>>

\* Notification::parse: a line without PIX! in front is none; a number that
\* is not decimal counts as 0.
IsNotification(line) == line.kind # "line"
ParsedNumber(line) == IF line.number = "digits" THEN 1 ELSE 0

\* Mutant: the task keeps only the newest notification.
ForwardNewest ==
  /\ task = "reading" /\ wire # <<>>
  /\ wire' = Tail(wire)
  /\ chan' = IF IsNotification(Head(wire)) THEN <<Head(wire)>> ELSE chan
  /\ UNCHANGED <<task, tool, console, local, history>>

Forward ==
  /\ task = "reading" /\ wire # <<>>
  /\ wire' = Tail(wire)
  /\ chan' = IF IsNotification(Head(wire)) THEN Append(chan, Head(wire)) ELSE chan
  /\ UNCHANGED <<task, tool, console, local, history>>

\* End of stream, a read error, or a line that is not UTF-8.
TaskEnds ==
  /\ task = "reading"
  /\ task' = "over" /\ wire' = <<>>
  /\ UNCHANGED <<chan, tool, console, local, history>>

-----------------------------------------------------------------------------
(* The PIX! commands.                                                      *)

\* send_ok: any single 200 line passes but the one that says the title is
\* busy; PIX!NO is such a line, and so is the plain OK of a console without a
\* handler.  The title acts on a command only when it answers PIX!OK.
Accepted(answer) == answer # "busy"

Command(from, to, reaction) ==
  /\ pc = from
  /\ \E answer \in Answers :
       /\ pc' = IF Accepted(answer) THEN to ELSE "failed"
       /\ IF answer = "ok" THEN reaction ELSE UNCHANGED title
  /\ UNCHANGED <<run, todo, disk, made, local, hasty, abandoned>>

TitleGoes(from, to) ==
  /\ title.of = run /\ title.phase = from
  /\ title' = [title EXCEPT !.phase = to]

\* {Connect}, then {Version}, whatever they are answered.
Connect ==
  /\ pc = "listening"
  /\ pc' = "connected"
  /\ UNCHANGED <<run, todo, notify, console, local, history>>

LimitCaptureSize == Command("connected", "limited", UNCHANGED title) /\ UNCHANGED notify

BeginCaptureFileCreation ==
  /\ Command("limited", "requested", title' = [phase |-> "creating", of |-> run])
  /\ UNCHANGED notify

\* Mutant: the number is not looked at.
AwaitCreatedAnyNumber ==
  /\ pc = "requested" /\ chan # <<>>
  /\ chan' = Tail(chan)
  /\ pc' = IF Head(chan).kind = "created" THEN "ready" ELSE pc
  /\ UNCHANGED <<run, todo, wire, task, console, local, history>>

AwaitCreated ==
  /\ pc = "requested" /\ chan # <<>>
  /\ chan' = Tail(chan)
  /\ pc' = IF Head(chan).kind # "created" THEN pc
           ELSE IF ParsedNumber(Head(chan)) = 0 THEN "ready" ELSE "failed"
  /\ UNCHANGED <<run, todo, wire, task, console, local, history>>

\* 30 seconds, or the end of the channel, and the call fails.
CreatedTimeout ==
  /\ pc = "requested"
  /\ pc' = "failed"
  /\ UNCHANGED <<run, todo, notify, console, local, history>>

BeginCapture ==
  Command("ready", "recording", TitleGoes("ready", "recording")) /\ UNCHANGED notify

\* After the duration, or when Enter is pressed.
EndCapture ==
  Command("recording", "ended", TitleGoes("recording", "stopped")) /\ UNCHANGED notify

EndCaptureFileCreation ==
  Command("ended", "closed", TitleGoes("stopped", "flushing")) /\ UNCHANGED notify

\* Mutant: the wait ends with whatever comes first.
AwaitAnything ==
  /\ pc = "closed" /\ chan # <<>>
  /\ chan' = Tail(chan)
  /\ pc' = "flushed"
  /\ UNCHANGED <<run, todo, wire, task, console, local, history>>

AwaitEnded ==
  /\ pc = "closed" /\ chan # <<>>
  /\ chan' = Tail(chan)
  /\ pc' = IF Head(chan).kind = "ended" THEN "flushed" ELSE pc
  /\ UNCHANGED <<run, todo, wire, task, console, local, history>>

\* Mutant: only the end of the channel ends this wait.
EndedClosed ==
  /\ pc = "closed" /\ task = "over" /\ chan = <<>>
  /\ pc' = "flushed" /\ hasty' = TRUE
  /\ UNCHANGED <<run, todo, notify, console, local, abandoned>>

\* 30 seconds, or the end of the channel, and the call goes on all the same.
EndedTimeout ==
  /\ pc = "closed"
  /\ pc' = "flushed" /\ hasty' = TRUE
  /\ UNCHANGED <<run, todo, notify, console, local, abandoned>>

\* {Disconnect}; then the task is aborted, both connections are dropped and a
\* fresh one is made.
Disconnect ==
  /\ Command("flushed", "connected for files", UNCHANGED title)
  /\ wire' = <<>> /\ chan' = <<>> /\ task' = "off"

-----------------------------------------------------------------------------
(* The segments.                                                           *)

\* A directory listing that fails counts as an empty one.
ListSegments ==
  /\ pc = "connected for files"
  /\ todo' \in {{f \in File : disk[f].data # "absent"}, {}}
  /\ pc' = "fetching"
  /\ UNCHANGED <<run, console, notify, local, history>>

\* The loop is in the order of the index.
NextIs(f) == f \in todo /\ \A g \in todo : f <= g

CopyOf(f) == [file |-> f, of |-> disk[f].of, data |-> disk[f].data]

\* get_file and copy_into; a copy that fails half way ends the call.
Fetch(f) ==
  /\ pc = "fetching" /\ NextIs(f) /\ disk[f].data \in {"part", "whole"}
  /\ \/ raw' = raw \cup {CopyOf(f)} /\ pc' = "fetched"
     \/ raw' = raw \cup {[CopyOf(f) EXCEPT !.data = "torn"]} /\ pc' = "failed"
  /\ UNCHANGED <<run, todo, console, notify, mp4, history>>

\* The result of Delete is ignored, so the file may stay.
Deleted(f) ==
  \/ disk' = [disk EXCEPT ![f].data = "absent"]
  \/ UNCHANGED disk

\* Mutant: the segment is deleted whether it was fetched or not.
DeleteEager(f) ==
  /\ pc \in {"fetching", "fetched"} /\ NextIs(f)
  /\ Deleted(f)
  /\ todo' = todo \ {f} /\ pc' = "fetching"
  /\ UNCHANGED <<run, title, made, notify, local, history>>

\* Once it is fetched, or at once when it is empty.
Delete(f) ==
  /\ pc = "fetched" \/ (pc = "fetching" /\ disk[f].data = "empty")
  /\ NextIs(f)
  /\ Deleted(f)
  /\ todo' = todo \ {f} /\ pc' = "fetching"
  /\ UNCHANGED <<run, title, made, notify, local, history>>

\* The conversion is skipped when nothing was fetched, when --no-conversion
\* was given and when there is no ffmpeg.
EndFetching ==
  /\ pc = "fetching" /\ todo = {}
  /\ \/ pc' = "done" /\ UNCHANGED todo
     \/ /\ todo' = {copy.file : copy \in raw}
        /\ todo' # {}
        /\ pc' = "converting"
  /\ UNCHANGED <<run, console, notify, local, history>>

\* encode_xbm_to_mp4: the raw file goes, if it can be removed, once ffmpeg
\* has ended well; it stays when anything failed.
Convert(copy) ==
  /\ pc = "converting" /\ copy \in raw /\ NextIs(copy.file)
  /\ \/ mp4' = mp4 \cup {copy} /\ raw' \in {raw, raw \ {copy}}
     \/ UNCHANGED local
  /\ todo' = todo \ {copy.file}
  /\ UNCHANGED <<pc, run, console, notify, history>>

EndConverting ==
  /\ pc = "converting" /\ todo = {}
  /\ pc' = "done"
  /\ UNCHANGED <<run, todo, console, notify, local, history>>

\* The ? operator, or a kill: any other failed await ends the call, and with
\* it the process.  The connections close; nobody tells the title.
Fail ==
  /\ pc \notin Over
  /\ pc' = "failed"
  /\ wire' = <<>> /\ chan' = <<>> /\ task' = "off"
  /\ UNCHANGED <<run, todo, console, local, history>>

-----------------------------------------------------------------------------
(* The title (external).                                                   *)

Says(line) == wire' = IF task \in {"unread", "reading"} THEN Append(wire, line) ELSE wire

About(kind, number) == [kind |-> kind, number |-> number, of |-> title.of]

CreateFile ==
  /\ title.phase = "creating"
  /\ \/ title' = [title EXCEPT !.phase = "ready"] /\ Says(About("created", "zero"))
     \/ \E code \in Codes :
          title' = [title EXCEPT !.phase = code] /\ Says(About("created", code))
  /\ UNCHANGED <<disk, made, chan, task, tool, local, history>>

WrittenBefore(f) ==
  \A g \in Own : g < f => disk[g].of = title.of /\ disk[g].data = "whole"

\* A new segment replaces a file of that name from an earlier recording.
OpenSegment(f) ==
  /\ title.phase = "recording" /\ WrittenBefore(f) /\ disk[f].of # title.of
  /\ disk' = [disk EXCEPT ![f] = [data |-> "empty", of |-> title.of]]
  /\ made' = {m \in made : m.file # f \/ m.of # disk[f].of}
  /\ UNCHANGED <<title, notify, tool, local, history>>

\* What a segment holds is complete once the title has flushed it.
WriteSegment(f) ==
  /\ title.phase \in {"recording", "flushing"} /\ disk[f].of = title.of
  /\ \/ /\ disk[f].data = "empty" /\ title.phase = "recording"
        /\ disk' = [disk EXCEPT ![f].data = "part"]
        /\ UNCHANGED made
     \/ /\ disk[f].data = "part"
        /\ disk' = [disk EXCEPT ![f].data = "whole"]
        /\ made' = made \cup {[file |-> f, of |-> title.of]}
  /\ UNCHANGED <<title, notify, tool, local, history>>

EndRecording ==
  /\ title.phase = "flushing"
  /\ \A f \in Own : disk[f].of = title.of => disk[f].data # "part"
  /\ title' = [title EXCEPT !.phase = "idle"]
  /\ Says(About("ended", "zero"))
  /\ UNCHANGED <<disk, made, chan, task, tool, local, history>>

\* A title whose session was left open drops it, or closes it, at some time.
DropSession ==
  /\ ~TitleFree /\ (pc \in Over \/ title.of # run)
  /\ title' \in {[title EXCEPT !.phase = p] : p \in {"idle", "flushing"}}
  /\ UNCHANGED <<disk, made, notify, tool, local, history>>

Noise ==
  /\ task = "reading" /\ Len(wire) + Len(chan) < MaxNoise
  /\ \E kind \in {"text", "line"} : Says(About(kind, "zero"))
  /\ UNCHANGED <<console, chan, task, tool, local, history>>

-----------------------------------------------------------------------------

ToolNext ==
  \/ Listen \/ Connect \/ LimitCaptureSize \/ BeginCaptureFileCreation
  \/ AwaitCreated \/ CreatedTimeout \/ BeginCapture \/ EndCapture
  \/ EndCaptureFileCreation \/ AwaitEnded \/ EndedTimeout \/ Disconnect \/ ListSegments
  \/ \E f \in File : Fetch(f) \/ Delete(f)
  \/ EndFetching
  \/ \E copy \in raw : Convert(copy)
  \/ EndConverting

TitleNext ==
  \/ CreateFile
  \/ \E f \in Own : OpenSegment(f) \/ WriteSegment(f)
  \/ EndRecording \/ DropSession \/ Noise

CaptureNext ==
  Subscribe \/ ToolNext \/ Fail \/ Forward \/ TaskEnds \/ TitleNext

Spec == Init /\ [][CaptureNext]_vars

\* The tool goes on: every command is answered, the recording is stopped by
\* its duration or by the user, and the two waits have timeouts of their own,
\* whatever else arrives.  Nothing is asked of the title, of the task or of
\* the next call.
FairSpec ==
  Spec /\ WF_vars(ToolNext) /\ WF_vars(CreatedTimeout) /\ WF_vars(EndedTimeout)

-----------------------------------------------------------------------------

Waiting(kind) ==
  \E line \in {wire[i] : i \in 1 .. Len(wire)} \cup {chan[i] : i \in 1 .. Len(chan)} :
    line.kind = kind /\ line.of = run

\* "Subscribe first so no events are missed" (main.rs): while the task reads,
\* what the title said of this call is under way to the wait that needs it,
\* for nothing before that wait may have consumed or dropped it.
NothingMissed ==
  (task = "reading" /\ title.of = run /\ ~abandoned) =>
    /\ pc = "requested" /\ title.phase \in {"ready"} \cup Codes => Waiting("created")
    /\ pc = "closed" /\ title.phase = "idle" => Waiting("ended")

\* Recording begins on what the title said of this call, not on news of an
\* earlier one: on a file it has created, and on a failed creation only where
\* the number of the failure is not decimal, which Notification::parse reads
\* as 0.
ReadyUnlessMisread ==
  (pc = "ready" /\ ~abandoned) =>
    title.of = run /\ title.phase \in {"ready", "letters"}

\* Once a segment has been completed it is never lost: it is on the console,
\* or a whole copy of it is on this computer, raw or encoded.  (Calls that
\* did not wait for the title, or met one that served another, may fetch a
\* segment half way and delete it.)
EverySegmentKept ==
  ~(hasty \/ abandoned) =>
    \A m \in made :
      \/ disk[m.file] = [data |-> "whole", of |-> m.of]
      \/ \E copy \in raw \cup mp4 :
           copy.file = m.file /\ copy.of = m.of /\ copy.data = "whole"

\* A segment of the recording just made is fetched only once it is complete,
\* unless the call did not wait for the title, or met one that served another.
FetchesCompleted ==
  ~(hasty \/ abandoned) => \A copy \in raw \cup mp4 : copy.of = run => copy.data # "part"

\* Whatever the title does, and if it does nothing, run_capture returns: its
\* two waits for notifications end by themselves.
CaptureEnds == (pc \notin Over) ~> (pc \in Over)

=============================================================================
