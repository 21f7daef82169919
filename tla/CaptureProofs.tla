--------------------------- MODULE CaptureProofs ---------------------------
(***************************************************************************)
(* Theorems about run_capture, for every number of segments and calls,     *)
(* every choice of answers, and any title; and about what the tool makes   *)
(* of a recording or a screenshot (Recording).                             *)
(***************************************************************************)
EXTENDS Capture, Pictures, SequenceTheorems, FiniteSetTheorems, WellFoundedInduction, TLAPS

-----------------------------------------------------------------------------
(* The inductive invariants. *)

Phases == {"idle", "creating", "ready", "recording", "stopped", "flushing"} \cup Codes
Data   == {"absent", "empty", "part", "whole"}
Copies == [file : File, of : Nat, data : {"part", "whole", "torn"}]

TypeOK ==
  /\ run \in 0 .. MaxRuns
  /\ todo \subseteq File
  /\ title \in [phase : Phases, of : 0 .. MaxRuns]
  /\ disk \in [File -> [data : Data, of : Nat]]
  /\ wire \in Seq(Line) /\ chan \in Seq(Line)
  /\ made \subseteq [file : File, of : Nat]
  /\ raw \subseteq Copies /\ mp4 \subseteq Copies

\* The title serves an earlier call or this one, and nobody writes into the
\* file of another recording.
TitleServes == title.of <= run /\ disk[Foreign].data \in {"whole", "absent"}

LinesOf(s) == {s[i] : i \in 1 .. Len(s)}

\* The lines still to be looked at.
Queue == LinesOf(wire) \cup LinesOf(chan)

Flushed == \A f \in File : disk[f].of = run => disk[f].data # "part"

Before    == {"subscribed", "listening", "connected", "limited"}
Afterward == {"flushed", "connected for files", "fetching", "fetched", "converting"}

\* A title that has said it ended writes no more in this call.
EndedIsEnded ==
  ~ abandoned =>
    /\ title.of # run => TitleFree
    /\ pc \in Before => title.of # run
    /\ \A line \in Queue :
         line.kind \in {"created", "ended"} =>
           /\ line.of = run /\ title.of = run
           /\ line.kind = "ended" => title.phase = "idle" /\ Flushed
    /\ pc \in Afterward /\ ~ hasty => title.phase = "idle" /\ Flushed

\* What Delete is about to remove is here in full.
FetchedFirst ==
  pc = "fetched" /\ ~(hasty \/ abandoned) =>
    \E f \in todo : NextIs(f) /\ CopyOf(f) \in raw

SegmentInv ==
  /\ TypeOK /\ TitleServes /\ EndedIsEnded
  /\ FetchedFirst /\ EverySegmentKept /\ FetchesCompleted

\* How far the title may have come at each step of a call that waits for it.
\* Where the number of a failure is not decimal the tool goes on without it.
TitleFollows ==
  ~ abandoned =>
    /\ pc = "requested" =>
         /\ title.of = run => title.phase \in {"creating", "ready"} \cup Codes
         /\ \A line \in Queue :
              line.kind = "created" =>
                title.phase = IF line.number = "zero" THEN "ready" ELSE line.number
    /\ pc = "ready" => title.of = run /\ title.phase \in {"ready", "letters"}
    /\ pc = "recording" =>
         title.of = run /\ title.phase \in {"ready", "letters", "recording"}
    /\ pc = "ended" =>
         title.of = run /\ title.phase \in {"ready", "letters", "recording", "stopped"}
    /\ pc = "closed" => title.of = run /\ title.phase # "creating"

NotifyInv == TitleFollows /\ NothingMissed

-----------------------------------------------------------------------------
(* Lines in a sequence, and types. *)

LEMMA LinesOfTail ==
  ASSUME NEW s \in Seq(Line), s # <<>>
  PROVE  /\ Head(s) \in Line /\ Tail(s) \in Seq(Line)
         /\ LinesOf(s) = {Head(s)} \cup LinesOf(Tail(s))
<1>1. /\ Head(s) = s[1] /\ Tail(s) \in Seq(Line) /\ Len(Tail(s)) = Len(s) - 1
      /\ \A i \in 1 .. Len(s) - 1 : Tail(s)[i] = s[i+1]
      /\ Len(s) \in Nat /\ Len(s) > 0 /\ \A i \in 1 .. Len(s) : s[i] \in Line
  BY HeadTailProperties, LenProperties, EmptySeq
<1>2. Head(s) \in Line
  BY <1>1
<1>3. LinesOf(s) \subseteq {Head(s)} \cup LinesOf(Tail(s))
  <2> SUFFICES ASSUME NEW i \in 1 .. Len(s)
               PROVE  s[i] \in {Head(s)} \cup LinesOf(Tail(s))
    BY DEF LinesOf
  <2>1. CASE i = 1
    BY <1>1, <2>1
  <2>2. CASE i # 1
    <3>1. i - 1 \in 1 .. Len(Tail(s)) /\ s[i] = Tail(s)[i - 1]
      BY <1>1, <2>2
    <3> QED
      BY <3>1 DEF LinesOf
  <2> QED
    BY <2>1, <2>2
<1>4. {Head(s)} \cup LinesOf(Tail(s)) \subseteq LinesOf(s)
  <2>1. Head(s) \in LinesOf(s)
    BY <1>1 DEF LinesOf
  <2>2. ASSUME NEW i \in 1 .. Len(Tail(s)) PROVE Tail(s)[i] \in LinesOf(s)
    <3>1. i + 1 \in 1 .. Len(s) /\ Tail(s)[i] = s[i + 1]
      BY <1>1
    <3> QED
      BY <3>1 DEF LinesOf
  <2> QED
    BY <2>1, <2>2 DEF LinesOf
<1> QED
  BY <1>1, <1>2, <1>3, <1>4

LEMMA LinesOfAppend ==
  ASSUME NEW s \in Seq(Line), NEW line \in Line
  PROVE  Append(s, line) \in Seq(Line) /\ LinesOf(Append(s, line)) = LinesOf(s) \cup {line}
<1>1. /\ Append(s, line) \in Seq(Line) /\ Len(Append(s, line)) = Len(s) + 1 /\ Len(s) \in Nat
      /\ \A i \in 1 .. Len(s) : Append(s, line)[i] = s[i]
      /\ Append(s, line)[Len(s) + 1] = line
  BY AppendProperties
<1> DEFINE t == Append(s, line)
<1> HIDE DEF t
<1>2. /\ 1 .. Len(t) = 1 .. Len(s) \cup {Len(s) + 1}
      /\ \A i \in 1 .. Len(s) : t[i] = s[i]
      /\ t[Len(s) + 1] = line
  BY <1>1 DEF t
<1>3. LinesOf(t) = LinesOf(s) \cup {line}
  BY <1>2, Zenon DEF LinesOf
<1> QED
  BY <1>1, <1>3 DEF t

LEMMA LinesOfSuffix ==
  ASSUME NEW s \in Seq(Line), NEW k \in 0 .. Len(s)
  PROVE  /\ SubSeq(s, k + 1, Len(s)) \in Seq(Line)
         /\ LinesOf(SubSeq(s, k + 1, Len(s))) \subseteq LinesOf(s)
<1> DEFINE t == SubSeq(s, k + 1, Len(s))
<1>0. Len(s) \in Nat
  OBVIOUS
<1>1. t \in Seq(Line) /\ Len(t) = Len(s) - k
  BY <1>0, SubSeqProperties
<1>2. \A i \in 1 .. Len(s) - k : t[i] = s[k + i]
  BY <1>0, SubSeqProperties
<1> HIDE DEF t
<1>3. \A i \in 1 .. Len(t) : k + i \in 1 .. Len(s) /\ t[i] = s[k + i]
  BY <1>0, <1>1, <1>2
<1>4. LinesOf(t) \subseteq LinesOf(s)
  BY <1>3 DEF LinesOf
<1> QED
  BY <1>1, <1>4 DEF t

LEMMA NoLines == LinesOf(<<>>) = {}
BY DEF LinesOf

LEMMA SaysAppends ==
  ASSUME TypeOK, NEW line \in Line, Says(line), UNCHANGED chan
  PROVE  /\ wire' \in Seq(Line)
         /\ Queue \subseteq Queue' /\ Queue' \subseteq Queue \cup {line}
         /\ task = "reading" => line \in Queue'
<1>1. wire \in Seq(Line)
  BY DEF TypeOK
<1>2. CASE task \in {"unread", "reading"}
  <2>1. wire' = Append(wire, line)
    BY <1>2 DEF Says
  <2>2. wire' \in Seq(Line) /\ LinesOf(wire') = LinesOf(wire) \cup {line}
    BY <1>1, <2>1, LinesOfAppend
  <2>3. LinesOf(chan)' = LinesOf(chan)
    BY DEF LinesOf
  <2> QED
    BY <2>2, <2>3 DEF Queue
<1>3. CASE task \notin {"unread", "reading"}
  BY <1>1, <1>3 DEF Says, Queue, LinesOf
<1> QED
  BY <1>2, <1>3

LEMMA FileFacts ==
  /\ Foreign \in File /\ Foreign \notin Own /\ Own \subseteq File /\ File \subseteq Nat
BY CaptureAssumption DEF Foreign, File, Own

LEMMA InitType == Init => TypeOK
<1> SUFFICES ASSUME Init PROVE TypeOK
  OBVIOUS
<1>1. run = 0 /\ 0 \in 0 .. MaxRuns /\ todo = {} /\ raw = {} /\ mp4 = {}
  BY CaptureAssumption DEF Init
<1>2. title \in [phase : Phases, of : 0 .. MaxRuns]
  BY <1>1 DEF Init, Phases
<1>3. disk \in [File -> [data : Data, of : Nat]]
  BY DEF Init, Data
<1>4. wire \in Seq(Line) /\ chan \in Seq(Line)
  BY EmptySeq DEF Init
<1>5. made \subseteq [file : File, of : Nat]
  BY <1>3 DEF Init, Completed
<1> QED
  BY <1>1, <1>2, <1>3, <1>4, <1>5 DEF TypeOK

LEMMA CopyType ==
  ASSUME TypeOK, NEW f \in File, disk[f].data \in {"part", "whole"}
  PROVE  /\ CopyOf(f) \in Copies /\ [CopyOf(f) EXCEPT !.data = "torn"] \in Copies
         /\ CopyOf(f).file = f /\ CopyOf(f).of = disk[f].of /\ CopyOf(f).data = disk[f].data
         /\ [CopyOf(f) EXCEPT !.data = "torn"].data = "torn"
<1>1. disk[f].of \in Nat
  BY DEF TypeOK
<1> QED
  BY <1>1 DEF CopyOf, Copies

\* What the console or the title does to one file keeps the types.
LEMMA DiskType ==
  ASSUME TypeOK, NEW f \in File, NEW d \in Data
  PROVE  /\ [disk EXCEPT ![f].data = d] \in [File -> [data : Data, of : Nat]]
         /\ [disk EXCEPT ![f].data = d][f].data = d
         /\ [disk EXCEPT ![f].data = d][f].of = disk[f].of
         /\ \A g \in File \ {f} : [disk EXCEPT ![f].data = d][g] = disk[g]
BY DEF TypeOK

\* A PIX! command of the tool: what it changes.
Commanded(from, to) ==
  /\ pc = from
  /\ pc' = to \/ (pc' = "failed" /\ UNCHANGED title)
  /\ UNCHANGED <<run, todo, disk, made, raw, mp4, hasty, abandoned>>

LEMMA CommandFacts ==
  /\ LimitCaptureSize =>
       Commanded("connected", "limited") /\ UNCHANGED <<title, wire, chan, task>>
  /\ BeginCaptureFileCreation =>
       /\ Commanded("limited", "requested") /\ UNCHANGED <<wire, chan, task>>
       /\ title' = title \/ title' = [phase |-> "creating", of |-> run]
  /\ BeginCapture =>
       /\ Commanded("ready", "recording") /\ UNCHANGED <<wire, chan, task>>
       /\ title' = title \/ (title.phase = "ready" /\ title' = [title EXCEPT !.phase = "recording"])
  /\ EndCapture =>
       /\ Commanded("recording", "ended") /\ UNCHANGED <<wire, chan, task>>
       /\ title' = title \/ (title.phase = "recording" /\ title' = [title EXCEPT !.phase = "stopped"])
  /\ EndCaptureFileCreation =>
       /\ Commanded("ended", "closed") /\ UNCHANGED <<wire, chan, task>>
       /\ title' = title \/ (title.phase = "stopped" /\ title' = [title EXCEPT !.phase = "flushing"])
  /\ Disconnect =>
       /\ Commanded("flushed", "connected for files") /\ UNCHANGED title
       /\ wire' = <<>> /\ chan' = <<>> /\ task' = "off"
<1> USE DEF Command, Commanded, TitleGoes, Accepted, local, notify
<1>1. LimitCaptureSize =>
       Commanded("connected", "limited") /\ UNCHANGED <<title, wire, chan, task>>
  BY Zenon DEF LimitCaptureSize
<1>2. BeginCaptureFileCreation =>
       /\ Commanded("limited", "requested") /\ UNCHANGED <<wire, chan, task>>
       /\ title' = title \/ title' = [phase |-> "creating", of |-> run]
  BY SMT DEF BeginCaptureFileCreation
<1>3. BeginCapture =>
       /\ Commanded("ready", "recording") /\ UNCHANGED <<wire, chan, task>>
       /\ title' = title \/ (title.phase = "ready" /\ title' = [title EXCEPT !.phase = "recording"])
  BY SMT DEF BeginCapture
<1>4. EndCapture =>
       /\ Commanded("recording", "ended") /\ UNCHANGED <<wire, chan, task>>
       /\ title' = title \/ (title.phase = "recording" /\ title' = [title EXCEPT !.phase = "stopped"])
  BY SMT DEF EndCapture
<1>5. EndCaptureFileCreation =>
       /\ Commanded("ended", "closed") /\ UNCHANGED <<wire, chan, task>>
       /\ title' = title \/ (title.phase = "stopped" /\ title' = [title EXCEPT !.phase = "flushing"])
  BY SMT DEF EndCaptureFileCreation
<1>6. Disconnect =>
       /\ Commanded("flushed", "connected for files") /\ UNCHANGED title
       /\ wire' = <<>> /\ chan' = <<>> /\ task' = "off"
  <2>1. Disconnect => Commanded("flushed", "connected for files") /\ UNCHANGED title
    BY Zenon DEF Disconnect
  <2>2. Disconnect => wire' = <<>> /\ chan' = <<>> /\ task' = "off"
    BY DEF Disconnect
  <2> QED
    BY <2>1, <2>2
<1> QED
  BY <1>1, <1>2, <1>3, <1>4, <1>5, <1>6

LEMMA StepType == TypeOK /\ [CaptureNext]_vars => TypeOK'
<1> SUFFICES ASSUME TypeOK, [CaptureNext]_vars PROVE TypeOK'
  OBVIOUS
<1>0. /\ run \in 0 .. MaxRuns /\ todo \subseteq File
      /\ title \in [phase : Phases, of : 0 .. MaxRuns]
      /\ disk \in [File -> [data : Data, of : Nat]]
      /\ wire \in Seq(Line) /\ chan \in Seq(Line)
      /\ made \subseteq [file : File, of : Nat]
      /\ raw \subseteq Copies /\ mp4 \subseteq Copies
  BY DEF TypeOK
<1>00. <<>> \in Seq(Line)
  BY EmptySeq
<1>1. CASE UNCHANGED vars
  BY <1>0, <1>1 DEF vars, tool, console, notify, local, TypeOK
<1>2. CASE Subscribe
  <2>1. run' \in 0 .. MaxRuns
    BY <1>0, <1>2, CaptureAssumption DEF Subscribe
  <2>2. made' \subseteq [file : File, of : Nat]
    BY <1>0, <1>2 DEF Subscribe, Completed
  <2> QED
    BY <1>0, <1>00, <1>2, <2>1, <2>2 DEF Subscribe, TypeOK
<1>3. CASE Listen
  <2>1. wire' \in Seq(Line)
    BY <1>0, <1>3, LinesOfSuffix DEF Listen
  <2> QED
    BY <1>0, <1>3, <2>1 DEF Listen, TypeOK, console, local
<1>4. CASE Forward
  <2>1. wire' \in Seq(Line) /\ chan' \in Seq(Line)
    BY <1>0, <1>4, LinesOfTail, LinesOfAppend DEF Forward
  <2> QED
    BY <1>0, <1>4, <2>1 DEF Forward, TypeOK, tool, console, local
<1>5. CASE TaskEnds
  BY <1>0, <1>00, <1>5 DEF TaskEnds, TypeOK, tool, console, local
<1>6. CASE Connect \/ CreatedTimeout \/ EndedTimeout
  BY <1>0, <1>6 DEF Connect, CreatedTimeout, EndedTimeout, TypeOK, notify, console, local
<1>7. CASE LimitCaptureSize \/ BeginCaptureFileCreation \/ BeginCapture \/ EndCapture
           \/ EndCaptureFileCreation \/ Disconnect
  <2>1. UNCHANGED <<run, todo, disk, made, raw, mp4>>
    BY <1>7, CommandFacts DEF Commanded
  <2>2. wire' \in Seq(Line) /\ chan' \in Seq(Line)
    BY <1>0, <1>00, <1>7, CommandFacts
  <2>3. title' \in [phase : Phases, of : 0 .. MaxRuns]
    <3>1. \/ title' = title \/ title' = [phase |-> "creating", of |-> run]
          \/ title' = [title EXCEPT !.phase = "recording"]
          \/ title' = [title EXCEPT !.phase = "stopped"]
          \/ title' = [title EXCEPT !.phase = "flushing"]
      BY <1>7, CommandFacts, Zenon
    <3> QED
      BY <1>0, <3>1 DEF Phases
  <2> QED
    BY <1>0, <2>1, <2>2, <2>3 DEF TypeOK
<1>8. CASE AwaitCreated \/ AwaitEnded
  <2>1. chan' \in Seq(Line)
    BY <1>0, <1>8, LinesOfTail DEF AwaitCreated, AwaitEnded
  <2> QED
    BY <1>0, <1>8, <2>1 DEF AwaitCreated, AwaitEnded, TypeOK, console, local
<1>9. CASE ListSegments
  BY <1>0, <1>9 DEF ListSegments, TypeOK, console, notify, local
<1>10. ASSUME NEW f \in File, Fetch(f) PROVE TypeOK'
  <2>1. raw' \subseteq Copies
    <3>1. disk[f].data \in {"part", "whole"}
      BY <1>10 DEF Fetch
    <3>2. CopyOf(f) \in Copies /\ [CopyOf(f) EXCEPT !.data = "torn"] \in Copies
      BY <3>1, CopyType
    <3>3. raw' = raw \cup {CopyOf(f)} \/ raw' = raw \cup {[CopyOf(f) EXCEPT !.data = "torn"]}
      BY <1>10, Zenon DEF Fetch
    <3> QED
      BY <1>0, <3>2, <3>3, Zenon
  <2> QED
    BY <1>0, <1>10, <2>1 DEF Fetch, TypeOK, console, notify
<1>11. ASSUME NEW f \in File, Delete(f) PROVE TypeOK'
  <2>1. disk' \in [File -> [data : Data, of : Nat]]
    <3>1. "absent" \in Data
      BY DEF Data
    <3> QED
      BY <1>0, <1>11, <3>1, DiskType DEF Delete, Deleted
  <2> QED
    BY <1>0, <1>11, <2>1 DEF Delete, TypeOK, notify, local
<1>12. CASE EndFetching
  <2>1. {copy.file : copy \in raw} \subseteq File
    BY <1>0 DEF Copies
  <2> QED
    BY <1>0, <1>12, <2>1 DEF EndFetching, TypeOK, console, notify, local
<1>13. ASSUME NEW copy \in raw, Convert(copy) PROVE TypeOK'
  BY <1>0, <1>13 DEF Convert, TypeOK, console, notify, local
<1>14. CASE EndConverting
  BY <1>0, <1>14 DEF EndConverting, TypeOK, console, notify, local
<1>15. CASE Fail
  BY <1>0, <1>00, <1>15 DEF Fail, TypeOK, console, local
<1>16. CASE CreateFile
  <2>1. \A code \in {"zero"} \cup Codes : About("created", code) \in Line
    BY <1>0 DEF About, Line
  <2>2. wire' \in Seq(Line) /\ UNCHANGED chan
    BY <1>16, <2>1, SaysAppends DEF CreateFile
  <2>3. title' \in [phase : Phases, of : 0 .. MaxRuns]
    BY <1>0, <1>16 DEF CreateFile, Phases
  <2> QED
    BY <1>0, <1>16, <2>2, <2>3 DEF CreateFile, TypeOK, tool, local
<1>17. ASSUME NEW f \in Own, OpenSegment(f) PROVE TypeOK'
  <2>1. f \in File /\ [data |-> "empty", of |-> title.of] \in [data : Data, of : Nat]
    BY <1>0, FileFacts DEF Data
  <2>2. disk' \in [File -> [data : Data, of : Nat]]
    BY <1>0, <1>17, <2>1 DEF OpenSegment
  <2> QED
    BY <1>0, <1>17, <2>2 DEF OpenSegment, TypeOK, tool, notify, local
<1>18. ASSUME NEW f \in Own, WriteSegment(f) PROVE TypeOK'
  <2>1. f \in File /\ "part" \in Data /\ "whole" \in Data
    BY FileFacts DEF Data
  <2>2. disk' \in [File -> [data : Data, of : Nat]]
    <3>1. disk' = [disk EXCEPT ![f].data = "part"] \/ disk' = [disk EXCEPT ![f].data = "whole"]
      BY <1>18, Zenon DEF WriteSegment
    <3>2. \A d \in Data : [disk EXCEPT ![f].data = d] \in [File -> [data : Data, of : Nat]]
      BY <2>1, DiskType
    <3> QED
      BY <2>1, <3>1, <3>2, Zenon
  <2>3. made' \subseteq [file : File, of : Nat]
    BY <1>0, <1>18, <2>1 DEF WriteSegment
  <2> QED
    BY <1>0, <1>18, <2>2, <2>3 DEF WriteSegment, TypeOK, tool, notify, local
<1>19. CASE EndRecording
  <2>1. About("ended", "zero") \in Line
    BY <1>0 DEF About, Line
  <2>2. wire' \in Seq(Line) /\ UNCHANGED chan
    BY <1>19, <2>1, SaysAppends DEF EndRecording
  <2>3. title' \in [phase : Phases, of : 0 .. MaxRuns]
    BY <1>0, <1>19 DEF EndRecording, Phases
  <2> QED
    BY <1>0, <1>19, <2>2, <2>3 DEF EndRecording, TypeOK, tool, local
<1>20. CASE DropSession
  <2>1. title' \in [phase : Phases, of : 0 .. MaxRuns]
    BY <1>0, <1>20 DEF DropSession, Phases
  <2> QED
    BY <1>0, <1>20, <2>1 DEF DropSession, TypeOK, tool, notify, local
<1>21. CASE Noise
  <2>1. \A kind \in {"text", "line"} : About(kind, "zero") \in Line
    BY <1>0 DEF About, Line
  <2>2. wire' \in Seq(Line) /\ UNCHANGED chan
    BY <1>21, <2>1, SaysAppends DEF Noise
  <2> QED
    BY <1>0, <1>21, <2>2 DEF Noise, TypeOK, console, tool, local
<1> QED
  BY <1>1, <1>2, <1>3, <1>4, <1>5, <1>6, <1>7, <1>8, <1>9, <1>10, <1>11, <1>12, <1>13, <1>14,
     <1>15, <1>16, <1>17, <1>18, <1>19, <1>20, <1>21, FileFacts
  DEF CaptureNext, ToolNext, TitleNext

-----------------------------------------------------------------------------
(* What the title has said, it has done. *)

LEMMA ForwardShrinksQueue == TypeOK /\ Forward => Queue' \subseteq Queue
<1> SUFFICES ASSUME TypeOK, Forward PROVE Queue' \subseteq Queue
  OBVIOUS
<1>1. wire \in Seq(Line) /\ chan \in Seq(Line) /\ wire # <<>>
  BY DEF TypeOK, Forward
<1>2. LinesOf(wire) = {Head(wire)} \cup LinesOf(wire')
  BY <1>1, LinesOfTail DEF Forward
<1>3. LinesOf(chan') \subseteq LinesOf(chan) \cup {Head(wire)}
  BY <1>1, LinesOfTail, LinesOfAppend DEF Forward
<1> QED
  BY <1>2, <1>3 DEF Queue, LinesOf

LEMMA TailShrinksQueue ==
  ASSUME TypeOK, chan # <<>>, chan' = Tail(chan), UNCHANGED wire
  PROVE  Head(chan) \in Queue /\ Queue = {Head(chan)} \cup Queue'
<1>1. chan \in Seq(Line)
  BY DEF TypeOK
<1>2. LinesOf(chan) = {Head(chan)} \cup LinesOf(chan')
  BY <1>1, LinesOfTail
<1>3. LinesOf(wire') = LinesOf(wire)
  OBVIOUS
<1> QED
  BY <1>2, <1>3 DEF Queue

LEMMA EndedStep ==
  TypeOK /\ TitleServes /\ EndedIsEnded /\ [CaptureNext]_vars => TitleServes' /\ EndedIsEnded'
<1> SUFFICES ASSUME TypeOK, TitleServes, EndedIsEnded, [CaptureNext]_vars
             PROVE  TitleServes' /\ EndedIsEnded'
  OBVIOUS
<1>0. /\ run \in Nat /\ MaxRuns \in Nat
      /\ title \in [phase : Phases, of : 0 .. MaxRuns] /\ title.of \in Nat /\ title.of <= run
      /\ disk \in [File -> [data : Data, of : Nat]]
      /\ wire \in Seq(Line) /\ chan \in Seq(Line)
  BY CaptureAssumption DEF TypeOK, TitleServes
<1>1. ASSUME UNCHANGED <<run, title, disk, abandoned>>, Queue' \subseteq Queue,
             pc' \in Before => pc \in Before,
             pc' \in Afterward /\ ~ hasty' => pc \in Afterward /\ ~ hasty
      PROVE  TitleServes' /\ EndedIsEnded'
  BY <1>1 DEF TitleServes, EndedIsEnded, TitleFree, Flushed
\* The title changes its phase, and says nothing.
<1>2. ASSUME UNCHANGED <<run, disk, abandoned>>, Queue' = Queue,
             pc' \notin Before, pc' \notin Afterward \/ hasty', title' \in [phase : Phases, of : Nat],
             title'.of <= run,
             ~ abandoned => /\ title'.of = run
                            /\ \A line \in Queue : line.kind # "ended"
                            /\ title.of = run \/ \A line \in Queue : line.kind # "created"
      PROVE  TitleServes' /\ EndedIsEnded'
  <2>1. TitleServes'
    BY <1>0, <1>2 DEF TitleServes
  <2>2. EndedIsEnded'
    BY <1>2 DEF EndedIsEnded
  <2> QED
    BY <2>1, <2>2
<1>3. ~ abandoned /\ ~ TitleFree =>
        /\ title.of = run /\ \A line \in Queue : line.kind # "ended"
        /\ pc \notin Before /\ (pc \notin Afterward \/ hasty)
  BY DEF EndedIsEnded, TitleFree
<1>30. title.phase \in {"creating", "ready", "recording", "stopped", "flushing"} => ~ TitleFree
  BY CaptureAssumption DEF TitleFree
<1>4. CASE UNCHANGED vars
  BY <1>1, <1>4 DEF vars, tool, console, notify, local, history, Queue, LinesOf
<1>5. CASE Subscribe
  <2>1. run' = run + 1 /\ pc' = "subscribed" /\ wire' = <<>> /\ chan' = <<>>
        /\ UNCHANGED <<title, disk>> /\ abandoned' = ~ TitleFree
    BY <1>5 DEF Subscribe
  <2>2. Queue' = {}
    BY <2>1, NoLines DEF Queue
  <2>3. title.of # run + 1
    BY <1>0
  <2>4. ~ abandoned' => TitleFree'
    BY <2>1, Zenon DEF TitleFree
  <2>5. TitleServes'
    BY <1>0, <2>1 DEF TitleServes
  <2>6. pc' \notin Afterward
    BY <2>1 DEF Afterward
  <2>7. EndedIsEnded'
    BY <2>1, <2>2, <2>3, <2>4, <2>6 DEF EndedIsEnded
  <2> QED
    BY <2>5, <2>7
<1>6. CASE Listen
  <2>1. LinesOf(wire') \subseteq LinesOf(wire) /\ UNCHANGED chan
    BY <1>0, <1>6, LinesOfSuffix DEF Listen
  <2>2. Queue' \subseteq Queue
    BY <2>1 DEF Queue, LinesOf
  <2> QED
    BY <1>1, <1>6, <2>2 DEF Listen, console, history, Before, Afterward
<1>7. CASE Forward
  BY <1>1, <1>7, ForwardShrinksQueue DEF Forward, tool, console, history
<1>8. CASE TaskEnds
  <2>1. Queue' \subseteq Queue
    BY <1>8, NoLines DEF TaskEnds, Queue, LinesOf
  <2> QED
    BY <1>1, <1>8, <2>1 DEF TaskEnds, tool, console, history
<1>9. CASE Connect \/ CreatedTimeout \/ EndedTimeout \/ ListSegments \/ EndFetching
           \/ EndConverting \/ (\E f \in File : Fetch(f)) \/ (\E copy \in raw : Convert(copy))
  <2>1. UNCHANGED <<run, title, disk, abandoned, wire, chan>>
    BY <1>9 DEF Connect, CreatedTimeout, EndedTimeout, ListSegments, EndFetching, EndConverting,
       Fetch, Convert, console, notify, history
  <2>2. Queue' = Queue
    BY <2>1 DEF Queue, LinesOf
  <2>3. /\ pc' \in Before => pc \in Before
        /\ pc' \in Afterward /\ ~ hasty' => pc \in Afterward /\ ~ hasty
    <3>1. CASE Connect \/ CreatedTimeout
      <4>1. (pc' \in Before => pc \in Before) /\ pc' \notin Afterward
        BY <3>1 DEF Connect, CreatedTimeout, Before, Afterward
      <4> QED
        BY <4>1
    <3>6. CASE ListSegments
      <4>1. pc \in Afterward /\ pc' \notin Before /\ hasty' = hasty
        BY <3>6 DEF ListSegments, history, Before, Afterward
      <4> QED
        BY <4>1
    <3>5. CASE EndFetching \/ EndConverting
      <4>1. pc \in Afterward /\ pc' \notin Before /\ hasty' = hasty
        BY <3>5 DEF EndFetching, EndConverting, history, Before, Afterward
      <4> QED
        BY <4>1
    <3>2. CASE EndedTimeout
      BY <3>2 DEF EndedTimeout, Before
    <3>3. CASE \E f \in File : Fetch(f)
      <4>1. pc \in Afterward /\ pc' \notin Before /\ hasty' = hasty
        BY <3>3 DEF Fetch, history, Before, Afterward
      <4> QED
        BY <4>1
    <3>4. CASE \E copy \in raw : Convert(copy)
      BY <3>4 DEF Convert, history
    <3> QED
      BY <1>9, <3>1, <3>2, <3>3, <3>4, <3>5, <3>6
  <2> QED
    BY <1>1, <2>1, <2>2, <2>3
<1>10. CASE LimitCaptureSize \/ Disconnect
  <2>1. UNCHANGED <<run, title, disk, abandoned, hasty>>
    BY <1>10, CommandFacts DEF Commanded
  <2>2. Queue' \subseteq Queue
    BY <1>10, CommandFacts, NoLines DEF Queue, LinesOf
  <2>3. pc' \in Before => pc \in Before
    BY <1>10, CommandFacts DEF Commanded, Before
  <2>4. pc' \in Afterward => pc \in Afterward
    BY <1>10, CommandFacts DEF Commanded, Afterward
  <2> QED
    BY <1>1, <2>1, <2>2, <2>3, <2>4
<1>11. CASE BeginCaptureFileCreation \/ BeginCapture \/ EndCapture \/ EndCaptureFileCreation
  <2>1. UNCHANGED <<run, disk, abandoned, hasty, wire, chan>>
    BY <1>11, CommandFacts DEF Commanded
  <2>2. Queue' = Queue
    BY <2>1 DEF Queue, LinesOf
  <2>3. pc' \notin Before /\ pc' \notin Afterward
    BY <1>11, CommandFacts DEF Commanded, Before, Afterward
  <2>4. CASE title' = title
    BY <1>1, <2>1, <2>2, <2>3, <2>4
  <2>5. CASE BeginCaptureFileCreation /\ title' = [phase |-> "creating", of |-> run]
    <3>1. ~ abandoned => title.of # run
      BY <2>5, CommandFacts DEF EndedIsEnded, Commanded, Before
    <3>2. ~ abandoned => \A line \in Queue : line.kind \notin {"created", "ended"}
      BY <3>1 DEF EndedIsEnded
    <3> QED
      BY <1>0, <1>2, <2>1, <2>2, <2>3, <2>5, <3>2 DEF Phases
  <2>6. ASSUME NEW p \in Phases, ~ TitleFree, title' = [title EXCEPT !.phase = p]
        PROVE  TitleServes' /\ EndedIsEnded'
    <3>1. title'.of = title.of /\ title' \in [phase : Phases, of : Nat]
      BY <1>0, <2>6
    <3> QED
      BY <1>0, <1>2, <1>3, <2>1, <2>2, <2>3, <2>6, <3>1
  <2> QED
    BY <1>11, <1>30, <2>4, <2>5, <2>6, CommandFacts DEF Phases
<1>12. CASE AwaitCreated
  <2>1. chan # <<>> /\ chan' = Tail(chan) /\ UNCHANGED wire
    BY <1>12 DEF AwaitCreated
  <2>2. Queue' \subseteq Queue
    BY <2>1, TailShrinksQueue
  <2>3. /\ UNCHANGED <<run, title, disk, abandoned, hasty>>
        /\ pc' \in {"requested", "ready", "failed"}
    BY <1>12 DEF AwaitCreated, console, history
  <2>4. pc' \notin Before /\ pc' \notin Afterward
    BY <2>3 DEF Before, Afterward
  <2> QED
    BY <1>1, <2>2, <2>3, <2>4
<1>13. CASE AwaitEnded
  <2>1. chan # <<>> /\ chan' = Tail(chan) /\ UNCHANGED <<wire, run, title, disk, abandoned, hasty>>
    BY <1>13 DEF AwaitEnded, console, history
  <2>2. Queue' \subseteq Queue /\ Head(chan) \in Queue
    BY <2>1, TailShrinksQueue
  <2>3. CASE Head(chan).kind # "ended"
    BY <1>1, <1>13, <2>1, <2>2, <2>3 DEF AwaitEnded
  <2>4. CASE Head(chan).kind = "ended"
    <3>1. pc' = "flushed"
      BY <1>13, <2>4 DEF AwaitEnded
    <3>2. ~ abandoned => title.phase = "idle" /\ Flushed /\ title.of = run
      BY <2>2, <2>4 DEF EndedIsEnded
    <3>3. TitleServes'
      BY <2>1 DEF TitleServes
    <3> QED
      BY <2>1, <2>2, <3>1, <3>2, <3>3 DEF EndedIsEnded, Flushed, Before
  <2> QED
    BY <2>3, <2>4
<1>14. CASE Fail
  <2>1. Queue' \subseteq Queue
    BY <1>14, NoLines DEF Fail, Queue
  <2>2. pc' \notin Before /\ pc' \notin Afterward /\ UNCHANGED <<run, title, disk, abandoned>>
    BY <1>14 DEF Fail, Before, Afterward, console, history
  <2> QED
    BY <1>1, <2>1, <2>2
<1>15. ASSUME NEW f \in File, Delete(f) PROVE TitleServes' /\ EndedIsEnded'
  <2>1. UNCHANGED <<run, title, abandoned, hasty, wire, chan>> /\ pc' = "fetching"
        /\ pc \in Afterward
    BY <1>15 DEF Delete, history, notify, Afterward
  <2>2. \A g \in File : disk'[g].of = disk[g].of /\ disk'[g].data \in {disk[g].data, "absent"}
    <3>1. "absent" \in Data
      BY DEF Data
    <3>2. disk' = [disk EXCEPT ![f].data = "absent"] \/ disk' = disk
      BY <1>15 DEF Delete, Deleted
    <3>3. CASE disk' = disk
      BY <3>3
    <3>4. CASE disk' = [disk EXCEPT ![f].data = "absent"]
      <4> DEFINE d == [disk EXCEPT ![f].data = "absent"]
      <4>1. d[f].data = "absent" /\ d[f].of = disk[f].of /\ \A g \in File \ {f} : d[g] = disk[g]
        BY <3>1, DiskType
      <4> HIDE DEF d
      <4>2. disk' = d
        BY <3>4 DEF d
      <4> QED
        BY <4>1, <4>2
    <3> QED
      BY <3>2, <3>3, <3>4
  <2>3. TitleServes'
    BY <2>1, <2>2, FileFacts DEF TitleServes
  <2>4. Flushed => Flushed'
    BY <2>1, <2>2 DEF Flushed
  <2>5. Queue' = Queue
    BY <2>1 DEF Queue, LinesOf
  <2>6. pc' \notin Before
    BY <2>1 DEF Before
  <2> QED
    BY <2>1, <2>3, <2>4, <2>5, <2>6 DEF EndedIsEnded, TitleFree
<1>16. CASE CreateFile
  <2>1. PICK number \in {"zero"} \cup Codes, p \in {"ready"} \cup Codes :
          title' = [title EXCEPT !.phase = p] /\ Says(About("created", number))
    BY <1>16 DEF CreateFile
  <2>2. title.phase = "creating" /\ UNCHANGED <<run, disk, abandoned, hasty, pc, chan>>
    BY <1>16 DEF CreateFile, tool, history
  <2>3. /\ About("created", number) \in Line /\ About("created", number).kind = "created"
        /\ About("created", number).of = title.of
    BY <1>0, <2>1 DEF About, Line
  <2>4. Queue' \subseteq Queue \cup {About("created", number)}
    BY <2>1, <2>2, <2>3, SaysAppends
  <2>5. title'.of = title.of
    BY <1>0, <2>1
  <2>6. TitleServes'
    BY <2>2, <2>5 DEF TitleServes
  <2>7. EndedIsEnded'
    BY <1>3, <1>30, <2>2, <2>3, <2>4, <2>5 DEF EndedIsEnded
  <2> QED
    BY <2>6, <2>7
<1>17. ASSUME NEW f \in Own, OpenSegment(f) \/ WriteSegment(f)
       PROVE  TitleServes' /\ EndedIsEnded'
  <2>1. title.phase \in {"recording", "flushing"}
        /\ UNCHANGED <<run, title, abandoned, hasty, pc, wire, chan>>
    BY <1>17 DEF OpenSegment, WriteSegment, tool, notify, history
  <2>2. f \in File /\ f # Foreign /\ Foreign \in File
    BY FileFacts
  <2>3. disk'[Foreign] = disk[Foreign]
    BY <1>0, <1>17, <2>2 DEF OpenSegment, WriteSegment
  <2>4. TitleServes'
    BY <2>1, <2>3 DEF TitleServes
  <2>5. Queue' = Queue
    BY <2>1 DEF Queue, LinesOf
  <2> QED
    BY <1>3, <1>30, <2>1, <2>4, <2>5 DEF EndedIsEnded, TitleFree
<1>18. CASE EndRecording
  <2> DEFINE line == About("ended", "zero")
  <2>1. /\ title.phase = "flushing" /\ title' = [title EXCEPT !.phase = "idle"] /\ Says(line)
        /\ UNCHANGED <<run, disk, abandoned, hasty, pc, chan>>
        /\ \A f \in Own : disk[f].of = title.of => disk[f].data # "part"
    BY <1>18 DEF EndRecording, tool, history
  <2>2. line \in Line /\ line.kind = "ended" /\ line.of = title.of
    BY <1>0, <2>1 DEF About, Line
  <2>3. Queue' \subseteq Queue \cup {line}
    BY <2>1, <2>2, SaysAppends
  <2>4. title'.of = title.of /\ title'.phase = "idle"
    BY <1>0, <2>1
  <2>5. title.of = run => Flushed
    BY <2>1, FileFacts DEF Flushed, TitleServes, File
  <2>6. TitleServes'
    BY <2>1, <2>4 DEF TitleServes
  <2> HIDE DEF line
  <2>7. Flushed => Flushed'
    BY <2>1 DEF Flushed
  <2>8. EndedIsEnded'
    BY <1>3, <1>30, <2>1, <2>2, <2>3, <2>4, <2>5, <2>7 DEF EndedIsEnded, TitleFree
  <2> QED
    BY <2>6, <2>8
<1>19. CASE DropSession
  <2>1. PICK p \in Phases : title' = [title EXCEPT !.phase = p]
    BY <1>19 DEF DropSession, Phases
  <2>2. ~ TitleFree /\ (pc \in Over \/ title.of # run)
        /\ UNCHANGED <<run, disk, abandoned, hasty, pc, wire, chan>>
    BY <1>19 DEF DropSession, tool, notify, history
  <2>3. title'.of = title.of /\ title' \in [phase : Phases, of : Nat]
    BY <1>0, <2>1
  <2>4. Queue' = Queue
    BY <2>2 DEF Queue, LinesOf
  <2>5. CASE abandoned
    BY <1>0, <2>2, <2>3, <2>5 DEF TitleServes, EndedIsEnded
  <2>6. CASE ~ abandoned
    BY <1>0, <1>2, <1>3, <2>2, <2>3, <2>4, <2>6
  <2> QED
    BY <2>5, <2>6
<1>20. CASE Noise
  <2>1. PICK kind \in {"text", "line"} : Says(About(kind, "zero"))
    BY <1>20 DEF Noise
  <2>2. UNCHANGED <<run, title, disk, abandoned, hasty, pc, chan>>
    BY <1>20 DEF Noise, console, tool, history
  <2>3. About(kind, "zero") \in Line /\ About(kind, "zero").kind \notin {"created", "ended"}
    BY <1>0, <2>1 DEF About, Line
  <2>4. Queue' \subseteq Queue \cup {About(kind, "zero")}
    BY <2>1, <2>2, <2>3, SaysAppends
  <2> QED
    BY <2>2, <2>3, <2>4 DEF TitleServes, EndedIsEnded, TitleFree, Flushed
<1> QED
  BY <1>4, <1>5, <1>6, <1>7, <1>8, <1>9, <1>10, <1>11, <1>12, <1>13, <1>14, <1>15, <1>16, <1>17,
     <1>18, <1>19, <1>20
  DEF CaptureNext, ToolNext, TitleNext

-----------------------------------------------------------------------------
(* No segment is lost. *)

Held(m) == \E copy \in raw \cup mp4 : copy.file = m.file /\ copy.of = m.of /\ copy.data = "whole"

KeptInv == FetchedFirst /\ EverySegmentKept /\ FetchesCompleted

LEMMA KeptStep ==
  TypeOK /\ EndedIsEnded /\ KeptInv /\ [CaptureNext]_vars => KeptInv'
<1> SUFFICES ASSUME TypeOK, EndedIsEnded, KeptInv, [CaptureNext]_vars PROVE KeptInv'
  OBVIOUS
<1>0. /\ disk \in [File -> [data : Data, of : Nat]]
      /\ made \subseteq [file : File, of : Nat]
      /\ raw \subseteq Copies /\ mp4 \subseteq Copies /\ todo \subseteq File /\ File \subseteq Nat
      /\ FetchedFirst /\ EverySegmentKept /\ FetchesCompleted
  BY FileFacts DEF TypeOK, KeptInv
<1>1. ASSUME UNCHANGED <<run, disk, made, raw, mp4, abandoned>>,
             hasty' = hasty \/ hasty' = TRUE,
             pc' # "fetched" \/ (pc = "fetched" /\ UNCHANGED todo)
      PROVE  KeptInv'
  <2>1. ~(hasty \/ abandoned)' => ~(hasty \/ abandoned)
    BY <1>1
  <2>2. FetchedFirst'
    BY <1>0, <1>1, <2>1 DEF FetchedFirst, NextIs, CopyOf
  <2>3. EverySegmentKept' /\ FetchesCompleted'
    BY <1>0, <1>1, <2>1 DEF EverySegmentKept, FetchesCompleted
  <2> QED
    BY <2>2, <2>3 DEF KeptInv
<1>2. CASE UNCHANGED vars
  BY <1>1, <1>2 DEF vars, tool, console, notify, local, history
<1>3. CASE Subscribe
  <2>1. raw' = {} /\ mp4' = {} /\ made' = Completed /\ UNCHANGED disk /\ pc' = "subscribed"
    BY <1>3 DEF Subscribe
  <2>2. \A m \in made' : disk'[m.file] = [data |-> "whole", of |-> m.of]
    BY <1>0, <2>1 DEF Completed
  <2> QED
    BY <2>1, <2>2 DEF KeptInv, FetchedFirst, EverySegmentKept, FetchesCompleted
<1>4. CASE Listen \/ Forward \/ TaskEnds \/ Fail \/ CreateFile \/ EndRecording \/ DropSession \/ Noise
  <2>1. UNCHANGED <<run, disk, made, raw, mp4, abandoned, hasty, todo>>
        /\ (pc' = pc \/ pc' \in {"listening", "failed"})
    BY <1>4 DEF Listen, Forward, TaskEnds, Fail, CreateFile, EndRecording, DropSession, Noise,
       tool, console, local, history
  <2> QED
    BY <1>1, <2>1
<1>5. CASE Connect \/ CreatedTimeout \/ EndedTimeout \/ AwaitCreated \/ AwaitEnded
  <2>1. UNCHANGED <<run, disk, made, raw, mp4, abandoned>> /\ (hasty' = hasty \/ hasty' = TRUE)
    BY <1>5 DEF Connect, CreatedTimeout, EndedTimeout, AwaitCreated, AwaitEnded, console, local,
       history
  <2>2. pc' # "fetched"
    BY <1>5 DEF Connect, CreatedTimeout, EndedTimeout, AwaitCreated, AwaitEnded
  <2> QED
    BY <1>1, <2>1, <2>2
<1>6. CASE LimitCaptureSize \/ BeginCaptureFileCreation \/ BeginCapture \/ EndCapture
           \/ EndCaptureFileCreation \/ Disconnect
  <2>1. UNCHANGED <<run, disk, made, raw, mp4, abandoned, hasty>> /\ pc' # "fetched"
    BY <1>6, CommandFacts DEF Commanded
  <2> QED
    BY <1>1, <2>1
<1>7. CASE ListSegments \/ EndFetching \/ EndConverting
  <2>1. UNCHANGED <<run, disk, made, raw, mp4, abandoned, hasty>> /\ pc' # "fetched"
    BY <1>7 DEF ListSegments, EndFetching, EndConverting, console, local, history
  <2> QED
    BY <1>1, <2>1
<1>8. ASSUME NEW f \in File, Fetch(f) PROVE KeptInv'
  <2>1. /\ pc = "fetching" /\ NextIs(f) /\ disk[f].data \in {"part", "whole"}
        /\ UNCHANGED <<run, todo, disk, made, mp4, hasty, abandoned>>
    BY <1>8 DEF Fetch, console, history
  <2> DEFINE torn == [CopyOf(f) EXCEPT !.data = "torn"]
  <2>2. \/ raw' = raw \cup {CopyOf(f)} /\ pc' = "fetched"
        \/ raw' = raw \cup {torn} /\ pc' = "failed"
    BY <1>8, Zenon DEF Fetch
  <2>3. CopyOf(f).of = disk[f].of /\ CopyOf(f).data = disk[f].data /\ torn.data = "torn"
    BY <2>1, CopyType
  <2>4. f \in todo /\ CopyOf(f)' = CopyOf(f) /\ NextIs(f)'
    BY <2>1 DEF NextIs, CopyOf
  <2> HIDE DEF torn
  <2>5. FetchedFirst'
    BY <2>1, <2>2, <2>4 DEF FetchedFirst
  <2>6. EverySegmentKept'
    BY <1>0, <2>1, <2>2 DEF EverySegmentKept
  <2>7. ~(hasty \/ abandoned) /\ disk[f].of = run => disk[f].data # "part"
    BY <2>1 DEF EndedIsEnded, Afterward, Flushed
  <2>8. FetchesCompleted'
    BY <1>0, <2>1, <2>2, <2>3, <2>7 DEF FetchesCompleted
  <2> QED
    BY <2>5, <2>6, <2>8 DEF KeptInv
<1>9. ASSUME NEW f \in File, Delete(f) PROVE KeptInv'
  <2>1. /\ pc = "fetched" \/ (pc = "fetching" /\ disk[f].data = "empty")
        /\ NextIs(f) /\ pc' = "fetching"
        /\ disk' = [disk EXCEPT ![f].data = "absent"] \/ UNCHANGED disk
        /\ UNCHANGED <<run, made, raw, mp4, hasty, abandoned>>
    BY <1>9 DEF Delete, Deleted, local, history
  <2>2. \A g \in File \ {f} : disk'[g] = disk[g]
    BY <1>0, <2>1
  <2>3. FetchedFirst'
    BY <2>1 DEF FetchedFirst
  <2>4. FetchesCompleted'
    BY <1>0, <2>1 DEF FetchesCompleted
  <2>5. EverySegmentKept'
    <3>1. SUFFICES ASSUME ~(hasty \/ abandoned), NEW m \in made,
                          disk'[m.file] # [data |-> "whole", of |-> m.of]
                   PROVE  Held(m)
      BY <2>1 DEF EverySegmentKept, Held
    <3>2. disk[m.file] = [data |-> "whole", of |-> m.of] \/ Held(m)
      BY <1>0, <3>1 DEF EverySegmentKept, Held
    <3>3. SUFFICES ASSUME disk[m.file] = [data |-> "whole", of |-> m.of] PROVE Held(m)
      BY <3>2
    <3>4. m.file = f
      BY <1>0, <2>2, <3>1, <3>3
    <3>5. pc = "fetched"
      BY <2>1, <3>3, <3>4
    <3>6. PICK g \in todo : NextIs(g) /\ CopyOf(g) \in raw
      BY <1>0, <3>1, <3>5 DEF FetchedFirst
    <3>7. g = f
      BY <1>0, <2>1, <3>6 DEF NextIs
    <3>8. CopyOf(f).file = f /\ CopyOf(f).of = m.of /\ CopyOf(f).data = "whole"
      BY <3>3, <3>4 DEF CopyOf
    <3> QED
      BY <3>4, <3>6, <3>7, <3>8 DEF Held
  <2> QED
    BY <2>3, <2>4, <2>5 DEF KeptInv
<1>10. ASSUME NEW copy \in raw, Convert(copy) PROVE KeptInv'
  <2>1. /\ pc = "converting" /\ UNCHANGED <<pc, run, disk, made, hasty, abandoned>>
        /\ raw' \cup mp4' = raw \cup mp4
    <3>1. \/ mp4' = mp4 \cup {copy} /\ (raw' = raw \/ raw' = raw \ {copy})
          \/ UNCHANGED <<raw, mp4>>
      BY <1>10 DEF Convert, local
    <3>2. raw' \cup mp4' = raw \cup mp4
      BY <1>10, <3>1
    <3> QED
      BY <1>10, <3>2 DEF Convert, console, history
  <2> QED
    BY <1>0, <2>1 DEF KeptInv, FetchedFirst, EverySegmentKept, FetchesCompleted
<1>11. ASSUME title.phase # "idle", UNCHANGED <<pc, hasty, abandoned>> PROVE FetchedFirst'
  BY <1>11 DEF EndedIsEnded, FetchedFirst, Afterward
<1>12. ASSUME NEW f \in Own, OpenSegment(f) PROVE KeptInv'
  <2>1. /\ title.phase # "idle" /\ UNCHANGED <<pc, run, raw, mp4, hasty, abandoned>>
        /\ made' = {m \in made : m.file # f \/ m.of # disk[f].of}
        /\ disk' = [disk EXCEPT ![f] = [data |-> "empty", of |-> title.of]]
    BY <1>12 DEF OpenSegment, tool, local, history
  <2>2. f \in File /\ \A g \in File \ {f} : disk'[g] = disk[g]
    BY <1>0, <2>1, FileFacts
  <2>3. EverySegmentKept'
    <3>1. SUFFICES ASSUME ~(hasty \/ abandoned), NEW m \in made'
                   PROVE  disk'[m.file] = [data |-> "whole", of |-> m.of] \/ Held(m)
      BY <2>1 DEF EverySegmentKept, Held
    <3>2. m \in made /\ m.file \in File /\ (m.file # f \/ m.of # disk[f].of)
      BY <1>0, <2>1
    <3>3. disk[m.file] = [data |-> "whole", of |-> m.of] \/ Held(m)
      BY <1>0, <3>1, <3>2 DEF EverySegmentKept, Held
    <3>4. CASE m.file # f
      BY <2>2, <3>2, <3>3, <3>4
    <3>5. CASE m.file = f
      BY <3>2, <3>3, <3>5
    <3> QED
      BY <3>4, <3>5
  <2>4. FetchesCompleted'
    BY <1>0, <2>1 DEF FetchesCompleted
  <2> QED
    BY <1>11, <2>1, <2>3, <2>4 DEF KeptInv
<1>13. ASSUME NEW f \in Own, WriteSegment(f) PROVE KeptInv'
  <2>1. /\ title.phase # "idle" /\ UNCHANGED <<pc, run, raw, mp4, hasty, abandoned>>
        /\ disk[f].of = title.of /\ disk[f].data \in {"empty", "part"}
    BY <1>13 DEF WriteSegment, tool, local, history
  <2>2. \/ disk' = [disk EXCEPT ![f].data = "part"] /\ made' = made
        \/ /\ disk' = [disk EXCEPT ![f].data = "whole"]
           /\ made' = made \cup {[file |-> f, of |-> title.of]}
    BY <1>13 DEF WriteSegment
  <2>3. f \in File /\ \A g \in File \ {f} : disk'[g] = disk[g]
    BY <1>0, <2>2, FileFacts
  <2>4. EverySegmentKept'
    <3>1. SUFFICES ASSUME ~(hasty \/ abandoned), NEW m \in made'
                   PROVE  disk'[m.file] = [data |-> "whole", of |-> m.of] \/ Held(m)
      BY <2>1 DEF EverySegmentKept, Held
    <3>2. CASE m \in made
      <4>1. disk[m.file] = [data |-> "whole", of |-> m.of] \/ Held(m)
        BY <1>0, <3>1, <3>2 DEF EverySegmentKept, Held
      <4>2. m.file \in File
        BY <1>0, <3>2
      <4>3. disk[f] # [data |-> "whole", of |-> m.of]
        BY <2>1
      <4> QED
        BY <2>3, <4>1, <4>2, <4>3
    <3>3. CASE m \notin made
      <4>1. m = [file |-> f, of |-> title.of] /\ disk' = [disk EXCEPT ![f].data = "whole"]
        BY <2>2, <3>3
      <4>2. disk[f] \in [data : Data, of : Nat]
        BY <1>0, <2>3
      <4>3. disk'[f] = [disk[f] EXCEPT !.data = "whole"]
        BY <1>0, <2>3, <4>1
      <4>4. disk'[f] = [data |-> "whole", of |-> title.of]
        BY <2>1, <4>2, <4>3
      <4> QED
        BY <4>1, <4>4
    <3> QED
      BY <3>2, <3>3
  <2>5. FetchesCompleted'
    BY <1>0, <2>1 DEF FetchesCompleted
  <2> QED
    BY <1>11, <2>1, <2>4, <2>5 DEF KeptInv
<1> QED
  BY <1>2, <1>3, <1>4, <1>5, <1>6, <1>7, <1>8, <1>9, <1>10, <1>12, <1>13
  DEF CaptureNext, ToolNext, TitleNext

-----------------------------------------------------------------------------
(* The title is where the tool takes it to be. *)

\* NothingMissed, with the lines in one set.
LEMMA NothingMissedIs ==
  NothingMissed <=>
    (task = "reading" /\ title.of = run /\ ~abandoned =>
      /\ pc = "requested" /\ title.phase \in {"ready"} \cup Codes =>
           \E line \in Queue : line.kind = "created" /\ line.of = run
      /\ pc = "closed" /\ title.phase = "idle" =>
           \E line \in Queue : line.kind = "ended" /\ line.of = run)
BY DEF NothingMissed, Waiting, Queue, LinesOf

LEMMA ForwardKeepsNews ==
  ASSUME TypeOK, Forward, NEW line \in Queue, line.kind # "line"
  PROVE  line \in Queue'
<1>1. wire \in Seq(Line) /\ chan \in Seq(Line) /\ wire # <<>>
  BY DEF TypeOK, Forward
<1>2. LinesOf(wire) = {Head(wire)} \cup LinesOf(wire') /\ Head(wire) \in Line
  BY <1>1, LinesOfTail DEF Forward
<1>3. CASE Head(wire).kind = "line"
  <2>1. chan' = chan
    BY <1>3 DEF Forward, IsNotification
  <2> QED
    BY <1>2, <1>3, <2>1 DEF Queue, LinesOf
<1>4. CASE Head(wire).kind # "line"
  <2>1. chan' = Append(chan, Head(wire))
    BY <1>4 DEF Forward, IsNotification
  <2>2. LinesOf(chan') = LinesOf(chan) \cup {Head(wire)}
    BY <1>1, <1>2, <2>1, LinesOfAppend
  <2> QED
    BY <1>2, <2>2 DEF Queue
<1> QED
  BY <1>3, <1>4

Attentive == {"requested", "ready", "recording", "ended", "closed"}

LEMMA NotifyStep ==
  TypeOK /\ EndedIsEnded /\ NotifyInv /\ [CaptureNext]_vars => NotifyInv'
<1> SUFFICES ASSUME TypeOK, EndedIsEnded, NotifyInv, [CaptureNext]_vars PROVE NotifyInv'
  OBVIOUS
<1>0. /\ title \in [phase : Phases, of : 0 .. MaxRuns] /\ TitleFollows /\ NothingMissed
      /\ chan \in Seq(Line) /\ wire \in Seq(Line)
  BY DEF TypeOK, NotifyInv
<1>1. ASSUME pc' \notin Attentive \/ abandoned' PROVE NotifyInv'
  BY <1>1 DEF NotifyInv, TitleFollows, NothingMissed, Attentive
<1>2. ASSUME UNCHANGED <<pc, run, title, task, abandoned>>, Queue' = Queue PROVE NotifyInv'
  BY <1>0, <1>2, NothingMissedIs DEF NotifyInv, TitleFollows, NothingMissed, Waiting, Queue, LinesOf
<1>3. ~ abandoned /\ ~ TitleFree =>
        /\ title.of = run /\ \A line \in Queue : line.kind # "ended"
        /\ pc \notin Before /\ (pc \notin Afterward \/ hasty)
  BY DEF EndedIsEnded, TitleFree
<1>30. title.phase \in {"creating", "ready", "recording", "stopped", "flushing"} => ~ TitleFree
  BY CaptureAssumption DEF TitleFree
\* The news NothingMissed speaks of.
<1> DEFINE News(kind) == \E line \in Queue : line.kind = kind /\ line.of = run
           Expected ==
             task = "reading" /\ title.of = run /\ ~abandoned =>
               /\ pc = "requested" /\ title.phase \in {"ready"} \cup Codes => News("created")
               /\ pc = "closed" /\ title.phase = "idle" => News("ended")
<1>4. Expected /\ (Expected' => NothingMissed')
  <2>1. NothingMissed <=> Expected
    BY NothingMissedIs
  <2>2. NothingMissed' <=> Expected'
    BY DEF NothingMissed, Waiting, Queue, LinesOf
  <2> QED
    BY <1>0, <2>1, <2>2
<1> HIDE DEF Expected
<1>5. CASE UNCHANGED vars
  BY <1>2, <1>5 DEF vars, tool, console, notify, local, history, Queue, LinesOf
<1>6. CASE Subscribe \/ Listen \/ Connect \/ CreatedTimeout \/ EndedTimeout \/ ListSegments
           \/ EndFetching \/ EndConverting \/ Fail \/ LimitCaptureSize \/ Disconnect
           \/ (\E f \in File : Fetch(f) \/ Delete(f)) \/ (\E copy \in raw : Convert(copy))
  <2>1. CASE LimitCaptureSize \/ Disconnect
    BY <1>1, <2>1, CommandFacts DEF Commanded, Attentive
  <2>2. CASE Subscribe \/ Listen \/ Connect \/ CreatedTimeout \/ EndedTimeout \/ ListSegments
             \/ EndFetching \/ EndConverting \/ Fail
    BY <1>1, <2>2 DEF Subscribe, Listen, Connect, CreatedTimeout, EndedTimeout, ListSegments,
       EndFetching, EndConverting, Fail, Attentive
  <2>3. CASE (\E f \in File : Fetch(f) \/ Delete(f)) \/ (\E copy \in raw : Convert(copy))
    BY <1>1, <2>3 DEF Fetch, Delete, Convert, Attentive
  <2> QED
    BY <1>6, <2>1, <2>2, <2>3
<1>7. CASE Forward
  <2>1. Queue' \subseteq Queue /\ UNCHANGED <<pc, run, title, task, abandoned>>
    BY <1>7, ForwardShrinksQueue DEF Forward, tool, console, history
  <2>2. \A line \in Queue : line.kind \in {"created", "ended"} => line \in Queue'
    BY <1>7, ForwardKeepsNews
  <2>3. TitleFollows'
    BY <1>0, <2>1 DEF TitleFollows
  <2>4. Expected'
    BY <1>4, <2>1, <2>2 DEF Expected
  <2> QED
    BY <1>4, <2>3, <2>4 DEF NotifyInv
<1>8. CASE TaskEnds
  <2>1. Queue' \subseteq Queue /\ UNCHANGED <<pc, run, title, abandoned>> /\ task' = "over"
    BY <1>8, NoLines DEF TaskEnds, Queue, LinesOf, tool, console, history
  <2>2. TitleFollows'
    BY <1>0, <2>1 DEF TitleFollows
  <2> QED
    BY <2>1, <2>2 DEF NotifyInv, NothingMissed
<1>9. CASE BeginCaptureFileCreation
  <2>1. /\ pc = "limited" /\ UNCHANGED <<run, abandoned, wire, chan>>
        /\ pc' = "requested" \/ pc' = "failed"
        /\ title' = title \/ title' = [phase |-> "creating", of |-> run]
    BY <1>9, CommandFacts DEF Commanded
  <2>2. CASE pc' = "failed" \/ abandoned
    BY <1>1, <2>1, <2>2 DEF Attentive
  <2>3. CASE pc' = "requested" /\ ~ abandoned
    <3>1. title.of # run /\ \A line \in Queue : line.kind # "created"
      BY <2>1, <2>3 DEF EndedIsEnded, Before
    <3>2. Queue' = Queue
      BY <2>1 DEF Queue, LinesOf
    <3>3. TitleFollows'
      BY <2>1, <2>3, <3>1, <3>2 DEF TitleFollows
    <3>4. Expected'
      BY <2>1, <2>3, <3>1, CaptureAssumption DEF Expected
    <3> QED
      BY <1>4, <3>3, <3>4 DEF NotifyInv
  <2> QED
    BY <2>1, <2>2, <2>3
<1>10. CASE BeginCapture \/ EndCapture \/ EndCaptureFileCreation
  <2>1. UNCHANGED <<run, abandoned>>
    BY <1>10, CommandFacts DEF Commanded
  <2>2. CASE pc' = "failed" \/ abandoned
    BY <1>1, <2>1, <2>2 DEF Attentive
  <2>3. CASE pc' # "failed" /\ ~ abandoned
    <3>1. title'.of = title.of
      BY <1>0, <1>10, CommandFacts
    <3>2. CASE BeginCapture
      <4>1. pc = "ready" /\ pc' = "recording" /\ title'.phase \in {"ready", "letters", "recording"}
        BY <1>0, <2>3, <3>2, CommandFacts DEF Commanded, TitleFollows
      <4> QED
        BY <1>0, <2>1, <2>3, <3>1, <4>1 DEF NotifyInv, TitleFollows, NothingMissed
    <3>3. CASE EndCapture
      <4>1. pc = "recording" /\ pc' = "ended"
            /\ title'.phase \in {"ready", "letters", "recording", "stopped"}
        BY <1>0, <2>3, <3>3, CommandFacts DEF Commanded, TitleFollows
      <4> QED
        BY <1>0, <2>1, <2>3, <3>1, <4>1 DEF NotifyInv, TitleFollows, NothingMissed
    <3>4. CASE EndCaptureFileCreation
      <4>1. pc = "ended" /\ pc' = "closed"
            /\ title'.phase \in {"ready", "letters", "recording", "stopped", "flushing"}
        BY <1>0, <2>3, <3>4, CommandFacts DEF Commanded, TitleFollows
      <4> QED
        BY <1>0, <2>1, <2>3, <3>1, <4>1 DEF NotifyInv, TitleFollows, NothingMissed
    <3> QED
      BY <1>10, <3>2, <3>3, <3>4
  <2> QED
    BY <2>2, <2>3
<1>11. CASE AwaitCreated
  <2>1. /\ pc = "requested" /\ chan # <<>> /\ chan' = Tail(chan)
        /\ UNCHANGED <<wire, task, run, title, abandoned>>
    BY <1>11 DEF AwaitCreated, console, history
  <2>2. Head(chan) \in Queue /\ Queue = {Head(chan)} \cup Queue'
    BY <2>1, TailShrinksQueue
  <2>3. CASE Head(chan).kind # "created"
    <3>1. pc' = "requested"
      BY <1>11, <2>1, <2>3 DEF AwaitCreated
    <3>2. TitleFollows'
      BY <1>0, <2>1, <2>2, <3>1 DEF TitleFollows
    <3>3. Expected'
      BY <1>4, <2>1, <2>2, <2>3, <3>1 DEF Expected
    <3> QED
      BY <1>4, <3>2, <3>3 DEF NotifyInv
  <2>4. CASE Head(chan).kind = "created" /\ ParsedNumber(Head(chan)) = 0 /\ ~ abandoned
    <3>1. Head(chan).number \in {"zero", "letters"}
      <4>1. Head(chan).number \in {"zero", "digits", "letters"}
        BY <1>0, <2>1, LinesOfTail, CaptureAssumption DEF Line
      <4> QED
        BY <2>4, <4>1 DEF ParsedNumber
    <3>2. title.of = run /\ title.phase \in {"ready", "letters"}
      BY <1>0, <2>1, <2>2, <2>4, <3>1 DEF TitleFollows, EndedIsEnded
    <3>3. pc' = "ready"
      BY <1>11, <2>4 DEF AwaitCreated
    <3> QED
      BY <2>1, <3>2, <3>3 DEF NotifyInv, TitleFollows, NothingMissed
  <2>5. CASE Head(chan).kind = "created" /\ ParsedNumber(Head(chan)) # 0
    <3>1. pc' = "failed"
      BY <1>11, <2>5 DEF AwaitCreated
    <3> QED
      BY <1>1, <3>1 DEF Attentive
  <2> QED
    BY <1>1, <2>1, <2>3, <2>4, <2>5
<1>12. CASE AwaitEnded
  <2>1. /\ pc = "closed" /\ chan # <<>> /\ chan' = Tail(chan)
        /\ UNCHANGED <<wire, task, run, title, abandoned>>
    BY <1>12 DEF AwaitEnded, console, history
  <2>2. Head(chan) \in Queue /\ Queue = {Head(chan)} \cup Queue'
    BY <2>1, TailShrinksQueue
  <2>3. CASE Head(chan).kind # "ended"
    <3>1. pc' = "closed"
      BY <1>12, <2>1, <2>3 DEF AwaitEnded
    <3>2. TitleFollows'
      BY <1>0, <2>1, <3>1 DEF TitleFollows
    <3>3. Expected'
      BY <1>4, <2>1, <2>2, <2>3, <3>1 DEF Expected
    <3> QED
      BY <1>4, <3>2, <3>3 DEF NotifyInv
  <2>4. CASE Head(chan).kind = "ended"
    <3>1. pc' = "flushed"
      BY <1>12, <2>4 DEF AwaitEnded
    <3> QED
      BY <1>1, <3>1 DEF Attentive
  <2> QED
    BY <2>3, <2>4
<1>13. CASE CreateFile
  <2>1. PICK number \in {"zero"} \cup Codes, p \in {"ready"} \cup Codes :
          /\ title' = [title EXCEPT !.phase = p] /\ Says(About("created", number))
          /\ p = IF number = "zero" THEN "ready" ELSE number
    <3>1. CASE title' = [title EXCEPT !.phase = "ready"] /\ Says(About("created", "zero"))
      BY <3>1
    <3>2. CASE \E code \in Codes :
                 title' = [title EXCEPT !.phase = code] /\ Says(About("created", code))
      <4>1. \A code \in Codes : code # "zero"
        BY CaptureAssumption
      <4> QED
        BY <3>2, <4>1
    <3> QED
      BY <1>13, <3>1, <3>2 DEF CreateFile
  <2> DEFINE line == About("created", number)
  <2>2. title.phase = "creating" /\ UNCHANGED <<run, disk, abandoned, task, pc, chan>>
    BY <1>13 DEF CreateFile, tool, history
  <2>3. /\ line \in Line /\ line.kind = "created" /\ line.of = title.of /\ line.number = number
    BY <1>0, <2>1 DEF About, Line
  <2>4. /\ Queue \subseteq Queue' /\ Queue' \subseteq Queue \cup {line}
        /\ task = "reading" => line \in Queue'
    BY <2>1, <2>2, <2>3, SaysAppends
  <2>5. title'.of = title.of /\ title'.phase = p
    BY <1>0, <2>1
  <2> HIDE DEF line
  <2>6. CASE abandoned \/ pc \notin {"requested"}
    <3>1. abandoned \/ pc \notin Attentive
      BY <1>0, <2>2, <2>6 DEF TitleFollows, Attentive
    <3> QED
      BY <1>1, <2>2, <3>1
  <2>7. CASE ~ abandoned /\ pc = "requested"
    <3>1. title.of = run
      BY <1>3, <1>30, <2>2, <2>7
    <3>2. \A l \in Queue : l.kind # "created"
      <4>1. \A l \in Queue : l.number \in {"zero", "digits", "letters"}
        <5>1. Queue \subseteq Line
          BY <1>0 DEF Queue, LinesOf
        <5> QED
          BY <5>1, CaptureAssumption DEF Line
      <4> QED
        BY <1>0, <2>2, <2>7, <4>1 DEF TitleFollows
    <3>3. TitleFollows'
      BY <2>1, <2>2, <2>3, <2>4, <2>5, <2>7, <3>2 DEF TitleFollows
    <3>4. Expected'
      BY <2>2, <2>3, <2>4, <2>5, <2>7, <3>1 DEF Expected
    <3> QED
      BY <1>4, <3>3, <3>4 DEF NotifyInv
  <2> QED
    BY <2>6, <2>7
<1>14. ASSUME NEW f \in Own, OpenSegment(f) \/ WriteSegment(f) PROVE NotifyInv'
  <2>1. UNCHANGED <<pc, run, title, task, abandoned, wire, chan>>
    BY <1>14 DEF OpenSegment, WriteSegment, tool, notify, history
  <2> QED
    BY <1>2, <2>1 DEF Queue, LinesOf
<1>15. CASE EndRecording
  <2> DEFINE line == About("ended", "zero")
  <2>1. /\ title.phase = "flushing" /\ title' = [title EXCEPT !.phase = "idle"] /\ Says(line)
        /\ UNCHANGED <<run, abandoned, task, pc, chan>>
    BY <1>15 DEF EndRecording, tool, history
  <2>2. line \in Line /\ line.kind = "ended" /\ line.of = title.of
    BY <1>0, <2>1 DEF About, Line
  <2>3. task = "reading" => line \in Queue'
    BY <2>1, <2>2, SaysAppends
  <2>4. title'.of = title.of /\ title'.phase = "idle"
    BY <1>0, <2>1
  <2> HIDE DEF line
  <2>5. CASE abandoned \/ pc # "closed"
    <3>1. abandoned \/ pc \notin Attentive
      BY <1>0, <1>3, <1>30, <2>1, <2>5, CaptureAssumption DEF TitleFollows, Attentive
    <3> QED
      BY <1>1, <2>1, <3>1
  <2>6. CASE ~ abandoned /\ pc = "closed"
    <3>1. title.of = run
      BY <1>3, <1>30, <2>1, <2>6
    <3>2. TitleFollows'
      BY <2>1, <2>4, <2>6, <3>1 DEF TitleFollows
    <3>3. Expected'
      BY <2>1, <2>2, <2>3, <2>4, <2>6, <3>1 DEF Expected
    <3> QED
      BY <1>4, <3>2, <3>3 DEF NotifyInv
  <2> QED
    BY <2>5, <2>6
<1>16. CASE DropSession
  <2>1. ~ TitleFree /\ (pc \in Over \/ title.of # run) /\ UNCHANGED <<pc, abandoned>>
    BY <1>16 DEF DropSession, tool, history
  <2>2. abandoned \/ pc \in Over
    BY <1>3, <2>1
  <2> QED
    BY <1>1, <2>1, <2>2 DEF Over, Attentive
<1>17. CASE Noise
  <2>1. PICK kind \in {"text", "line"} : Says(About(kind, "zero"))
    BY <1>17 DEF Noise
  <2>2. UNCHANGED <<run, title, task, abandoned, pc, chan>>
    BY <1>17 DEF Noise, console, tool, history
  <2>3. About(kind, "zero") \in Line /\ About(kind, "zero").kind \notin {"created", "ended"}
    BY <1>0, <2>1 DEF About, Line
  <2>4. Queue \subseteq Queue' /\ Queue' \subseteq Queue \cup {About(kind, "zero")}
    BY <2>1, <2>2, <2>3, SaysAppends
  <2>5. TitleFollows'
    BY <1>0, <2>2, <2>3, <2>4 DEF TitleFollows
  <2>6. Expected'
    BY <1>4, <2>2, <2>4 DEF Expected
  <2> QED
    BY <1>4, <2>5, <2>6 DEF NotifyInv
<1> QED
  BY <1>5, <1>6, <1>7, <1>8, <1>9, <1>10, <1>11, <1>12, <1>13, <1>14, <1>15, <1>16, <1>17
  DEF CaptureNext, ToolNext, TitleNext

-----------------------------------------------------------------------------

LEMMA SegmentInvariance == Spec => []SegmentInv
<1>1. Init => SegmentInv
  <2> SUFFICES ASSUME Init PROVE SegmentInv
    OBVIOUS
  <2>1. TypeOK
    BY InitType
  <2>2. run = 0 /\ title.of = 0 /\ TitleFree /\ pc = "idle"
        /\ wire = <<>> /\ chan = <<>> /\ raw = {} /\ mp4 = {} /\ made = Completed
    BY DEF Init, TitleFree
  <2>3. TitleServes
    BY <2>2, FileFacts DEF Init, TitleServes
  <2>4. EndedIsEnded
    BY <2>2, NoLines DEF EndedIsEnded, Queue, Before, Afterward
  <2>5. FetchedFirst /\ FetchesCompleted
    BY <2>2 DEF FetchedFirst, FetchesCompleted
  <2>6. \A m \in made : disk[m.file] = [data |-> "whole", of |-> m.of]
    <3>1. disk \in [File -> [data : Data, of : Nat]]
      BY <2>1 DEF TypeOK
    <3> QED
      BY <2>2, <3>1 DEF Completed
  <2> QED
    BY <2>1, <2>3, <2>4, <2>5, <2>6 DEF SegmentInv, EverySegmentKept
<1>2. SegmentInv /\ [CaptureNext]_vars => SegmentInv'
  BY StepType, EndedStep, KeptStep DEF SegmentInv, KeptInv
<1> QED
  BY <1>1, <1>2, PTL DEF Spec

\* A segment the title completed is on the console or here, whole, in every
\* call that waited for the title (run_capture, main.rs).
THEOREM NoSegmentLost == Spec => []EverySegmentKept
<1>1. SegmentInv => EverySegmentKept
  BY DEF SegmentInv
<1> QED
  BY <1>1, SegmentInvariance, PTL

\* A call that waited for the title fetches no segment still being written
\* (run_capture, main.rs).
THEOREM NoHalfSegment == Spec => []FetchesCompleted
<1>1. SegmentInv => FetchesCompleted
  BY DEF SegmentInv
<1> QED
  BY <1>1, SegmentInvariance, PTL

LEMMA NotifyInvariance == Spec => []NotifyInv
<1>1. Init => NotifyInv
  BY DEF Init, NotifyInv, TitleFollows, NothingMissed
<1>2. SegmentInv /\ NotifyInv /\ [CaptureNext]_vars => NotifyInv'
  BY NotifyStep DEF SegmentInv
<1> QED
  BY <1>1, <1>2, SegmentInvariance, PTL DEF Spec

\* Whatever the title said of this call and the tool still waits for is under
\* way to it (run_capture subscribes before anything else, main.rs).
THEOREM SubscribedInTime == Spec => []NothingMissed
<1>1. NotifyInv => NothingMissed
  BY DEF NotifyInv
<1> QED
  BY <1>1, NotifyInvariance, PTL

\* Recording begins on what the title said of this call: on a created file,
\* or on a failure whose number Notification::parse takes for 0 because it is
\* not decimal (run_capture, main.rs).
THEOREM CreatedFirst == Spec => []ReadyUnlessMisread
<1>1. NotifyInv => ReadyUnlessMisread
  BY DEF NotifyInv, TitleFollows, ReadyUnlessMisread
<1> QED
  BY <1>1, NotifyInvariance, PTL

-----------------------------------------------------------------------------
(***************************************************************************)
(* What the tool makes of the recording it has captured, and of a          *)
(* screenshot, is Recording: theorems for files with any number of         *)
(* records, cut anywhere, and pictures of every size.                      *)
(***************************************************************************)
Pic == INSTANCE Recording

LEMMA PictureSizes == Pic!RecordingAssumption
BY RecordingAssumption DEF RecordingAssumption, Pic!RecordingAssumption, Aligned, Pic!Aligned

\* The least number principle, as induction over a set.
LEMMA SetInduction ==
  ASSUME NEW T \in SUBSET Nat, 0 \in T, \A n \in T : n + 1 \in T
  PROVE  T = Nat
<1>1. SUFFICES ASSUME Nat \ T # {} PROVE FALSE
  OBVIOUS
<1>2. PICK m \in Nat \ T : \A y \in Nat \ T : ~ (<<y, m>> \in OpToRel(<, Nat))
  <2>1. Nat \ T \subseteq Nat
    OBVIOUS
  <2> QED
    BY <1>1, <2>1, WFMin, NatLessThanWellFounded
<1>3. m \in Nat /\ m # 0 /\ m - 1 \in Nat /\ m - 1 < m
  OBVIOUS
<1>4. <<m - 1, m>> \in OpToRel(<, Nat)
  BY <1>3, Zenon DEF OpToRel
<1>5. m - 1 \in T
  BY <1>2, <1>3, <1>4, Zenon
<1>6. (m - 1) + 1 \in T /\ (m - 1) + 1 = m
  BY <1>3, <1>5
<1> QED
  BY <1>6

-----------------------------------------------------------------------------
(* The sizes of records. *)

\* Sizes are rounded up to whole tiles.
LEMMA AlignedCovers ==
  ASSUME NEW n \in Nat
  PROVE  Pic!Aligned(n) \in Nat /\ Pic!Aligned(n) % 32 = 0 /\ n <= Pic!Aligned(n) /\ Pic!Aligned(n) < n + 32
  BY DEF Pic!Aligned

LEMMA NaturalProduct ==
  ASSUME NEW a \in Nat, NEW b \in Nat
  PROVE  a * b \in Nat
  OBVIOUS

\* Below the word nothing wraps.
LEMMA FitsWord ==
  ASSUME NEW m \in Nat \ {0}, NEW n \in Nat, n < m
  PROVE  n % m = n
  OBVIOUS

\* Where the code looks for the pixels is where a writer puts them: at the
\* least multiple of 512 behind what precedes them.
LEMMA PixelsFound ==
  ASSUME NEW r \in Pic!Header
  PROVE  /\ Pic!PixelsOffset(r) = Pic!PixelsAfter(r)
         /\ Pic!PixelsAfter(r) \in {512, 1024, 1536, 2048}
<1>1. r.flags \in {0, 1, 2, 3}
  BY DEF Pic!Header
<1>2. Pic!Room(r) \in {16, 72, 1552, 1608}
  BY <1>1 DEF Pic!Room, Pic!Bit
<1>3. {512 * k : k \in 1..4} = {512, 1024, 1536, 2048}
  <2>1. 1..4 = {1, 2, 3, 4}
    OBVIOUS
  <2> QED
    BY <2>1
<1>4. \E n \in {512, 1024, 1536, 2048} : n >= Pic!Room(r) /\ n - 512 < Pic!Room(r)
  BY <1>2
<1>5. /\ Pic!PixelsAfter(r) \in {512, 1024, 1536, 2048}
      /\ Pic!PixelsAfter(r) >= Pic!Room(r) /\ Pic!PixelsAfter(r) - 512 < Pic!Room(r)
  <2> DEFINE P(n) == n >= Pic!Room(r) /\ n - 512 < Pic!Room(r)
  <2>1. Pic!PixelsAfter(r) = CHOOSE n \in {512 * k : k \in 1..4} : P(n)
    BY DEF Pic!PixelsAfter
  <2>2. \E n \in {512 * k : k \in 1..4} : P(n)
    BY <1>3, <1>4
  <2> HIDE DEF P
  <2>3. Pic!PixelsAfter(r) \in {512 * k : k \in 1..4} /\ P(Pic!PixelsAfter(r))
    BY <2>1, <2>2, Zenon
  <2> QED
    BY <1>3, <2>3 DEF P
<1>6. Pic!PixelsOffset(r) = ((Pic!Room(r) + 511) \div 512) * 512
  BY <1>1 DEF Pic!PixelsOffset, Pic!Room, Pic!Bit
<1> QED
  BY <1>2, <1>5, <1>6

Recorded(f) ==
  /\ <<f.w, f.h>> \in FrameSizes /\ f.w \in Nat /\ f.h \in Nat
  /\ f.records \in Seq(Pic!Header)

Pixels(f) == 3 * Pic!Aligned(f.w) * Pic!Aligned(f.h)

LEMMA SizesFit ==
  ASSUME NEW f, Recorded(f)
  PROVE  /\ Pixels(f) \in Nat
         /\ Pic!PixelBytes(f.w, f.h) = Pixels(f) \div 2
         /\ Pic!PixelBytes(f.w, f.h) \in Nat
<1>1. Pic!Aligned(f.w) \in Nat /\ Pic!Aligned(f.h) \in Nat
  BY AlignedCovers DEF Recorded
<1>2. 3 * Pic!Aligned(f.w) \in Nat
  BY <1>1
<1>3. Pixels(f) \in Nat
  BY <1>1, <1>2, NaturalProduct DEF Pixels
<1>4. Pixels(f) < Word /\ Word \in Nat \ {0}
  <2>1. \A s \in FrameSizes : 3 * Pic!Aligned(s[1]) * Pic!Aligned(s[2]) < Word
    BY PictureSizes DEF Pic!RecordingAssumption
  <2> DEFINE s == <<f.w, f.h>>
  <2>2. s \in FrameSizes /\ s[1] = f.w /\ s[2] = f.h
    BY DEF Recorded
  <2> HIDE DEF s
  <2>3. 3 * Pic!Aligned(f.w) * Pic!Aligned(f.h) < Word
    BY <2>1, <2>2
  <2> QED
    BY <2>3, PictureSizes DEF Pic!RecordingAssumption, Pixels
<1>5. Pixels(f) % Word = Pixels(f)
  BY <1>3, <1>4, FitsWord
<1>6. Pic!PixelBytes(f.w, f.h) = Pixels(f) \div 2
  BY <1>5 DEF Pic!PixelBytes, Pixels
<1> QED
  BY <1>3, <1>6

\* What the cursor adds for a record is what the console wrote.
LEMMA SizeIsWritten ==
  ASSUME NEW f, Recorded(f), NEW k \in 1 .. Len(f.records)
  PROVE  /\ f.records[k] \in Pic!Header
         /\ Pic!PixelsOffset(f.records[k]) + Pic!PixelBytes(f.w, f.h) + Pic!AudioBytes(f.records[k]) = Pic!Written(f, k)
         /\ Pic!Written(f, k) \in Nat
         /\ Pic!PixelsAfter(f.records[k]) \in Nat
         /\ Pic!PixelsAfter(f.records[k]) + Pic!PixelBytes(f.w, f.h) <= Pic!Written(f, k)
         /\ Pic!Written(f, k) >= 512
<1> DEFINE r == f.records[k]
<1>1. r \in Pic!Header
  BY DEF Recorded
<1>2. r.audio_count \in 0 .. MaxAudio /\ MaxAudio \in Nat /\ 6144 * MaxAudio < Word /\ Word \in Nat \ {0}
  BY <1>1, PictureSizes DEF Pic!Header, Pic!RecordingAssumption
<1> DEFINE a == r.audio_count * 6144
<1>3. a \in Nat /\ a < Word /\ 6144 * r.audio_count = a
  BY <1>2
<1>4. Pic!AudioBytes(r) = a
  <2>1. Pic!AudioBytes(r) = a % Word
    BY DEF Pic!AudioBytes
  <2> HIDE DEF a
  <2>2. a \in Nat /\ a < Word /\ Word \in Nat \ {0}
    BY <1>2, <1>3
  <2>3. a % Word = a
    BY <2>2, FitsWord, Zenon
  <2> QED
    BY <2>1, <2>3
<1>5. Pic!PixelsOffset(r) = Pic!PixelsAfter(r) /\ Pic!PixelsAfter(r) \in {512, 1024, 1536, 2048}
  BY <1>1, PixelsFound
<1>6. /\ Pic!PixelBytes(f.w, f.h) = (3 * Pic!Aligned(f.w) * Pic!Aligned(f.h)) \div 2
      /\ Pic!PixelBytes(f.w, f.h) \in Nat
  BY SizesFit DEF Pixels
<1> DEFINE size == Pic!PixelsOffset(r) + Pic!PixelBytes(f.w, f.h) + Pic!AudioBytes(r)
<1>8. Pic!Written(f, k) = Pic!PixelsAfter(r) + Pic!PixelBytes(f.w, f.h) + 6144 * r.audio_count
  BY <1>6 DEF Pic!Written
<1> HIDE DEF r, a
<1>9. /\ size = Pic!Written(f, k) /\ Pic!Written(f, k) \in Nat /\ Pic!Written(f, k) >= 512
      /\ Pic!PixelsAfter(r) + Pic!PixelBytes(f.w, f.h) <= Pic!Written(f, k)
  <2> DEFINE p == Pic!PixelsAfter(r)
             b == Pic!PixelBytes(f.w, f.h)
  <2>1. /\ p \in Nat /\ p >= 512 /\ b \in Nat /\ a \in Nat
        /\ size = p + b + a /\ Pic!Written(f, k) = p + b + a
    BY <1>3, <1>4, <1>5, <1>6, <1>8
  <2> HIDE DEF p, b
  <2>2. p + b + a \in Nat /\ p + b + a >= 512 /\ p + b <= p + b + a
    BY <2>1
  <2> QED
    BY <2>1, <2>2 DEF p, b
<1> QED
  BY <1>1, <1>5, <1>9 DEF r

-----------------------------------------------------------------------------
(* Where records start. *)

Starts(s, f, n) ==
  s = [i \in 1 .. n + 1 |-> IF i = 1 THEN Pic!HEADER ELSE s[i - 1] + Pic!Written(f, i - 1)]

LEMMA StartsExist ==
  ASSUME NEW f, NEW n \in Nat
  PROVE  \E s : Starts(s, f, n)
<1> DEFINE T == {m \in Nat : \E s : Starts(s, f, m)}
<1>1. 0 \in T
  <2> DEFINE s == [i \in 1 .. 0 + 1 |-> Pic!HEADER]
             t == [i \in 1 .. 0 + 1 |-> IF i = 1 THEN Pic!HEADER ELSE s[i - 1] + Pic!Written(f, i - 1)]
  <2>1. \A i \in 1 .. 0 + 1 : s[i] = t[i]
    OBVIOUS
  <2>2. s = t
    BY <2>1
  <2>3. Starts(s, f, 0)
    BY <2>2, Zenon DEF Starts
  <2> QED
    BY <2>3
<1>2. ASSUME NEW m \in T PROVE m + 1 \in T
  <2>1. PICK s : Starts(s, f, m)
    OBVIOUS
  <2> DEFINE e == s[m + 1] + Pic!Written(f, m + 1)
             t == [i \in 1 .. (m + 1) + 1 |-> IF i = m + 2 THEN e ELSE s[i]]
             u == [i \in 1 .. (m + 1) + 1 |-> IF i = 1 THEN Pic!HEADER ELSE t[i - 1] + Pic!Written(f, i - 1)]
  <2>2. m \in Nat
    OBVIOUS
  <2>3. \A i \in 1 .. m + 1 : s[i] = IF i = 1 THEN Pic!HEADER ELSE s[i - 1] + Pic!Written(f, i - 1)
    BY <2>1, Zenon DEF Starts
  <2> HIDE DEF e
  <2>4. ASSUME NEW i \in 1 .. (m + 1) + 1 PROVE t[i] = u[i]
    <3>1. CASE i = m + 2
      <4>1. i - 1 = m + 1 /\ i - 1 \in 1 .. (m + 1) + 1 /\ i - 1 # m + 2 /\ i # 1
        BY <2>2, <3>1
      <4>2. t[i] = e /\ t[i - 1] = s[i - 1] /\ u[i] = t[i - 1] + Pic!Written(f, i - 1)
        BY <3>1, <4>1
      <4>3. e = s[i - 1] + Pic!Written(f, i - 1)
        BY <4>1 DEF e
      <4> QED
        BY <4>2, <4>3
    <3>2. CASE i # m + 2
      <4>1. i \in 1 .. m + 1
        BY <2>2, <3>2
      <4>2. t[i] = s[i]
        BY <3>2
      <4>3. CASE i = 1
        BY <2>3, <4>1, <4>2, <4>3
      <4>4. CASE i # 1
        <5>1. i - 1 \in 1 .. (m + 1) + 1 /\ i - 1 # m + 2
          BY <2>2, <4>1, <4>4
        <5>2. t[i - 1] = s[i - 1] /\ u[i] = t[i - 1] + Pic!Written(f, i - 1)
          BY <4>4, <5>1
        <5> QED
          BY <2>3, <4>1, <4>2, <4>4, <5>2
      <4> QED
        BY <4>3, <4>4
    <3> QED
      BY <3>1, <3>2
  <2>5. t = u
    <3> HIDE <2>4
    <3>1. \A i \in 1 .. (m + 1) + 1 : t[i] = u[i]
      BY <2>4
    <3> QED
      BY <3>1, Zenon
  <2>6. Starts(t, f, m + 1)
    BY <2>5, Zenon DEF Starts
  <2> QED
    BY <2>2, <2>6
<1>3. T = Nat
  <2>1. T \in SUBSET Nat
    OBVIOUS
  <2> HIDE DEF T
  <2> QED
    BY <1>1, <1>2, <2>1, SetInduction
<1> QED
  BY <1>3

\* One record follows another.
LEMMA StartsFollow ==
  ASSUME NEW f, Len(f.records) \in Nat
  PROVE  /\ Pic!StartOf(f, 1) = Pic!HEADER
         /\ \A k \in 1 .. Len(f.records) : Pic!StartOf(f, k + 1) = Pic!StartOf(f, k) + Pic!Written(f, k)
<1> DEFINE n == Len(f.records)
           s == CHOOSE s : Starts(s, f, n)
<1>1. Starts(s, f, n)
  BY StartsExist, Zenon
<1>2. \A k : Pic!StartOf(f, k) = s[k]
  BY Zenon DEF Pic!StartOf, Starts
<1> HIDE DEF s, n
<1>3. \A i \in 1 .. n + 1 : s[i] = IF i = 1 THEN Pic!HEADER ELSE s[i - 1] + Pic!Written(f, i - 1)
  BY <1>1, Zenon DEF Starts
<1>4. n \in Nat
  BY DEF n
<1>5. 1 \in 1 .. n + 1 /\ \A k \in 1 .. n : k + 1 \in 1 .. n + 1 /\ k + 1 # 1 /\ (k + 1) - 1 = k
  BY <1>4
<1>6. s[1] = Pic!HEADER
  BY <1>3, <1>5
<1>7. \A k \in 1 .. n : s[k + 1] = s[k] + Pic!Written(f, k)
  BY <1>3, <1>5
<1> QED
  BY <1>2, <1>6, <1>7 DEF n

LEMMA StartsApart ==
  ASSUME NEW f, Recorded(f)
  PROVE  \A k \in 1 .. Len(f.records) + 1 :
           Pic!StartOf(f, k) \in Nat /\ \A j \in 1 .. k - 1 : Pic!StartOf(f, j) < Pic!StartOf(f, k)
<1> DEFINE n == Len(f.records)
           T == {m \in Nat : m <= n =>
                   /\ \A j \in 1 .. m + 1 : Pic!StartOf(f, j) \in Nat
                   /\ \A j \in 1 .. m : Pic!StartOf(f, j) < Pic!StartOf(f, m + 1)}
<1>1. n \in Nat
  BY DEF Recorded
<1>2. /\ Pic!StartOf(f, 1) = Pic!HEADER
      /\ \A k \in 1 .. n : Pic!StartOf(f, k + 1) = Pic!StartOf(f, k) + Pic!Written(f, k)
  BY <1>1, StartsFollow
<1>3. \A k \in 1 .. n : Pic!Written(f, k) \in Nat /\ Pic!Written(f, k) >= 512
  BY SizeIsWritten
<1> HIDE DEF n
<1>4. 0 \in T
  BY <1>2 DEF Pic!HEADER
<1>5. ASSUME NEW m \in T PROVE m + 1 \in T
  <2> SUFFICES ASSUME m + 1 <= n
               PROVE  /\ \A j \in 1 .. (m + 1) + 1 : Pic!StartOf(f, j) \in Nat
                      /\ \A j \in 1 .. m + 1 : Pic!StartOf(f, j) < Pic!StartOf(f, (m + 1) + 1)
    OBVIOUS
  <2>1. m \in Nat /\ m + 1 \in 1 .. n
    BY <1>1
  <2>2. /\ \A j \in 1 .. m + 1 : Pic!StartOf(f, j) \in Nat
        /\ \A j \in 1 .. m : Pic!StartOf(f, j) < Pic!StartOf(f, m + 1)
    BY <1>1, <2>1
  <2>3. Pic!StartOf(f, (m + 1) + 1) = Pic!StartOf(f, m + 1) + Pic!Written(f, m + 1)
    BY <1>2, <2>1
  <2>4. Pic!Written(f, m + 1) \in Nat /\ Pic!Written(f, m + 1) >= 512
    BY <1>3, <2>1
  <2>5. Pic!StartOf(f, m + 1) \in Nat
    BY <2>1, <2>2
  <2>6. Pic!StartOf(f, (m + 1) + 1) \in Nat /\ Pic!StartOf(f, m + 1) < Pic!StartOf(f, (m + 1) + 1)
    BY <2>3, <2>4, <2>5
  <2>7. ASSUME NEW j \in 1 .. (m + 1) + 1 PROVE Pic!StartOf(f, j) \in Nat
    <3>1. j \in 1 .. m + 1 \/ j = (m + 1) + 1
      BY <2>1
    <3> QED
      BY <2>2, <2>6, <3>1
  <2>8. ASSUME NEW j \in 1 .. m + 1 PROVE Pic!StartOf(f, j) < Pic!StartOf(f, (m + 1) + 1)
    <3>1. j \in 1 .. m \/ j = m + 1
      BY <2>1
    <3>2. Pic!StartOf(f, j) \in Nat
      BY <2>2
    <3> QED
      BY <2>2, <2>5, <2>6, <3>1, <3>2
  <2> QED
    BY <2>7, <2>8
<1>6. T = Nat
  <2>1. T \in SUBSET Nat
    OBVIOUS
  <2> HIDE DEF T
  <2> QED
    BY <1>4, <1>5, <2>1, SetInduction
<1>7. ASSUME NEW k \in 1 .. n + 1
      PROVE  Pic!StartOf(f, k) \in Nat /\ \A j \in 1 .. k - 1 : Pic!StartOf(f, j) < Pic!StartOf(f, k)
  <2>1. k - 1 \in Nat /\ k - 1 <= n /\ (k - 1) + 1 = k /\ k \in 1 .. k
    BY <1>1
  <2>2. k - 1 \in T
    BY <1>6, <2>1
  <2>3. /\ \A j \in 1 .. (k - 1) + 1 : Pic!StartOf(f, j) \in Nat
        /\ \A j \in 1 .. k - 1 : Pic!StartOf(f, j) < Pic!StartOf(f, (k - 1) + 1)
    BY <2>1, <2>2
  <2> QED
    BY <2>1, <2>3
<1> QED
  BY <1>7 DEF n

-----------------------------------------------------------------------------
(* The cursor. *)

\* The next header is looked for where the console wrote one, or where it
\* wrote no more.
LEMMA HeaderFound ==
  ASSUME NEW f, Recorded(f), NEW k \in 1 .. Len(f.records) + 1
  PROVE  Pic!HeaderAt(f, Pic!StartOf(f, k)) =
           IF k <= Len(f.records) THEN f.records[k]
           ELSE [flags |-> 0, audio_count |-> 0, frame_magic |-> "noise"]
<1> DEFINE n == Len(f.records)
           Is(j) == Pic!StartOf(f, j) = Pic!StartOf(f, k)
<1>1. n \in Nat
  BY DEF Recorded
<1>2. \A j \in 1 .. n : Is(j) => j = k
  <2> SUFFICES ASSUME NEW j \in 1 .. n, Pic!StartOf(f, j) = Pic!StartOf(f, k), j # k
               PROVE  FALSE
    OBVIOUS
  <2>1. j \in 1 .. n + 1 /\ (j \in 1 .. k - 1 \/ k \in 1 .. j - 1)
    BY <1>1
  <2>2. Pic!StartOf(f, j) \in Nat /\ Pic!StartOf(f, k) \in Nat
    BY <2>1, StartsApart
  <2>3. Pic!StartOf(f, j) < Pic!StartOf(f, k) \/ Pic!StartOf(f, k) < Pic!StartOf(f, j)
    BY <2>1, StartsApart
  <2> QED
    BY <2>2, <2>3
<1>3. Pic!HeaderAt(f, Pic!StartOf(f, k)) =
        IF \E j \in 1 .. n : Is(j)
        THEN f.records[CHOOSE j \in 1 .. n : Is(j)]
        ELSE [flags |-> 0, audio_count |-> 0, frame_magic |-> "noise"]
  BY DEF Pic!HeaderAt
<1>4. CASE k <= n
  <2>1. k \in 1 .. n /\ Is(k)
    BY <1>1, <1>4
  <2>2. (CHOOSE j \in 1 .. n : Is(j)) = k
    <3> HIDE DEF Is
    <3>1. /\ (CHOOSE j \in 1 .. n : Is(j)) \in 1 .. n
          /\ Is(CHOOSE j \in 1 .. n : Is(j))
      BY <2>1, Zenon
    <3> QED
      BY <1>2, <3>1, Zenon
  <2> QED
    BY <1>3, <1>4, <2>1, <2>2
<1>5. CASE ~ (k <= n)
  <2>1. ~ \E j \in 1 .. n : Is(j)
    BY <1>1, <1>2, <1>5
  <2> QED
    BY <1>3, <1>5, <2>1
<1> QED
  BY <1>4, <1>5

-----------------------------------------------------------------------------
(* The inductive invariant: the cursor stands where a record starts. *)

Walked ==
  /\ Recorded(file) /\ file.length \in Int
  /\ file.records = <<>> => file.length <= Pic!HEADER + 16
  /\ stage \in {"open", "walking", "decoding", "done", "failed"}
  /\ records \in Seq(Nat) /\ Len(records) <= Len(file.records)
  /\ next = Pic!StartOf(file, Len(records) + 1)
  /\ stage = "open" => records = <<>>
  /\ stage # "failed" => expected = IF records = <<>> THEN "none" ELSE "stream"
  /\ stage \in {"walking", "decoding", "done"} => next <= file.length
  /\ stage \in {"decoding", "done"} => file.length < next + 16
  /\ \A k \in 1 .. Len(records) :
       /\ records[k] = Pic!StartOf(file, k) + Pic!PixelsAfter(file.records[k])
       /\ Pic!StartOf(file, k + 1) <= file.length

Imaged ==
  /\ images \in Seq(Nat) /\ Len(images) <= Len(records)
  /\ \A k \in 1 .. Len(images) : images[k] = records[k]
  /\ stage \in {"open", "walking"} => images = <<>>
  /\ stage = "done" /\ verb # "info" => Len(images) = Len(records)
  /\ stage = "decoding" /\ images # <<>> => picture = Pic!DetileFrame(Pic!Aligned(file.w), Pic!Aligned(file.h))

Shot ==
  /\ file \in Pic!Screens /\ stage \in {"open", "done"}
  /\ picture \in {Pic!NoPicture, Pic!ToRgba8(file.length, file.w, file.h, file.known)}

PictureInv == IF verb = "screenshot" THEN Shot ELSE Walked /\ Imaged

LEMMA RecordedFiles ==
  ASSUME NEW f \in Pic!Files, NEW c \in Pic!Cuts(f)
  PROVE  LET g == [f EXCEPT !.length = c]
         IN /\ Recorded(g) /\ g.length \in Int
            /\ g.records = <<>> => g.length <= Pic!HEADER + 16
<1>1. PICK s \in FrameSizes, v \in {"known", "other"}, rs \in Pic!RecordSeqs :
        f = [w |-> s[1], h |-> s[2], variant |-> v, records |-> rs, length |-> 0]
  BY DEF Pic!Files
<1>2. s \in Nat \X Nat
  BY PictureSizes DEF Pic!RecordingAssumption
<1>3. s = <<s[1], s[2]>> /\ s[1] \in Nat /\ s[2] \in Nat
  BY <1>2
<1>4. PICK m \in 0 .. MaxRecords : rs \in [1 .. m -> Pic!Header]
  BY DEF Pic!RecordSeqs
<1>5. m \in Nat
  BY PictureSizes DEF Pic!RecordingAssumption
<1>6. rs \in Seq(Pic!Header)
  BY <1>4, <1>5
<1>7. Recorded(f)
  BY <1>1, <1>3, <1>6 DEF Recorded
<1>8. PICK n \in 0 .. Len(f.records) : c \in {Pic!EndOf(f, n) - 1, Pic!EndOf(f, n), Pic!EndOf(f, n) + 15, Pic!EndOf(f, n) + 16}
  BY DEF Pic!Cuts
<1>9. Len(f.records) \in Nat /\ n + 1 \in 1 .. Len(f.records) + 1
  BY <1>7 DEF Recorded
<1>10. Pic!EndOf(f, n) \in Nat
  BY <1>7, <1>9, StartsApart DEF Pic!EndOf
<1>11. c \in Int
  BY <1>8, <1>10
<1> DEFINE g == [f EXCEPT !.length = c]
<1>12. g.w = f.w /\ g.h = f.h /\ g.records = f.records /\ g.length = c
  BY <1>1
<1>13. ASSUME f.records = <<>> PROVE c <= Pic!HEADER + 16
  <2>1. n = 0
    BY <1>9, <1>13
  <2>2. Pic!EndOf(f, n) = Pic!HEADER
    BY <1>9, <2>1, StartsFollow DEF Pic!EndOf
  <2> QED
    BY <1>8, <2>2 DEF Pic!HEADER
<1> QED
  BY <1>7, <1>11, <1>12, <1>13 DEF Recorded

LEMMA PicturesInit == Pic!Init => PictureInv
<1> SUFFICES ASSUME Pic!Init PROVE PictureInv
  OBVIOUS
<1>1. CASE verb = "screenshot"
  BY <1>1 DEF Pic!Init, PictureInv, Shot
<1>2. CASE verb # "screenshot"
  <2>0. PICK f \in Pic!Files : \E c \in Pic!Cuts(f) : file = [f EXCEPT !.length = c]
    BY <1>2 DEF Pic!Init
  <2>1. PICK c \in Pic!Cuts(f) : file = [f EXCEPT !.length = c]
    BY <2>0
  <2>2. /\ Recorded(file) /\ file.length \in Int
        /\ file.records = <<>> => file.length <= Pic!HEADER + 16
    BY <2>1, RecordedFiles
  <2>3. Len(file.records) \in Nat
    BY <2>2 DEF Recorded
  <2>4. Pic!StartOf(file, 1) = Pic!HEADER
    BY <2>3, StartsFollow
  <2>5. stage = "open" /\ next = Pic!HEADER /\ expected = "none" /\ records = <<>> /\ images = <<>>
    BY DEF Pic!Init
  <2>6. Walked
    BY <2>2, <2>3, <2>4, <2>5 DEF Walked
  <2>7. Imaged
    BY <2>5 DEF Imaged
  <2> QED
    BY <1>2, <2>6, <2>7 DEF PictureInv
<1> QED
  BY <1>1, <1>2

LEMMA NextFrameKeeps ==
  ASSUME Walked, Imaged, Pic!NextFrame
  PROVE  Walked' /\ Imaged'
<1> DEFINE n == Len(records)
           hdr == Pic!HeaderAt(file, next)
<1>1. /\ stage = "walking" /\ next + 16 <= file.length
      /\ UNCHANGED <<file, verb, images, picture>>
      /\ expected' = IF expected = "none" THEN hdr.frame_magic ELSE expected
  BY DEF Pic!NextFrame
<1>2. /\ Recorded(file) /\ n \in Nat /\ n <= Len(file.records) /\ Len(file.records) \in Nat
      /\ n + 1 \in 1 .. Len(file.records) + 1 /\ next = Pic!StartOf(file, n + 1)
      /\ records \in Seq(Nat) /\ file.length \in Int
      /\ \A k \in 1 .. n : records[k] = Pic!StartOf(file, k) + Pic!PixelsAfter(file.records[k])
                           /\ Pic!StartOf(file, k + 1) <= file.length
  BY DEF Walked, Recorded
<1>3. images = <<>>
  BY <1>1 DEF Imaged
<1>4. CASE stage' = "failed" /\ UNCHANGED <<next, records>>
  BY <1>1, <1>3, <1>4 DEF Walked, Imaged, Recorded
<1>5. CASE /\ expected' = hdr.frame_magic /\ next + Pic!RecordSize(hdr) <= file.length
           /\ records' = Append(records, next + Pic!PixelsOffset(hdr))
           /\ next' = next + Pic!RecordSize(hdr)
           /\ UNCHANGED stage
  <2>1. next \in Nat /\ Pic!HEADER <= next
    <3>1. Pic!StartOf(file, 1) = Pic!HEADER
      BY <1>2, StartsFollow
    <3>2. next \in Nat /\ \A j \in 1 .. n : Pic!StartOf(file, j) < next
      BY <1>2, StartsApart
    <3>3. n = 0 \/ 1 \in 1 .. n
      BY <1>2
    <3> QED
      BY <1>2, <3>1, <3>2, <3>3 DEF Pic!HEADER
  <2>2. n + 1 <= Len(file.records)
    <3> SUFFICES ASSUME ~ (n + 1 <= Len(file.records)) PROVE FALSE
      OBVIOUS
    <3>1. hdr = [flags |-> 0, audio_count |-> 0, frame_magic |-> "noise"]
      BY <1>2, HeaderFound
    <3>2. n = 0
      <4>1. expected # "none" => expected = "stream"
        BY <1>1 DEF Walked
      <4>2. expected = "none"
        BY <1>1, <1>5, <3>1, <4>1
      <4> QED
        BY <1>1, <1>2, <4>2 DEF Walked
    <3>3. next = Pic!HEADER /\ file.records = <<>>
      BY <1>2, <3>2, StartsFollow DEF Recorded
    <3>4. file.length <= Pic!HEADER + 16
      BY <3>3 DEF Walked
    <3>5. Pic!RecordSize(hdr) >= 512 /\ Pic!RecordSize(hdr) \in Nat
      <4>1. Pic!PixelsOffset(hdr) = 512
        BY <3>1 DEF Pic!PixelsOffset, Pic!Bit
      <4>2. Pic!AudioBytes(hdr) = 0
        <5>1. 0 < Word /\ Word \in Nat \ {0}
          BY PictureSizes DEF Pic!RecordingAssumption
        <5>2. 0 % Word = 0
          BY <5>1, FitsWord
        <5>3. hdr.audio_count * 6144 = 0
          BY <3>1
        <5> QED
          BY <5>2, <5>3 DEF Pic!AudioBytes
      <4>3. Pic!PixelBytes(file.w, file.h) \in Nat
        BY <1>2, SizesFit
      <4> HIDE DEF hdr
      <4> QED
        BY <4>1, <4>2, <4>3 DEF Pic!RecordSize
    <3> HIDE DEF hdr
    <3> QED
      BY <1>2, <1>5, <2>1, <3>3, <3>4, <3>5 DEF Pic!HEADER
  <2>3. n + 1 \in 1 .. Len(file.records) /\ hdr = file.records[n + 1]
    BY <1>2, <2>2, HeaderFound
  <2>4. /\ hdr \in Pic!Header /\ Pic!PixelsAfter(hdr) \in Nat
        /\ Pic!RecordSize(hdr) = Pic!Written(file, n + 1) /\ Pic!Written(file, n + 1) \in Nat
    BY <1>2, <2>3, SizeIsWritten DEF Pic!RecordSize
  <2>5. Pic!PixelsOffset(hdr) = Pic!PixelsAfter(hdr) /\ hdr.frame_magic = "stream"
    BY <2>4, PixelsFound DEF Pic!Header
  <2>6. Pic!StartOf(file, (n + 1) + 1) = next + Pic!RecordSize(hdr)
    BY <1>2, <2>3, <2>4, StartsFollow
  <2> HIDE DEF hdr
  <2>7. next + Pic!PixelsOffset(hdr) \in Nat
    BY <2>1, <2>4, <2>5
  <2>8. /\ records' \in Seq(Nat) /\ Len(records') = n + 1
        /\ \A k \in 1 .. n : records'[k] = records[k]
        /\ records'[n + 1] = next + Pic!PixelsAfter(hdr)
    BY <1>2, <1>5, <2>5, <2>7
  <2>9. Walked'
    <3>1. \A k \in 1 .. n + 1 :
            /\ records'[k] = Pic!StartOf(file, k) + Pic!PixelsAfter(file.records[k])
            /\ Pic!StartOf(file, k + 1) <= file.length
      <4>1. ASSUME NEW k \in 1 .. n + 1
            PROVE  /\ records'[k] = Pic!StartOf(file, k) + Pic!PixelsAfter(file.records[k])
                   /\ Pic!StartOf(file, k + 1) <= file.length
        <5>1. CASE k = n + 1
          BY <1>2, <1>5, <2>3, <2>6, <2>8, <5>1
        <5>2. CASE k # n + 1
          <6>1. k \in 1 .. n
            BY <1>2, <5>2
          <6> QED
            BY <1>2, <2>8, <6>1
        <5> QED
          BY <5>1, <5>2
      <4> QED
        BY <4>1
    <3>2. records' # <<>>
      BY <1>2, <2>8
    <3>3. expected' = "stream"
      BY <1>5, <2>5
    <3>4. /\ next' = Pic!StartOf(file, Len(records') + 1) /\ next' <= file.length
          /\ Len(records') <= Len(file.records)
      BY <1>2, <1>5, <2>2, <2>6, <2>8
    <3>5. UNCHANGED <<file, stage>> /\ stage = "walking"
      BY <1>1, <1>5
    <3> QED
      BY <1>2, <2>8, <3>1, <3>2, <3>3, <3>4, <3>5 DEF Walked
  <2>10. Imaged'
    BY <1>1, <1>3, <1>5, <2>8 DEF Imaged
  <2> QED
    BY <2>9, <2>10
<1> QED
  BY <1>4, <1>5 DEF Pic!NextFrame, Pic!Stops

LEMMA DecodeKeeps ==
  ASSUME Walked, Imaged, Pic!Decode
  PROVE  Walked' /\ Imaged'
<1>1. /\ stage = "decoding" /\ Len(images) < Len(records)
      /\ UNCHANGED <<file, verb, next, expected, records>>
  BY DEF Pic!Decode
<1> DEFINE from == records[Len(images) + 1]
<1>2. CASE /\ picture' = Pic!DetileFrame(Pic!Aligned(file.w), Pic!Aligned(file.h))
           /\ images' = Append(images, from) /\ UNCHANGED stage
  <2>1. Walked'
    BY <1>1, <1>2 DEF Walked, Recorded
  <2>2. /\ images \in Seq(Nat) /\ Len(images) \in Nat /\ Len(images) + 1 \in 1 .. Len(records)
        /\ records \in Seq(Nat) /\ from \in Nat
    BY <1>1 DEF Walked, Imaged
  <2> HIDE DEF from
  <2>3. /\ images' \in Seq(Nat) /\ Len(images') = Len(images) + 1
        /\ \A k \in 1 .. Len(images) : images'[k] = images[k]
        /\ images'[Len(images) + 1] = from
    BY <1>2, <2>2
  <2>4. ASSUME NEW k \in 1 .. Len(images) + 1 PROVE images'[k] = records[k]
    <3>1. CASE k = Len(images) + 1
      BY <2>3, <3>1 DEF from
    <3>2. CASE k # Len(images) + 1
      <4>1. k \in 1 .. Len(images)
        BY <2>2, <3>2
      <4> QED
        BY <2>3, <4>1 DEF Imaged
    <3> QED
      BY <3>1, <3>2
  <2> QED
    BY <1>1, <1>2, <2>1, <2>2, <2>3, <2>4 DEF Imaged
<1>3. CASE stage' = "failed" /\ UNCHANGED <<images, picture>>
  BY <1>1, <1>3 DEF Walked, Imaged, Recorded
<1> QED
  BY <1>2, <1>3 DEF Pic!Decode, Pic!Stops

LEMMA PicturesStep == PictureInv /\ [Pic!Next]_(Pic!vars) => PictureInv'
<1> SUFFICES ASSUME PictureInv, [Pic!Next]_(Pic!vars) PROVE PictureInv'
  OBVIOUS
<1>1. CASE UNCHANGED Pic!vars
  BY <1>1 DEF Pic!vars, PictureInv, Walked, Imaged, Shot, Recorded
<1>2. CASE Pic!Convert
  <2>1. verb = "screenshot" /\ UNCHANGED <<verb, file>> /\ stage' = "done"
        /\ picture' = Pic!ToRgba8(file.length, file.w, file.h, file.known)
    BY <1>2 DEF Pic!Convert, Pic!Stops
  <2> QED
    BY <2>1 DEF PictureInv, Shot
<1>3. ASSUME verb = "screenshot", Pic!Next, ~ Pic!Convert PROVE FALSE
  BY <1>3 DEF PictureInv, Shot, Pic!Next, Pic!Open, Pic!NextFrame, Pic!EndOfRecords, Pic!Decode, Pic!Finish
<1>4. ASSUME verb # "screenshot", Pic!Next PROVE PictureInv'
  <2>1. Walked /\ Imaged
    BY <1>4 DEF PictureInv
  <2>2. verb' = verb
    BY <1>4 DEF Pic!Next, Pic!Open, Pic!NextFrame, Pic!EndOfRecords, Pic!Decode, Pic!Finish, Pic!Convert
  <2>3. CASE Pic!Open
    <3>1. Pic!StartOf(file, 1) = Pic!HEADER
      BY <2>1, StartsFollow DEF Walked, Recorded
    <3> QED
      BY <1>4, <2>1, <2>2, <2>3, <3>1 DEF Pic!Open, Pic!Stops, PictureInv, Walked, Imaged, Recorded
  <2>4. CASE Pic!NextFrame
    BY <1>4, <2>1, <2>2, <2>4, NextFrameKeeps DEF PictureInv
  <2>5. CASE Pic!EndOfRecords
    BY <1>4, <2>1, <2>2, <2>5 DEF Pic!EndOfRecords, Pic!Stops, PictureInv, Walked, Imaged, Recorded
  <2>6. CASE Pic!Decode
    BY <1>4, <2>1, <2>2, <2>6, DecodeKeeps DEF PictureInv
  <2>7. CASE Pic!Finish
    BY <1>4, <2>1, <2>2, <2>7 DEF Pic!Finish, PictureInv, Walked, Imaged, Recorded
  <2> QED
    BY <1>4, <2>3, <2>4, <2>5, <2>6, <2>7 DEF Pic!Next, Pic!Convert
<1> QED
  BY <1>1, <1>2, <1>3, <1>4

LEMMA PicturesReachable == Pic!Spec => []PictureInv
<1> QED
  BY PicturesInit, PicturesStep, PTL DEF Pic!Spec

\* A recording, cut anywhere, yields the records that are whole, in order, and
\* their images: FrameCursor and run_xbm.
THEOREM RecordingIsWhole == Pic!Spec => []ImagesAreWhole
<1>1. PictureInv => Pic!ImagesAreWhole
  <2> SUFFICES ASSUME PictureInv, verb # "screenshot"
               PROVE  Pic!ImagesAreWhole
    BY DEF Pic!ImagesAreWhole
  <2>1. Walked /\ Imaged
    BY DEF PictureInv
  <2>2. /\ Len(records) \in Nat /\ Len(file.records) \in Nat /\ Len(records) <= Len(file.records)
        /\ Len(records) + 1 \in 1 .. Len(file.records) + 1
    BY <2>1 DEF Walked, Recorded
  <2>3. \A k \in 1 .. Len(records) :
          /\ k <= Len(file.records)
          /\ records[k] = Pic!StartOf(file, k) + Pic!PixelsAfter(file.records[k])
          /\ Pic!EndOf(file, k) <= file.length
    BY <2>1, <2>2 DEF Walked, Pic!EndOf
  <2>4. ASSUME stage = "done"
        PROVE  file.length - Pic!EndOf(file, Len(records)) \in 0..15
    <3>1. next = Pic!EndOf(file, Len(records)) /\ next <= file.length /\ file.length < next + 16
          /\ file.length \in Int
      BY <2>1, <2>4 DEF Walked, Pic!EndOf
    <3>2. next \in Nat
      BY <2>1, <2>2, StartsApart DEF Walked
    <3>3. \A l \in Int, m \in Nat : m <= l /\ l < m + 16 => l - m \in 0..15
      OBVIOUS
    <3>4. file.length - next \in 0..15
      BY <3>1, <3>2, <3>3
    <3> QED
      BY <3>1, <3>4
  <2> QED
    BY <2>1, <2>3, <2>4 DEF Pic!ImagesAreWhole, Imaged
<1>2. Pic!ImagesAreWhole => ImagesAreWhole
  BY Zenon DEF ImagesAreWhole, Pic!ImagesAreWhole, StartOf, EndOf, PixelsAfter, Room, Written, HEADER, Aligned, Bit, Pic!StartOf, Pic!EndOf, Pic!PixelsAfter, Pic!Room, Pic!Written, Pic!HEADER, Pic!Aligned, Pic!Bit
<1> QED
  BY <1>1, <1>2, PicturesReachable, PTL

-----------------------------------------------------------------------------
(* A screenshot's tiles. *)

\* Where a pixel is in its tile.
Within(x, y) ==
  2048 * Pic!Bit(y, 16) + 1024 * Pic!Bit(y, 8) + 256 * ((y \div 2) % 4)
  + 64 * ((2 * Pic!Bit(y, 8) + x \div 8) % 4) + 32 * Pic!Bit(x, 4) + 16 * (y % 2) + 4 * (x % 4)

\* A column and a row, digit by digit.
LEMMA ColumnDigits ==
  ASSUME NEW x \in Nat
  PROVE  /\ (x \div 8) % 4 \in 0..3 /\ Pic!Bit(x, 4) \in 0..1 /\ x % 4 \in 0..3
         /\ x = 32 * (x \div 32) + 8 * ((x \div 8) % 4) + 4 * Pic!Bit(x, 4) + (x % 4)
         /\ x % 8 = 4 * Pic!Bit(x, 4) + (x % 4)
         /\ x \div 8 = 4 * (x \div 32) + ((x \div 8) % 4)
         /\ x \div 32 \in Nat
<1>1. /\ x = 4 * (x \div 4) + (x % 4) /\ x % 4 \in 0..3
      /\ x \div 4 = 2 * (x \div 8) + ((x \div 4) % 2) /\ (x \div 4) % 2 \in 0..1
      /\ x \div 8 = 4 * (x \div 32) + ((x \div 8) % 4) /\ (x \div 8) % 4 \in 0..3
      /\ x \div 4 \in Nat /\ x \div 8 \in Nat /\ x \div 32 \in Nat
  OBVIOUS
<1>2. x % 8 = 4 * ((x \div 4) % 2) + (x % 4)
  OBVIOUS
<1>3. x = 32 * (x \div 32) + 8 * ((x \div 8) % 4) + 4 * ((x \div 4) % 2) + (x % 4)
  BY <1>1
<1> QED
  BY <1>1, <1>2, <1>3 DEF Pic!Bit

LEMMA RowDigits ==
  ASSUME NEW y \in Nat
  PROVE  /\ Pic!Bit(y, 16) \in 0..1 /\ Pic!Bit(y, 8) \in 0..1 /\ (y \div 2) % 4 \in 0..3 /\ y % 2 \in 0..1
         /\ y = 32 * (y \div 32) + 16 * Pic!Bit(y, 16) + 8 * Pic!Bit(y, 8) + 2 * ((y \div 2) % 4) + (y % 2)
         /\ (y % 8) \div 2 = (y \div 2) % 4
         /\ y \div 32 \in Nat
<1>1. /\ y = 2 * (y \div 2) + (y % 2) /\ y % 2 \in 0..1
      /\ y \div 2 = 4 * (y \div 8) + ((y \div 2) % 4) /\ (y \div 2) % 4 \in 0..3
      /\ y \div 8 = 2 * (y \div 16) + ((y \div 8) % 2) /\ (y \div 8) % 2 \in 0..1
      /\ y \div 16 = 2 * (y \div 32) + ((y \div 16) % 2) /\ (y \div 16) % 2 \in 0..1
      /\ y \div 2 \in Nat /\ y \div 8 \in Nat /\ y \div 16 \in Nat /\ y \div 32 \in Nat
  OBVIOUS
<1>2. (y % 8) \div 2 = (y \div 2) % 4
  OBVIOUS
<1>3. y = 32 * (y \div 32) + 16 * ((y \div 16) % 2) + 8 * ((y \div 8) % 2) + 2 * ((y \div 2) % 4) + (y % 2)
  BY <1>1
<1> QED
  BY <1>1, <1>2, <1>3 DEF Pic!Bit

\* Four bytes of a tile's 4096.
InTile(n) == n \in Nat /\ n <= 4092 /\ n % 4 = 0

LEMMA WithinTile ==
  ASSUME NEW x \in Nat, NEW y \in Nat
  PROVE  InTile(Within(x, y))
<1> DEFINE a == Pic!Bit(y, 16)
           b == Pic!Bit(y, 8)
           c == (y \div 2) % 4
           d == y % 2
           e == (2 * b + x \div 8) % 4
           f == Pic!Bit(x, 4)
           g == x % 4
<1>1. a \in 0..1 /\ b \in 0..1 /\ c \in 0..3 /\ d \in 0..1 /\ f \in 0..1 /\ g \in 0..3
  BY ColumnDigits, RowDigits
<1>2. x \div 8 \in Nat
  OBVIOUS
<1>3. e \in 0..3
  <2> HIDE DEF b
  <2> QED
    BY <1>1, <1>2
<1>4. Within(x, y) = 2048 * a + 1024 * b + 256 * c + 64 * e + 32 * f + 16 * d + 4 * g
  BY DEF Within
<1> HIDE DEF a, b, c, d, e, f, g
<1>5. Within(x, y) \in Nat /\ Within(x, y) <= 4092
  BY <1>1, <1>3, <1>4
<1>6. Within(x, y) = 4 * (512 * a + 256 * b + 64 * c + 16 * e + 8 * f + 4 * d + g)
  BY <1>1, <1>3, <1>4
<1>7. Within(x, y) % 4 = 0
  BY <1>1, <1>3, <1>6
<1> QED
  BY <1>5, <1>7 DEF InTile

\* Two pixels of one tile are at two places in it.
LEMMA WithinApart ==
  ASSUME NEW x \in Nat, NEW y \in Nat, NEW u \in Nat, NEW v \in Nat,
         x \div 32 = u \div 32, y \div 32 = v \div 32, Within(x, y) = Within(u, v)
  PROVE  x = u /\ y = v
<1> DEFINE a == Pic!Bit(y, 16)
           b == Pic!Bit(y, 8)
           c == (y \div 2) % 4
           d == y % 2
           e == (x \div 8) % 4
           r == (2 * b + x \div 8) % 4
           f == Pic!Bit(x, 4)
           g == x % 4
           A == Pic!Bit(v, 16)
           B == Pic!Bit(v, 8)
           C == (v \div 2) % 4
           D == v % 2
           E == (u \div 8) % 4
           R == (2 * B + u \div 8) % 4
           F == Pic!Bit(u, 4)
           G == u % 4
           X == x \div 32
           Y == y \div 32
<1>1. /\ a \in 0..1 /\ b \in 0..1 /\ c \in 0..3 /\ d \in 0..1 /\ Y \in Nat
      /\ y = 32 * Y + 16 * a + 8 * b + 2 * c + d
  BY RowDigits
<1>2. /\ A \in 0..1 /\ B \in 0..1 /\ C \in 0..3 /\ D \in 0..1
      /\ v = 32 * Y + 16 * A + 8 * B + 2 * C + D
  BY RowDigits
<1>3. /\ e \in 0..3 /\ f \in 0..1 /\ g \in 0..3 /\ X \in Nat
      /\ x = 32 * X + 8 * e + 4 * f + g /\ x \div 8 = 4 * X + e
  BY ColumnDigits
<1>4. /\ E \in 0..3 /\ F \in 0..1 /\ G \in 0..3
      /\ u = 32 * X + 8 * E + 4 * F + G /\ u \div 8 = 4 * X + E
  BY ColumnDigits
<1>5. /\ Within(x, y) = 2048 * a + 1024 * b + 256 * c + 64 * r + 32 * f + 16 * d + 4 * g
      /\ Within(u, v) = 2048 * A + 1024 * B + 256 * C + 64 * R + 32 * F + 16 * D + 4 * G
  BY DEF Within
<1>6. r = (2 * b + (4 * X + e)) % 4 /\ R = (2 * B + (4 * X + E)) % 4
  BY <1>3, <1>4
<1> HIDE DEF a, b, c, d, e, f, g, r, A, B, C, D, E, F, G, R, X, Y
<1>7. r = (2 * b + e) % 4 /\ R = (2 * B + E) % 4
  <2>1. (2 * b + (4 * X + e)) % 4 = (2 * b + e) % 4
    BY <1>1, <1>3
  <2>2. (2 * B + (4 * X + E)) % 4 = (2 * B + E) % 4
    BY <1>2, <1>3, <1>4
  <2> QED
    BY <1>6, <2>1, <2>2
<1>8. r \in 0..3 /\ R \in 0..3
  BY <1>1, <1>2, <1>3, <1>4, <1>7
<1>9. 2048 * a + 1024 * b + 256 * c + 64 * r + 32 * f + 16 * d + 4 * g =
         2048 * A + 1024 * B + 256 * C + 64 * R + 32 * F + 16 * D + 4 * G
  <2>1. Within(x, y) = Within(u, v)
    OBVIOUS
  <2> QED
    BY <1>1, <1>2, <1>3, <1>4, <1>5, <1>8, <2>1
<1>10. a = A /\ b = B /\ c = C /\ r = R /\ f = F /\ d = D /\ g = G
  BY <1>1, <1>2, <1>3, <1>4, <1>8, <1>9
<1>11. e = E
  BY <1>1, <1>3, <1>4, <1>7, <1>10
<1> QED
  BY <1>1, <1>2, <1>3, <1>4, <1>10, <1>11

\* The shifts and masks put a tile's pixels behind those of the tiles before.
LEMMA TileForm ==
  ASSUME NEW width \in Nat, NEW x \in Nat, NEW y \in Nat
  PROVE  Pic!TileOffset(x, y, width) =
           4096 * (x \div 32 + (y \div 32) * (Pic!Aligned(width) \div 32)) + Within(x, y)
<1> DEFINE K == Pic!Aligned(width) \div 32
           X == x \div 32
           Y == y \div 32
           t == X + Y * K
           a == Pic!Bit(y, 16)
           b == Pic!Bit(y, 8)
           c == (y \div 2) % 4
           d == y % 2
           f == Pic!Bit(x, 4)
           g == x % 4
           r == (2 * b + x \div 8) % 4
           micro  == 4 * ((x % 8) + 8 * ((y % 8) \div 2))
           offset == 512 * t + 32 * (micro \div 16) + (micro % 16) + 256 * b + 16 * d
<1>1. Pic!TileOffset(x, y, width) =
        4096 * (offset \div 512) + 2048 * a + 256 * ((offset \div 64) % 8) + 64 * r + (offset % 64)
  BY Zenon DEF Pic!TileOffset
<1>2. K \in Nat
  BY DEF Pic!Aligned
<1>3. /\ a \in 0..1 /\ b \in 0..1 /\ c \in 0..3 /\ d \in 0..1 /\ f \in 0..1 /\ g \in 0..3
      /\ x % 8 = 4 * f + g /\ (y % 8) \div 2 = c /\ X \in Nat /\ Y \in Nat
  BY ColumnDigits, RowDigits
<1>4. t \in Nat
  <2>1. X \in Nat /\ Y \in Nat
    BY <1>3
  <2> HIDE DEF X, Y, K
  <2>2. Y * K \in Nat
    BY <1>2, <2>1
  <2> QED
    BY <2>1, <2>2
<1>5. micro = 4 * ((4 * f + g) + 8 * c)
  BY <1>3, Zenon
<1>6. r \in 0..3
  <2>1. x \div 8 \in Nat
    OBVIOUS
  <2> HIDE DEF b
  <2> QED
    BY <1>3, <2>1
<1>7. Within(x, y) = 2048 * a + 1024 * b + 256 * c + 64 * r + 32 * f + 16 * d + 4 * g
  BY DEF Within
<1> HIDE DEF K, X, Y, t, a, b, c, d, f, g, r, micro
<1>8. micro = 16 * f + 4 * g + 32 * c
  BY <1>3, <1>5
<1>9. micro \div 16 = f + 2 * c /\ micro % 16 = 4 * g
  BY <1>3, <1>8
<1>10. offset = 512 * t + 256 * b + 64 * c + 32 * f + 16 * d + 4 * g
  BY <1>3, <1>4, <1>9
<1> HIDE DEF offset
<1>11. offset \in Nat
  BY <1>3, <1>4, <1>10
<1>12. offset \div 512 = t
  BY <1>3, <1>4, <1>10, <1>11
<1>13. (offset \div 64) % 8 = 4 * b + c
  <2>1. offset \div 64 = 8 * t + 4 * b + c
    BY <1>3, <1>4, <1>10, <1>11
  <2>2. (8 * t + 4 * b + c) % 8 = 4 * b + c
    BY <1>3, <1>4
  <2> QED
    BY <2>1, <2>2
<1>14. offset % 64 = 32 * f + 16 * d + 4 * g
  BY <1>3, <1>4, <1>10, <1>11
<1>15. Pic!TileOffset(x, y, width) =
         4096 * t + 2048 * a + 256 * (4 * b + c) + 64 * r + (32 * f + 16 * d + 4 * g)
  BY <1>1, <1>12, <1>13, <1>14
<1>16. Pic!TileOffset(x, y, width) = 4096 * t + Within(x, y)
  BY <1>3, <1>4, <1>6, <1>7, <1>15
<1> QED
  BY <1>16 DEF t, X, Y, K

\* A surface is as many tiles wide as it takes.
LEMMA TileGrid ==
  ASSUME NEW w \in Nat
  PROVE  Pic!Aligned(w) \div 32 \in Nat /\ Pic!Aligned(w) = 32 * (Pic!Aligned(w) \div 32)
         /\ \A x \in 0 .. w - 1 : x \div 32 < Pic!Aligned(w) \div 32
<1>1. Pic!Aligned(w) \div 32 = (w + 31) \div 32
  <2> DEFINE k == (w + 31) \div 32
  <2>1. k \in Nat
    OBVIOUS
  <2> HIDE DEF k
  <2>2. (k * 32) \div 32 = k
    BY <2>1
  <2> QED
    BY <2>2 DEF Pic!Aligned, k
<1>2. (w + 31) \div 32 \in Nat /\ Pic!Aligned(w) = 32 * ((w + 31) \div 32)
  BY DEF Pic!Aligned
<1>3. \A x \in 0 .. w - 1 : x \div 32 < (w + 31) \div 32
  OBVIOUS
<1> QED
  BY <1>1, <1>2, <1>3

\* Rows of tiles do not overlap, and the last one ends where the surface does.
LEMMA GridCell ==
  ASSUME NEW A \in Nat, NEW B \in Nat, NEW X \in Nat, NEW Y \in Nat, X < A, Y < B
  PROVE  X + Y * A \in Nat /\ X + Y * A + 1 <= A * B /\ A * B \in Nat
<1>1. \A i, j, k \in Nat : i <= j => i * k <= j * k
  OBVIOUS
<1>2. (Y + 1) * A <= B * A
  <2>1. Y + 1 \in Nat /\ Y + 1 <= B
    OBVIOUS
  <2> QED
    BY <1>1, <2>1
<1>3. (Y + 1) * A = Y * A + A /\ Y * A \in Nat /\ B * A \in Nat /\ A * B = B * A
  OBVIOUS
<1> DEFINE p == Y * A
           q == B * A
<1>4. p + A <= q /\ p \in Nat /\ q \in Nat /\ A * B = q
  BY <1>2, <1>3
<1> HIDE DEF p, q
<1>5. X + p \in Nat /\ X + p + 1 <= q
  BY <1>4
<1> QED
  BY <1>4, <1>5 DEF p

\* A place in a grid of rows has one column and one row.
LEMMA GridApart ==
  ASSUME NEW A \in Nat, NEW X \in Nat, NEW Y \in Nat, NEW U \in Nat, NEW V \in Nat,
         X < A, U < A, X + Y * A = U + V * A
  PROVE  X = U /\ Y = V
<1>1. \A i, j, k \in Nat : i <= j => i * k <= j * k
  OBVIOUS
<1>2. \A i, k \in Nat : (i + 1) * k = i * k + k /\ i * k \in Nat
  OBVIOUS
<1>3. Y * A \in Nat /\ V * A \in Nat
  BY <1>2
<1>4. ~ (Y < V)
  <2> SUFFICES ASSUME Y + 1 <= V PROVE FALSE
    OBVIOUS
  <2>1. Y + 1 \in Nat
    OBVIOUS
  <2>2. (Y + 1) * A <= V * A
    BY <1>1, <2>1
  <2>3. (Y + 1) * A = Y * A + A
    BY <1>2
  <2> DEFINE p == Y * A
             q == V * A
  <2>4. p + A <= q /\ X + p = U + q /\ p \in Nat /\ q \in Nat
    BY <1>3, <2>2, <2>3
  <2> HIDE DEF p, q
  <2> QED
    BY <2>4
<1>5. ~ (V < Y)
  <2> SUFFICES ASSUME V + 1 <= Y PROVE FALSE
    OBVIOUS
  <2>1. V + 1 \in Nat
    OBVIOUS
  <2>2. (V + 1) * A <= Y * A
    BY <1>1, <2>1
  <2>3. (V + 1) * A = V * A + A
    BY <1>2
  <2> DEFINE p == Y * A
             q == V * A
  <2>4. q + A <= p /\ X + p = U + q /\ p \in Nat /\ q \in Nat
    BY <1>3, <2>2, <2>3
  <2> HIDE DEF p, q
  <2> QED
    BY <2>4
<1>6. Y = V
  BY <1>4, <1>5
<1> QED
  BY <1>3, <1>6

\* The bytes of a pixel are four of its own tile's.
OwnBytes(w, h, x, y) ==
  LET o == Pic!TileOffset(x, y, w)
  IN /\ o \in Nat /\ o % 4 = 0
     /\ o \div 4096 = x \div 32 + (Pic!Aligned(w) \div 32) * (y \div 32)
     /\ o + 4 <= 4 * Pic!Aligned(w) * Pic!Aligned(h)

LEMMA TileExact ==
  ASSUME NEW w \in Nat, NEW h \in Nat, NEW x \in 0 .. w - 1, NEW y \in 0 .. h - 1
  PROVE  OwnBytes(w, h, x, y)
<1> DEFINE A == Pic!Aligned(w) \div 32
           B == Pic!Aligned(h) \div 32
           X == x \div 32
           Y == y \div 32
           t == X + Y * A
           i == Within(x, y)
<1>1. x \in Nat /\ y \in Nat /\ X \in Nat /\ Y \in Nat
  OBVIOUS
<1>2. Pic!TileOffset(x, y, w) = 4096 * t + i
  BY <1>1, TileForm
<1>3. InTile(i)
  BY <1>1, WithinTile
<1>4. A \in Nat /\ X < A /\ Pic!Aligned(w) = 32 * A
  BY TileGrid, Zenon
<1>5. B \in Nat /\ Y < B /\ Pic!Aligned(h) = 32 * B
  BY TileGrid, Zenon
<1> HIDE DEF A, B, X, Y, i
<1>13. i \in Nat /\ i <= 4092 /\ i % 4 = 0
  BY <1>3 DEF InTile
<1>6. t \in Nat /\ t + 1 <= A * B /\ A * B \in Nat
  BY <1>1, <1>4, <1>5, GridCell, Zenon
<1>7. t = X + A * Y
  BY <1>1, <1>4
<1>8. 4 * Pic!Aligned(w) * Pic!Aligned(h) = 4096 * (A * B)
  BY <1>4, <1>5
<1> HIDE DEF t
<1> DEFINE k == A * B
           o == Pic!TileOffset(x, y, w)
<1>9. t \in Nat /\ k \in Nat /\ t + 1 <= k /\ o = 4096 * t + i
  BY <1>2, <1>6
<1> HIDE DEF k, o
<1>10. o \in Nat /\ o \div 4096 = t /\ o + 4 <= 4096 * k
  BY <1>9, <1>13
<1>11. o % 4 = 0
  <2>1. i \in Nat /\ i = 4 * (i \div 4) /\ i \div 4 \in Nat
    BY <1>13
  <2>2. o = 4 * (1024 * t + (i \div 4)) /\ 1024 * t + (i \div 4) \in Nat
    BY <1>9, <2>1
  <2> QED
    BY <2>2
<1>12. /\ o \in Nat /\ o % 4 = 0 /\ o \div 4096 = X + A * Y
       /\ o + 4 <= 4 * Pic!Aligned(w) * Pic!Aligned(h)
  BY <1>7, <1>8, <1>10, <1>11 DEF k
<1> QED
  BY <1>12 DEF OwnBytes, o, A, X, Y

\* No two pixels are copied from the same place.
LEMMA TilesApart ==
  ASSUME NEW w \in Nat, NEW x \in 0 .. w - 1, NEW y \in Nat,
         NEW u \in 0 .. w - 1, NEW v \in Nat, Pic!TileOffset(x, y, w) = Pic!TileOffset(u, v, w)
  PROVE  x = u /\ y = v
<1> DEFINE A == Pic!Aligned(w) \div 32
           X == x \div 32
           Y == y \div 32
           U == u \div 32
           V == v \div 32
           t == X + Y * A
           s == U + V * A
<1>1. /\ x \in Nat /\ y \in Nat /\ X \in Nat /\ Y \in Nat
      /\ u \in Nat /\ v \in Nat /\ U \in Nat /\ V \in Nat
  OBVIOUS
<1>2. Pic!TileOffset(x, y, w) = 4096 * t + Within(x, y)
  BY <1>1, TileForm
<1>3. Pic!TileOffset(u, v, w) = 4096 * s + Within(u, v)
  BY <1>1, TileForm
<1>4. InTile(Within(x, y)) /\ InTile(Within(u, v))
  BY <1>1, WithinTile
<1>5. A \in Nat /\ X < A /\ U < A
  BY TileGrid, Zenon
<1> HIDE DEF A, X, Y, U, V
<1>6. t \in Nat /\ s \in Nat
  BY <1>1, <1>5
<1> HIDE DEF t, s
<1>7. t = s /\ Within(x, y) = Within(u, v)
  <2> DEFINE i == Within(x, y)
             j == Within(u, v)
  <2>1. 4096 * t + i = 4096 * s + j
    <3> DEFINE o == Pic!TileOffset(x, y, w)
               p == Pic!TileOffset(u, v, w)
    <3>1. o = 4096 * t + i
      BY <1>2
    <3>2. p = 4096 * s + j
      BY <1>3
    <3>3. o = p
      OBVIOUS
    <3> HIDE DEF o, p, i, j
    <3> QED
      BY <3>1, <3>2, <3>3
  <2> HIDE DEF i, j
  <2>2. i \in Nat /\ i <= 4092 /\ j \in Nat /\ j <= 4092
    BY <1>4 DEF i, j, InTile
  <2>3. t <= s /\ s <= t
    BY <1>6, <2>1, <2>2
  <2>4. t = s
    BY <1>6, <2>3
  <2>5. i = j
    BY <1>6, <2>1, <2>2, <2>4
  <2> QED
    BY <2>4, <2>5 DEF i, j
<1>8. X = U /\ Y = V
  <2>1. X + Y * A = U + V * A
    BY <1>7 DEF t, s
  <2> QED
    BY <1>1, <1>5, <2>1, GridApart, Zenon
<1> QED
  BY <1>1, <1>7, <1>8, WithinApart, Zenon DEF X, Y, U, V

\* The cells of a finite grid are finitely many, and an injective function
\* takes as many values as it has arguments.
LEMMA AlignedNat == ASSUME NEW w \in Nat, NEW h \in Nat PROVE 4 * Pic!Aligned(w) * Pic!Aligned(h) \in Int
<1>1. Pic!Aligned(w) \in Int /\ Pic!Aligned(h) \in Int
  BY DEF Pic!Aligned
<1> QED
  BY <1>1

LEMMA CellsCounted ==
  ASSUME NEW m \in Nat, NEW n \in Nat, NEW S \in SUBSET ((0 .. m - 1) \X (0 .. n - 1)),
         NEW f, \A p, q \in S : f[p] = f[q] => p = q
  PROVE  Cardinality({f[p] : p \in S}) = Cardinality(S)
<1>1. IsFiniteSet(0 .. m - 1) /\ IsFiniteSet(0 .. n - 1)
  BY FS_Interval
<1>2. IsFiniteSet(S)
  BY <1>1, FS_Product, FS_Subset
<1> DEFINE T == {f[p] : p \in S}
           b == [p \in S |-> f[p]]
<1>3. b \in [S -> T] /\ \A p, q \in S : b[p] = b[q] => p = q
  OBVIOUS
<1>4. \A t \in T : \E p \in S : b[p] = t
  OBVIOUS
<1> HIDE DEF b, T
<1>5. DOMAIN b = S
  BY <1>3
<1>6. b \in Bijection(S, T)
  BY <1>3, <1>4, <1>5 DEF Bijection, Injection, Surjection, IsInjective
<1>7. ExistsBijection(S, T)
  BY <1>6 DEF ExistsBijection
<1>8. Cardinality(T) = Cardinality(S)
  BY <1>2, <1>7, FS_Bijection
<1> QED
  BY <1>8 DEF T

\* What PixelsOnce says of a screenshot.
ScreenIsExact(pic, l, w, h) ==
  LET seen == {p \in DOMAIN pic : pic[p] # Pic!Black}
      across == Pic!Aligned(w) \div 32
  IN /\ Cardinality({pic[p] : p \in seen}) = Cardinality(seen)
     /\ \A p \in seen :
          /\ pic[p] % 4 = 0 /\ pic[p] + 4 <= l
          /\ pic[p] \div 4096 = p[1] \div 32 + across * (p[2] \div 32)
     /\ l >= 4 * Pic!Aligned(w) * Pic!Aligned(h) => seen = DOMAIN pic

LEMMA ScreenExact ==
  ASSUME NEW l \in Int, NEW w \in Nat, NEW h \in Nat
  PROVE  ScreenIsExact(Pic!Detile2d(l, w, h), l, w, h)
<1> DEFINE pic == Pic!Detile2d(l, w, h)
           grid == (0 .. w - 1) \X (0 .. h - 1)
           seen == {p \in DOMAIN pic : pic[p] # Pic!Black}
           Src(p) == Pic!TileOffset(p[1], p[2], w)
<1>1. DOMAIN pic = grid
      /\ \A p \in grid : pic[p] = IF Src(p) + 4 <= l THEN Src(p) ELSE Pic!Black
  BY DEF Pic!Detile2d
<1>2. \A p \in grid : p[1] \in 0 .. w - 1 /\ p[2] \in 0 .. h - 1
  OBVIOUS
<1>3. \A p \in grid :
        /\ Src(p) \in Nat /\ Src(p) % 4 = 0
        /\ Src(p) \div 4096 = p[1] \div 32 + (Pic!Aligned(w) \div 32) * (p[2] \div 32)
        /\ Src(p) + 4 <= 4 * Pic!Aligned(w) * Pic!Aligned(h)
  <2> SUFFICES ASSUME NEW p \in grid
               PROVE  /\ Src(p) \in Nat /\ Src(p) % 4 = 0
                      /\ Src(p) \div 4096 = p[1] \div 32 + (Pic!Aligned(w) \div 32) * (p[2] \div 32)
                      /\ Src(p) + 4 <= 4 * Pic!Aligned(w) * Pic!Aligned(h)
    OBVIOUS
  <2>1. p[1] \in 0 .. w - 1 /\ p[2] \in 0 .. h - 1
    BY <1>2
  <2> QED
    <3>1. OwnBytes(w, h, p[1], p[2])
      BY <2>1, TileExact
    <3> QED
      BY <3>1 DEF OwnBytes
<1>4. \A p, q \in grid : Src(p) = Src(q) => p = q
  <2> SUFFICES ASSUME NEW p \in grid, NEW q \in grid, Src(p) = Src(q) PROVE p = q
    OBVIOUS
  <2>1. p[2] \in Nat /\ q[2] \in Nat
    BY <1>2
  <2>2. p[1] \in 0 .. w - 1 /\ q[1] \in 0 .. w - 1
    BY <1>2
  <2>3. Pic!TileOffset(p[1], p[2], w) = Pic!TileOffset(q[1], q[2], w)
    OBVIOUS
  <2>4. p[1] = q[1] /\ p[2] = q[2]
    BY <2>1, <2>2, <2>3, TilesApart
  <2> QED
    BY <2>4
<1> HIDE DEF pic, Src, grid
<1>5. seen \in SUBSET grid
  BY <1>1
<1>6. \A p \in seen : pic[p] = Src(p) /\ Src(p) + 4 <= l
  BY <1>1
<1>7. Cardinality({pic[p] : p \in seen}) = Cardinality(seen)
  <2>1. \A p, q \in seen : pic[p] = pic[q] => p = q
    BY <1>4, <1>5, <1>6
  <2> HIDE DEF seen
  <2> QED
    BY <1>5, <2>1, CellsCounted DEF grid
<1>8. \A p \in seen :
        /\ pic[p] % 4 = 0 /\ pic[p] + 4 <= l
        /\ pic[p] \div 4096 = p[1] \div 32 + (Pic!Aligned(w) \div 32) * (p[2] \div 32)
  BY <1>3, <1>5, <1>6
<1>9. ASSUME l >= 4 * Pic!Aligned(w) * Pic!Aligned(h) PROVE seen = DOMAIN pic
  <2> DEFINE whole == 4 * Pic!Aligned(w) * Pic!Aligned(h)
  <2>1. whole \in Int /\ whole <= l
    BY <1>9, AlignedNat, SMT
  <2> HIDE DEF whole
  <2>2. \A p \in grid : Src(p) \in Nat /\ Src(p) + 4 <= whole
    BY <1>3 DEF whole
  <2>3. \A p \in grid : pic[p] = Src(p) /\ Src(p) # Pic!Black
    BY <1>1, <2>1, <2>2 DEF Pic!Black
  <2> QED
    BY <1>1, <2>3
<1> QED
  BY <1>7, <1>8, <1>9 DEF pic, ScreenIsExact

-----------------------------------------------------------------------------
(* A recorded frame. *)

\* Division by a width.
LEMMA Divided ==
  ASSUME NEW a \in Nat \ {0}, NEW n \in Nat
  PROVE  n \div a \in Nat /\ n % a \in 0 .. a - 1 /\ n = (n % a) + (n \div a) * a
  OBVIOUS

LEMMA DivMod ==
  ASSUME NEW a \in Nat \ {0}, NEW q \in Nat, NEW m \in Nat, m < a
  PROVE  (m + q * a) \div a = q /\ (m + q * a) % a = m
<1> DEFINE n == m + q * a
           Q == n \div a
           M == n % a
<1>1. n \in Nat
  OBVIOUS
<1>2. Q \in Nat /\ M \in 0 .. a - 1 /\ n = M + Q * a
  <2> HIDE DEF n
  <2> QED
    BY <1>1, Divided
<1>3. m + q * a = M + Q * a
  BY <1>2
<1> HIDE DEF Q, M
<1>4. m = M /\ q = Q
  BY <1>2, <1>3, GridApart
<1> QED
  BY <1>4 DEF Q, M

LEMMA Quotient ==
  ASSUME NEW a \in Nat \ {0}, NEW b \in Nat, NEW n \in Nat, n < a * b
  PROVE  n \div a < b
<1> DEFINE q == n \div a
           m == n % a
<1>1. q \in Nat /\ m \in Nat /\ n = m + q * a
  BY Divided
<1> HIDE DEF q, m
<1>2. q * a \in Nat /\ q * a <= n /\ b * a = a * b /\ b * a \in Nat
  BY <1>1
<1>3. \A i, j \in Nat : i <= j => i * a <= j * a
  OBVIOUS
<1>4. ~ (b <= q)
  <2> SUFFICES ASSUME b <= q PROVE FALSE
    OBVIOUS
  <2>1. b * a <= q * a
    BY <1>1, <1>3
  <2> DEFINE c == b * a
             d == q * a
  <2>2. n < c /\ c <= d /\ d <= n /\ c \in Nat /\ d \in Nat
    BY <1>2, <2>1
  <2> HIDE DEF c, d
  <2> QED
    BY <2>2
<1> QED
  BY <1>1, <1>4 DEF q

-----------------------------------------------------------------------------
(* A recorded frame's patches. *)

\* Where group g goes in a frame A super-blocks wide: the patch at column
\* 16 * PatchU and row 2 * PatchV.
PatchU(g, A) == 2 * ((g \div 32) % A) + (((g % 32) \div 16) % 2)
PatchV(g, A) == 16 * ((g \div 32) \div A) + ((g % 32) % 16)

\* Each group's patch is in the picture.
LEMMA PatchInside ==
  ASSUME NEW A \in Nat \ {0}, NEW B \in Nat, NEW g \in Nat, g < 32 * (A * B)
  PROVE  PatchU(g, A) \in 0 .. 2 * A - 1 /\ PatchV(g, A) \in 0 .. 16 * B - 1
<1> DEFINE sb == g \div 32
           p == sb % A
           q == sb \div A
           k == ((g % 32) \div 16) % 2
           j == (g % 32) % 16
           n == A * B
<1>1. n \in Nat /\ g < 32 * n
  OBVIOUS
<1>2. sb \in Nat /\ sb < n
  <2> HIDE DEF n
  <2> QED
    BY <1>1
<1>3. k \in 0 .. 1 /\ j \in 0 .. 15
  OBVIOUS
<1>4. p \in 0 .. A - 1 /\ q \in Nat
  <2> HIDE DEF sb
  <2> QED
    BY <1>2, Divided
<1>5. q < B
  <2> HIDE DEF sb
  <2> QED
    BY <1>2, Quotient
<1> HIDE DEF p, q, k, j
<1>6. 2 * p + k \in 0 .. 2 * A - 1 /\ 16 * q + j \in 0 .. 16 * B - 1
  BY <1>3, <1>4, <1>5
<1> QED
  BY <1>6 DEF PatchU, PatchV, p, q, k, j

\* Each patch of the picture is some group's.
LEMMA PatchReached ==
  ASSUME NEW A \in Nat \ {0}, NEW B \in Nat, NEW u \in 0 .. 2 * A - 1, NEW v \in 0 .. 16 * B - 1
  PROVE  \E g \in Nat : g < 32 * (A * B) /\ PatchU(g, A) = u /\ PatchV(g, A) = v
<1> DEFINE X == u \div 2
           Y == v \div 16
           k == u % 2
           j == v % 16
           sb == X + Y * A
           g == 32 * sb + (16 * k + j)
<1>1. /\ X \in Nat /\ X < A /\ k \in 0 .. 1 /\ u = 2 * X + k
      /\ Y \in Nat /\ Y < B /\ j \in 0 .. 15 /\ v = 16 * Y + j
  OBVIOUS
<1> HIDE DEF X, Y, k, j
<1>2. sb \in Nat /\ sb + 1 <= A * B /\ A * B \in Nat
  BY <1>1, GridCell
<1>3. sb \div A = Y /\ sb % A = X
  BY <1>1, DivMod
<1> DEFINE n == A * B
<1> HIDE DEF sb, n
<1>4. n \in Nat /\ sb + 1 <= n
  BY <1>2 DEF n
<1>5. g \in Nat /\ g < 32 * n /\ g \div 32 = sb /\ g % 32 = 16 * k + j
  BY <1>1, <1>2, <1>4
<1>6. ((16 * k + j) \div 16) % 2 = k /\ (16 * k + j) % 16 = j
  BY <1>1
<1> HIDE DEF g
<1>7. PatchU(g, A) = 2 * X + k /\ PatchV(g, A) = 16 * Y + j
  BY <1>3, <1>5, <1>6 DEF PatchU, PatchV
<1> QED
  BY <1>1, <1>5, <1>7 DEF n

\* The byte of the picture that byte b of a group fills, in a patch at <<u, v>>.
Spot(w, h, u, v, b) ==
  IF b < 32 THEN w * (2 * v + Pic!YMap(b)[2]) + 16 * u + Pic!YMap(b)[1]
  ELSE w * h + w * v + 16 * u + b - 32

\* Where a byte goes depends on its group and on its place in that.
LEMMA PlacedByGroup ==
  ASSUME NEW A \in Nat \ {0}, NEW h \in Nat, NEW s \in Nat
  PROVE  Pic!Placed(32 * A, h, s) = Spot(32 * A, h, PatchU(s \div 48, A), PatchV(s \div 48, A), s % 48)
<1> DEFINE w == 32 * A
           g == s \div 48
           b == s % 48
           i == g % 32
           q == g \div 32
           x == q % A
           y == q \div A
<1>1. g \in Nat /\ b \in 0 .. 47 /\ s = 48 * g + b
  OBVIOUS
<1> HIDE DEF g, b
<1>2. s \div 1536 = q
  <2>1. i \in 0 .. 31 /\ q \in Nat /\ g = 32 * q + i
    BY <1>1
  <2> HIDE DEF i, q
  <2>2. s = 1536 * q + (48 * i + b) /\ 48 * i + b \in Nat /\ 48 * i + b < 1536
    BY <1>1, <2>1
  <2> QED
    BY <2>1, <2>2
<1>3. w \div 32 = A
  OBVIOUS
<1>4. x \in Nat /\ y \in Nat /\ i \in 0 .. 31
  <2>1. q \in Nat /\ i \in 0 .. 31
    BY <1>1
  <2> HIDE DEF q
  <2> QED
    BY <2>1, Divided
<1> DEFINE u == PatchU(g, A)
           v == PatchV(g, A)
           k == (i \div 16) % 2
           j == i % 16
<1>5. u = 2 * x + k /\ v = 16 * y + j /\ k \in Nat /\ j \in Nat
  <2>1. u = 2 * x + k /\ v = 16 * y + j
    BY DEF PatchU, PatchV
  <2> HIDE DEF i
  <2>2. k \in Nat /\ j \in Nat
    BY <1>4
  <2> QED
    BY <2>1, <2>2
<1>6. Pic!PatchX(x, i) = 32 * x + 16 * k /\ Pic!PatchY(y, i) = 32 * y + 2 * j
  BY DEF Pic!PatchX, Pic!PatchY
<1>7. Pic!Placed(w, h, s) =
        IF b < 32 THEN w * (Pic!PatchY(y, i) + Pic!YMap(b)[2]) + Pic!PatchX(x, i) + Pic!YMap(b)[1]
        ELSE w * h + w * (Pic!PatchY(y, i) \div 2) + Pic!PatchX(x, i) + b - 32
  <2>1. (s \div 48) % 32 = i /\ s % 48 = b
    BY DEF g, b
  <2> HIDE DEF w, q, i
  <2> QED
    BY <1>2, <1>3, <2>1 DEF Pic!Placed
<1> HIDE DEF w, i, q, x, y, u, v, k, j
<1>8. Pic!PatchX(x, i) = 16 * u /\ Pic!PatchY(y, i) = 2 * v /\ (2 * v) \div 2 = v
  BY <1>4, <1>5, <1>6
<1>9. Pic!Placed(w, h, s) = Spot(w, h, u, v, b)
  BY <1>7, <1>8 DEF Spot
<1> QED
  BY <1>9 DEF w, g, b, u, v

\* Y_MAP goes once over the 16x2 pixels of the patch.
LEMMA YMapInside ==
  ASSUME NEW b \in 0 .. 31
  PROVE  Pic!YMap(b)[1] \in 0 .. 15 /\ Pic!YMap(b)[2] \in 0 .. 1
<1>1. Pic!YMap(b)[1] = 8 * (b \div 16) + 6 - 2 * (b % 4) + Pic!Bit(b, 4) /\ Pic!YMap(b)[2] = Pic!Bit(b, 8)
  BY DEF Pic!YMap
<1>2. b \div 16 \in 0 .. 1 /\ b % 4 \in 0 .. 3 /\ Pic!Bit(b, 4) \in 0 .. 1 /\ Pic!Bit(b, 8) \in 0 .. 1
  BY DEF Pic!Bit
<1> QED
  BY <1>1, <1>2

LEMMA YMapReached ==
  ASSUME NEW c \in 0 .. 15, NEW r \in 0 .. 1
  PROVE  \E b \in 0 .. 31 : Pic!YMap(b)[1] = c /\ Pic!YMap(b)[2] = r
<1> DEFINE e == c \div 8
           f == 3 - (c % 8) \div 2
           l == c % 2
           b == 16 * e + 8 * r + 4 * l + f
<1>1. /\ e \in 0 .. 1 /\ f \in 0 .. 3 /\ l \in 0 .. 1
      /\ c = 8 * e + 6 - 2 * f + l
  OBVIOUS
<1> HIDE DEF e, f, l
<1>2. b \in 0 .. 31
  BY <1>1
<1>3. b \div 16 = e /\ b % 4 = f /\ Pic!Bit(b, 4) = l /\ Pic!Bit(b, 8) = r
  BY <1>1 DEF Pic!Bit
<1>4. Pic!YMap(b)[1] = c /\ Pic!YMap(b)[2] = r
  BY <1>1, <1>3 DEF Pic!YMap
<1> QED
  BY <1>2, <1>4

\* Where a luma byte lands: at its patch's column and row and its own in it.
LumaAt(A, B, u, v, b) ==
  LET d == Spot(32 * A, 32 * B, u, v, b)
  IN /\ d \in Nat /\ d < (32 * A) * (32 * B)
     /\ d % (32 * A) = 16 * u + Pic!YMap(b)[1] /\ d \div (32 * A) = 2 * v + Pic!YMap(b)[2]

LEMMA LumaSpot ==
  ASSUME NEW A \in Nat \ {0}, NEW B \in Nat, NEW u \in 0 .. 2 * A - 1, NEW v \in 0 .. 16 * B - 1,
         NEW b \in 0 .. 31
  PROVE  LumaAt(A, B, u, v, b)
<1> DEFINE w == 32 * A
           h == 32 * B
           d == Spot(w, h, u, v, b)
           c == 16 * u + Pic!YMap(b)[1]
           r == 2 * v + Pic!YMap(b)[2]
<1>1. w \in Nat \ {0} /\ h \in Nat /\ c \in Nat /\ c < w /\ r \in Nat /\ r < h
  <2>1. Pic!YMap(b)[1] \in 0 .. 15 /\ Pic!YMap(b)[2] \in 0 .. 1
    BY YMapInside
  <2> QED
    BY <2>1
<1>2. d = w * r + 16 * u + Pic!YMap(b)[1]
  <2> HIDE DEF w, h
  <2> QED
    BY DEF Spot
<1>3. d = w * r + c
  <2>1. Pic!YMap(b)[1] \in 0 .. 15
    BY YMapInside
  <2> DEFINE n == w * r
             y == Pic!YMap(b)[1]
  <2>2. n \in Nat /\ y \in Nat
    BY <1>1, <2>1
  <2>3. d = n + 16 * u + y
    BY <1>2
  <2> HIDE DEF n, y, d
  <2> QED
    BY <2>2, <2>3 DEF n, y
<1> HIDE DEF w, h, c, r, d
<1>4. d = c + r * w
  BY <1>1, <1>3
<1>5. d \div w = r /\ d % w = c
  BY <1>1, <1>4, DivMod
<1>6. d \in Nat /\ d + 1 <= w * h /\ w * h \in Nat
  BY <1>1, <1>4, GridCell
<1>7. d < w * h
  <2> DEFINE n == w * h
  <2> HIDE DEF n
  <2> QED
    BY <1>6 DEF n
<1> QED
  BY <1>5, <1>6, <1>7 DEF w, h, c, r, d, LumaAt

\* Where a chroma byte lands: below the luma, at its patch's column and at half
\* its patch's row.
ChromaAt(A, B, u, v, b) ==
  LET d == Spot(32 * A, 32 * B, u, v, b)
      n == (32 * A) * (32 * B)
  IN /\ d \in Nat /\ n \in Nat /\ n <= d /\ d < n + (32 * A) * (16 * B)
     /\ d % (32 * A) = 16 * u + (b - 32) /\ (d - n) \div (32 * A) = v

LEMMA ChromaSpot ==
  ASSUME NEW A \in Nat \ {0}, NEW B \in Nat, NEW u \in 0 .. 2 * A - 1, NEW v \in 0 .. 16 * B - 1,
         NEW b \in 32 .. 47
  PROVE  ChromaAt(A, B, u, v, b)
<1> DEFINE w == 32 * A
           h == 32 * B
           n == w * h
           H == 16 * B
           d == Spot(w, h, u, v, b)
           c == 16 * u + (b - 32)
           e == c + v * w
<1>1. w \in Nat \ {0} /\ h \in Nat /\ c \in Nat /\ c < w /\ v \in Nat /\ v < H /\ H \in Nat
  OBVIOUS
<1>2. d = w * h + w * v + 16 * u + b - 32
  <2> HIDE DEF w, h
  <2> QED
    BY DEF Spot
<1>3. w * h \in Nat /\ w * v \in Nat /\ w * v = v * w
  <2> HIDE DEF w, h
  <2> QED
    BY <1>1
<1>4. d = n + e
  <2> DEFINE m == w * v
             o == w * h
  <2>1. d = o + m + 16 * u + b - 32 /\ o \in Nat /\ m \in Nat /\ m = v * w
    BY <1>2, <1>3
  <2> HIDE DEF m, o, d
  <2>2. d = o + (16 * u + (b - 32) + m)
    BY <2>1
  <2> QED
    BY <2>1, <2>2 DEF o
<1> HIDE DEF w, h, H, c, d
<1>6. e \in Nat /\ e + 1 <= w * H /\ w * H \in Nat
  BY <1>1, GridCell
<1>7. e \div w = v
  BY <1>1, DivMod
<1>8. d % w = c
  <2>1. n + e = c + (v + h) * w
    BY <1>1
  <2>2. v + h \in Nat
    BY <1>1
  <2> DEFINE q == v + h
  <2> HIDE DEF q
  <2>3. (c + q * w) % w = c
    BY <1>1, <2>2, DivMod DEF q
  <2> QED
    BY <1>4, <2>1, <2>3 DEF q
<1>9. n \in Nat /\ n <= d /\ d < n + w * H /\ d - n = e /\ d \in Nat
  <2>1. n \in Nat
    BY <1>3
  <2> DEFINE m == w * H
  <2> HIDE DEF n, e, m
  <2> QED
    BY <1>4, <1>6, <2>1 DEF m
<1> QED
  BY <1>7, <1>8, <1>9 DEF n, d, w, h, H, c, ChromaAt

LEMMA FrameOfBlocks ==
  ASSUME NEW A \in Nat, NEW B \in Nat
  PROVE  /\ A * B \in Nat /\ (32 * A) * (32 * B) = 1024 * (A * B)
         /\ Pic!FrameBytes(32 * A, 32 * B) = 0 .. 1536 * (A * B) - 1
         /\ ((32 * A) * (32 * B)) \div 32 = 32 * (A * B)
<1> DEFINE P == A * B
<1>1. P \in Nat
  OBVIOUS
<1>2. (32 * A) * (32 * B) = 1024 * P
  OBVIOUS
<1>3. 3 * (32 * A) * (32 * B) = 3072 * P
  OBVIOUS
<1> HIDE DEF P
<1>4. (3072 * P) \div 2 = 1536 * P /\ (1024 * P) \div 32 = 32 * P
  BY <1>1
<1>5. Pic!FrameBytes(32 * A, 32 * B) = 0 .. 1536 * P - 1
  <2> DEFINE p == 3 * (32 * A) * (32 * B)
  <2>1. p = 3072 * P
    BY <1>3
  <2>2. Pic!FrameBytes(32 * A, 32 * B) = 0 .. (p \div 2) - 1
    BY DEF Pic!FrameBytes
  <2> HIDE DEF p
  <2> QED
    BY <1>4, <2>1, <2>2
<1> QED
  BY <1>1, <1>2, <1>4, <1>5 DEF P

\* Bytes go by groups of 48.
LEMMA Grouped ==
  ASSUME NEW n \in Nat
  PROVE  /\ \A g \in Nat, b \in 0 .. 47 : g < 32 * n => 48 * g + b \in 0 .. 1536 * n - 1
         /\ \A s \in 0 .. 1536 * n - 1 :
              s \div 48 \in Nat /\ s \div 48 < 32 * n /\ s % 48 \in 0 .. 47 /\ s = 48 * (s \div 48) + (s % 48)
  OBVIOUS

\* Each byte of the picture is filled.
LEMMA FrameFilled ==
  ASSUME NEW A \in Nat \ {0}, NEW B \in Nat
  PROVE  LET bytes == Pic!FrameBytes(32 * A, 32 * B)
         IN {Pic!Placed(32 * A, 32 * B, s) : s \in bytes} = bytes
<1> DEFINE w == 32 * A
           h == 32 * B
           P == A * B
           N == w * h
           S == 0 .. 1536 * P - 1
<1>1. P \in Nat /\ N = 1024 * P /\ Pic!FrameBytes(w, h) = 0 .. 1536 * P - 1
  BY FrameOfBlocks
<1>2. w \in Nat \ {0} /\ h \in Nat /\ w * (16 * B) = 512 * P /\ N \in Nat
  OBVIOUS
<1> HIDE DEF S
<1>3. ASSUME NEW s \in S
      PROVE  Pic!Placed(w, h, s) \in S
  <2> DEFINE g == s \div 48
             b == s % 48
             u == PatchU(g, A)
             v == PatchV(g, A)
  <2>1. g \in Nat /\ g < 32 * P /\ b \in 0 .. 47 /\ s = 48 * g + b
    <3> HIDE DEF P
    <3> QED
      BY <1>1, Grouped DEF S
  <2> HIDE DEF g, b
  <2>2. u \in 0 .. 2 * A - 1 /\ v \in 0 .. 16 * B - 1
    BY <2>1, PatchInside
  <2>3. Pic!Placed(w, h, s) = Spot(w, h, u, v, b)
    <3>1. h \in Nat /\ s \in Nat
      BY <1>2, <2>1
    <3> HIDE DEF h
    <3> QED
      BY <3>1, PlacedByGroup, Zenon DEF g, b
  <2> HIDE DEF u, v
  <2> DEFINE d == Spot(w, h, u, v, b)
  <2>4. b \in 0 .. 31 => d \in Nat /\ d < N
    BY <2>2, LumaSpot DEF LumaAt
  <2>5. b \in 32 .. 47 => d \in Nat /\ d < N + 512 * P
    <3>1. b \in 32 .. 47 => d \in Nat /\ d < N + w * (16 * B)
      BY <2>2, ChromaSpot DEF ChromaAt
    <3> HIDE DEF d, N, P, w
    <3> QED
      BY <1>2, <3>1
  <2> HIDE DEF d, N, P
  <2>6. d \in S
    BY <1>1, <2>1, <2>4, <2>5 DEF S
  <2> QED
    BY <2>3, <2>6 DEF d
<1>4. ASSUME NEW d \in S
      PROVE  \E s \in S : Pic!Placed(w, h, s) = d
  <2>1. ASSUME NEW u \in 0 .. 2 * A - 1, NEW v \in 0 .. 16 * B - 1, NEW b \in 0 .. 47,
               d = Spot(w, h, u, v, b)
        PROVE  \E s \in S : Pic!Placed(w, h, s) = d
    <3>1. PICK g \in Nat : g < 32 * P /\ PatchU(g, A) = u /\ PatchV(g, A) = v
      BY PatchReached, Zenon
    <3>2. 48 * g + b \in S
      <4> HIDE DEF P
      <4> QED
        BY <1>1, <3>1, Grouped DEF S
    <3>3. Pic!Placed(w, h, 48 * g + b) = Spot(w, h, u, v, b)
      <4> DEFINE s == 48 * g + b
      <4>1. h \in Nat /\ s \in Nat /\ s \div 48 = g /\ s % 48 = b
        BY <1>2
      <4> HIDE DEF h, s
      <4>2. Pic!Placed(w, h, s) = Spot(w, h, PatchU(s \div 48, A), PatchV(s \div 48, A), s % 48)
        BY <4>1, PlacedByGroup, Zenon
      <4> QED
        BY <3>1, <4>1, <4>2 DEF s
    <3> HIDE DEF P
    <3> QED
      BY <2>1, <3>2, <3>3
  <2>2. CASE d < N
    <3> DEFINE c == d % w
               r == d \div w
    <3>1. c \in 0 .. w - 1 /\ r \in Nat /\ d = c + r * w /\ r < h
      <4>1. d \in Nat
        BY DEF S
      <4> HIDE DEF w, h
      <4>2. c \in 0 .. w - 1 /\ r \in Nat /\ d = c + r * w
        BY <1>2, <4>1, Divided
      <4>3. r < h
        BY <1>2, <2>2, <4>1, Quotient
      <4> QED
        BY <4>2, <4>3
    <3> HIDE DEF c, r
    <3> DEFINE u == c \div 16
               v == r \div 2
    <3>2. /\ u \in 0 .. 2 * A - 1 /\ c % 16 \in 0 .. 15 /\ c = 16 * u + (c % 16)
          /\ v \in 0 .. 16 * B - 1 /\ r % 2 \in 0 .. 1 /\ r = 2 * v + (r % 2)
      BY <3>1
    <3>3. PICK b \in 0 .. 31 : Pic!YMap(b)[1] = c % 16 /\ Pic!YMap(b)[2] = r % 2
      <4>1. c % 16 \in 0 .. 15 /\ r % 2 \in 0 .. 1
        BY <3>2
      <4> QED
        BY <4>1, YMapReached, Zenon
    <3>4. b \in 0 .. 47 /\ b < 32
      OBVIOUS
    <3> HIDE DEF u, v
    <3>5. Spot(w, h, u, v, b) = w * (2 * v + (r % 2)) + 16 * u + (c % 16)
      <4> HIDE DEF w, h
      <4> QED
        BY <3>3, <3>4 DEF Spot
    <3>6. Spot(w, h, u, v, b) = d
      <4> DEFINE y == c % 16
                 m == w * r
      <4>1. m \in Nat /\ m = r * w
        BY <1>2, <3>1
      <4>2. Spot(w, h, u, v, b) = m + 16 * u + y
        BY <3>2, <3>5
      <4>3. y \in Nat /\ u \in Nat /\ c = 16 * u + y
        BY <3>2
      <4>4. d = c + m /\ c \in Nat
        BY <3>1, <4>1
      <4> HIDE DEF w, h, y, m
      <4> QED
        BY <4>1, <4>2, <4>3, <4>4
    <3> QED
      BY <2>1, <3>2, <3>4, <3>6
  <2>3. CASE ~ (d < N)
    <3> DEFINE e == d - N
               c == e % w
               r == e \div w
    <3>1. e \in Nat /\ d = N + e /\ e < w * (16 * B)
      <4> HIDE DEF N, P, w
      <4> QED
        BY <1>1, <1>2, <2>3 DEF S
    <3> HIDE DEF e
    <3>2. c \in 0 .. w - 1 /\ r \in Nat /\ e = c + r * w /\ r < 16 * B
      <4> DEFINE H == 16 * B
      <4>1. H \in Nat /\ e < w * H
        BY <3>1
      <4> HIDE DEF w, H
      <4>2. c \in 0 .. w - 1 /\ r \in Nat /\ e = c + r * w
        BY <1>2, <3>1, Divided
      <4>3. r < H
        BY <1>2, <3>1, <4>1, Quotient
      <4> QED
        BY <4>2, <4>3 DEF H
    <3> HIDE DEF c, r
    <3> DEFINE u == c \div 16
               b == 32 + (c % 16)
    <3>3. /\ u \in 0 .. 2 * A - 1 /\ b \in 32 .. 47 /\ c = 16 * u + (b - 32)
          /\ r \in 0 .. 16 * B - 1
      BY <3>2
    <3>4. b \in 0 .. 47 /\ ~ (b < 32)
      BY <3>3
    <3> HIDE DEF u, b
    <3>5. Spot(w, h, u, r, b) = w * h + w * r + 16 * u + b - 32
      <4> HIDE DEF w, h
      <4> QED
        BY <3>4 DEF Spot
    <3>6. Spot(w, h, u, r, b) = d
      <4> DEFINE m == w * r
      <4>1. m \in Nat /\ m = r * w
        BY <1>2, <3>2
      <4>2. Spot(w, h, u, r, b) = N + m + 16 * u + b - 32
        BY <3>5
      <4>3. b \in Nat /\ u \in Nat /\ c = 16 * u + (b - 32)
        BY <3>3
      <4>4. d = N + e /\ e = c + m /\ c \in Nat /\ e \in Nat
        BY <3>1, <3>2, <4>1
      <4> HIDE DEF w, h, m, N
      <4> QED
        BY <1>2, <4>1, <4>2, <4>3, <4>4
    <3> QED
      BY <2>1, <3>3, <3>4, <3>6
  <2> QED
    BY <2>2, <2>3
<1> HIDE DEF P, w, h, N
<1>5. {Pic!Placed(w, h, s) : s \in S} = S
  BY <1>3, <1>4
<1> QED
  BY <1>1, <1>5 DEF w, h, S

\* Chroma goes to the pixels of the luma it came with.
LEMMA GroupTogether ==
  ASSUME NEW A \in Nat \ {0}, NEW B \in Nat, NEW g \in Nat, g < 32 * (A * B)
  PROVE  LET w == 32 * A
             h == 32 * B
             Row(d) == IF d < w * h THEN d \div w ELSE 2 * ((d - w * h) \div w)
             Cell(b) == <<(Pic!Placed(w, h, 48 * g + b) % w) \div 2, Row(Pic!Placed(w, h, 48 * g + b)) \div 2>>
         IN {Cell(b) : b \in 0..31} = {Cell(b) : b \in 32..47}
<1> DEFINE w == 32 * A
           h == 32 * B
           N == w * h
           u == PatchU(g, A)
           v == PatchV(g, A)
           Row(d) == IF d < w * h THEN d \div w ELSE 2 * ((d - w * h) \div w)
           Cell(b) == <<(Pic!Placed(w, h, 48 * g + b) % w) \div 2, Row(Pic!Placed(w, h, 48 * g + b)) \div 2>>
<1>1. u \in 0 .. 2 * A - 1 /\ v \in 0 .. 16 * B - 1
  BY PatchInside
<1>2. ASSUME NEW b \in 0 .. 47
      PROVE  Pic!Placed(w, h, 48 * g + b) = Spot(w, h, u, v, b)
  <2> DEFINE s == 48 * g + b
  <2>1. h \in Nat /\ s \in Nat /\ s \div 48 = g /\ s % 48 = b
    OBVIOUS
  <2> HIDE DEF h, s
  <2>2. Pic!Placed(w, h, s) = Spot(w, h, PatchU(s \div 48, A), PatchV(s \div 48, A), s % 48)
    BY <2>1, PlacedByGroup, Zenon
  <2> QED
    BY <2>1, <2>2 DEF s
<1> HIDE DEF u, v
<1>3. ASSUME NEW b \in 0 .. 31
      PROVE  Cell(b) = <<8 * u + (Pic!YMap(b)[1] \div 2), v>>
  <2> DEFINE d == Spot(w, h, u, v, b)
             x == Pic!YMap(b)[1]
             y == Pic!YMap(b)[2]
  <2>1. d \in Nat /\ d < N /\ d % w = 16 * u + x /\ d \div w = 2 * v + y
    <3>1. LumaAt(A, B, u, v, b)
      BY <1>1, LumaSpot, Zenon
    <3> QED
      BY <3>1 DEF LumaAt
  <2>2. b \in 0 .. 47
    OBVIOUS
  <2>3. Pic!Placed(w, h, 48 * g + b) = d
    BY <1>2, <2>2
  <2>4. x \in 0 .. 15 /\ y \in 0 .. 1
    BY YMapInside
  <2> HIDE DEF d, x, y, w, h
  <2>5. Cell(b) = <<(d % w) \div 2, (d \div w) \div 2>>
    BY <2>1, <2>3
  <2>6. (16 * u + x) \div 2 = 8 * u + (x \div 2) /\ (2 * v + y) \div 2 = v
    BY <1>1, <2>4
  <2> QED
    BY <2>1, <2>5, <2>6 DEF x
<1>4. ASSUME NEW b \in 32 .. 47
      PROVE  Cell(b) = <<8 * u + ((b - 32) \div 2), v>>
  <2> DEFINE d == Spot(w, h, u, v, b)
  <2>1. d \in Nat /\ N \in Nat /\ N <= d /\ d % w = 16 * u + (b - 32) /\ (d - N) \div w = v
    <3>1. ChromaAt(A, B, u, v, b)
      BY <1>1, ChromaSpot, Zenon
    <3> QED
      BY <3>1 DEF ChromaAt
  <2>2. b \in 0 .. 47
    OBVIOUS
  <2>3. Pic!Placed(w, h, 48 * g + b) = d
    BY <1>2, <2>2
  <2>4. Row(d) = 2 * ((d - N) \div w)
    <3>1. ~ (d < N)
      <4> HIDE DEF N, d
      <4> QED
        BY <2>1
    <3> HIDE DEF d, w, h
    <3> QED
      BY <3>1
  <2> HIDE DEF d, w, h
  <2>5. Cell(b) = <<(d % w) \div 2, (2 * v) \div 2>>
    BY <2>1, <2>3, <2>4
  <2>6. (16 * u + (b - 32)) \div 2 = 8 * u + ((b - 32) \div 2) /\ (2 * v) \div 2 = v
    BY <1>1
  <2> QED
    BY <2>1, <2>5, <2>6
<1> HIDE DEF Cell
<1>5. ASSUME NEW b \in 0 .. 31 PROVE \E k \in 32 .. 47 : Cell(b) = Cell(k)
  <2> DEFINE x == Pic!YMap(b)[1]
  <2>1. x \in 0 .. 15
    BY YMapInside
  <2> HIDE DEF x
  <2>2. 32 + x \in 32 .. 47 /\ (32 + x) - 32 = x
    BY <2>1
  <2>3. Cell(32 + x) = <<8 * u + (x \div 2), v>>
    BY <1>4, <2>2
  <2>4. Cell(b) = <<8 * u + (x \div 2), v>>
    BY <1>3 DEF x
  <2> QED
    BY <2>2, <2>3, <2>4
<1>6. ASSUME NEW k \in 32 .. 47 PROVE \E b \in 0 .. 31 : Cell(k) = Cell(b)
  <2>1. k - 32 \in 0 .. 15 /\ 0 \in 0 .. 1
    OBVIOUS
  <2>2. PICK b \in 0 .. 31 : Pic!YMap(b)[1] = k - 32
    BY <2>1, YMapReached
  <2> QED
    BY <1>3, <1>4, <2>2
<1>7. {Cell(b) : b \in 0..31} = {Cell(b) : b \in 32..47}
  BY <1>5, <1>6
<1> QED
  BY <1>7 DEF Cell

\* What ColourStaysWithItsPixel says of a frame.
InColour(pic, w, h) ==
  LET Column(d) == d % w
      Row(d) == IF d < w * h THEN d \div w ELSE 2 * ((d - w * h) \div w)
  IN /\ {pic[s] : s \in Pic!FrameBytes(w, h)} = Pic!FrameBytes(w, h)
     /\ \A g \in 0..(w * h) \div 32 - 1 :
          LET Area(bytes) == {<<Column(pic[48 * g + b]) \div 2, Row(pic[48 * g + b]) \div 2>> : b \in bytes}
          IN Area(0..31) = Area(32..47)

LEMMA FramesInColour ==
  ASSUME NEW A \in Nat, NEW B \in Nat
  PROVE  InColour(Pic!DetileFrame(32 * A, 32 * B), 32 * A, 32 * B)
<1> DEFINE w == 32 * A
           h == 32 * B
           P == A * B
           pic == Pic!DetileFrame(w, h)
           Column(d) == d % w
           Row(d) == IF d < w * h THEN d \div w ELSE 2 * ((d - w * h) \div w)
           Area(g, bytes) == {<<Column(pic[48 * g + b]) \div 2, Row(pic[48 * g + b]) \div 2>> : b \in bytes}
<1>1. P \in Nat /\ Pic!FrameBytes(w, h) = 0 .. 1536 * P - 1 /\ (w * h) \div 32 = 32 * P
  BY FrameOfBlocks
<1>2. \A s \in Pic!FrameBytes(w, h) : pic[s] = Pic!Placed(w, h, s)
  BY DEF Pic!DetileFrame
<1>3. {pic[s] : s \in Pic!FrameBytes(w, h)} = Pic!FrameBytes(w, h)
  <2>1. CASE A = 0
    <3>1. P = 0
      BY <2>1
    <3> HIDE DEF P, w, h, pic
    <3> QED
      BY <1>1, <3>1
  <2>2. CASE A # 0
    <3>1. {Pic!Placed(w, h, s) : s \in Pic!FrameBytes(w, h)} = Pic!FrameBytes(w, h)
      BY <2>2, FrameFilled
    <3> HIDE DEF w, h, pic
    <3> QED
      BY <1>2, <3>1
  <2> QED
    BY <2>1, <2>2
<1>4. ASSUME NEW g \in 0..(w * h) \div 32 - 1 PROVE Area(g, 0..31) = Area(g, 32..47)
  <2>1. g \in Nat /\ g < 32 * P
    <3> HIDE DEF P
    <3> QED
      BY <1>1, <1>4
  <2>2. A # 0
    <3> SUFFICES ASSUME A = 0 PROVE FALSE
      OBVIOUS
    <3>1. P = 0
      OBVIOUS
    <3> HIDE DEF P
    <3> QED
      BY <2>1, <3>1
  <2>3. \A b \in 0 .. 47 : pic[48 * g + b] = Pic!Placed(w, h, 48 * g + b)
    <3>1. \A b \in 0 .. 47 : 48 * g + b \in Pic!FrameBytes(w, h)
      <4> HIDE DEF P, w, h
      <4> QED
        BY <1>1, <2>1, Grouped
    <3> HIDE DEF w, h, pic
    <3> QED
      BY <1>2, <3>1
  <2> DEFINE Cell(b) == <<(Pic!Placed(w, h, 48 * g + b) % w) \div 2, Row(Pic!Placed(w, h, 48 * g + b)) \div 2>>
             Tile(b) == <<Column(pic[48 * g + b]) \div 2, Row(pic[48 * g + b]) \div 2>>
  <2>4. {Cell(b) : b \in 0..31} = {Cell(b) : b \in 32..47}
    BY <2>1, <2>2, GroupTogether
  <2>5. \A b \in 0 .. 47 : Tile(b) = Cell(b)
    BY <2>3
  <2>6. \A b \in 0 .. 31 : b \in 0 .. 47
    OBVIOUS
  <2>7. \A b \in 32 .. 47 : b \in 0 .. 47
    OBVIOUS
  <2>8. {Tile(b) : b \in 0..31} = {Tile(b) : b \in 32..47}
    <3> HIDE DEF Cell, Tile
    <3>1. {Tile(b) : b \in 0..31} = {Cell(b) : b \in 0..31}
      BY <2>5, <2>6
    <3>2. {Tile(b) : b \in 32..47} = {Cell(b) : b \in 32..47}
      BY <2>5, <2>7
    <3> QED
      BY <2>4, <3>1, <3>2
  <2> QED
    BY <2>8
<1> QED
  BY <1>3, <1>4 DEF InColour

-----------------------------------------------------------------------------
(* The theorems about pixels. *)

\* detile_2d_32bpp copies each visible pixel from four bytes of its own, in its
\* own 32x32 tile, whatever the size of the picture and of the framebuffer.
THEOREM PixelsCopiedOnce == Pic!Spec => []PixelsOnce
<1>1. PictureInv => PixelsOnce
  <2> SUFFICES ASSUME PictureInv, verb = "screenshot", picture # NoPicture PROVE PixelsOnce
    BY DEF PixelsOnce
  <2>1. file \in Pic!Screens /\ picture \in {Pic!NoPicture, Pic!ToRgba8(file.length, file.w, file.h, file.known)}
    BY DEF PictureInv, Shot
  <2> DEFINE l == file.length
             w == file.w
             h == file.h
  <2>2. l \in Int /\ w \in Nat /\ h \in Nat
    <3>1. PICK s \in ScreenSizes, t \in ScreenSizes :
            /\ w = s[1] /\ h = s[2]
            /\ l \in {4 * t[1] * t[2] - 1, 4 * t[1] * t[2], 4 * Pic!Aligned(t[1]) * Pic!Aligned(t[2])}
      BY <2>1 DEF Pic!Screens
    <3>2. s[1] \in Nat /\ s[2] \in Nat /\ t[1] \in Nat /\ t[2] \in Nat
      BY PictureSizes DEF Pic!RecordingAssumption
    <3> DEFINE x == t[1]
               y == t[2]
    <3>3. x \in Nat /\ y \in Nat /\ Pic!Aligned(x) \in Nat /\ Pic!Aligned(y) \in Nat
      BY <3>2, AlignedCovers
    <3> HIDE DEF x, y, l
    <3>4. 4 * x * y \in Int /\ 4 * Pic!Aligned(x) * Pic!Aligned(y) \in Int
      BY <3>3
    <3>5. l \in {4 * x * y - 1, 4 * x * y, 4 * Pic!Aligned(x) * Pic!Aligned(y)}
      BY <3>1 DEF x, y
    <3> QED
      BY <3>1, <3>2, <3>4, <3>5
  <2>3. picture = Pic!Detile2d(l, w, h)
    BY <2>1 DEF Pic!ToRgba8, Pic!NoPicture, NoPicture
  <2> HIDE DEF l, w, h
  <2>4. ScreenIsExact(picture, l, w, h)
    BY <2>2, <2>3, ScreenExact
  <2>5. Pic!Black = Black /\ Pic!Aligned(w) = Aligned(w) /\ Pic!Aligned(h) = Aligned(h)
    BY DEF Pic!Black, Black, Pic!Aligned, Aligned
  <2> DEFINE seen == {p \in DOMAIN picture : picture[p] # Black}
             across == Aligned(w) \div 32
  <2>6. Cardinality({picture[p] : p \in seen}) = Cardinality(seen)
    BY <2>4, <2>5 DEF ScreenIsExact
  <2>7. \A p \in seen :
          /\ picture[p] % 4 = 0 /\ picture[p] + 4 <= l
          /\ picture[p] \div 4096 = p[1] \div 32 + across * (p[2] \div 32)
    BY <2>4, <2>5 DEF ScreenIsExact
  <2>8. l >= 4 * Aligned(w) * Aligned(h) => seen = DOMAIN picture
    BY <2>4, <2>5 DEF ScreenIsExact
  <2> QED
    BY <2>6, <2>7, <2>8 DEF PixelsOnce, l, w, h
<1> QED
  BY <1>1, PicturesReachable, PTL

\* detile_frame fills every byte of the picture, and takes each group's chroma
\* to the pixels its luma went to, whatever the size of the frame.
THEOREM ColourTrue == Pic!Spec => []ColourStaysWithItsPixel
<1>1. PictureInv => Pic!ColourStaysWithItsPixel
  <2> SUFFICES ASSUME PictureInv, images # <<>>, stage = "decoding"
               PROVE  Pic!ColourStaysWithItsPixel
    BY DEF Pic!ColourStaysWithItsPixel
  <2>1. verb # "screenshot"
    BY DEF PictureInv, Shot
  <2>2. /\ picture = Pic!DetileFrame(Pic!Aligned(file.w), Pic!Aligned(file.h))
        /\ file.w \in Nat /\ file.h \in Nat
    BY <2>1 DEF PictureInv, Imaged, Walked, Recorded
  <2> DEFINE A == Pic!Aligned(file.w) \div 32
             B == Pic!Aligned(file.h) \div 32
  <2>3. /\ A \in Nat /\ Pic!Aligned(file.w) = 32 * A
        /\ B \in Nat /\ Pic!Aligned(file.h) = 32 * B
    BY <2>2, TileGrid
  <2> HIDE DEF A, B
  <2>4. InColour(picture, Pic!Aligned(file.w), Pic!Aligned(file.h))
    <3>1. InColour(Pic!DetileFrame(32 * A, 32 * B), 32 * A, 32 * B)
      BY <2>3, FramesInColour
    <3> QED
      BY <2>2, <2>3, <3>1
  <2> QED
    BY <2>4, Zenon DEF InColour, Pic!ColourStaysWithItsPixel
<1>2. Pic!ColourStaysWithItsPixel => ColourStaysWithItsPixel
  BY Zenon DEF ColourStaysWithItsPixel, Pic!ColourStaysWithItsPixel, Aligned, FrameBytes, Pic!Aligned, Pic!FrameBytes
<1> QED
  BY <1>1, <1>2, PicturesReachable, PTL
=============================================================================
