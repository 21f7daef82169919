----------------------------- MODULE Recording -----------------------------
(***************************************************************************)
(* What the tool makes of a picture: a recording walked by FrameCursor and *)
(* turned into images (commands/pix/xbm.rs and the xbm subcommand), or a   *)
(* screenshot converted by to_rgba8 (commands/screenshot.rs).  External:   *)
(* ffmpeg and the disk.                                                    *)
(***************************************************************************)
EXTENDS Pictures

vars == <<file, verb, stage, next, expected, records, images, picture>>

PixelBytes(w, h) == ((3 * Aligned(w) * Aligned(h)) % Word) \div 2

-----------------------------------------------------------------------------
Init ==
  /\ \/ /\ verb \in {"info", "extract", "encode"}
        /\ \E f \in Files : \E c \in Cuts(f) : file = [f EXCEPT !.length = c]
     \/ verb = "screenshot" /\ file \in Screens
  /\ stage = "open"
  /\ next = HEADER
  /\ expected = "none"
  /\ records = <<>>
  /\ images = <<>>
  /\ picture = NoPicture

Stops(outcome) == stage' = outcome

-----------------------------------------------------------------------------
(* XbmHeader::read and FrameCursor *)

\* read_exact of the header fails in a shorter file; a wrong magic, version or
\* header size fails too.
Open ==
  /\ stage = "open" /\ verb # "screenshot"
  /\ Stops(IF file.length >= HEADER /\ file.variant # "other" THEN "walking" ELSE "failed")
  /\ UNCHANGED <<file, verb, next, expected, records, images, picture>>

\* Mutant: the pixels follow the header without padding.
PixelsOffsetUnpadded(hdr) ==
  16 + 56 * Bit(hdr.flags, 1) + 1536 * Bit(hdr.flags, 2)

\* pixels_offset_within_record
PixelsOffset(hdr) ==
  ((16 + 56 * Bit(hdr.flags, 1) + 1536 * Bit(hdr.flags, 2) + 511) \div 512) * 512

AudioBytes(hdr) == (hdr.audio_count * 6144) % Word

RecordSize(hdr) == PixelsOffset(hdr) + PixelBytes(file.w, file.h) + AudioBytes(hdr)

\* next_frame returned None: info prints its counts, encode insists on a frame.
EndOfRecords ==
  /\ stage = "walking"
  /\ next + 16 > file.length
  /\ Stops(CASE verb = "info" -> "done"
             [] verb = "encode" /\ records = <<>> -> "failed"
             [] OTHER -> "decoding")
  /\ UNCHANGED <<file, verb, next, expected, records, images, picture>>

\* next_frame: the first record's magic is the sentinel of all that follow,
\* and a record must end inside the file.  Either failure ends the command.
NextFrame ==
  /\ stage = "walking" /\ next + 16 <= file.length
  /\ LET hdr == HeaderAt(file, next) IN
       /\ expected' = IF expected = "none" THEN hdr.frame_magic ELSE expected
       /\ IF expected' = hdr.frame_magic /\ next + RecordSize(hdr) <= file.length
          THEN /\ records' = Append(records, next + PixelsOffset(hdr))
               /\ next' = next + RecordSize(hdr)
               /\ UNCHANGED stage
          ELSE Stops("failed") /\ UNCHANGED <<next, records>>
  /\ UNCHANGED <<file, verb, images, picture>>

-----------------------------------------------------------------------------
(* The passes over the pixels, and the screenshot *)

\* One round of the loop of extract and encode: seek, read_exact, detile,
\* write.  Writing the image fails on a full disk; a dead ffmpeg breaks the
\* loop and its exit status then fails the command.
Decode ==
  /\ stage = "decoding" /\ Len(images) < Len(records)
  /\ LET from == records[Len(images) + 1] IN
       \/ /\ from + PixelBytes(file.w, file.h) <= file.length
          /\ picture' = DetileFrame(Aligned(file.w), Aligned(file.h))
          /\ images' = Append(images, from)
          /\ UNCHANGED stage
       \/ Stops("failed") /\ UNCHANGED <<images, picture>>
  /\ UNCHANGED <<file, verb, next, expected, records>>

\* extract writes metadata.txt and encode waits for ffmpeg; both can fail.
Finish ==
  /\ stage = "decoding" /\ Len(images) = Len(records)
  /\ stage' \in {"done", "failed"}
  /\ UNCHANGED <<file, verb, next, expected, records, images, picture>>

\* A screenshot that cannot be converted is saved as it came.
Convert ==
  /\ stage = "open" /\ verb = "screenshot"
  /\ picture' = ToRgba8(file.length, file.w, file.h, file.known)
  /\ Stops("done")
  /\ UNCHANGED <<file, verb, next, expected, records, images>>

Next == Open \/ NextFrame \/ EndOfRecords \/ Decode \/ Finish \/ Convert

Spec == Init /\ [][Next]_vars
=============================================================================
