------------------------------ MODULE Pictures ------------------------------
(***************************************************************************)
(* The pictures a console sends, an .xbm recording or a screenshot, how    *)
(* far the tool has come with one, and what it promises to make of it.     *)
(* The bytes of a file are abstracted to where the console put each        *)
(* record; what stands between records is noise.  External: the console's  *)
(* layout, and the length at which a download or a stopped capture cut the *)
(* file.                                                                   *)
(***************************************************************************)
EXTENDS Surfaces, Sequences, FiniteSets

CONSTANTS
  FrameSizes,   \* <<frame_width, frame_height>> of recordings
  ScreenSizes,  \* <<width, height>> of screenshots
  MaxRecords,   \* bound on the records of a file
  MaxAudio,     \* bound on audio_count
  Word          \* 2^32: sizes of records wrap here

\* A console writes frames and sound that fit a word.
ASSUME RecordingAssumption ==
  /\ MaxRecords \in Nat /\ MaxAudio \in Nat /\ Word \in Nat \ {0}
  /\ FrameSizes \subseteq Nat \X Nat /\ ScreenSizes \subseteq Nat \X Nat
  /\ \A s \in FrameSizes : 3 * Aligned(s[1]) * Aligned(s[2]) < Word
  /\ 6144 * MaxAudio < Word

VARIABLES
  file,      \* what the console sent; see Files and Screens
  verb,      \* the xbm subcommand, or "screenshot"
  stage,     \* how far the tool has come
  next,      \* next_offset of the cursor
  expected,  \* expected_magic of the cursor
  records,   \* the FrameRefs it returned, before the images are written
  images,    \* the images written: where each one's bytes were read
  picture    \* the last conversion

HEADER == 2048   \* HEADER_SIZE

-----------------------------------------------------------------------------
(* External: the console writes records one after another. *)

Header == [flags : 0..3, audio_count : 0..MaxAudio, frame_magic : {"stream"}]

\* The layout the module comment gives, in the writer's terms: the least
\* multiple of 512 that leaves room for what precedes the pixels.
Room(r) == 16 + (IF Bit(r.flags, 1) = 1 THEN 56 ELSE 0) + (IF Bit(r.flags, 2) = 1 THEN 1536 ELSE 0)
PixelsAfter(r) == CHOOSE n \in {512 * k : k \in 1..4} : n >= Room(r) /\ n - 512 < Room(r)

Written(f, k) == PixelsAfter(f.records[k]) + (3 * Aligned(f.w) * Aligned(f.h)) \div 2
                 + 6144 * f.records[k].audio_count

\* Where record k starts, or would if it is one more than there are.
StartOf(f, k) ==
  LET Start[i \in 1..Len(f.records) + 1] ==
        IF i = 1 THEN HEADER ELSE Start[i - 1] + Written(f, i - 1)
  IN Start[k]

EndOf(f, n) == StartOf(f, n + 1)

\* Lengths a file can be cut at, the interesting ones: at the end of record
\* n, a byte before it, or just before and just after another header fits.
Cuts(f) == UNION {{e - 1, e, e + 15, e + 16} : e \in {EndOf(f, n) : n \in 0..Len(f.records)}}

RecordSeqs == UNION {[1..n -> Header] : n \in 0..MaxRecords}

Files == {[w |-> s[1], h |-> s[2], variant |-> v, records |-> rs, length |-> 0] :
            s \in FrameSizes, v \in {"known", "other"}, rs \in RecordSeqs}

\* framebuffer_size: too short for the visible pixels, exactly those, or the
\* whole tiles that hold them.
Screens == {[w |-> s[1], h |-> s[2], known |-> k, length |-> l] :
              s \in ScreenSizes, k \in BOOLEAN,
              l \in UNION {{4 * t[1] * t[2] - 1, 4 * t[1] * t[2],
                            4 * Aligned(t[1]) * Aligned(t[2])} : t \in ScreenSizes}}

\* What 16 bytes at an offset parse to: a header where the console wrote one.
HeaderAt(f, offset) ==
  IF \E k \in 1..Len(f.records) : StartOf(f, k) = offset
  THEN f.records[CHOOSE k \in 1..Len(f.records) : StartOf(f, k) = offset]
  ELSE [flags |-> 0, audio_count |-> 0, frame_magic |-> "noise"]

-----------------------------------------------------------------------------
(* Properties *)

\* A recording, cut anywhere, yields the records that are whole, in order and
\* each image from the place where the console wrote its pixels; a command that
\* succeeds leaves out no more than the stump of a header.  (The cursor walks
\* the file by the sizes it computes, next_frame and RecordSize: one wrong size
\* and it reads sound or pixels as headers.)
ImagesAreWhole ==
  verb # "screenshot" =>
    /\ \A k \in 1..Len(records) :
         /\ k <= Len(file.records)
         /\ records[k] = StartOf(file, k) + PixelsAfter(file.records[k])
         /\ EndOf(file, k) <= file.length
    /\ \A k \in 1..Len(images) : images[k] = records[k]
    /\ stage = "done" =>
         /\ verb # "info" => Len(images) = Len(records)
         /\ \/ Len(records) = Len(file.records)
            \/ file.length - EndOf(file, Len(records)) \in 0..15

\* detile_frame writes every byte of the picture once, and each pair of chroma
\* bytes lands on the 2x2 pixels whose luma came from the same 48-byte group.
ColourStaysWithItsPixel ==
  images # <<>> /\ stage = "decoding" =>
    LET w == Aligned(file.w)
        h == Aligned(file.h)
        Column(d) == d % w
        Row(d) == IF d < w * h THEN d \div w ELSE 2 * ((d - w * h) \div w)
    IN /\ {picture[s] : s \in FrameBytes(w, h)} = FrameBytes(w, h)
       /\ \A g \in 0..(w * h) \div 32 - 1 :
            LET Area(bytes) == {<<Column(picture[48 * g + b]) \div 2, Row(picture[48 * g + b]) \div 2>> : b \in bytes}
            IN Area(0..31) = Area(32..47)

\* detile_2d_32bpp copies each visible pixel from four bytes of its own, in the
\* 4 KiB of its own 32x32 tile; only a framebuffer that ends before the last
\* whole tile leaves pixels black.
PixelsOnce ==
  verb = "screenshot" /\ picture # NoPicture =>
    LET seen == {p \in DOMAIN picture : picture[p] # Black}
        across == Aligned(file.w) \div 32
    IN /\ Cardinality({picture[p] : p \in seen}) = Cardinality(seen)
       /\ \A p \in seen :
            /\ picture[p] % 4 = 0 /\ picture[p] + 4 <= file.length
            /\ picture[p] \div 4096 = p[1] \div 32 + across * (p[2] \div 32)
       /\ file.length >= 4 * Aligned(file.w) * Aligned(file.h) => seen = DOMAIN picture
=============================================================================
