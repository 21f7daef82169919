------------------------------ MODULE Surfaces ------------------------------
(***************************************************************************)
(* The two orders in which the console lays pixels out, and how the code   *)
(* undoes them: 32-bit scanout tiles (commands/screenshot.rs) and the      *)
(* super-blocks of a recorded frame (commands/pix/xbm.rs).  A buffer is    *)
(* its length; a conversion is a function that says which byte is copied   *)
(* to which.                                                               *)
(***************************************************************************)
EXTENDS Integers

Aligned(n) == ((n + 31) \div 32) * 32

Bit(n, b) == (n \div b) % 2

-----------------------------------------------------------------------------
(* Screenshots *)

\* Mutant: the width of the surface is not rounded up to whole tiles.
TileOffsetOfWidth(x, y, width) ==
  LET micro == 4 * ((x % 8) + 8 * ((y % 8) \div 2))
      offset == 512 * (x \div 32 + (y \div 32) * (width \div 32))
                + 32 * (micro \div 16) + (micro % 16) + 256 * Bit(y, 8) + 16 * (y % 2)
  IN 4096 * (offset \div 512) + 2048 * Bit(y, 16) + 256 * ((offset \div 64) % 8)
     + 64 * ((2 * Bit(y, 8) + x \div 8) % 4) + (offset % 64)

\* tile_offset_32bpp_bytes, its shifts and masks as products and remainders.
TileOffset(x, y, width) ==
  LET macro == 512 * (x \div 32 + (y \div 32) * (Aligned(width) \div 32))
      micro == 4 * ((x % 8) + 8 * ((y % 8) \div 2))
      offset == macro + 32 * (micro \div 16) + (micro % 16)
                + 256 * Bit(y, 8) + 16 * (y % 2)
  IN 4096 * (offset \div 512) + 2048 * Bit(y, 16) + 256 * ((offset \div 64) % 8)
     + 64 * ((2 * Bit(y, 8) + x \div 8) % 4) + (offset % 64)

Black == -1

\* detile_2d_32bpp: a pixel whose bytes lie past the data stays black.
Detile2d(length, width, height) ==
  [p \in (0..width - 1) \X (0..height - 1) |->
     LET src == TileOffset(p[1], p[2], width)
     IN IF src + 4 <= length THEN src ELSE Black]

\* Screenshot::to_rgba8 of a known format: NoPicture, an empty function, when
\* the data cannot hold the visible pixels (or the format is unknown).
NoPicture == <<>>

ToRgba8(length, width, height, known) ==
  IF known /\ width * height * 4 <= length THEN Detile2d(length, width, height) ELSE NoPicture

-----------------------------------------------------------------------------
(* Recorded frames *)

\* Y_MAP: the column and row of the 16x2 patch that each luma byte fills.
\* Mutant: the second half of the patch is not moved right.
YMapLeftHalf(i) == <<6 - 2 * (i % 4) + Bit(i, 4), Bit(i, 8)>>

YMap(i) == <<8 * (i \div 16) + 6 - 2 * (i % 4) + Bit(i, 4), Bit(i, 8)>>

\* The corner of the patch that iteration i of a super-block fills.
PatchX(sx, i) == 32 * sx + 16 * ((i \div 16) % 2)
PatchY(sy, i) == 32 * sy + 2 * (i % 16)

\* detile_frame: the byte of the NV12 picture, of aligned size w x h, to which
\* byte s of the frame is copied.
Placed(w, h, s) ==
  LET i == (s \div 48) % 32
      sb == s \div 1536
      b == s % 48
      px == PatchX(sb % (w \div 32), i)
      py == PatchY(sb \div (w \div 32), i)
  IN IF b < 32 THEN w * (py + YMap(b)[2]) + px + YMap(b)[1]
               ELSE w * h + w * (py \div 2) + px + b - 32

\* One frame's bytes.
FrameBytes(w, h) == 0..(3 * w * h) \div 2 - 1

DetileFrame(w, h) == [s \in FrameBytes(w, h) |-> Placed(w, h, s)]
=============================================================================
