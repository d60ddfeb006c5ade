----------------------------- MODULE BitmapFile -----------------------------
(***************************************************************************)
(* "03. Parallel Programming": bitmap.c.  The bytes that bitmap_save puts  *)
(* behind the header of a BMP file, what the function bitmap makes of them *)
(* and what the format says of them.  A colour is a triple of red, green   *)
(* and blue; alpha is not stored.                                          *)
(***************************************************************************)
EXTENDS Integers, SequencesExt

\* m->data is indexed from 0; coordinates outside come back from the other side.
bitmap_get(data, w, h, x, y) == data[(y % h) * w + (x % w)]

\* Slip: widths that need no padding get four bytes.
AtLeastOne(w) == 4 - ((w * 3) % 4)
padlength(w)  == (4 - ((w * 3) % 4)) % 4

\* GET_BLUE, GET_GREEN, GET_RED.
Stored(colour) == <<colour[3], colour[2], colour[1]>>

scanline(data, w, h, j) ==
  FlattenSeq([i \in 1..w |-> Stored(bitmap_get(data, w, h, i - 1, j))])

\* What the padding holds is the beginning of the scanline.
Saved(data, w, h) ==
  FlattenSeq([j \in 1..h |-> LET s == scanline(data, w, h, j - 1)
                             IN  s \o SubSeq(s, 1, padlength(w))])

\* The function bitmap: pixels one after the other, whatever the width.
PixelRead(bytes, k) == <<bytes[3 * k + 3], bytes[3 * k + 2], bytes[3 * k + 1]>>

Loaded(bytes, w, h) == [k \in 0..w * h - 1 |-> PixelRead(bytes, k)]

\* The format: every row begins at a multiple of four bytes; the first is at the
\* bottom, where compute_image has the least y.
BmpPixel(bytes, w, x, y) ==
  LET RowLength == 4 * ((3 * w + 3) \div 4)
      first     == y * RowLength + 3 * x
  IN  <<bytes[first + 3], bytes[first + 2], bytes[first + 1]>>
=============================================================================
