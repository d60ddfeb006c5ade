----------------------------- MODULE SavedImage -----------------------------
(***************************************************************************)
(* fractalthread.c and the file it saves: the pixels that the threads have *)
(* computed and the bytes that bitmap_save makes of them.                  *)
(***************************************************************************)
EXTENDS FractalThread, BitmapFile

CONSTANT Widths   \* option -W

ASSUME WidthsAssumption == Widths \subseteq Nat \ {0}

\* main fills the bitmap with blue.  A computed pixel has a colour no other one has.
Blue            == <<0, 0, 255>>
Colour(w, x, y) == [c \in 1..3 |-> 3 * (y * w + x) + c]

data(w) ==
  [k \in 0..w * Height - 1 |->
     IF bm[k \div w] > 0 THEN Colour(w, k % w, k \div w) ELSE Blue]

File(w) == Saved(data(w), w, Height)

\* What a viewer shows of the saved file is the image that was to be computed, every
\* pixel at its place, whatever the width: the rows are padded as the format demands,
\* and those left blue are the bands, whole, of the threads that could not be created.
\* The function bitmap knows nothing of the padding: it reads a complete image as it
\* was exactly when no row follows any.
NotComputed(y) == \E t \in failed : y \in Band(Height, ThreadCount, t)

FileShowsImage ==
  saved => \A w \in Widths :
    /\ \A x \in 0..w-1, y \in Rows :
         BmpPixel(File(w), w, x, y) = IF NotComputed(y) THEN Blue ELSE Colour(w, x, y)
    /\ failed = {} =>
         (Loaded(File(w), w, Height) = data(w)) = (padlength(w) = 0 \/ Height <= 1)
=============================================================================
