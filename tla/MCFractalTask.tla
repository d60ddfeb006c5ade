--------------------------- MODULE MCFractalTask ----------------------------
\* Instances of FractalTask: at least three threads, so that two can wait for
\* the mutex when the list becomes empty, and bands of different sizes.
EXTENDS FractalTask
=============================================================================
