-------------------------- MODULE MCFractalThread ---------------------------
\* Instances of FractalThread, whose last band has the rows left over, and of the
\* file it saves, with every length of the padding.
EXTENDS SavedImage
=============================================================================
