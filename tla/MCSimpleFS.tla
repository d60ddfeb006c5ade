---------------------------- MODULE MCSimpleFS ------------------------------
\* Instances of SimpleFS: a buffer is one block less than the direct blocks of an
\* inode, as in the code, and files of one byte, of a second buffer, and with
\* blocks behind the direct ones.
EXTENDS SimpleFS
=============================================================================
