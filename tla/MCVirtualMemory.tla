-------------------------- MODULE MCVirtualMemory ---------------------------
\* Instances of VirtualMemory.
EXTENDS VirtualMemory
=============================================================================
