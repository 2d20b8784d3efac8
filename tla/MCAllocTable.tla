---------------------------- MODULE MCAllocTable ----------------------------
EXTENDS AllocTable
=============================================================================
