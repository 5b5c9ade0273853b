--------------------------- MODULE MCBufferCache ----------------------------
EXTENDS BufferCache, TLC

Symmetry == Permutations(Slots)
=============================================================================
