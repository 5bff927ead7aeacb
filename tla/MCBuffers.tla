----------------------------- MODULE MCBuffers -----------------------------
EXTENDS Buffers, TLC

Identical == Permutations(Objs) \cup Permutations(Storages)
=============================================================================
