---------------------------- MODULE MCBufferPool ----------------------------
(* Instances of BufferPool for TLC.                                         *)
EXTENDS BufferPoolLife, TLC

Symmetry ==
  Permutations(Threads) \cup Permutations(Frames) \cup Permutations(Contents)

=============================================================================
