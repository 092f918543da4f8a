---------------------------- MODULE MCFrameSleep ----------------------------
(* FrameSleep for TLC: threads that load pages and wait for loads. *)
EXTENDS FrameSleep, TLC

LoadOps(t) == {"load", "wait"}

Symmetry == Permutations(Threads)

=============================================================================
