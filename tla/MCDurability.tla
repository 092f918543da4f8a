---------------------------- MODULE MCDurability ----------------------------
(* Durability for TLC: threads of one process that make every call. *)
EXTENDS Durability, TLC

EveryCall(t) == {"flush", "flushall", "syncfile"}

Symmetry == Permutations(Threads)

=============================================================================
