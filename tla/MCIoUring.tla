----------------------------- MODULE MCIoUring -----------------------------
(* IoUring for TLC: one read, and two threads that reap the ring it is on. *)
EXTENDS Integers, Sequences

VARIABLES context, caller, reaper, ring, backend, kernel

OneRead(s) == <<1>>
OneRing(x) == 1
OneFile(r) == 1
Read(r) == "read"

INSTANCE IoUring WITH
  Submitters <- {1}, BatchOf <- OneRead, Reapers <- {3, 4}, RingOf <- OneRing,
  FileOf <- OneFile, KindOf <- Read, Units <- 2, MaxOpenFiles <- 1

=============================================================================
