---------------------------- MODULE MCPageCache ----------------------------
(* PageCache for TLC: a writer and a thread that syncs. *)
EXTENDS Integers

VARIABLES file, ahead, page, disk, call, ref

WriteAndSync(t) == IF t = 1 THEN {<<"write", 1, 3>>} ELSE {<<"sync", 0, 0>>}

INSTANCE PageCache WITH
  Threads <- {1, 2}, Nobody <- 0, Lost <- 9, BlockSize <- 2, MaxSize <- 4,
  OpsOf <- WriteAndSync, InitialReadaheadBlocks <- 1, MaxReadaheadBlocks <- 1,
  SyncsRace <- TRUE

=============================================================================
