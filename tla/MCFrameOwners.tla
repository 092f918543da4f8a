---------------------------- MODULE MCFrameOwners ----------------------------
(***************************************************************************)
(* BufferPool with three threads at one frame, for TLC: in a behaviour,    *)
(* they make the calls that compete for the frame with two pages, or the   *)
(* calls that write one page and write it back.                            *)
(***************************************************************************)
EXTENDS BufferPoolLife, TLC

VARIABLE part

ownerVars == <<vars, part>>

Symmetry == Permutations(Threads)

Owning == {"read", "prefetch", "drop"}
Writing == {"write", "flush", "flushall", "clean"}

OwnersInit == Init /\ part \in {"owners", "writers"}

OwnersNext ==
  /\ Next /\ part' = part
  /\ \A t \in Threads :
       \/ th'[t].op = "none"
       \/ part = "owners" /\ th'[t].op \in Owning
       \/ part = "writers" /\ th'[t].op \in Writing /\ th'[t].want \in {DefaultTag, NoTag}

OwnersSpec == OwnersInit /\ [][OwnersNext]_ownerVars

=============================================================================
