--------------------------- MODULE SharedSegment ----------------------------
(***************************************************************************)
(* The segment that several processes attach to                            *)
(* (lib/buffer/shared_segment.cc): how a name comes to denote a segment,   *)
(* how a segment is counted, found ready and removed with its last user,   *)
(* and how BufferManager::Initialize uses it.                              *)
(*                                                                         *)
(* A segment is a kernel object that outlives its name.  A timeout is a    *)
(* step that may be taken whenever the awaited condition does not hold.    *)
(***************************************************************************)
EXTENDS Integers, FiniteSets

CONSTANTS
  Processes, NoProcess,
  Segments, NoSegment,  \* the objects shm_open may ever create: numbers, and 0
  SlotCount,            \* kMaxProcesses
  kRemoving,            \* the attached count of a segment being removed
  Modes,                \* the SharedMemoryMode values in use
  Keepers               \* processes whose remove_when_unused is false

\* What the proofs need of the constants: kRemoving is no count of processes,
\* and the rest names things apart.
SegmentConstants ==
  /\ IsFiniteSet(Processes) /\ NoProcess \notin Processes
  /\ NoSegment \notin Segments
  /\ SlotCount \in Nat
  /\ kRemoving \in Int \ (0 .. Cardinality(Processes))

VARIABLES
  names,      \* the segment the name denotes
  seg,        \* the header of each segment
  proc,       \* what a process does, and with which segment
  removed     \* history: RemoveSharedMemory was called

segVars == <<names, seg, proc, removed>>

Fresh == [used |-> FALSE, ready |-> FALSE, attached |-> 0,
          slots |-> [i \in 1 .. SlotCount |-> NoProcess]]
Away == [at |-> "out", mode |-> "any", seg |-> NoSegment, created |-> FALSE, counted |-> FALSE, slot |-> 0]

Init ==
  /\ names = NoSegment /\ removed = FALSE
  /\ seg = [s \in Segments |-> Fresh]
  /\ proc = [p \in Processes |-> Away]

TypeOK ==
  /\ names \in Segments \cup {NoSegment} /\ removed \in BOOLEAN
  /\ \A s \in Segments : seg[s].attached \in 0 .. Cardinality(Processes) \cup {kRemoving}
  /\ \A p \in Processes : proc[p].seg \in Segments \cup {NoSegment} /\ proc[p].slot \in 0 .. SlotCount

At(p, l) == proc[p].at = l
Seg(p) == proc[p].seg
Goto(p, l) == proc' = [proc EXCEPT ![p].at = l]

-----------------------------------------------------------------------------
(* OpenOnce.                                                               *)

Opening(mode) == [Away EXCEPT !.at = IF mode = "attach" THEN "open" ELSE "create", !.mode = mode]

Start(p, mode) ==
  /\ At(p, "out")
  /\ proc' = [proc EXCEPT ![p] = Opening(mode)]
  /\ UNCHANGED <<names, seg, removed>>

\* shm_open with O_EXCL: creates the name, or finds it taken.
CreateExclusive(p) ==
  /\ At(p, "create") /\ UNCHANGED removed
  /\ \/ /\ names = NoSegment
        /\ \E s \in Segments :
             /\ ~seg[s].used /\ \A r \in Segments : r < s => seg[r].used
             /\ names' = s
             /\ seg' = [seg EXCEPT ![s].used = TRUE]
             /\ proc' = [proc EXCEPT ![p].at = "size", ![p].seg = s, ![p].created = TRUE]
     \/ /\ names # NoSegment
        /\ proc' = [proc EXCEPT ![p] = IF @.mode = "create" THEN Away ELSE [@ EXCEPT !.at = "open"]]
        /\ UNCHANGED <<names, seg>>

\* The second shm_open; the name may be gone again, which is kNotFound.
OpenExisting(p) ==
  /\ At(p, "open")
  /\ proc' = [proc EXCEPT ![p] = IF names = NoSegment THEN Away ELSE [@ EXCEPT !.at = "await", !.seg = names]]
  /\ UNCHANGED <<names, seg, removed>>

\* The creator sizes and maps the segment and writes its header, or fails and
\* removes the name.
SizeSegment(p) ==
  /\ At(p, "size") /\ UNCHANGED <<seg, removed>>
  /\ \/ Goto(p, "count") /\ UNCHANGED names
     \/ names' = NoSegment /\ proc' = [proc EXCEPT ![p] = Away]

\* An attacher waits for the size and for kReady, until a deadline, and gives
\* up on a segment of another layout, shape or replacer.
AwaitReady(p) ==
  /\ At(p, "await")
  /\ \/ seg[Seg(p)].ready /\ Goto(p, "count")
     \/ proc' = [proc EXCEPT ![p] = Away]
  /\ UNCHANGED <<names, seg, removed>>

\* A segment that is being removed is not joined: Open starts again, until it
\* gives up.
Count(p) ==
  LET s == Seg(p) IN
  /\ At(p, "count") /\ UNCHANGED <<names, removed>>
  /\ \/ /\ seg[s].attached # kRemoving
        /\ seg' = [seg EXCEPT ![s].attached = @ + 1]
        /\ proc' = [proc EXCEPT ![p].at = "claim", ![p].counted = TRUE, ![p].mode = "any"]
     \/ /\ seg[s].attached = kRemoving
        /\ \/ proc' = [proc EXCEPT ![p] = Opening(@.mode)]
           \/ proc' = [proc EXCEPT ![p] = Away]
        /\ UNCHANGED seg

FreeSlots(p) == {i \in 1 .. SlotCount : seg[Seg(p)].slots[i] = NoProcess}
TakeSlot(p, i) ==
  /\ seg' = [seg EXCEPT ![Seg(p)].slots[i] = p]
  /\ proc' = [proc EXCEPT ![p].at = IF proc[p].created THEN "fill" ELSE "user", ![p].slot = i]

\* Mutants of ClaimProcessSlot: the slot is stored without CAS; a failed open
\* is not taken back.
ClaimBlindly(p) == At(p, "claim") /\ TakeSlot(p, 1) /\ UNCHANGED <<names, removed>>
ClaimOrVanish(p) ==
  /\ At(p, "claim") /\ UNCHANGED <<names, removed>>
  /\ \/ \E i \in FreeSlots(p) : TakeSlot(p, i)
     \/ FreeSlots(p) = {} /\ proc' = [proc EXCEPT ![p] = Away] /\ UNCHANGED seg

\* The first free slot, by CAS; without one the open fails.
ClaimProcessSlot(p) ==
  /\ At(p, "claim") /\ UNCHANGED <<names, removed>>
  /\ \/ \E i \in FreeSlots(p) : (\A j \in FreeSlots(p) : i <= j) /\ TakeSlot(p, i)
     \/ FreeSlots(p) = {} /\ Goto(p, "leave") /\ UNCHANGED seg

\* InitializeKernelMemory builds the pool in a new segment, or fails.
MarkReady(p) ==
  /\ At(p, "fill") /\ UNCHANGED <<names, removed>>
  /\ \/ seg' = [seg EXCEPT ![Seg(p)].ready = TRUE] /\ Goto(p, "user")
     \/ Goto(p, "leave") /\ UNCHANGED seg

-----------------------------------------------------------------------------
(* ~SharedSegment.                                                         *)

Leave(p) == At(p, "user") /\ Goto(p, "leave") /\ UNCHANGED <<names, seg, removed>>

FreeSlot(p) ==
  /\ At(p, "leave")
  /\ seg' = [seg EXCEPT ![Seg(p)].slots = [i \in 1 .. SlotCount |-> IF i = proc[p].slot THEN NoProcess ELSE @[i]]]
  /\ proc' = [proc EXCEPT ![p].at = "uncount", ![p].slot = 0]
  /\ UNCHANGED <<names, removed>>

\* Only the last user tries to remove, and a creator that never got ready.
Uncount(p) ==
  LET s == Seg(p)
      last == seg[s].attached = 1 /\ p \notin Keepers
      neverReady == proc[p].created /\ ~seg[s].ready
  IN /\ At(p, "uncount")
     /\ seg' = [seg EXCEPT ![s].attached = @ - 1]
     /\ proc' = [proc EXCEPT ![p] = IF last \/ neverReady
                                    THEN [@ EXCEPT !.counted = FALSE, !.at = IF last THEN "seal" ELSE "unlink"]
                                    ELSE Away]
     /\ UNCHANGED <<names, removed>>

\* Mutant of Seal: the name is removed although somebody attached.
SealAlways(p) ==
  /\ At(p, "seal") /\ UNCHANGED <<names, removed, seg>>
  /\ Goto(p, "unlink")

\* CAS of the attached count from 0: fails if somebody attached meanwhile.
Seal(p) ==
  /\ At(p, "seal") /\ UNCHANGED <<names, removed>>
  /\ IF seg[Seg(p)].attached = 0
       THEN seg' = [seg EXCEPT ![Seg(p)].attached = kRemoving] /\ Goto(p, "unlink")
       ELSE proc' = [proc EXCEPT ![p] = Away] /\ UNCHANGED seg

\* shm_unlink takes a name, whatever segment the name denotes by now.
Unlink(p) ==
  /\ At(p, "unlink")
  /\ names' = NoSegment
  /\ proc' = [proc EXCEPT ![p] = Away]
  /\ UNCHANGED <<seg, removed>>

\* RemoveSharedMemory, at any time: "Processes still attached keep using it."
Remove ==
  /\ names # NoSegment
  /\ names' = NoSegment /\ removed' = TRUE
  /\ UNCHANGED <<seg, proc>>

Next ==
  \/ Remove
  \/ \E p \in Processes :
       \/ \E mode \in Modes : Start(p, mode)
       \/ CreateExclusive(p) \/ OpenExisting(p) \/ SizeSegment(p) \/ AwaitReady(p)
       \/ Count(p) \/ ClaimProcessSlot(p) \/ MarkReady(p)
       \/ Leave(p) \/ FreeSlot(p) \/ Uncount(p) \/ Seal(p) \/ Unlink(p)

Spec == Init /\ [][Next]_segVars

-----------------------------------------------------------------------------
\* As long as nobody removes the name by hand, all processes that use the
\* segment use the same one, and the name denotes it: no open can create a
\* second cache beside one that is in use.
OneCache ==
  ~removed => \A p \in Processes : At(p, "user") => names = Seg(p)

\* The attached count is the number of processes that count themselves, so
\* that a segment is sealed with its last user and never before.
AttachedExact ==
  \A s \in Segments :
    LET users == {p \in Processes : proc[p].seg = s /\ proc[p].counted} IN
    seg[s].attached \in IF users = {} THEN {0, kRemoving} ELSE {Cardinality(users)}

\* A removed segment has no users, and nobody uses a segment before its
\* creator has built the pool in it.
UsersFindAPool ==
  \A p \in Processes : At(p, "user") =>
    seg[Seg(p)].ready /\ seg[Seg(p)].attached # kRemoving

\* Every process that uses a segment has a slot of its own there.
SlotsOwned ==
  \A p \in Processes : At(p, "user") => seg[Seg(p)].slots[proc[p].slot] = p

=============================================================================
