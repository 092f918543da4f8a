---------------------------- MODULE FrameControl ----------------------------
(***************************************************************************)
(* The per-frame control word (lib/buffer/frame_control.h).                *)
(*                                                                         *)
(* Every transition of the word is one compare-and-swap in the code, so it *)
(* is one operator here: a guard or an outcome computed from the word that *)
(* was read, and the word the CAS installs.  The word is a record; the     *)
(* waiters bit belongs to the sleeping protocol and is modelled apart (a   *)
(* blocked thread is simply not enabled here), and the prefetched bit is   *)
(* never set by the code.                                                  *)
(***************************************************************************)
EXTENDS Naturals

CONSTANTS
  MaxPins,      \* kMaxPins, 32767 in the code
  MaxShared     \* kMaxShared, 255 in the code

ASSUME FrameControlBounds == MaxPins \in Nat \ {0} /\ MaxShared \in Nat \ {0}

States == {"Free", "Loading", "Resident"}

ControlWord ==
  [state : States, dirty : BOOLEAN, queued : BOOLEAN, active : BOOLEAN,
   redirtied : BOOLEAN, exclusive : BOOLEAN, shared : 0 .. MaxShared,
   pins : 0 .. MaxPins]

\* The word of a frame that has never been used.
FreeWord ==
  [state |-> "Free", dirty |-> FALSE, queued |-> FALSE, active |-> FALSE,
   redirtied |-> FALSE, exclusive |-> FALSE, shared |-> 0, pins |-> 0]

IsResident(w) == w.state = "Resident"
HasWriteback(w) == w.queued \/ w.active
Latched(w) == w.exclusive \/ w.shared > 0

\* FrameEvictionProbe::IsEvictable: what the replacer may nominate.
IsEvictable(w) == IsResident(w) /\ w.pins = 0 /\ ~Latched(w) /\ ~HasWriteback(w)

-----------------------------------------------------------------------------
(* Pins.  A pin at the limit makes the caller yield and retry.             *)

\* Mutant of CanPinResident: pins a frame in any state.
PinsAnyState(w) == w.pins < MaxPins

CanPinResident(w) == IsResident(w) /\ w.pins < MaxPins
Pinned(w) == [w EXCEPT !.pins = @ + 1]

\* Unpin: an underflow leaves the word alone.
Unpinned(w) == IF w.pins = 0 THEN w ELSE [w EXCEPT !.pins = @ - 1]

-----------------------------------------------------------------------------
(* Reservation, publication and release.                                   *)

\* Mutant of ReserveOutcome: a nomination may claim a free frame.
ReservesAnyFree(w, popped) ==
  IF w.state = "Loading" \/ w.pins # 0 \/ Latched(w) \/ HasWriteback(w) THEN "Rejected"
  ELSE IF IsResident(w) /\ w.dirty THEN "NeedsFlush" ELSE "Reserved"

ReserveOutcome(w, popped) ==
  IF \/ w.state = "Loading"
     \/ w.state = "Free" /\ ~popped
     \/ w.pins # 0 \/ Latched(w) \/ HasWriteback(w)
    THEN "Rejected"
    ELSE IF IsResident(w) /\ w.dirty THEN "NeedsFlush" ELSE "Reserved"

\* Mutant of ReservedWord: the loader's pin is forgotten.
ReservedUnpinned == [FreeWord EXCEPT !.state = "Loading"]

ReservedWord == [FreeWord EXCEPT !.state = "Loading", !.pins = 1]

\* Loading -> Resident; a prefetch drops the loader's pin in the same CAS.
PublishedResident(w, releasePin) ==
  [w EXCEPT !.state = "Resident", !.pins = IF releasePin THEN @ - 1 ELSE @]

\* Loading -> Free; only the latch holders survive.
ReleasedToFree(w) ==
  [FreeWord EXCEPT !.exclusive = w.exclusive, !.shared = w.shared]

\* Mutant of DiscardOutcome: other pins do not matter.
DiscardsPinned(w) ==
  IF HasWriteback(w) THEN "Writeback"
  ELSE IF ~IsResident(w) THEN "Busy"
  ELSE IF Latched(w) THEN "Latched" ELSE "Discarded"

DiscardOutcome(w) ==
  IF HasWriteback(w) THEN "Writeback"
  ELSE IF ~IsResident(w) \/ w.pins # 1 THEN "Busy"
  ELSE IF Latched(w) THEN "Latched" ELSE "Discarded"

-----------------------------------------------------------------------------
(* Content latch.                                                          *)

CanAcquireShared(w) == ~w.exclusive /\ w.shared < MaxShared
AcquiredShared(w) == [w EXCEPT !.shared = @ + 1]
ReleasedShared(w) == [w EXCEPT !.shared = @ - 1]

\* Mutant of CanAcquireExclusive: readers do not exclude a writer.
ExcludesWritersOnly(w) == ~w.exclusive

CanAcquireExclusive(w) == ~Latched(w)
AcquiredExclusive(w) == [w EXCEPT !.exclusive = TRUE]

\* A writer that leaves during a writeback keeps the page dirty after it.
ReleasedExclusive(w) ==
  [w EXCEPT !.exclusive = FALSE, !.redirtied = @ \/ HasWriteback(w)]

-----------------------------------------------------------------------------
(* Dirtiness and writeback.                                                *)

MarkedDirty(w) ==
  IF IsResident(w)
    THEN [w EXCEPT !.dirty = TRUE, !.redirtied = @ \/ HasWriteback(w)]
    ELSE w

\* Mutant of QueueOutcome: queues over a writeback that has begun.
QueuesOverActive(w, skipIfPinned) ==
  IF w.queued THEN "Pending"
  ELSE IF ~IsResident(w) \/ ~w.dirty THEN "NotDirty"
  ELSE IF skipIfPinned /\ w.pins # 0 THEN "Pinned" ELSE "Queued"

QueueOutcome(w, skipIfPinned) ==
  IF HasWriteback(w) THEN "Pending"
  ELSE IF ~IsResident(w) \/ ~w.dirty THEN "NotDirty"
  ELSE IF skipIfPinned /\ w.pins # 0 THEN "Pinned" ELSE "Queued"

QueuedWriteback(w) == [w EXCEPT !.queued = TRUE, !.redirtied = FALSE]
BegunWriteback(w) == [w EXCEPT !.queued = FALSE, !.active = TRUE]
CancelledWriteback(w) == [w EXCEPT !.queued = FALSE, !.redirtied = FALSE]

\* Mutant of ClearsDirty: forgets that the page was dirtied again.
ClearsRedirtied(w, succeeded) == succeeded /\ IsResident(w) /\ w.dirty /\ ~w.exclusive

ClearsDirty(w, succeeded) ==
  succeeded /\ IsResident(w) /\ w.dirty /\ ~w.redirtied /\ ~w.exclusive

\* Mutant of CompletedWriteback: a failed writeback stays active.
FailureStaysActive(w, succeeded) ==
  [w EXCEPT !.queued = FALSE, !.active = ~succeeded, !.redirtied = FALSE,
            !.dirty = @ /\ ~ClearsDirty(w, succeeded)]

CompletedWriteback(w, succeeded) ==
  [w EXCEPT !.queued = FALSE, !.active = FALSE, !.redirtied = FALSE,
            !.dirty = @ /\ ~ClearsDirty(w, succeeded)]

=============================================================================
