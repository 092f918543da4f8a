----------------------------- MODULE FrameSleep -----------------------------
(***************************************************************************)
(* How threads sleep on a frame's control word and how they are woken      *)
(* (frame_control.h: WaitWhile and UpdateAndWake, over the futex of        *)
(* lib/sync/futex.h).                                                      *)
(*                                                                         *)
(* One frame.  The waiters bit of its word is the variable `waiters`; the  *)
(* rest of the word is FrameControl's record.  A thread that has to wait   *)
(* sets the bit with a CAS and sleeps only while the word still has the    *)
(* value it saw.  A transition that finds the bit set clears it in its own *)
(* CAS and calls FutexWakeAll in a second step.                            *)
(***************************************************************************)
EXTENDS FrameControl

CONSTANTS
  Threads,
  Tags,
  Ops(_)    \* the calls that a thread makes

SleepOps == {"share", "excl", "flush", "load", "wait", "drop"}

\* What a thread can wait for: a shared latch, no latch holder at all, the end
\* of a writeback, the end of a load.
Conditions == {"shared", "latch", "writeback", "load"}

VARIABLES control, waiters, tag, th

vars == <<control, waiters, tag, th>>

\* seen and bit: the word WaitWhile last read.  on: the condition it waits for.
\* back: where the call goes on after the wait, or after the wake it owes.
IdleThread ==
  [pc |-> "idle", op |-> "share", want |-> CHOOSE k \in Tags : TRUE,
   seen |-> FreeWord, bit |-> FALSE, on |-> "shared", back |-> "idle"]

Init ==
  /\ control = FreeWord
  /\ waiters = FALSE
  /\ tag \in Tags
  /\ th = [t \in Threads |-> IdleThread]

At(t, l) == th[t].pc = l

WaitPlaces == {"ww", "state", "tag", "cas", "sleep", "asleep"}

\* A call that goes on at l.  What it remembers of a wait ends with the wait,
\* and a word it saw is used no more once it slept.
GoneTo(r, l) ==
  CASE l = "idle" -> IdleThread
    [] l \in {"ww", "asleep"} -> [r EXCEPT !.pc = l, !.seen = FreeWord, !.bit = FALSE]
    [] l \in WaitPlaces \ {"ww", "asleep"} -> [r EXCEPT !.pc = l]
    [] OTHER -> [IdleThread EXCEPT !.pc = l, !.op = r.op, !.want = r.want]
Goto(t, l) == th' = [th EXCEPT ![t] = GoneTo(@, l)]

-----------------------------------------------------------------------------
(* WaitWhile and UpdateAndWake.                                            *)

\* The conditions that are a function of the word WaitWhile read.
Blocks(c, w) ==
  CASE c = "shared" -> w.exclusive \/ w.shared >= MaxShared
    [] c = "latch" -> Latched(w)
    [] c = "writeback" -> HasWriteback(w)

\* WaitWhile has read the word w with waiters bit b.  WaitForLoad ignores the
\* word it is given: it reads the state and the tag again.
Judge(t, w, b) ==
  LET blocked == IF b THEN "sleep" ELSE "cas"
      place == IF th[t].on = "load" THEN "state"
               ELSE IF Blocks(th[t].on, w) THEN blocked ELSE th[t].back
  IN th' = [th EXCEPT ![t] = GoneTo([@ EXCEPT !.seen = w, !.bit = b], place)]

WaitLoad(t) ==
  /\ At(t, "ww")
  /\ Judge(t, control, waiters)
  /\ UNCHANGED <<control, waiters, tag>>

\* IsLoadingTag, in its two reads.
IsLoadingState(t) ==
  /\ At(t, "state")
  /\ Goto(t, IF control.state = "Loading" THEN "tag" ELSE th[t].back)
  /\ UNCHANGED <<control, waiters, tag>>

IsLoadingTag(t) ==
  /\ At(t, "tag")
  /\ Goto(t, IF tag # th[t].want THEN th[t].back ELSE IF th[t].bit THEN "sleep" ELSE "cas")
  /\ UNCHANGED <<control, waiters, tag>>

\* compare_exchange(word, word | kWaiters): a failure reads the word again.
SetWaiters(t) ==
  /\ At(t, "cas")
  /\ IF control = th[t].seen /\ ~waiters
       THEN waiters' = TRUE /\ Goto(t, "sleep")
       ELSE Judge(t, control, waiters) /\ UNCHANGED waiters
  /\ UNCHANGED <<control, tag>>

\* The kernel compares the word with the one WaitWhile saw, bit included.
FutexWait(t) ==
  /\ At(t, "sleep")
  /\ Goto(t, IF control = th[t].seen /\ waiters THEN "asleep" ELSE "ww")
  /\ UNCHANGED <<control, waiters, tag>>

\* The CAS of UpdateAndWake clears the bit if it is going to wake.
UpdateAndWake(t, w, wakes, l) ==
  /\ control' = w
  /\ IF waiters /\ wakes
       THEN waiters' = FALSE /\ th' = [th EXCEPT ![t].pc = "wake", ![t].back = l]
       ELSE UNCHANGED waiters /\ Goto(t, l)
  /\ UNCHANGED tag

FutexWakeAll(t) ==
  /\ At(t, "wake")
  /\ th' = [u \in Threads |->
              IF u = t THEN GoneTo(th[t], th[t].back)
              ELSE IF At(u, "asleep") THEN GoneTo(th[u], "ww") ELSE th[u]]
  /\ UNCHANGED <<control, waiters, tag>>

\* A CAS that never wakes leaves the bit alone.
Update(t, w, l) == control' = w /\ Goto(t, l) /\ UNCHANGED <<waiters, tag>>

Stay(t, l) == Goto(t, l) /\ UNCHANGED <<control, waiters, tag>>

WaitFor(t, c, l) ==
  /\ th' = [th EXCEPT ![t].pc = "ww", ![t].on = c, ![t].back = l]
  /\ UNCHANGED <<control, waiters, tag>>

-----------------------------------------------------------------------------
(* The calls.  A writer and a drop pin the page first; a flusher takes the *)
(* shared latch of any frame.                                              *)

\* A load waiter was sent here by ProbeResident, which saw the load.
Start(t, o, k) ==
  /\ At(t, "idle")
  /\ o = "wait" => control.state = "Loading" /\ tag = k
  /\ th' = [th EXCEPT ![t].op = o, ![t].want = k,
       ![t].on = IF o = "wait" THEN "load" ELSE @,
       ![t].pc = CASE o = "share" -> "try" [] o = "flush" -> "queue"
                   [] o = "load" -> "reserve" [] o = "wait" -> "ww" [] OTHER -> "pin"]
  /\ UNCHANGED <<control, waiters, tag>>

TryPinResident(t) ==
  /\ At(t, "pin")
  /\ IF CanPinResident(control)
       THEN Update(t, Pinned(control), IF th[t].op = "drop" THEN "discard" ELSE "try")
       ELSE Stay(t, "idle")

Unpin(t) ==
  /\ th[t].pc \in {"unpin", "dropunpin"}
  /\ Update(t, Unpinned(control), IF At(t, "unpin") THEN "idle" ELSE "dropwait")

\* AcquireShared and AcquireExclusive: wait after a failed try, and try again.
AcquireShared(t) ==
  /\ At(t, "try") /\ th[t].op = "share"
  /\ IF CanAcquireShared(control) THEN Update(t, AcquiredShared(control), "held")
                                  ELSE WaitFor(t, "shared", "try")

AcquireExclusive(t) ==
  /\ At(t, "try") /\ th[t].op = "excl"
  /\ IF CanAcquireExclusive(control) THEN Update(t, AcquiredExclusive(control), "held")
                                     ELSE WaitFor(t, "latch", "try")

MarkDirty(t) ==
  /\ At(t, "held") /\ th[t].op = "excl"
  /\ Update(t, MarkedDirty(control), "held")

\* Mutant of ReleaseSharedWakes: a reader that leaves a full latch is silent.
LastReaderWakes(w) == ReleasedShared(w).shared = 0

\* The last reader wakes, and so does one that leaves a full latch.
ReleaseSharedWakes(w) == ReleasedShared(w).shared = 0 \/ w.shared = MaxShared

ReleaseShared(t) ==
  /\ At(t, "held") /\ th[t].op = "share"
  /\ UpdateAndWake(t, ReleasedShared(control), ReleaseSharedWakes(control), "idle")

ReleaseExclusive(t) ==
  /\ At(t, "held") /\ th[t].op = "excl"
  /\ UpdateAndWake(t, ReleasedExclusive(control), TRUE, "unpin")

\* PrepareFlushTask: queue a writeback, or wait for the pending one.
TryQueueWriteback(t) ==
  LET outcome == QueueOutcome(control, FALSE) IN
  /\ At(t, "queue")
  /\ CASE outcome = "Queued" -> Update(t, QueuedWriteback(control), "begin")
       [] outcome = "Pending" -> WaitFor(t, "writeback", "queue")
       [] OTHER -> Stay(t, "idle")

BeginWriteback(t) ==
  /\ At(t, "begin")
  /\ UpdateAndWake(t, BegunWriteback(control), FALSE, "complete")

CancelQueuedWriteback(t) ==
  /\ At(t, "begin")
  /\ UpdateAndWake(t, CancelledWriteback(control), TRUE, "idle")

CompleteWriteback(t) ==
  /\ At(t, "complete")
  /\ \E ok \in BOOLEAN : UpdateAndWake(t, CompletedWriteback(control, ok), TRUE, "idle")

\* A load claims the frame, popped from the free list or nominated as victim.
TryReserve(t) ==
  /\ At(t, "reserve")
  /\ IF ReserveOutcome(control, TRUE) = "Reserved"
       THEN Update(t, ReservedWord, "storetag") ELSE Stay(t, "idle")

StoreTag(t) ==
  /\ At(t, "storetag")
  /\ tag' = th[t].want
  /\ Goto(t, "publish")
  /\ UNCHANGED <<control, waiters>>

PublishResident(t) ==
  /\ At(t, "publish")
  /\ \E releasePin \in BOOLEAN :
       UpdateAndWake(t, PublishedResident(control, releasePin), TRUE,
                     IF releasePin THEN "idle" ELSE "unpin")

ReleaseToFree(t) ==
  /\ At(t, "publish")
  /\ UpdateAndWake(t, ReleasedToFree(control), TRUE, "idle")

\* DropFileBuffers with the frame pinned: discard it, or wait without giving
\* up (the retry is a new call here).
TryDiscardPinned(t) ==
  LET outcome == DiscardOutcome(control) IN
  /\ At(t, "discard")
  /\ CASE outcome = "Discarded" -> UpdateAndWake(t, FreeWord, TRUE, "idle")
       [] outcome = "Writeback" -> Stay(t, "dropunpin")
       [] outcome = "Latched" -> WaitFor(t, "latch", "unpin")
       [] outcome = "Busy" -> Stay(t, "unpin")

DropWaitWriteback(t) ==
  /\ At(t, "dropwait")
  /\ WaitFor(t, "writeback", "idle")

-----------------------------------------------------------------------------
Run(t) ==
  \/ WaitLoad(t) \/ IsLoadingState(t) \/ IsLoadingTag(t) \/ SetWaiters(t)
  \/ FutexWait(t) \/ FutexWakeAll(t) \/ TryPinResident(t) \/ Unpin(t)
  \/ AcquireShared(t) \/ AcquireExclusive(t) \/ ReleaseShared(t) \/ ReleaseExclusive(t)
  \/ TryQueueWriteback(t) \/ BeginWriteback(t) \/ CancelQueuedWriteback(t)
  \/ CompleteWriteback(t) \/ TryReserve(t) \/ StoreTag(t) \/ PublishResident(t)
  \/ ReleaseToFree(t) \/ TryDiscardPinned(t) \/ DropWaitWriteback(t)

Next == \E t \in Threads :
  Run(t) \/ MarkDirty(t) \/ (\E o \in Ops(t), k \in Tags : Start(t, o, k))

Spec == Init /\ [][Next]_vars

-----------------------------------------------------------------------------
(* What must hold.                                                         *)

Places ==
  {"idle", "ww", "state", "tag", "cas", "sleep", "asleep", "wake", "pin", "unpin",
   "try", "held", "queue", "begin", "complete", "reserve", "storetag", "publish",
   "discard", "dropunpin", "dropwait"}

\* Every variable keeps its type.
TypeOK ==
  /\ control \in ControlWord
  /\ waiters \in BOOLEAN
  /\ tag \in Tags
  /\ th \in [Threads -> [pc : Places, op : SleepOps, want : Tags, seen : ControlWord,
                         bit : BOOLEAN, on : Conditions, back : Places]]

Woken == \E u \in Threads : At(u, "wake")

\* No latch or writeback wait is lost (docs/concurrency.md 3): a thread asleep
\* on the word still has a reason to be, and the bit that will wake it is set,
\* or a wake is on its way.
NoLostWakeup ==
  \A t \in Threads :
    At(t, "asleep") /\ th[t].on # "load" => Woken \/ (waiters /\ Blocks(th[t].on, control))

\* What docs/concurrency.md 5.5 says of WaitForLoad: a reader sleeps on a frame
\* that loads until the state changes, so the frame of a sleeper is Loading and
\* the end of that load will wake it, or a wake is on its way.
LoadWaitersWoken ==
  \A t \in Threads :
    At(t, "asleep") /\ th[t].on = "load" => Woken \/ (waiters /\ control.state = "Loading")

=============================================================================
