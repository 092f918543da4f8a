----------------------------- MODULE BufferPool -----------------------------
(***************************************************************************)
(* The kernel of the TelePath buffer manager: lookups, misses, eviction,   *)
(* page loads, handles, writeback and dropped pages, run by concurrent     *)
(* threads over shared frames (lib/buffer/buffer_manager_*.cc).            *)
(*                                                                         *)
(* A thread runs one call at a time.  Every atomic access of the code to   *)
(* state that threads share is one action, named after the function that   *)
(* makes it; what a thread does between two such accesses is local and     *)
(* belongs to the action before it.  th[t].pc is the place in the call.    *)
(***************************************************************************)
EXTENDS FrameControl, Integers, FiniteSets

CONSTANTS
  Threads,      \* threads that call the buffer manager, or run its tasks
  Frames,       \* frame ids, 0 .. pool_size - 1
  Tags,         \* page identities (file id, block id)
  DefaultTag,   \* BufferTag{}: file 0, block 0, which is also a valid page
  Contents,     \* what clients write to a page
  Zero,         \* the contents of a zero-filled page
  Torn,         \* the contents left by a failed transfer
  NoTag, NoFrame,
  Ops           \* the calls that the threads of an instance make

AllOps == {"read", "write", "zero", "prefetch", "flush", "flushall", "clean", "drop"}

ASSUME PoolConstants ==
  /\ DefaultTag \in Tags /\ NoTag \notin Tags /\ NoFrame \notin Frames
  /\ Zero \notin Contents /\ Torn \notin Contents /\ Zero # Torn
  /\ Ops \subseteq AllOps /\ Contents # {} /\ IsFiniteSet(Threads) /\ IsFiniteSet(Frames)

VARIABLES
  control,      \* descriptors_[f].control
  tag,          \* descriptors_[f].tag_file_id, tag_block_id
  wbError,      \* descriptors_[f].last_writeback_error # 0
  key,          \* page table: the key frame f is linked under, or NoTag
  behind,       \* page table: the frames behind f in the chain of its key
  free,         \* frames on the free list
  data,         \* frame memory
  disk,         \* the backing store
  dirtyCount,   \* dirty_page_count_
  latest,       \* history: the contents the last client write gave a page
  th            \* the calls in progress

frameVars == <<control, tag, wbError>>
tableVars == <<key, behind>>
contentVars == <<data, disk, latest>>
vars == <<control, tag, wbError, key, behind, free, data, disk, dirtyCount,
          latest, th>>

Content == Contents \cup {Zero, Torn}

\* BufferManagerFlushTask: the tag and the snapshot of a writeback.
NoTask == [tag |-> NoTag, data |-> Torn]

IdleThread ==
  [pc |-> "idle", op |-> "none", want |-> NoTag, frame |-> NoFrame,
   from |-> "none", evicted |-> NoTag, mode |-> "none", task |-> NoTask,
   ret |-> "idle", scanned |-> {}]

Init ==
  /\ control = [f \in Frames |-> FreeWord]
  /\ tag = [f \in Frames |-> DefaultTag]
  /\ wbError = [f \in Frames |-> FALSE]
  /\ key = [f \in Frames |-> NoTag]
  /\ behind = [f \in Frames |-> {}]
  /\ free = Frames
  /\ disk \in [Tags -> Contents]
  /\ data = [f \in Frames |-> Zero]
  /\ dirtyCount = 0
  /\ latest = disk
  /\ th = [t \in Threads |-> IdleThread]

-----------------------------------------------------------------------------
(* Control flow of a call.                                                 *)

At(t, l) == th[t].pc = l
F(t) == th[t].frame
W(t) == control[th[t].frame]

Goto(t, l) == th' = [th EXCEPT ![t].pc = l]

\* Leaves a subroutine for place l; a retry forgets the attempt before it,
\* and a call that returns forgets everything.
Continued(r, l) ==
  CASE l = "idle" -> IdleThread
    [] l \in {"lookup", "miss", "acquire"} ->
         [IdleThread EXCEPT !.pc = l, !.op = r.op, !.want = r.want]
    [] OTHER ->
         [r EXCEPT !.pc = l, !.ret = "idle", !.mode = "none", !.task = NoTask]

Continue(t, l) == th' = [th EXCEPT ![t] = Continued(@, l)]

SetControl(t, w) == control' = [control EXCEPT ![F(t)] = w]

\* Where a call goes when the frame it found does not hold its page.
NotPinned(o) ==
  CASE o = "flush" -> "idle" [] o = "drop" -> "dscan" [] OTHER -> "isloading"

-----------------------------------------------------------------------------
(* Starting a call.                                                        *)

\* ReadBuffer, ReadBufferExclusive (both modes), PrefetchBuffer of a block and
\* FlushBuffer(file, block) start from the page they want.
StartPage(t, o, k) ==
  /\ At(t, "idle") /\ o \in Ops \cap {"read", "write", "zero", "prefetch", "flush"}
  /\ th' = [th EXCEPT ![t] = [IdleThread EXCEPT
              !.pc = IF o = "prefetch" THEN "peek" ELSE "lookup", !.op = o, !.want = k]]
  /\ UNCHANGED <<frameVars, tableVars, contentVars, free, dirtyCount>>

\* One frame of WriteBackFrames, or one candidate of the background cleaner.
StartSweep(t, o, f) ==
  /\ At(t, "idle") /\ o \in Ops \cap {"flushall", "clean"}
  /\ th' = [th EXCEPT ![t] = [IdleThread EXCEPT
              !.pc = "flush", !.op = o, !.frame = f,
              !.mode = IF o = "clean" THEN "clean" ELSE "try"]]
  /\ UNCHANGED <<frameVars, tableVars, contentVars, free, dirtyCount>>

\* One frame of DropFileBuffers, for a range that holds the page k.
StartDrop(t, f, k) ==
  /\ At(t, "idle") /\ "drop" \in Ops
  /\ th' = [th EXCEPT ![t] = [IdleThread EXCEPT
              !.pc = "dscan", !.op = "drop", !.frame = f, !.want = k]]
  /\ UNCHANGED <<frameVars, tableVars, contentVars, free, dirtyCount>>

-----------------------------------------------------------------------------
(* Page table.  Frames are the chain nodes: a frame is linked under one    *)
(* key, new links go to the head, and two frames can carry one key.        *)

Linked(k) == {f \in Frames : key[f] = k}

\* BufferManagerPageTable::LookupFrameId: the newest frame linked under k.
LookupFrameId(k) == {f \in Linked(k) : \A g \in Linked(k) : f \notin behind[g]}

Unlink(f) ==
  /\ key' = [key EXCEPT ![f] = NoTag]
  /\ behind' = [g \in Frames |-> IF g = f THEN {} ELSE behind[g] \ {f}]

\* Unlinks f from its chain, if any, and links it at the head of k's.
Relink(f, k) ==
  /\ key' = [key EXCEPT ![f] = k]
  /\ behind' = [g \in Frames |-> IF g = f THEN Linked(k) \ {f} ELSE behind[g] \ {f}]

\* Mutant of IsLiveFor: a frame that still loads the page does not count.
IsResidentFor(f, k) == IsResident(control[f]) /\ tag[f] = k

\* BufferManager::IsLiveFor
IsLiveFor(f, k) == control[f].state # "Free" /\ tag[f] = k

-----------------------------------------------------------------------------
(* PinPage, ProbeResident and TryPinResidentFrame.                         *)

\* PinPage probes again after every wait; FlushBuffer(file, block) gives up
\* when the page is not mapped.
Lookup(t) ==
  /\ At(t, "lookup")
  /\ \/ \E f \in LookupFrameId(th[t].want) :
          th' = [th EXCEPT ![t].pc = "pin", ![t].frame = f]
     \/ /\ LookupFrameId(th[t].want) = {}
        /\ Continue(t, IF th[t].op = "flush" THEN "idle" ELSE "miss")
  /\ UNCHANGED <<frameVars, tableVars, contentVars, free, dirtyCount>>

TryPinResident(t) ==
  /\ At(t, "pin")
  /\ \/ /\ CanPinResident(W(t))
        /\ SetControl(t, Pinned(W(t)))
        /\ Goto(t, "check")
     \/ /\ ~IsResident(W(t))
        /\ Continue(t, NotPinned(th[t].op))
        /\ UNCHANGED control
  /\ UNCHANGED <<tag, wbError, tableVars, contentVars, free, dirtyCount>>

\* A pinned frame keeps its tag; one that holds another page is unpinned.
CheckPinnedTag(t) ==
  /\ At(t, "check")
  /\ th' = [th EXCEPT ![t] =
       IF tag[F(t)] # th[t].want
         THEN [@ EXCEPT !.pc = "unpin", !.ret = NotPinned(th[t].op)]
       ELSE CASE th[t].op = "flush" ->
                   [@ EXCEPT !.pc = "flush", !.mode = "block", !.ret = "unpin"]
              [] th[t].op = "drop" -> [@ EXCEPT !.pc = "discard"]
              [] OTHER -> [@ EXCEPT !.pc = "latch"]]
  /\ UNCHANGED <<frameVars, tableVars, contentVars, free, dirtyCount>>

Unpin(t) ==
  /\ At(t, "unpin")
  /\ SetControl(t, Unpinned(W(t)))
  /\ Continue(t, th[t].ret)
  /\ UNCHANGED <<tag, wbError, tableVars, contentVars, free, dirtyCount>>

\* IsLoadingTag reads the state and then the tag.
IsLoadingState(t) ==
  /\ At(t, "isloading")
  /\ Continue(t, IF W(t).state = "Loading" THEN "isloadingtag" ELSE "miss")
  /\ UNCHANGED <<frameVars, tableVars, contentVars, free, dirtyCount>>

IsLoadingTag(t) ==
  /\ At(t, "isloadingtag")
  /\ Continue(t, IF tag[F(t)] = th[t].want THEN "waitload" ELSE "miss")
  /\ UNCHANGED <<frameVars, tableVars, contentVars, free, dirtyCount>>

\* WaitForLoad: the thread sleeps while the frame loads the page it wants.
WaitForLoad(t) ==
  /\ At(t, "waitload")
  /\ ~(W(t).state = "Loading" /\ tag[F(t)] = th[t].want)
  /\ Continue(t, IF th[t].op = "drop" THEN "dscan" ELSE "lookup")
  /\ UNCHANGED <<frameVars, tableVars, contentVars, free, dirtyCount>>

\* IsResidentTag: lookup, state, tag.  A prefetch skips a page that is there;
\* a reader that ran out of frames uses it instead of failing.
Peeked(o, there) ==
  IF o = "prefetch" THEN (IF there THEN "idle" ELSE "miss")
                    ELSE (IF there THEN "lookup" ELSE "idle")

PeekLookup(t) ==
  /\ At(t, "peek")
  /\ \/ \E f \in LookupFrameId(th[t].want) :
          th' = [th EXCEPT ![t].pc = "peekstate", ![t].frame = f]
     \/ /\ LookupFrameId(th[t].want) = {}
        /\ Continue(t, Peeked(th[t].op, FALSE))
  /\ UNCHANGED <<frameVars, tableVars, contentVars, free, dirtyCount>>

PeekState(t) ==
  /\ At(t, "peekstate")
  /\ Continue(t, IF W(t).state # "Free" THEN "peektag" ELSE Peeked(th[t].op, FALSE))
  /\ UNCHANGED <<frameVars, tableVars, contentVars, free, dirtyCount>>

PeekTag(t) ==
  /\ At(t, "peektag")
  /\ Continue(t, Peeked(th[t].op, tag[F(t)] = th[t].want))
  /\ UNCHANGED <<frameVars, tableVars, contentVars, free, dirtyCount>>

-----------------------------------------------------------------------------
(* ReserveFrameForTag: find a frame and claim it.                          *)

Candidate(t, f, from) ==
  th' = [th EXCEPT ![t].pc = "reserve", ![t].frame = f, ![t].from = from]

\* TryReserveRingFrame: a bulk-read strategy first tries a frame of its ring.
TryReserveRingFrame(t) ==
  /\ At(t, "miss") /\ th[t].op \in {"read", "write", "zero"}
  /\ \E f \in Frames : Candidate(t, f, "ring")
  /\ UNCHANGED <<frameVars, tableVars, contentVars, free, dirtyCount>>

PopFree(t) ==
  /\ th[t].pc \in {"miss", "acquire"}
  /\ \E f \in free : free' = free \ {f} /\ Candidate(t, f, "free")
  /\ UNCHANGED <<frameVars, tableVars, contentVars, dirtyCount>>

\* Replacer::Victim nominates a frame that passed the probe; the frame stays
\* tracked and may change before it is claimed.
Victim(t) ==
  /\ th[t].pc \in {"miss", "acquire"} /\ free = {}
  /\ \E f \in Frames : IsEvictable(control[f]) /\ Candidate(t, f, "victim")
  /\ UNCHANGED <<frameVars, tableVars, contentVars, free, dirtyCount>>

\* A bounded scan of the replacer may also find nothing.  A prefetch then
\* stops; other calls look for a frame that may still become free.
NoVictim(t) ==
  /\ th[t].pc \in {"miss", "acquire"} /\ free = {}
  /\ Continue(t, IF th[t].op = "prefetch" THEN "idle" ELSE "scan")
  /\ UNCHANGED <<frameVars, tableVars, contentVars, free, dirtyCount>>

\* HasTransientFrame reads the frames one after the other.
HasTransientFrame(t) ==
  /\ At(t, "scan")
  /\ \E f \in Frames \ th[t].scanned :
       IF control[f].pins = 0 \/ control[f].state = "Loading"
         THEN Continue(t, "acquire")
         ELSE th' = [th EXCEPT ![t].scanned = @ \cup {f}]
  /\ UNCHANGED <<frameVars, tableVars, contentVars, free, dirtyCount>>

\* kResourceExhausted: PinPage goes back if another thread loaded the page.
Exhausted(t) ==
  /\ At(t, "scan") /\ th[t].scanned = Frames
  /\ th' = [th EXCEPT ![t] = [Continued(@, "lookup") EXCEPT !.pc = "peek"]]
  /\ UNCHANGED <<frameVars, tableVars, contentVars, free, dirtyCount>>

\* TryReserve: a rejected free frame goes back to the free list, a dirty
\* victim is written back first, anything else is given up for another frame.
TryReserve(t) ==
  LET outcome == ReserveOutcome(W(t), th[t].from = "free") IN
  /\ At(t, "reserve")
  /\ \/ /\ outcome = "Reserved"
        /\ SetControl(t, ReservedWord)
        /\ th' = [th EXCEPT ![t].pc = "storetag",
                            ![t].evicted = IF IsResident(W(t)) THEN tag[F(t)] ELSE NoTag]
     \/ /\ outcome = "NeedsFlush" /\ th[t].from = "victim"
        /\ th' = [th EXCEPT ![t].pc = "flush", ![t].mode = "block",
                            ![t].ret = "reserve", ![t].from = "flushed"]
        /\ UNCHANGED control
     \/ /\ outcome = "Rejected" /\ th[t].from = "free"
        /\ th' = [th EXCEPT ![t].pc = "push", ![t].ret = "acquire"]
        /\ UNCHANGED control
     \/ /\ outcome = "Rejected" /\ th[t].from # "free"
        /\ Continue(t, "acquire")
        /\ UNCHANGED control
     \/ /\ outcome = "NeedsFlush" /\ th[t].from # "victim"
        /\ Continue(t, "acquire")
        /\ UNCHANGED control
  /\ UNCHANGED <<tag, wbError, tableVars, contentVars, free, dirtyCount>>

StoreTag(t) ==
  /\ At(t, "storetag")
  /\ tag' = [tag EXCEPT ![F(t)] = th[t].want]
  /\ Goto(t, "install")
  /\ UNCHANGED <<control, wbError, tableVars, contentVars, free, dirtyCount>>

\* ReplaceUnlessLive, under the stripe locks: gives the frame the wanted key
\* unless another frame linked under it is live; the old link goes either way.
Install(t) ==
  LET f == F(t)
      k == th[t].want
      existing == {g \in Linked(k) \ {f} : IsLiveFor(g, k)}
  IN
  /\ At(t, "install")
  /\ \/ /\ existing # {}
        /\ Unlink(f)
        /\ th' = [th EXCEPT ![t].pc = "cleartag",
                            ![t].ret = IF th[t].op = "prefetch" THEN "idle" ELSE "lookup"]
     \/ /\ existing = {}
        /\ IF key[f] = k /\ th[t].evicted # k THEN UNCHANGED tableVars ELSE Relink(f, k)
        /\ Goto(t, "load")
  /\ UNCHANGED <<frameVars, contentVars, free, dirtyCount>>

-----------------------------------------------------------------------------
(* CompleteReservation: fill the frame and publish it, or give it up.      *)

ReadReservedPage(t) ==
  /\ At(t, "load") /\ th[t].op # "zero"
  /\ \/ /\ data' = [data EXCEPT ![F(t)] = disk[th[t].want]]
        /\ Goto(t, "publish")
     \/ /\ data' = [data EXCEPT ![F(t)] = Torn]
        /\ Goto(t, "abort")
  /\ UNCHANGED <<frameVars, tableVars, disk, latest, free, dirtyCount>>

ZeroFill(t) ==
  /\ At(t, "load") /\ th[t].op = "zero"
  /\ data' = [data EXCEPT ![F(t)] = Zero]
  /\ Goto(t, "zerolatch")
  /\ UNCHANGED <<frameVars, tableVars, disk, latest, free, dirtyCount>>

ZeroLatch(t) ==
  /\ At(t, "zerolatch") /\ CanAcquireExclusive(W(t))
  /\ SetControl(t, AcquiredExclusive(W(t)))
  /\ Goto(t, "publish")
  /\ UNCHANGED <<tag, wbError, tableVars, contentVars, free, dirtyCount>>

PublishLoadedFrame(t) ==
  /\ At(t, "publish")
  /\ SetControl(t, PublishedResident(W(t), th[t].op = "prefetch"))
  /\ th' = [th EXCEPT ![t] =
       CASE @.op = "prefetch" -> IdleThread
         [] @.op = "zero" -> [@ EXCEPT !.pc = "writing", !.from = "none", !.evicted = NoTag]
         [] OTHER -> [@ EXCEPT !.pc = "latch", !.from = "none", !.evicted = NoTag]]
  /\ UNCHANGED <<tag, wbError, tableVars, contentVars, free, dirtyCount>>

\* AbortLoadReservation; its last three steps also end a lost install race.
AbortRemove(t) ==
  /\ At(t, "abort")
  /\ IF key[F(t)] = th[t].want THEN Unlink(F(t)) ELSE UNCHANGED tableVars
  /\ Goto(t, "cleartag")
  /\ UNCHANGED <<frameVars, contentVars, free, dirtyCount>>

ClearTag(t) ==
  /\ At(t, "cleartag")
  /\ tag' = [tag EXCEPT ![F(t)] = DefaultTag]
  /\ Goto(t, "release")
  /\ UNCHANGED <<control, wbError, tableVars, contentVars, free, dirtyCount>>

ReleaseToFree(t) ==
  /\ At(t, "release")
  /\ SetControl(t, ReleasedToFree(W(t)))
  /\ Goto(t, "push")
  /\ UNCHANGED <<tag, wbError, tableVars, contentVars, free, dirtyCount>>

PushFree(t) ==
  /\ At(t, "push")
  /\ free' = free \cup {F(t)}
  /\ Continue(t, th[t].ret)
  /\ UNCHANGED <<frameVars, tableVars, contentVars, dirtyCount>>

-----------------------------------------------------------------------------
(* Handles.  An exclusive handle marks the page dirty before it hands out  *)
(* the writable view; a client of the zero mode overwrites the page.       *)

AcquireLatch(t) ==
  /\ At(t, "latch")
  /\ \/ /\ th[t].op = "read" /\ CanAcquireShared(W(t))
        /\ SetControl(t, AcquiredShared(W(t)))
        /\ Goto(t, "reading")
     \/ /\ th[t].op # "read" /\ CanAcquireExclusive(W(t))
        /\ SetControl(t, AcquiredExclusive(W(t)))
        /\ Goto(t, "writing")
  /\ UNCHANGED <<tag, wbError, tableVars, contentVars, free, dirtyCount>>

\* Mutant of MarkHandleDirty: counts a page that was dirty already.
MarkCountsAlways(t) ==
  /\ At(t, "writing")
  /\ SetControl(t, MarkedDirty(W(t)))
  /\ Goto(t, "count")
  /\ UNCHANGED <<tag, wbError, tableVars, contentVars, free, dirtyCount>>

MarkHandleDirty(t) ==
  /\ At(t, "writing")
  /\ SetControl(t, MarkedDirty(W(t)))
  /\ Goto(t, IF IsResident(W(t)) /\ ~W(t).dirty THEN "count" ELSE "marked")
  /\ UNCHANGED <<tag, wbError, tableVars, contentVars, free, dirtyCount>>

CountDirty(t) ==
  /\ At(t, "count")
  /\ dirtyCount' = dirtyCount + 1
  /\ Goto(t, "marked")
  /\ UNCHANGED <<frameVars, tableVars, contentVars, free>>

WritePage(t) ==
  /\ th[t].pc \in {"marked", "written"}
  /\ \E v \in Contents :
       /\ data' = [data EXCEPT ![F(t)] = v]
       /\ latest' = [latest EXCEPT ![th[t].want] = v]
  /\ Goto(t, "written")
  /\ UNCHANGED <<frameVars, tableVars, disk, free, dirtyCount>>

ReleaseHandle(t) ==
  /\ \/ /\ At(t, "reading")
        /\ SetControl(t, ReleasedShared(W(t)))
     \/ /\ \/ At(t, "written")
           \/ th[t].pc \in {"writing", "marked"} /\ th[t].op # "zero"
        /\ SetControl(t, ReleasedExclusive(W(t)))
  /\ Goto(t, "unpin")
  /\ UNCHANGED <<tag, wbError, tableVars, contentVars, free, dirtyCount>>

-----------------------------------------------------------------------------
(* Writeback.  The thread that asks for a round also stands for the worker *)
(* that executes its task, since it waits for it.  Modes:                  *)
(*   block   FlushFrame of a victim or of FlushBuffer(file, block)         *)
(*   stable  FlushBuffer(SharedBufferHandle): the handle holds the latch   *)
(*   once    FlushBuffer(ExclusiveBufferHandle): one round                 *)
(*   try     first pass of WriteBackFrames; clean: the background cleaner  *)

Opportunistic(t) == th[t].mode \in {"try", "clean"}
TakesLatch(t) == th[t].mode \in {"block", "try", "clean"}

\* was_busy: WriteBackFrames comes back through the blocking path.
Busy(t) ==
  th' = [th EXCEPT ![t] = IF @.op = "flushall" THEN [@ EXCEPT !.pc = "flush", !.mode = "block"]
                                               ELSE IdleThread]

\* A failed victim writeback fails the read that wanted the frame.
FlushFails(t) == Continue(t, IF th[t].ret = "reserve" THEN "idle" ELSE th[t].ret)

\* RunForegroundFlush repeats rounds until one finds the page clean.
RoundDone(t) ==
  IF th[t].mode \in {"block", "stable"}
    THEN th' = [th EXCEPT ![t].pc = IF TakesLatch(t) THEN "flush" ELSE "queue",
                          ![t].task = NoTask]
    ELSE Continue(t, th[t].ret)

FlushHandle(t) ==
  /\ th[t].pc \in {"reading", "writing", "marked", "written"}
  /\ th' = [th EXCEPT ![t].pc = "queue", ![t].ret = th[t].pc,
                      ![t].mode = IF th[t].pc = "reading" THEN "stable" ELSE "once"]
  /\ UNCHANGED <<frameVars, tableVars, contentVars, free, dirtyCount>>

PrepareLatch(t) ==
  /\ At(t, "flush")
  /\ \/ /\ CanAcquireShared(W(t))
        /\ SetControl(t, AcquiredShared(W(t)))
        /\ Goto(t, "queue")
     \/ /\ ~CanAcquireShared(W(t)) /\ Opportunistic(t)
        /\ Busy(t)
        /\ UNCHANGED control
  /\ UNCHANGED <<tag, wbError, tableVars, contentVars, free, dirtyCount>>

\* How PrepareFlushTask ends, once the latch it may have taken is released.
AfterPrepare(t, l) ==
  CASE l = "unlatch_task" -> Goto(t, "begin")
    [] l = "unlatch_clean" -> Continue(t, th[t].ret)
    [] l = "unlatch_fail" -> FlushFails(t)
    [] l = "unlatch_busy" -> Busy(t)

Prepared(t, l) == IF TakesLatch(t) THEN Goto(t, l) ELSE AfterPrepare(t, l)

TryQueueWriteback(t) ==
  LET outcome == QueueOutcome(W(t), th[t].mode = "clean") IN
  /\ At(t, "queue")
  /\ \/ /\ outcome = "Queued"
        /\ SetControl(t, QueuedWriteback(W(t)))
        /\ wbError' = [wbError EXCEPT ![F(t)] = FALSE]
        /\ Goto(t, "snapshot")
     \/ /\ outcome = "NotDirty"
        /\ Prepared(t, "unlatch_clean")
        /\ UNCHANGED <<control, wbError>>
     \/ /\ outcome \in {"Pinned", "Pending"} /\ Opportunistic(t)
        /\ Goto(t, "unlatch_busy")
        /\ UNCHANGED <<control, wbError>>
     \/ /\ outcome = "Pending" /\ ~Opportunistic(t)
        /\ Goto(t, "waitwb")
        /\ UNCHANGED <<control, wbError>>
  /\ UNCHANGED <<tag, tableVars, contentVars, free, dirtyCount>>

\* WaitForPendingFlush sleeps until no writeback is pending, then reads the
\* error the last one left.
WaitForPendingFlush(t) ==
  /\ At(t, "waitwb") /\ ~HasWriteback(W(t))
  /\ IF th[t].op = "drop" THEN Continue(t, "dscan") ELSE Goto(t, "wberror")
  /\ UNCHANGED <<frameVars, tableVars, contentVars, free, dirtyCount>>

ReadWritebackError(t) ==
  /\ At(t, "wberror")
  /\ IF wbError[F(t)] THEN Prepared(t, "unlatch_fail") ELSE Goto(t, "queue")
  /\ UNCHANGED <<frameVars, tableVars, contentVars, free, dirtyCount>>

CaptureFlushSnapshot(t) ==
  /\ At(t, "snapshot")
  /\ th' = [th EXCEPT ![t].pc = IF TakesLatch(t) THEN "unlatch_task" ELSE "begin",
                      ![t].task = [tag |-> tag[F(t)], data |-> data[F(t)]]]
  /\ UNCHANGED <<frameVars, tableVars, contentVars, free, dirtyCount>>

PrepareUnlatch(t) ==
  /\ th[t].pc \in {"unlatch_task", "unlatch_clean", "unlatch_fail", "unlatch_busy"}
  /\ SetControl(t, ReleasedShared(W(t)))
  /\ AfterPrepare(t, th[t].pc)
  /\ UNCHANGED <<tag, wbError, tableVars, contentVars, free, dirtyCount>>

\* The pre-write hook refuses the page, or the scheduler has stopped.
RollBackFlushTask(t) ==
  /\ At(t, "begin")
  /\ wbError' = [wbError EXCEPT ![F(t)] = TRUE]
  /\ SetControl(t, CancelledWriteback(W(t)))
  /\ FlushFails(t)
  /\ UNCHANGED <<tag, tableVars, contentVars, free, dirtyCount>>

BeginFlushTask(t) ==
  /\ At(t, "begin")
  /\ SetControl(t, BegunWriteback(W(t)))
  /\ Goto(t, "write")
  /\ UNCHANGED <<tag, wbError, tableVars, contentVars, free, dirtyCount>>

\* The disk request of the task; a failed one may leave anything behind.
WriteTask(t) ==
  /\ At(t, "write")
  /\ \/ /\ disk' = [disk EXCEPT ![th[t].task.tag] = th[t].task.data]
        /\ Goto(t, "complete")
     \/ /\ disk' = [disk EXCEPT ![th[t].task.tag] = Torn]
        /\ Goto(t, "completefail")
  /\ UNCHANGED <<frameVars, tableVars, data, latest, free, dirtyCount>>

FinalizeFlushTask(t) ==
  LET ok == At(t, "complete") IN
  /\ th[t].pc \in {"complete", "completefail"}
  /\ wbError' = [wbError EXCEPT ![F(t)] = ~ok]
  /\ SetControl(t, CompletedWriteback(W(t), ok))
  /\ IF ClearsDirty(W(t), ok) THEN Goto(t, "uncount")
     ELSE IF ok THEN RoundDone(t) ELSE FlushFails(t)
  /\ UNCHANGED <<tag, tableVars, contentVars, free, dirtyCount>>

UncountDirty(t) ==
  /\ At(t, "uncount")
  /\ dirtyCount' = dirtyCount - 1
  /\ RoundDone(t)
  /\ UNCHANGED <<frameVars, tableVars, contentVars, free>>

-----------------------------------------------------------------------------
(* DropFileBuffers, one frame of it.                                       *)

\* The scan reads the tag, then the state; a page outside the range or a free
\* frame ends it.
DropScanTag(t) ==
  /\ At(t, "dscan")
  /\ Continue(t, IF tag[F(t)] = th[t].want THEN "dscanstate" ELSE "idle")
  /\ UNCHANGED <<frameVars, tableVars, contentVars, free, dirtyCount>>

DropScanState(t) ==
  /\ At(t, "dscanstate")
  /\ Continue(t, CASE W(t).state = "Free" -> "idle" [] W(t).state = "Loading" -> "waitload"
                   [] W(t).state = "Resident" -> "pin")
  /\ UNCHANGED <<frameVars, tableVars, contentVars, free, dirtyCount>>

\* TryDiscardPinned: the dropped page is what the backing store holds.
TryDiscardPinned(t) ==
  LET outcome == DiscardOutcome(W(t)) IN
  /\ At(t, "discard")
  /\ \/ /\ outcome = "Discarded"
        /\ SetControl(t, FreeWord)
        /\ latest' = [latest EXCEPT ![th[t].want] = disk[th[t].want]]
        /\ Goto(t, IF W(t).dirty THEN "dropcount" ELSE "dropremove")
     \/ /\ outcome = "Writeback"
        /\ th' = [th EXCEPT ![t].pc = "unpin", ![t].ret = "waitwb"]
        /\ UNCHANGED <<control, latest>>
     \/ /\ outcome = "Latched"
        /\ Goto(t, "waitlatch")
        /\ UNCHANGED <<control, latest>>
     \/ /\ outcome = "Busy"
        /\ Goto(t, "unpin")
        /\ UNCHANGED <<control, latest>>
  /\ UNCHANGED <<tag, wbError, tableVars, data, disk, free, dirtyCount>>

DropWaitLatch(t) ==
  /\ At(t, "waitlatch") /\ ~Latched(W(t))
  /\ th' = [th EXCEPT ![t].pc = "unpin", ![t].ret = "dscan"]
  /\ UNCHANGED <<frameVars, tableVars, contentVars, free, dirtyCount>>

DropUncount(t) ==
  /\ At(t, "dropcount")
  /\ dirtyCount' = dirtyCount - 1
  /\ Goto(t, "dropremove")
  /\ UNCHANGED <<frameVars, tableVars, contentVars, free>>

DropRemove(t) ==
  /\ At(t, "dropremove")
  /\ IF key[F(t)] = th[t].want THEN Unlink(F(t)) ELSE UNCHANGED tableVars
  /\ Goto(t, "droptag")
  /\ UNCHANGED <<frameVars, contentVars, free, dirtyCount>>

DropClearTag(t) ==
  /\ At(t, "droptag")
  /\ tag' = [tag EXCEPT ![F(t)] = DefaultTag]
  /\ Goto(t, "push")
  /\ UNCHANGED <<control, wbError, tableVars, contentVars, free, dirtyCount>>

-----------------------------------------------------------------------------
Start(t) ==
  \/ \E o \in Ops, k \in Tags : StartPage(t, o, k)
  \/ \E o \in Ops, f \in Frames : StartSweep(t, o, f)
  \/ \E f \in Frames, k \in Tags : StartDrop(t, f, k)

\* What only a client decides: to write, to flush through its handle.
ClientChoice(t) == WritePage(t) \/ FlushHandle(t)

\* What a call does by itself, and the release that every client owes.
Progress(t) ==
  \/ Lookup(t) \/ TryPinResident(t) \/ CheckPinnedTag(t) \/ Unpin(t)
  \/ IsLoadingState(t) \/ IsLoadingTag(t) \/ WaitForLoad(t)
  \/ PeekLookup(t) \/ PeekState(t) \/ PeekTag(t)
  \/ TryReserveRingFrame(t) \/ PopFree(t) \/ Victim(t) \/ NoVictim(t)
  \/ HasTransientFrame(t) \/ Exhausted(t) \/ TryReserve(t) \/ StoreTag(t) \/ Install(t)
  \/ ReadReservedPage(t) \/ ZeroFill(t) \/ ZeroLatch(t) \/ PublishLoadedFrame(t)
  \/ AbortRemove(t) \/ ClearTag(t) \/ ReleaseToFree(t) \/ PushFree(t)
  \/ AcquireLatch(t) \/ MarkHandleDirty(t) \/ CountDirty(t) \/ ReleaseHandle(t)
  \/ PrepareLatch(t) \/ TryQueueWriteback(t) \/ WaitForPendingFlush(t)
  \/ ReadWritebackError(t) \/ CaptureFlushSnapshot(t) \/ PrepareUnlatch(t)
  \/ RollBackFlushTask(t) \/ BeginFlushTask(t) \/ WriteTask(t)
  \/ FinalizeFlushTask(t) \/ UncountDirty(t)
  \/ DropScanTag(t) \/ DropScanState(t) \/ TryDiscardPinned(t) \/ DropWaitLatch(t)
  \/ DropUncount(t) \/ DropRemove(t) \/ DropClearTag(t)

Next == \E t \in Threads : Start(t) \/ ClientChoice(t) \/ Progress(t)

Spec == Init /\ [][Next]_vars

-----------------------------------------------------------------------------
(* What must hold.                                                         *)

Places ==
  {"idle", "lookup", "pin", "check", "unpin", "isloading", "isloadingtag",
   "waitload", "peek", "peekstate", "peektag", "miss", "acquire", "scan",
   "reserve", "storetag", "install", "load", "zerolatch", "publish", "abort",
   "cleartag", "release", "push", "latch", "reading", "writing", "count",
   "marked", "written", "flush", "queue", "waitwb", "wberror", "snapshot",
   "unlatch_task", "unlatch_clean", "unlatch_fail", "unlatch_busy", "begin",
   "write", "complete", "completefail", "uncount", "dscan", "dscanstate", "discard",
   "waitlatch", "dropcount", "dropremove", "droptag"}

Thread ==
  [pc : Places, op : AllOps \cup {"none"}, want : Tags \cup {NoTag},
   frame : Frames \cup {NoFrame},
   from : {"none", "ring", "free", "victim", "flushed"},
   evicted : Tags \cup {NoTag},
   mode : {"none", "block", "stable", "once", "try", "clean"},
   task : [tag : Tags \cup {NoTag}, data : Content],
   ret : Places, scanned : SUBSET Frames]

\* Every variable keeps its type: in particular no count underflows.
TypeOK ==
  /\ control \in [Frames -> ControlWord]
  /\ tag \in [Frames -> Tags]
  /\ wbError \in [Frames -> BOOLEAN]
  /\ key \in [Frames -> Tags \cup {NoTag}]
  /\ behind \in [Frames -> SUBSET Frames]
  /\ free \subseteq Frames
  /\ data \in [Frames -> Content]
  /\ disk \in [Tags -> Content]
  /\ dirtyCount \in Int
  /\ latest \in [Tags -> Content]
  /\ th \in [Threads -> Thread]

\* Where a thread stands in its call, outside the flush it may be running.
FlushPlaces ==
  {"flush", "queue", "waitwb", "wberror", "snapshot", "unlatch_task",
   "unlatch_clean", "unlatch_fail", "unlatch_busy", "begin", "write",
   "complete", "completefail", "uncount"}

BaseOf(r) == IF r.pc \in FlushPlaces THEN r.ret ELSE r.pc
Base(t) == BaseOf(th[t])

\* Places of a flush that holds the latch it may have taken.
LatchedPlaces ==
  {"queue", "waitwb", "wberror", "snapshot", "unlatch_task", "unlatch_clean",
   "unlatch_fail", "unlatch_busy"}

\* Places of a thread that reserved its frame and has not published it.
LoadPlaces ==
  {"storetag", "install", "load", "zerolatch", "publish", "abort", "cleartag", "release"}
DropPlaces == {"dropcount", "dropremove", "droptag"}
WriterPlaces == {"writing", "count", "marked", "written"}

Owns(t, f) ==
  /\ th[t].frame = f
  /\ \/ th[t].pc \in LoadPlaces \cup DropPlaces \cup {"push"}
     \/ th[t].pc = "reserve" /\ th[t].from = "free"

HoldsPin(t, f) ==
  /\ th[t].frame = f
  /\ Base(t) \in LoadPlaces \cup WriterPlaces \cup
       {"check", "unpin", "latch", "reading", "discard", "waitlatch"}

HoldsExclusive(t, f) ==
  /\ th[t].frame = f
  /\ \/ Base(t) \in WriterPlaces
     \/ th[t].pc = "publish" /\ th[t].op = "zero"

HoldsShared(t, f) ==
  /\ th[t].frame = f
  /\ \/ Base(t) = "reading"
     \/ th[t].pc \in LatchedPlaces /\ TakesLatch(t)

\* A page has at most one resident frame (docs/concurrency.md 4.5, 5.5): no
\* interleaving of misses, evictions, aborted loads and drops duplicates it.
SingleCopy ==
  \A f, g \in Frames :
    IsResident(control[f]) /\ IsResident(control[g]) /\ tag[f] = tag[g] => f = g

\* A frame is on the free list, or resident, or owned by exactly one thread
\* (5.1): a stale nomination never claims a frame its releaser is about to
\* push, no frame is pushed twice, and none leaks.
FrameOwnership ==
  \A f \in Frames :
    LET owners == {t \in Threads : Owns(t, f)} IN
    /\ Cardinality(owners) <= 1
    /\ f \in free => owners = {} /\ control[f].state = "Free" /\ key[f] = NoTag
    /\ IsResident(control[f]) => owners = {} /\ f \notin free /\ key[f] = tag[f]
    /\ f \in free \/ IsResident(control[f]) \/ owners # {}

\* The pin count of a frame is the number of calls that pin it (5.1).
PinsMatchHolders ==
  \A f \in Frames : control[f].pins = Cardinality({t \in Threads : HoldsPin(t, f)})

\* The latch bits of a frame are its holders, and a writer excludes everyone.
LatchesMatchHolders ==
  \A f \in Frames :
    LET readers == {t \in Threads : HoldsShared(t, f)}
        writers == {t \in Threads : HoldsExclusive(t, f)}
    IN /\ control[f].shared = Cardinality(readers)
       /\ control[f].exclusive <=> writers # {}
       /\ Cardinality(writers) <= 1
       /\ writers # {} => readers = {}

\* A shared handle shows the page it was opened for, with the contents of the
\* last write any client made to that page, however often it was evicted.
ReadsLatest ==
  \A t \in Threads :
    Base(t) = "reading" =>
      tag[F(t)] = th[t].want /\ data[F(t)] = latest[th[t].want]

\* A page that no frame holds dirty is on the backing store as last written
\* (4.3, 5.2): no writeback clears dirty over a change its snapshot missed.
NothingLost ==
  \A k \in Tags :
    disk[k] # latest[k] =>
      \E f \in Frames : IsResident(control[f]) /\ control[f].dirty /\ tag[f] = k

\* A disk transfer of a page is alone (4.5): two writebacks of one page, or a
\* writeback and a load, are never in flight together.
TransfersExclusive ==
  \A t, u \in Threads :
    t # u /\ At(t, "write") =>
      /\ At(u, "write") => th[u].task.tag # th[t].task.tag
      /\ At(u, "load") => th[u].want # th[t].task.tag

\* dirty_page_count_ is the number of dirty frames, up to the updates that
\* threads still owe it, and never underflows.
DirtyCountExact ==
  LET owed(places) == Cardinality({t \in Threads : th[t].pc \in places}) IN
  /\ dirtyCount >= 0
  /\ dirtyCount = Cardinality({f \in Frames : control[f].dirty})
                  - owed({"count"}) + owed({"uncount", "dropcount"})

-----------------------------------------------------------------------------
(* A statement of the documentation that the code does not keep.           *)

\* What docs/concurrency.md 4.3 says of FlushAll: it loops until a page is
\* clean, so a round of it that leaves the page dirty is not its last.
FlushAllReturnsClean ==
  [][\A t \in Threads :
       th[t].op = "flushall" /\ At(t, "complete") /\ th'[t].pc = "idle" =>
         ~control'[F(t)].dirty]_vars

=============================================================================
