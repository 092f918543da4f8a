---------------------------- MODULE MCStructures ----------------------------
(***************************************************************************)
(* The structures that threads and processes share around the frames, for  *)
(* TLC: a behaviour is a behaviour of one part, chosen in the initial      *)
(* state, and the state of every part lives in the variables v1 to v9 (0   *)
(* where a part has fewer). Each part has a small instance of its own.     *)
(***************************************************************************)
EXTENDS Integers, TLC

CONSTANTS
  Actors, Slots,     \* two sets of two interchangeable model values
  none               \* a model value

VARIABLES part, v1, v2, v3, v4, v5, v6, v7, v8, v9

suiteVars == <<part, v1, v2, v3, v4, v5, v6, v7, v8, v9>>

Symmetry == Permutations(Actors) \cup Permutations(Slots)

-----------------------------------------------------------------------------
\* Three threads at one frame: one makes every call, the others read, load,
\* write and wait.
SleepCalls(t) ==
  CASE t = 1 -> {"share", "excl", "flush", "load", "wait", "drop"}
    [] t = 2 -> {"share", "load"}
    [] t = 3 -> {"share", "excl", "wait"}
Sleep == INSTANCE FrameSleep WITH control <- v1, waiters <- v2, tag <- v3, th <- v4,
  Threads <- {1, 2, 3}, Tags <- {1}, Ops <- SleepCalls, MaxPins <- 3, MaxShared <- 2

\* Three threads, of any processes, at one futex mutex.
Mutex == INSTANCE FutexMutex WITH word <- v1, at <- v2, Lockers <- {1, 2, 3}

\* Three threads at a free list of three frames.
List == INSTANCE FreeList WITH head <- v1, next <- v2, call <- v3,
  Poppers <- {1, 2, 3}, Capacity <- 3, MaxVersion <- 5

\* Two writers and a lock-free reader at a page table of two buckets, each
\* with its stripe; three of the four tags share a bucket.
TagBucket(tag) == IF tag.file = 0 /\ tag.block = 1 THEN 1 ELSE 0
Table == INSTANCE PageTable WITH heads <- v1, next <- v2, bucketOf <- v3, keyFile <- v4,
  keyBlock <- v5, locked <- v6, sequence <- v7, job <- v8, look <- v9,
  Writers <- Actors, Readers <- {3}, Frames <- Slots, kNone <- none,
  FileIds <- {0, 1}, BlockIds <- {0, 1}, BucketFor <- TagBucket, Buckets <- {0, 1},
  StripeCount <- 2, MaxSequence <- 3

\* Three processes, one that keeps the pool when it leaves, and the two
\* segments that exist one after the other under the name.
Segment == INSTANCE SharedSegment WITH names <- v1, seg <- v2, proc <- v3, removed <- v4,
  Processes <- {1, 2, 3}, NoProcess <- none, Segments <- {1, 2}, NoSegment <- 0,
  SlotCount <- 2, kRemoving <- -1, Modes <- {"any", "attach"}, Keepers <- {3}

\* The hypothesis of the theorems of SegmentProofs.
ASSUME SegmentInstance == Segment!SegmentConstants

\* Three processes that come and go without publishing, and two that publish.
NoWrites(k) == 0
Lifecycle == INSTANCE Observation WITH name <- v1, area <- v2, proc <- v3, reader <- v4,
  Processes <- {3} \cup Actors, Nobody <- none, Dead <- 0, Objects <- {1, 2}, Records <- {1, 2},
  Bound <- NoWrites
FewWrites(k) == IF k = 0 THEN 3 ELSE 1
Publishing == INSTANCE Observation WITH name <- v1, area <- v2, proc <- v3, reader <- v4,
  Processes <- Actors, Nobody <- none, Dead <- 0, Objects <- {1}, Records <- {1, 2},
  Bound <- FewWrites

\* Three frames and two threads, each the only one of its process.
Alone(t) == {t}
Queues == INSTANCE QueuePolicies WITH policy <- v1, list <- v2, hand <- v3, visited <- v4,
  slot <- v5, thread <- v6, loaded <- v7, order <- v8, Frames <- {1, 2, 3}, kNone <- 0,
  Threads <- {1, 2}, Peers <- Alone, BatchSize <- 2

\* Four frames under three orders of priority.
Ordered == INSTANCE OrderedPolicies WITH policy <- v1, priority <- v2, nodes <- v3, root <- v4,
  clock <- v5, history <- v6, log <- v7, Frames <- 1 .. 4, kNone <- 0,
  Priorities <- {<<1, 2, 3, 4>>, <<2, 4, 1, 3>>, <<4, 1, 3, 2>>}, HistoryLength <- 2,
  MaxClock <- 5, NextUses <- {1, 2}, kNeverUsed <- 3

Clocks == INSTANCE ClockPolicies WITH policy <- v1, count <- v2, hand <- v3, thread <- v4,
  loaded <- v5, Capacity <- 2, Threads <- {1, 2}, kMaxUsageCount <- 2

\* Two consumers, a plan and one that replaces it.
Prefetch == INSTANCE MlPrefetch WITH planned <- v1, cursor <- v2, until <- v3, consumer <- v4,
  issued <- v5, Consumers <- Actors, Plans <- {<<1, 2, 1, 2>>, <<1, 1, 2, 1>>, <<1, 2, 3>>},
  kNeverUsed <- 9, PrefetchDepth <- 2, MaxPlans <- 1

-----------------------------------------------------------------------------
\* The variables after the first n, and that they are not in use.
After2 == <<v3, v4, v5, v6, v7, v8, v9>>
After3 == <<v4, v5, v6, v7, v8, v9>>
After4 == <<v5, v6, v7, v8, v9>>
After5 == <<v6, v7, v8, v9>>
After7 == <<v8, v9>>
After8 == <<v9>>
Only8 == v9 = 0
Only7 == v8 = 0 /\ Only8
Only5 == v6 = 0 /\ v7 = 0 /\ Only7
Only4 == v5 = 0 /\ Only5
Only3 == v4 = 0 /\ Only4
Only2 == v3 = 0 /\ Only3

Init ==
  \/ part = "sleep" /\ Sleep!Init /\ Only4
  \/ part = "mutex" /\ Mutex!Init /\ Only2
  \/ part = "list" /\ List!Init /\ Only3
  \/ part = "table" /\ Table!Init
  \/ part = "segment" /\ Segment!Init /\ Only4
  \/ part = "lifecycle" /\ Lifecycle!Init /\ Only4
  \/ part = "publishing" /\ Publishing!Init /\ Only4
  \/ part = "queues" /\ Queues!Init /\ Only8
  \/ part = "ordered" /\ Ordered!Init /\ Only7
  \/ part = "clocks" /\ Clocks!Init /\ Only5
  \/ part = "prefetch" /\ Prefetch!Init /\ Only5

Next ==
  /\ part' = part
  /\ \/ part = "sleep" /\ Sleep!Next /\ UNCHANGED After4
     \/ part = "mutex" /\ Mutex!Next /\ UNCHANGED After2
     \/ part = "list" /\ List!Next /\ UNCHANGED After3
     \/ part = "table" /\ Table!Next
     \/ part = "segment" /\ Segment!Next /\ UNCHANGED After4
     \/ part = "lifecycle" /\ Lifecycle!Next /\ UNCHANGED After4
     \/ part = "publishing" /\ Publishing!Next /\ UNCHANGED After4
     \/ part = "queues" /\ Queues!Next /\ UNCHANGED After8
     \/ part = "ordered" /\ Ordered!Next /\ UNCHANGED After7
     \/ part = "clocks" /\ Clocks!Next /\ UNCHANGED After5
     \/ part = "prefetch" /\ Prefetch!Next /\ UNCHANGED After5

Spec == Init /\ [][Next]_suiteVars

-----------------------------------------------------------------------------
\* A futex mutex has one holder, and unlock wakes a sleeper whenever one may be
\* asleep.
MutexSound ==
  part = "mutex" => Mutex!TypeOK /\ Mutex!OneHolder /\ Mutex!NoSleeperForgotten

\* Overlapping insertions and removals leave the chains of the page table whole,
\* list no two frames under one tag and never wait for each other's stripes.
TableExact ==
  part = "table" => Table!TypeOK /\ Table!ChainsExact /\ Table!OneFramePerTag /\ Table!NoLockCycle

\* A lock-free lookup that validates returns what the chain held at that moment.
LookupCurrent == part = "table" => Table!LookupCurrent

\* Processes that use the pool of one name share one segment, with a pool in it.
OneCache ==
  part = "segment" => Segment!TypeOK /\ Segment!OneCache /\ Segment!UsersFindAPool

\* The attached count and the process slots are those of the processes that
\* hold the segment, also after an attachment that failed half-way.
AttachmentsExact ==
  part = "segment" => Segment!AttachedExact /\ Segment!SlotsOwned

\* Processes that publish under one name write one observation area, each in a
\* record of its own, whichever of them die.
AreaShared ==
  /\ part = "lifecycle" => Lifecycle!TypeOK /\ Lifecycle!UsersShareArea /\ Lifecycle!RecordsOwned
  /\ part = "publishing" => Publishing!UsersShareArea /\ Publishing!RecordsOwned

\* A reader accepts no mixture of two snapshots, except of a part whose writer
\* died.
SnapshotWhole ==
  part = "publishing" => Publishing!TypeOK /\ Publishing!SnapshotWhole

\* No thread sleeps on a frame for a condition that holds, unless a wake is
\* coming.
NoLostWakeup ==
  part = "sleep" => Sleep!TypeOK /\ Sleep!NoLostWakeup


\* LRU-K and the plan policy offer the frames in the order of their definition,
\* from treaps that stay balanced.
OfferedColdestFirst ==
  part = "ordered" => Ordered!TreapsBalanced /\ Ordered!OfferedColdestFirst

\* A lone sweep of CLOCK or clock sweep finds a frame that stays evictable, and
\* overlapping ones leave a count to every loaded frame.
SweepFinds ==
  part = "clocks" => Clocks!LoadedCounted /\ Clocks!SweepFinds

\* A position of the plan is prefetched at most once, however consumers overlap,
\* and its next use is the next position that reads the block.
PrefetchedOnce ==
  part = "prefetch" => Prefetch!TypeOK /\ Prefetch!PrefetchedOnce /\ Prefetch!NextUseRight

\* FrameFreeList's Pop and Push are the atomic operations of a set of frames.
ActsAsASet == [][part = "list" => List!TypeOK /\ List!SetStep]_suiteVars

=============================================================================
