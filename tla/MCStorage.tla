----------------------------- MODULE MCStorage ------------------------------
(***************************************************************************)
(* What carries pages between the pool and the disk, for TLC: a behaviour  *)
(* is a behaviour of one part, chosen in the initial state, and the state  *)
(* of every part lives in the variables v1 to v9 (0 where a part has       *)
(* fewer). Each part has a small instance of its own.                      *)
(***************************************************************************)
EXTENDS Integers, TLC

CONSTANTS
  Actors, Slots,     \* two sets of two interchangeable model values
  none               \* a model value

VARIABLES part, v1, v2, v3, v4, v5, v6, v7, v8, v9

suiteVars == <<part, v1, v2, v3, v4, v5, v6, v7, v8, v9>>

Symmetry == Permutations(Actors) \cup Permutations(Slots)

-----------------------------------------------------------------------------
\* One process, with its own list of written files: a thread that flushes, and
\* one that makes every call.
FlushOrAll(t) == IF t = 1 THEN {"flush"} ELSE {"flush", "flushall", "syncfile"}
Private == INSTANCE Durability WITH control <- v1, error <- v2, page <- v3, os <- v4,
  durable <- v5, local <- v6, shared <- v7, acked <- v8, th <- v9, Threads <- {1, 2},
  Calls <- FlushOrAll, Processes <- {{1, 2}}, Shared <- FALSE, Capacity <- 1, Files <- Slots,
  NoFile <- none, MaxVersion <- 2, MaxPins <- 1, MaxShared <- 1

\* Two processes with the short list of the segment: both sweep, both sync a
\* file, or one does one and one the other.
Sweeping(t) == {"flush", "flushall"}
Sweeps == INSTANCE Durability WITH control <- v1, error <- v2, page <- v3, os <- v4,
  durable <- v5, local <- v6, shared <- v7, acked <- v8, th <- v9, Threads <- Actors,
  Calls <- Sweeping, Processes <- {{t} : t \in Actors}, Shared <- TRUE, Capacity <- 1,
  Files <- Slots, NoFile <- none, MaxVersion <- 1, MaxPins <- 1, MaxShared <- 1
Syncing(t) == {"flush", "syncfile"}
Syncs == INSTANCE Durability WITH control <- v1, error <- v2, page <- v3, os <- v4,
  durable <- v5, local <- v6, shared <- v7, acked <- v8, th <- v9, Threads <- Actors,
  Calls <- Syncing, Processes <- {{t} : t \in Actors}, Shared <- TRUE, Capacity <- 1,
  Files <- Slots, NoFile <- none, MaxVersion <- 1, MaxPins <- 1, MaxShared <- 1
SweepOrSync(t) == IF t = 1 THEN {"flush", "flushall"} ELSE {"syncfile"}
Mixed == INSTANCE Durability WITH control <- v1, error <- v2, page <- v3, os <- v4,
  durable <- v5, local <- v6, shared <- v7, acked <- v8, th <- v9, Threads <- {1, 2},
  Calls <- SweepOrSync, Processes <- {{1}, {2}}, Shared <- TRUE, Capacity <- 1,
  Files <- Slots, NoFile <- none, MaxVersion <- 1, MaxPins <- 1, MaxShared <- 1

\* The hypothesis of the theorems of SyncProofs about Durability.
ASSUME DurableInstances ==
  /\ Private!ThreadsHaveHomes /\ Sweeps!ThreadsHaveHomes
  /\ Syncs!ThreadsHaveHomes /\ Mixed!ThreadsHaveHomes

\* A writer, a flusher and a checkpoint at one frame.
Lsn == INSTANCE RecLsn WITH word <- v1, rec <- v2, wrec <- v3, failed <- v4, unsaved <- v5,
  logged <- v6, run <- v7, Frames <- {1}, Writers <- {"w"}, Flushers <- {"g"},
  Checkpointer <- "c", MaxLsn <- 2, MaxPins <- 1, MaxShared <- 3

\* Three foreground and two background tasks, two workers.
Scheduler == INSTANCE FlushScheduler WITH task <- v1, foreground <- v2, background <- v3,
  flusher <- v4, phase <- v5, passed <- v6, Flushers <- {"f1", "f2", "f3"},
  Cleanings <- {"c1", "c2"}, FlushWorkers <- {"w1", "w2"}, SubmitBatchSize <- 2,
  ForegroundBurstLimit <- 1

\* A call of two requests and a call of one, waited for or not.
BatchOfCaller(t) == IF t = 1 THEN 2 ELSE 1
ModesOfCaller(t) == IF t = 1 THEN {"async"} ELSE {"wait", "forget"}
Engine == INSTANCE IoEngine WITH call <- v1, engine <- v2, disk <- v3, worker <- v4,
  Callers <- {1, 2}, Workers <- {1}, Batch <- BatchOfCaller, ModesOf <- ModesOfCaller

\* A durable write and a read, submitted and reaped on two rings; one file may
\* stay open.
Pair(t) == <<1, 2>>
RingOfThread(t) == IF t = 1 THEN 1 ELSE 2
FileOfRequest(r) == IF r = 2 THEN 2 ELSE 1
KindOfRequest(r) == <<"durable", "read", "sync">>[r]
Uring == INSTANCE IoUring WITH context <- v1, caller <- v2, reaper <- v3, ring <- v4,
  backend <- v5, kernel <- v6, Submitters <- {1}, BatchOf <- Pair, Reapers <- {3},
  RingOf <- RingOfThread, FileOf <- FileOfRequest, KindOf <- KindOfRequest, Units <- 2,
  MaxOpenFiles <- 1

\* A read of two blocks against a prefetch or a read of the second, two frames.
ReadCalls(c) ==
  IF c = 1 THEN {<<"read", 1, 2>>} ELSE {<<"prefetch", 2, 1>>, <<"read", 2, 1>>}
Async == INSTANCE AsyncReads WITH frame <- v1, op <- v2, loads <- v3, inFlight <- v4,
  manager <- v5, Frames <- Slots, NoFrame <- none, Callers <- {1, 2}, Calls <- ReadCalls,
  MaxRequestBlocks <- 2, MaxInFlight <- 0

\* A file of two blocks of two bytes; no write past the size overlaps a Sync.
FileCalls(t) ==
  IF t = 1 THEN {<<"write", 1, 3>>, <<"read", 0, 1>>, <<"read", 1, 1>>}
  ELSE {<<"write", 0, 1>>, <<"truncate", 1, 0>>, <<"truncate", 4, 0>>, <<"sync", 0, 0>>,
        <<"close", 0, 0>>}
Cache == INSTANCE PageCache WITH file <- v1, ahead <- v2, page <- v3, disk <- v4, call <- v5,
  ref <- v6, Threads <- {1, 2}, Nobody <- 0, Lost <- 9, BlockSize <- 2, MaxSize <- 4,
  OpsOf <- FileCalls, InitialReadaheadBlocks <- 2, MaxReadaheadBlocks <- 1, SyncsRace <- FALSE

-----------------------------------------------------------------------------
\* The variables after the first n, and that they are not in use.
After4 == <<v5, v6, v7, v8, v9>>
After5 == <<v6, v7, v8, v9>>
After6 == <<v7, v8, v9>>
After7 == <<v8, v9>>
Only7 == v8 = 0 /\ v9 = 0
Only6 == v7 = 0 /\ Only7
Only5 == v6 = 0 /\ Only6
Only4 == v5 = 0 /\ Only5

Init ==
  \/ part = "private" /\ Private!Init
  \/ part = "sweeps" /\ Sweeps!Init
  \/ part = "syncs" /\ Syncs!Init
  \/ part = "mixed" /\ Mixed!Init
  \/ part = "lsn" /\ Lsn!Init /\ Only7
  \/ part = "scheduler" /\ Scheduler!Init /\ Only6
  \/ part = "engine" /\ Engine!Init /\ Only4
  \/ part = "uring" /\ Uring!Init /\ Only6
  \/ part = "async" /\ Async!Init /\ Only5
  \/ part = "cache" /\ Cache!Init /\ Only6

Next ==
  /\ part' = part
  /\ \/ part = "private" /\ Private!Next
     \/ part = "sweeps" /\ Sweeps!Next
     \/ part = "syncs" /\ Syncs!Next
     \/ part = "mixed" /\ Mixed!Next
     \/ part = "lsn" /\ Lsn!Next /\ UNCHANGED After7
     \/ part = "scheduler" /\ Scheduler!Next /\ UNCHANGED After6
     \/ part = "engine" /\ Engine!Next /\ UNCHANGED After4
     \/ part = "uring" /\ Uring!Next /\ UNCHANGED After6
     \/ part = "async" /\ Async!Next /\ UNCHANGED After5
     \/ part = "cache" /\ Cache!Next /\ UNCHANGED After6

Spec == Init /\ [][Next]_suiteVars

-----------------------------------------------------------------------------
\* A file with a write that no sync covers is on a list or being synced.
NoWriteForgotten ==
  /\ part = "private" => Private!NoWriteForgotten
  /\ part = "sweeps" => Sweeps!NoWriteForgotten
  /\ part = "syncs" => Syncs!NoWriteForgotten
  /\ part = "mixed" => Mixed!NoWriteForgotten

\* SyncFile, and FlushAll if no other thread syncs, return only once the
\* completed writes are durable.
SyncsDurable ==
  /\ part = "private" => Private!CompletedWritesDurable /\ Private!SyncFileDurable
  /\ part = "syncs" => Syncs!SyncFileDurable
  /\ part = "mixed" => Mixed!SyncFileDurable

\* MinRecLsn never passes a change that no finished writeback covers, and a
\* CheckpointBuffers that succeeds has saved the changes reported before it.
LsnsSafe ==
  part = "lsn" => Lsn!TypeOK /\ Lsn!MinRecLsnSafe /\ Lsn!CheckpointSaves

\* A flush task is in one queue or batch until it is done, also when the
\* scheduler shuts down, and a bounded number of others passes it.
TasksKept ==
  part = "scheduler" => Scheduler!TypeOK /\ Scheduler!TasksExact /\ Scheduler!ShutdownDrains /\ Scheduler!BackgroundServed

\* Each call of the I/O engine gets its own completions, each once, with their
\* errors, and Shutdown delivers what is in flight.
CompletionsExact ==
  part = "engine" => Engine!TypeOK /\ Engine!CompletionsExact /\ Engine!ErrorsReported /\ Engine!ShutdownDelivers

\* An io_uring request finishes once and keeps its file open until then, and
\* Reap reports the end only when none is in flight.
RingsDrain ==
  part = "uring" => Uring!CompletedOnce /\ Uring!InFlightExact /\ Uring!EndMeansDrained /\ Uring!DescriptorsHeld

\* A successful completion of io_uring means that all data moved and, if
\* durable, was synced.
CompletionsFaithful == part = "uring" => Uring!CompletionsFaithful

\* A handle that WaitReadBuffers returns pins a loaded frame of its page; late
\* completions find their state, no pin is left behind, Close refuses rightly.
ReadsExact ==
  part = "async" => Async!TypeOK /\ Async!HandlesRight /\ Async!CompletionsFindState /\ Async!PinsExact /\ Async!CloseExact

\* The bytes of a file are those last written, through eviction and writeback.
WritesKept ==
  part = "cache" => Cache!TypeOK /\ Cache!WritesKept

\* The size of a file is what writes and truncations made it, readahead stays
\* below it, and after Sync or Close the backing file has it with all bytes.
SizesRight ==
  part = "cache" => Cache!SizeExact /\ Cache!AheadInFile /\ Cache!SyncComplete /\ Cache!CloseComplete

=============================================================================
