------------------------------ MODULE PageCache -----------------------------
(***************************************************************************)
(* The byte-addressed file cache over the pool (lib/facade/page_cache.cc), *)
(* for one file.  Reads and writes go block by block through pages that    *)
(* the pool may write back or evict at any moment; the size lives in an    *)
(* atomic beside them and the backing file has a size of its own.          *)
(*                                                                         *)
(* A page is absent or its bytes with a dirty flag; a byte is 0 or the     *)
(* thread that wrote it.  What a caller does to one block holds the page   *)
(* exclusively and is one step.                                            *)
(***************************************************************************)
EXTENDS Integers, Sequences, FiniteSets, FiniteSetsExt, Functions

CONSTANTS
  Threads, Nobody, Lost,
  BlockSize, MaxSize,         \* MaxSize bounds the bytes of the file
  OpsOf(_),                   \* calls: <<"write" or "read", offset, length>>, <<"truncate", size, 0>>, <<"sync", 0, 0>>, ...
  InitialReadaheadBlocks, MaxReadaheadBlocks,
  SyncsRace                   \* whether a write past the size may overlap a Sync

VARIABLES
  file,      \* FileState: latch, loaded, touched, size; closed_ of the cache
  ahead,     \* next_offset, window and prefetched_until of FileState
  page,      \* per block: the cached page, or Absent
  disk,      \* the backing file: bytes and size
  call,      \* per thread: its call and its place
  ref        \* the file as the completed block steps have left it

cacheVars == <<file, ahead, page, disk, call, ref>>

Positions == 0 .. MaxSize - 1
Blocks == 0 .. (MaxSize - 1) \div BlockSize
In(b) == {p \in Positions : p \div BlockSize = b}
BlocksOf(size) == (size + BlockSize - 1) \div BlockSize
Absent == [bytes |-> <<>>, dirty |-> FALSE]
kNoOffset == MaxSize + 1
Idle == [at |-> "idle", op |-> <<"none", 0, 0>>, copied |-> 0, fresh |-> {}]

Init ==
  \E s \in {0, BlockSize + 1} :
    /\ file = [latch |-> Nobody, loaded |-> FALSE, touched |-> FALSE, size |-> 0, closed |-> FALSE]
    /\ ahead = [next |-> kNoOffset, window |-> 0, until |-> 0]
    /\ page = [b \in Blocks |-> Absent]
    /\ disk = [bytes |-> [p \in Positions |-> 0], size |-> s]
    /\ call = [t \in Threads |-> Idle]
    /\ ref = [bytes |-> [p \in Positions |-> 0], size |-> s]

At(t, l) == call[t].at = l
Goto(t, l) == call' = [call EXCEPT ![t].at = l]
Op(t) == call[t].op[1]
Busy(ops) == \E t \in Threads : call[t].at # "idle" /\ Op(t) \in ops

TypeOK ==
  /\ file.latch \in Threads \cup {Nobody} /\ file.size \in 0 .. MaxSize /\ disk.size \in 0 .. BlocksOf(MaxSize) * BlockSize
  /\ ahead.next \in 0 .. kNoOffset /\ ahead.window \in 0 .. MaxReadaheadBlocks
  /\ \A t \in Threads : call[t].copied \in 0 .. MaxSize

-----------------------------------------------------------------------------
(* The pool and the backend, as the cache uses them.                       *)

OnDisk(d, b) == [p \in In(b) |-> IF p < d.size THEN d.bytes[p] ELSE 0]
Content(b) == IF page[b] = Absent THEN OnDisk(disk, b) ELSE page[b].bytes
Visible(p) == Content(p \div BlockSize)[p]

\* Writing blocks back writes whole blocks.
Written(d, bs) ==
  [bytes |-> [p \in Positions |-> IF p \div BlockSize \in bs THEN page[p \div BlockSize].bytes[p] ELSE d.bytes[p]],
   size |-> Max({d.size} \cup {(b + 1) * BlockSize : b \in bs})]

\* SetFileSize: what a later extension uncovers is zero.
Resized(d, size) == [bytes |-> [p \in Positions |-> IF p < size /\ p < d.size THEN d.bytes[p] ELSE 0], size |-> size]

WriteBack(b) ==
  /\ page[b].dirty
  /\ disk' = Written(disk, {b}) /\ page' = [page EXCEPT ![b].dirty = FALSE]
  /\ UNCHANGED <<file, ahead, call, ref>>
Evict(b) ==
  /\ page[b] # Absent /\ ~page[b].dirty
  /\ page' = [page EXCEPT ![b] = Absent] /\ UNCHANGED <<file, ahead, disk, call, ref>>

-----------------------------------------------------------------------------
(* Every call starts with State().                                         *)

\* Truncate runs alone, and a file is closed once.  Without SyncsRace a write
\* past the size and a Sync do not overlap.
MayStart(op) ==
  /\ op[1] \in {"truncate", "close"} => ~Busy({"read", "write", "truncate", "sync"})
  /\ ~Busy({"truncate", "close"})
  /\ ~SyncsRace => /\ op[1] = "sync" => ~\E t \in Threads : Op(t) = "write" /\ ~At(t, "idle") /\ call[t].op[2] + call[t].op[3] > file.size
                   /\ op[1] = "write" /\ Busy({"sync"}) => file.loaded /\ op[2] + op[3] <= file.size
Call(t, op) ==
  /\ At(t, "idle") /\ ~file.closed /\ MayStart(op)
  /\ call' = [call EXCEPT ![t] = [Idle EXCEPT !.at = IF op[1] = "close" THEN "close" ELSE "state", !.op = op]]
  /\ UNCHANGED <<file, ahead, page, disk, ref>>

First(t) == CASE Op(t) = "write" -> "copy" [] Op(t) = "read" -> "size" [] OTHER -> "latch"
State(t) ==
  /\ At(t, "state") /\ Goto(t, IF file.loaded THEN First(t) ELSE "load")
  /\ UNCHANGED <<file, ahead, page, disk, ref>>

\* Under the latch, once; GetFileSize may fail.
LoadState(t) ==
  /\ At(t, "load") /\ file.latch = Nobody
  /\ \/ /\ Goto(t, First(t))
        /\ file' = IF file.loaded THEN file ELSE [file EXCEPT !.loaded = TRUE, !.size = disk.size]
     \/ ~file.loaded /\ call' = [call EXCEPT ![t] = Idle] /\ UNCHANGED file
  /\ UNCHANGED <<ahead, page, disk, ref>>

-----------------------------------------------------------------------------
(* Write.                                                                  *)

Position(t) == call[t].op[2] + call[t].copied
Chunk(t) == Min({BlockSize - (Position(t) % BlockSize), call[t].op[3] - call[t].copied})

\* One block: a whole one is not read first, any other is.
CopyBlock(t) ==
  LET b == Position(t) \div BlockSize
      span == Position(t) .. Position(t) + Chunk(t) - 1
  IN
  /\ At(t, "copy") /\ Op(t) = "write" /\ call[t].copied < call[t].op[3]
  /\ page' = [page EXCEPT ![b] = [bytes |-> [p \in In(b) |-> IF p \in span THEN t ELSE IF Chunk(t) = BlockSize THEN 0 ELSE Content(b)[p]],
                                  dirty |-> TRUE]]
  /\ ref' = [ref EXCEPT !.bytes = [p \in Positions |-> IF p \in span THEN t ELSE @[p]]]
  /\ call' = [u \in Threads |-> IF u = t THEN [call[t] EXCEPT !.copied = @ + Chunk(t)]
                                ELSE IF Op(u) \in {"sync", "close"} THEN [call[u] EXCEPT !.fresh = @ \cup span] ELSE call[u]]
  /\ UNCHANGED <<file, ahead, disk>>

\* The page cannot be had: the size still covers the blocks before it.
CopyFails(t) ==
  /\ At(t, "copy") /\ Op(t) = "write" /\ call[t].copied < call[t].op[3]
  /\ IF call[t].copied = 0 THEN call' = [call EXCEPT ![t] = Idle] ELSE Goto(t, "extend")
  /\ UNCHANGED <<file, ahead, page, disk, ref>>
Copied(t) ==
  /\ At(t, "copy") /\ Op(t) = "write" /\ call[t].copied = call[t].op[3]
  /\ Goto(t, "extend") /\ UNCHANGED <<file, ahead, page, disk, ref>>

ExtendTo(size, end) == Max({size, end})

\* extend_to, a compare-and-swap loop.
Extend(t) ==
  /\ At(t, "extend")
  /\ file' = [file EXCEPT !.size = ExtendTo(@, Position(t)), !.touched = TRUE]
  /\ ref' = [ref EXCEPT !.size = Max({@, Position(t)})]
  /\ call' = [call EXCEPT ![t] = Idle] /\ UNCHANGED <<ahead, page, disk>>

-----------------------------------------------------------------------------
(* Read, with Readahead.                                                   *)

\* The window grows while reads continue one another; nothing past the file
\* or below prefetched_until is prefetched again.
Readahead(a, offset, length, size) ==
  LET window == IF a.window = 0 THEN Min({InitialReadaheadBlocks, MaxReadaheadBlocks}) ELSE Min({a.window * 2, MaxReadaheadBlocks})
      last == (offset + length - 1) \div BlockSize
      first == Max({last + 1, a.until})
      end == Min({last + 1 + window, BlocksOf(size)})
  IN
  IF MaxReadaheadBlocks = 0 THEN a
  ELSE IF offset # a.next THEN [a EXCEPT !.next = offset + length, !.window = 0]
  ELSE [next |-> offset + length, window |-> window, until |-> IF first >= end THEN a.until ELSE end]

ReadStart(t) ==
  LET offset == call[t].op[2]
      length == Min({call[t].op[3], file.size - offset})
  IN
  /\ At(t, "size") /\ UNCHANGED <<file, page, disk, ref>>
  /\ IF length <= 0 THEN call' = [call EXCEPT ![t] = Idle] /\ UNCHANGED ahead
     ELSE /\ call' = [call EXCEPT ![t].at = "copy", ![t].op[3] = length]
          /\ ahead' = Readahead(ahead, offset, length, file.size)

\* One block is read through its page, or cannot be.
ReadBlock(t) ==
  LET b == Position(t) \div BlockSize
      done == call[t].copied + Chunk(t) >= call[t].op[3]
  IN
  /\ At(t, "copy") /\ Op(t) = "read" /\ UNCHANGED <<file, ahead, disk, ref>>
  /\ \/ /\ page' = [page EXCEPT ![b] = IF @ = Absent THEN [bytes |-> Content(b), dirty |-> FALSE] ELSE @]
        /\ call' = [call EXCEPT ![t] = IF done THEN Idle ELSE [@ EXCEPT !.copied = @ + Chunk(t)]]
     \/ call' = [call EXCEPT ![t] = Idle] /\ UNCHANGED page

-----------------------------------------------------------------------------
(* Truncate and Sync hold the file's latch.                                *)

TakeLatch(t) ==
  /\ At(t, "latch") /\ file.latch = Nobody
  /\ file' = [file EXCEPT !.latch = t] /\ Goto(t, IF Op(t) = "truncate" THEN "drop" ELSE "flush")
  /\ UNCHANGED <<ahead, page, disk, ref>>
GiveUp(t) ==
  /\ call[t].at \in {"drop", "tail", "shrink", "flush", "resize", "fsync"}
  /\ call' = [call EXCEPT ![t] = Idle] /\ file' = [file EXCEPT !.latch = Nobody]
  /\ UNCHANGED <<ahead, page, disk, ref>>

NewSize(t) == call[t].op[2]

\* From here to the end of the call the bytes past the new size are in doubt.
DropBuffers(t) ==
  /\ At(t, "drop") /\ UNCHANGED <<file, ahead, disk>>
  /\ IF NewSize(t) >= file.size THEN Goto(t, "store") /\ UNCHANGED <<page, ref>>
     ELSE /\ page' = [b \in Blocks |-> IF b >= BlocksOf(NewSize(t)) THEN Absent ELSE page[b]]
          /\ ref' = [ref EXCEPT !.bytes = [p \in Positions |-> IF p >= NewSize(t) THEN Lost ELSE @[p]]]
          /\ Goto(t, IF NewSize(t) % BlockSize = 0 THEN "shrink" ELSE "tail")
\* Mutant of ZeroTail: the rest of the last block keeps its bytes.
KeepTail(t) == At(t, "tail") /\ Goto(t, "shrink") /\ UNCHANGED <<file, ahead, page, disk, ref>>

ZeroTail(t) ==
  LET b == NewSize(t) \div BlockSize IN
  /\ At(t, "tail") /\ Goto(t, "shrink") /\ UNCHANGED <<file, ahead, disk, ref>>
  /\ page' = [page EXCEPT ![b] = [bytes |-> [p \in In(b) |-> IF p >= NewSize(t) THEN 0 ELSE Content(b)[p]], dirty |-> TRUE]]
Shrink(t) ==
  /\ At(t, "shrink") /\ Goto(t, "store") /\ disk' = Resized(disk, NewSize(t))
  /\ UNCHANGED <<file, ahead, page, ref>>

StoreTruncated(t) ==
  /\ At(t, "store") /\ UNCHANGED <<page, disk>>
  /\ file' = [file EXCEPT !.size = NewSize(t), !.touched = TRUE, !.latch = Nobody]
  /\ ahead' = [ahead EXCEPT !.next = kNoOffset, !.until = 0]
  /\ ref' = [bytes |-> [p \in Positions |-> IF p >= NewSize(t) THEN 0 ELSE ref.bytes[p]], size |-> NewSize(t)]
  /\ call' = [call EXCEPT ![t] = Idle]

\* FlushFileBuffers, then the size, then the durable sync.
FlushFileBuffers(t) ==
  /\ At(t, "flush") /\ UNCHANGED <<file, ahead, ref>>
  /\ IF \E b \in Blocks : page[b].dirty
       THEN \E b \in Blocks : /\ page[b].dirty /\ disk' = Written(disk, {b})
                              /\ page' = [page EXCEPT ![b].dirty = FALSE] /\ UNCHANGED call
       ELSE Goto(t, "resize") /\ UNCHANGED <<page, disk>>
\* Mutant of SyncSize: the backing file keeps its rounded size.
SyncRounded(t) == At(t, "resize") /\ Goto(t, "fsync") /\ UNCHANGED <<file, ahead, page, disk, ref>>

SyncSize(t) ==
  /\ At(t, "resize") /\ disk' = Resized(disk, file.size) /\ Goto(t, "fsync")
  /\ UNCHANGED <<file, ahead, page, ref>>
\* SyncFile; a Close goes on with the manager's.
SyncDone(t) ==
  /\ At(t, "fsync") /\ UNCHANGED <<ahead, page, disk, ref>>
  /\ file' = [file EXCEPT !.latch = Nobody]
  /\ Goto(t, IF Op(t) = "close" THEN "closing" ELSE "synced")
Synced(t) == At(t, "synced") /\ call' = [call EXCEPT ![t] = Idle] /\ UNCHANGED <<file, ahead, page, disk, ref>>

\* Close syncs the files that were changed, then closes the manager.
CloseSyncs(t) ==
  /\ At(t, "close") /\ Goto(t, IF file.touched THEN "latch" ELSE "closing")
  /\ UNCHANGED <<file, ahead, page, disk, ref>>
CloseManager(t) ==
  /\ At(t, "closing") /\ call' = [call EXCEPT ![t] = Idle]
  /\ \/ /\ file' = [file EXCEPT !.closed = TRUE]
        /\ disk' = Written(disk, {b \in Blocks : page[b].dirty})
        /\ page' = [b \in Blocks |-> [page[b] EXCEPT !.dirty = FALSE]]
     \/ UNCHANGED <<file, page, disk>>
  /\ UNCHANGED <<ahead, ref>>

Step(t) ==
  \/ State(t) \/ LoadState(t) \/ CopyBlock(t) \/ CopyFails(t) \/ Copied(t) \/ Extend(t)
  \/ ReadStart(t) \/ ReadBlock(t) \/ TakeLatch(t) \/ GiveUp(t) \/ DropBuffers(t) \/ ZeroTail(t)
  \/ Shrink(t) \/ StoreTruncated(t) \/ FlushFileBuffers(t) \/ SyncSize(t) \/ SyncDone(t) \/ Synced(t)
  \/ CloseSyncs(t) \/ CloseManager(t)

Next ==
  \/ \E t \in Threads : Step(t) \/ \E op \in OpsOf(t) : Call(t, op)
  \/ \E b \in Blocks : WriteBack(b) \/ Evict(b)

Spec == Init /\ [][Next]_cacheVars

-----------------------------------------------------------------------------
\* What was written is what is read: through evictions, writebacks of whole
\* blocks, syncs that cut the backing file, truncations and extensions, each
\* byte below the size is the last one written there, or zero.
WritesKept == \A p \in Positions : p < file.size /\ ref.bytes[p] # Lost => Visible(p) = ref.bytes[p]

\* The size covers every write that returned, whoever loaded the file.
SizeExact == file.loaded => file.size = ref.size

\* A Sync that returned has put on disk all that was written before it, and
\* the exact size unless a write overlapped it.
SyncComplete ==
  \A t \in Threads : At(t, "synced") =>
    /\ \A p \in Positions \ call[t].fresh : p < ref.size /\ ref.bytes[p] # Lost => disk.bytes[p] = ref.bytes[p]
    /\ call[t].fresh = {} => disk.size = ref.size

\* A closed cache leaves a backing file of the logical size with all bytes,
\* unless a Truncate failed half-way.
CloseComplete ==
  file.closed /\ file.loaded /\ (\A p \in Positions : ref.bytes[p] # Lost) =>
    disk.size = ref.size /\ \A p \in Positions : p < ref.size => disk.bytes[p] = ref.bytes[p]

\* Readahead never claims blocks the file does not have.
AheadInFile == ahead.until <= BlocksOf(file.size)

=============================================================================
