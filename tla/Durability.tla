----------------------------- MODULE Durability -----------------------------
(***************************************************************************)
(* What FlushAll, SyncFile and the list of written files make durable      *)
(* (buffer_manager.cc, buffer_manager_flush.cc and                         *)
(* buffer_manager_lifecycle.cc).                                           *)
(*                                                                         *)
(* A file has one page, always resident.  Its contents are a version that  *)
(* client writes raise: page is the version in memory, os the one the      *)
(* backend has, durable the one that survives a power failure.  A thread   *)
(* that runs a writeback round also stands for the worker of its task; the *)
(* caller is told only when the worker is done with the whole of           *)
(* FinalizeFlushTask.                                                      *)
(***************************************************************************)
EXTENDS FrameControl, FiniteSets

CONSTANTS
  Threads,
  Calls(_),     \* of a thread: "flush" (FlushBuffer, an eviction or the cleaner), "flushall", "syncfile"
  Processes,    \* a process is the set of its threads
  Shared,       \* cross-process mode: the list lives in the segment
  Capacity,     \* SharedWrittenFiles::kCapacity
  Files, NoFile,
  MaxVersion    \* bound on the client writes of a file

\* What the proofs need of the constants: every thread belongs to a process.
ThreadsHaveHomes == \A t \in Threads : \E p \in Processes : t \in p

VARIABLES
  control,      \* the control word of the page of a file
  error,        \* its last_writeback_error # 0
  page, os, durable,
  local,        \* written_files_, one per process
  shared,       \* segment_->written_files()
  acked,        \* history: the newest version whose round is over
  th

pageVars == <<control, error, page>>
listVars == <<local, shared>>
vars == <<control, error, page, os, durable, local, shared, acked, th>>

Version == 0 .. MaxVersion
ZeroVersions == [f \in Files |-> 0]

\* before: history, what a FlushAll or a SyncFile found when it started.
IdleThread ==
  [pc |-> "idle", op |-> "none", todo |-> {}, file |-> NoFile, loop |-> FALSE, snap |-> 0,
   files |-> {}, mark |-> ZeroVersions, ret |-> "idle",
   before |-> [page |-> ZeroVersions, os |-> ZeroVersions, acked |-> ZeroVersions]]

Init ==
  /\ control = [f \in Files |-> [FreeWord EXCEPT !.state = "Resident"]]
  /\ error = [f \in Files |-> FALSE]
  /\ page = ZeroVersions /\ os = ZeroVersions /\ durable = ZeroVersions
  /\ local = [p \in Processes |-> {}]
  /\ shared = {}
  /\ acked = ZeroVersions
  /\ th = [t \in Threads |-> IdleThread]

At(t, l) == th[t].pc = l
File(t) == th[t].file
Home(t) == CHOOSE p \in Processes : t \in p

\* A round forgets its page at its end, a call forgets everything.
Goto(t, l) == th' = [th EXCEPT ![t] =
  CASE l = "idle" -> IdleThread
    [] l = "sweep" -> [@ EXCEPT !.pc = l, !.file = NoFile, !.snap = 0, !.loop = FALSE]
    [] OTHER -> [@ EXCEPT !.pc = l]]

Newest(v, w) == [f \in Files |-> IF v[f] > w[f] THEN v[f] ELSE w[f]]

-----------------------------------------------------------------------------
StartFlush(t, f) ==
  /\ At(t, "idle") /\ "flush" \in Calls(t)
  /\ th' = [th EXCEPT ![t] = [IdleThread EXCEPT !.pc = "queue", !.op = "flush",
                                !.file = f, !.loop = TRUE]]
  /\ UNCHANGED <<pageVars, os, durable, listVars, acked>>

StartFlushAll(t) ==
  /\ At(t, "idle") /\ "flushall" \in Calls(t)
  /\ th' = [th EXCEPT ![t] = [IdleThread EXCEPT !.pc = "sweep", !.op = "flushall",
                                !.todo = Files,
                                !.before.page = page, !.before.acked = acked]]
  /\ UNCHANGED <<pageVars, os, durable, listVars, acked>>

\* SyncFile forgets the file before it syncs it.
StartSyncFile(t, f) ==
  /\ At(t, "idle") /\ "syncfile" \in Calls(t)
  /\ th' = [th EXCEPT ![t] = [IdleThread EXCEPT !.pc = "erase",
                                !.op = "syncfile", !.file = f, !.files = {f}, !.ret = "ok",
                                !.before.os = [ZeroVersions EXCEPT ![f] = os[f]]]]
  /\ UNCHANGED <<pageVars, os, durable, listVars, acked>>

\* A client changes the page; during a writeback that also sets redirtied.
Modify(f) ==
  /\ page[f] < MaxVersion
  /\ page' = [page EXCEPT ![f] = @ + 1]
  /\ control' = [control EXCEPT ![f] = MarkedDirty(@)]
  /\ UNCHANGED <<error, os, durable, listVars, acked, th>>

-----------------------------------------------------------------------------
(* A writeback round.                                                      *)

\* WriteBackFrames visits every frame once, then syncs what was written.
Sweep(t) ==
  /\ At(t, "sweep")
  /\ \/ \E f \in th[t].todo :
          th' = [th EXCEPT ![t].pc = "queue", ![t].todo = @ \ {f}, ![t].file = f,
                           ![t].loop = FALSE]
     \/ th[t].todo = {} /\ Goto(t, "take")
  /\ UNCHANGED <<pageVars, os, durable, listVars, acked>>

\* Where a call goes after the page is clean, or its single round is over.
AfterPage(t) == IF th[t].op = "flush" THEN "idle" ELSE "sweep"

\* PrepareFlushTask.  A pending writeback is waited for; FlushAll finds it on
\* its first pass and then takes the path that loops until the page is clean.
TryQueueWriteback(t) ==
  LET f == File(t)
      outcome == QueueOutcome(control[f], FALSE)
  IN
  /\ At(t, "queue")
  /\ \/ /\ outcome = "Queued"
        /\ control' = [control EXCEPT ![f] = QueuedWriteback(@)]
        /\ error' = [error EXCEPT ![f] = FALSE]
        /\ th' = [th EXCEPT ![t].pc = "write", ![t].snap = page[f]]
     \/ /\ outcome = "NotDirty"
        /\ Goto(t, AfterPage(t))
        /\ UNCHANGED <<control, error>>
     \/ /\ outcome = "Pending"
        /\ th' = [th EXCEPT ![t].pc = "wait", ![t].loop = TRUE]
        /\ UNCHANGED <<control, error>>
  /\ UNCHANGED <<page, os, durable, listVars, acked>>

\* WaitForPendingFlush: the failure of the awaited writeback is the caller's.
WaitForPendingFlush(t) ==
  /\ At(t, "wait") /\ ~HasWriteback(control[File(t)])
  /\ Goto(t, IF error[File(t)] THEN "idle" ELSE "queue")
  /\ UNCHANGED <<pageVars, os, durable, listVars, acked>>

\* The backend has the bytes when the write completes, or it fails.
WriteTask(t) ==
  /\ At(t, "write")
  /\ \/ os' = [os EXCEPT ![File(t)] = th[t].snap] /\ Goto(t, "complete")
     \/ UNCHANGED os /\ Goto(t, "completefail")
  /\ UNCHANGED <<pageVars, durable, listVars, acked>>

\* FinalizeFlushTask ends the writeback before it records the written file.
CompleteWriteback(t) ==
  LET ok == At(t, "complete") IN
  /\ th[t].pc \in {"complete", "completefail"}
  /\ control' = [control EXCEPT ![File(t)] = CompletedWriteback(@, ok)]
  /\ error' = [error EXCEPT ![File(t)] = ~ok]
  /\ Goto(t, IF ok THEN "record" ELSE "idle")
  /\ UNCHANGED <<page, os, durable, listVars, acked>>

\* RecordWrittenFile, the latch held: private list, shared list or neither.
Records(f) == ~Shared \/ f \in shared \/ Cardinality(shared) < Capacity
Recorded(p, f) ==
  IF Shared THEN shared' = shared \cup {f} /\ UNCHANGED local
            ELSE local' = [local EXCEPT ![p] = @ \cup {f}] /\ UNCHANGED shared

\* Mutant of RecordWrittenFile: a full list drops the file.
FullListDrops(t) ==
  /\ At(t, "record")
  /\ IF Records(File(t)) THEN Recorded(Home(t), File(t)) ELSE UNCHANGED listVars
  /\ Goto(t, "rounddone")
  /\ UNCHANGED <<pageVars, os, durable, acked>>

\* A file that the full shared list cannot take is synced on the spot.
RecordWrittenFile(t) ==
  /\ At(t, "record")
  /\ \/ /\ Records(File(t))
        /\ Recorded(Home(t), File(t))
        /\ Goto(t, "rounddone")
     \/ /\ ~Records(File(t))
        /\ th' = [th EXCEPT ![t].pc = "submit", ![t].files = {File(t)}, ![t].ret = "rounddone"]
        /\ UNCHANGED listVars
  /\ UNCHANGED <<pageVars, os, durable, acked>>

RoundDone(t) ==
  LET f == File(t) IN
  /\ At(t, "rounddone")
  /\ acked' = [acked EXCEPT ![f] = IF th[t].snap > @ THEN th[t].snap ELSE @]
  /\ Goto(t, IF th[t].loop THEN "queue" ELSE AfterPage(t))
  /\ UNCHANGED <<pageVars, os, durable, listVars>>

-----------------------------------------------------------------------------
(* SyncWrittenFiles and SyncFile.                                          *)

TakeLocal(t) ==
  /\ At(t, "take")
  /\ local' = [local EXCEPT ![Home(t)] = {}]
  /\ th' = [th EXCEPT ![t].pc = IF Shared THEN "takeshared" ELSE "submit",
                      ![t].files = local[Home(t)], ![t].ret = "ok"]
  /\ UNCHANGED <<pageVars, os, durable, shared, acked>>

TakeShared(t) ==
  /\ At(t, "takeshared")
  /\ shared' = {}
  /\ th' = [th EXCEPT ![t].pc = "submit", ![t].files = @ \cup shared]
  /\ UNCHANGED <<pageVars, os, durable, local, acked>>

EraseLocal(t) ==
  /\ At(t, "erase")
  /\ local' = [local EXCEPT ![Home(t)] = @ \ th[t].files]
  /\ Goto(t, IF Shared THEN "eraseshared" ELSE "submit")
  /\ UNCHANGED <<pageVars, os, durable, shared, acked>>

\* Mutant of EraseShared: a file that no list holds is not synced.
SyncsOnlyListed(t) ==
  /\ At(t, "eraseshared")
  /\ shared' = shared \ th[t].files
  /\ Goto(t, IF th[t].files \subseteq shared THEN "submit" ELSE "ok")
  /\ UNCHANGED <<pageVars, os, durable, local, acked>>

EraseShared(t) ==
  /\ At(t, "eraseshared")
  /\ shared' = shared \ th[t].files
  /\ Goto(t, "submit")
  /\ UNCHANGED <<pageVars, os, durable, local, acked>>

\* SyncFiles: a sync covers what the backend had when it was submitted.
SubmitSync(t) ==
  /\ At(t, "submit")
  /\ IF th[t].files = {} THEN Goto(t, th[t].ret)
     ELSE th' = [th EXCEPT ![t].pc = "syncing", ![t].mark = os]
  /\ UNCHANGED <<pageVars, os, durable, listVars, acked>>

\* Any of the requests may fail; then every file is noted again.
WaitSync(t) ==
  /\ At(t, "syncing")
  /\ \E synced \in SUBSET th[t].files :
       /\ durable' = Newest(durable, [f \in Files |-> IF f \in synced THEN th[t].mark[f] ELSE 0])
       /\ IF synced = th[t].files
            THEN th' = [th EXCEPT ![t].pc = th[t].ret, ![t].files = {}, ![t].mark = ZeroVersions]
            ELSE th' = [th EXCEPT ![t].pc = "note", ![t].mark = ZeroVersions]
  /\ UNCHANGED <<pageVars, os, listVars, acked>>

\* NoteWrittenFile: what the shared list cannot take goes to the private one.
\* A failed sync fails the call, unless it was the one of a full list.
NoteWrittenFile(t) ==
  /\ At(t, "note")
  /\ \E f \in th[t].files :
       /\ IF Records(f) THEN Recorded(Home(t), f)
          ELSE local' = [local EXCEPT ![Home(t)] = @ \cup {f}] /\ UNCHANGED shared
       /\ th' = [th EXCEPT ![t].files = @ \ {f}]
  /\ UNCHANGED <<pageVars, os, durable, acked>>

NotedAll(t) ==
  /\ At(t, "note") /\ th[t].files = {}
  /\ Goto(t, IF th[t].ret = "rounddone" THEN "rounddone" ELSE "idle")
  /\ UNCHANGED <<pageVars, os, durable, listVars, acked>>

\* The call returns Ok to its client.
ReturnOk(t) ==
  /\ At(t, "ok")
  /\ Goto(t, "idle")
  /\ UNCHANGED <<pageVars, os, durable, listVars, acked>>

-----------------------------------------------------------------------------
Next ==
  \/ \E f \in Files : Modify(f)
  \/ \E t \in Threads :
       \/ \E f \in Files : StartFlush(t, f) \/ StartSyncFile(t, f)
       \/ StartFlushAll(t) \/ Sweep(t) \/ TryQueueWriteback(t) \/ WaitForPendingFlush(t)
       \/ WriteTask(t) \/ CompleteWriteback(t) \/ RecordWrittenFile(t) \/ RoundDone(t)
       \/ TakeLocal(t) \/ TakeShared(t) \/ EraseLocal(t) \/ EraseShared(t)
       \/ SubmitSync(t) \/ WaitSync(t) \/ NoteWrittenFile(t) \/ NotedAll(t) \/ ReturnOk(t)

Spec == Init /\ [][Next]_vars

-----------------------------------------------------------------------------
(* What must hold.                                                         *)

\* A write the backend has and the disk may lose is never forgotten: its file
\* is on a list, or a thread is about to record it, took it to sync it, notes
\* it again after a failed sync, or waits for a sync that covers it.
NoWriteForgotten ==
  \A f \in Files : os[f] > durable[f] =>
    \/ f \in shared \/ \E p \in Processes : f \in local[p]
    \/ \E t \in Threads :
         \/ th[t].pc \in {"complete", "record"} /\ th[t].file = f
         \/ th[t].pc \in {"takeshared", "erase", "eraseshared", "submit", "note"} /\ f \in th[t].files
         \/ At(t, "syncing") /\ f \in th[t].files /\ th[t].mark[f] = os[f]

\* SyncFile "makes every completed write to file_id durable"
\* (buffer_manager.h): all that the backend had when the call started.
SyncFileDurable ==
  \A t \in Threads : At(t, "ok") /\ th[t].op = "syncfile" =>
    durable[File(t)] >= th[t].before.os[File(t)]

\* FlushAll "makes every completed writeback durable" (buffer_manager.h): each
\* round that ended before the call started.
CompletedWritesDurable ==
  \A t \in Threads : At(t, "ok") /\ th[t].op = "flushall" =>
    \A f \in Files : durable[f] >= th[t].before.acked[f]

\* FlushAll "flushes every currently resident dirty page, then makes every
\* completed writeback durable": each change made before the call started.
FlushAllDurable ==
  \A t \in Threads : At(t, "ok") /\ th[t].op = "flushall" =>
    \A f \in Files : durable[f] >= th[t].before.page[f]

=============================================================================
