------------------------------- MODULE RecLsn -------------------------------
(***************************************************************************)
(* Recovery LSNs: MarkDirty(lsn) of an exclusive handle, the two words     *)
(* rec_lsn and writeback_rec_lsn that a writeback moves a page's LSN       *)
(* through (buffer_manager_flush.cc), and the calls that read them while   *)
(* pages are changed and written, MinRecLsn and CheckpointBuffers          *)
(* (buffer_manager.cc).  Pages stay resident; LSN 0 is kInvalidLsn.        *)
(***************************************************************************)
EXTENDS FrameControl, FiniteSets, FiniteSetsExt

CONSTANTS
  Frames,        \* 1 .. pool_size
  Writers, Flushers,
  Checkpointer,  \* runs MinRecLsn and CheckpointBuffers
  MaxLsn         \* bound on the LSNs that clients report

VARIABLES
  word, rec, wrec, failed,   \* control, rec_lsn, writeback_rec_lsn, last_writeback_error
  unsaved,       \* history: the reported changes that no writeback covers yet
  logged,        \* history: the LSNs reported so far
  run            \* the calls

lsnVars == <<word, rec, wrec, failed, unsaved, logged, run>>

Lsns == 1 .. MaxLsn
Threads == Writers \cup Flushers \cup {Checkpointer}
NoCall == [at |-> "idle", frame |-> 0, lsn |-> 0, snap |-> {}, pending |-> 0, phase |-> "none",
           busy |-> {}, base |-> {}, oldest |-> 0]

Init ==
  /\ word = [f \in Frames |-> [FreeWord EXCEPT !.state = "Resident"]]
  /\ rec = [f \in Frames |-> 0] /\ wrec = [f \in Frames |-> 0]
  /\ failed = [f \in Frames |-> FALSE]
  /\ unsaved = [f \in Frames |-> {}] /\ logged = {}
  /\ run = [t \in Threads |-> NoCall]

TypeOK ==
  /\ \A f \in Frames : word[f] \in ControlWord /\ {rec[f], wrec[f]} \subseteq Lsns \cup {0}
  /\ \A t \in Threads : run[t].frame \in Frames \cup {0, Cardinality(Frames) + 1}

At(t, l) == run[t].at = l
F(t) == run[t].frame
Goto(t, l) == run' = [run EXCEPT ![t].at = l]
Earlier(l, m) == IF m = 0 \/ (l # 0 /\ l < m) THEN l ELSE m

-----------------------------------------------------------------------------
(* An exclusive handle: lock, change the page and report the LSN, unlock.  *)

LockPage(t, f) ==
  /\ At(t, "idle") /\ CanAcquireExclusive(word[f])
  /\ word' = [word EXCEPT ![f] = AcquiredExclusive(@)]
  /\ run' = [run EXCEPT ![t].at = "holds", ![t].frame = f]
  /\ UNCHANGED <<rec, wrec, failed, unsaved, logged>>

\* MarkHandleDirty: the dirty flag first, then the LSN.
MarkDirty(t, lsn) ==
  /\ At(t, "holds") /\ lsn \notin logged
  /\ word' = [word EXCEPT ![F(t)] = MarkedDirty(@)]
  /\ unsaved' = [unsaved EXCEPT ![F(t)] = @ \cup {lsn}]
  /\ run' = [run EXCEPT ![t].at = "report", ![t].lsn = lsn]
  /\ UNCHANGED <<rec, wrec, failed, logged>>

LowerRecLsn(t) ==
  /\ At(t, "report")
  /\ rec' = [rec EXCEPT ![F(t)] = Earlier(run[t].lsn, @)]
  /\ logged' = logged \cup {run[t].lsn}
  /\ run' = [run EXCEPT ![t].at = "holds", ![t].lsn = 0]
  /\ UNCHANGED <<word, wrec, failed, unsaved>>

UnlockPage(t) ==
  /\ At(t, "holds")
  /\ word' = [word EXCEPT ![F(t)] = ReleasedExclusive(@)]
  /\ run' = [run EXCEPT ![t] = NoCall]
  /\ UNCHANGED <<rec, wrec, failed, unsaved, logged>>

-----------------------------------------------------------------------------
(* ForegroundFlushRound on the frame of a thread; it ends at "wrote",      *)
(* "clean", "busy" or "error".  Only a sweep gives way ("busy").           *)

Tries(t) == run[t].phase = "sweep"
Unlatched(f) == word' = [word EXCEPT ![f] = ReleasedShared(@)]

Latch(t) ==
  /\ At(t, "flush") /\ UNCHANGED <<rec, wrec, failed, unsaved, logged>>
  /\ \/ CanAcquireShared(word[F(t)]) /\ word' = [word EXCEPT ![F(t)] = AcquiredShared(@)] /\ Goto(t, "queue")
     \/ Tries(t) /\ ~CanAcquireShared(word[F(t)]) /\ Goto(t, "busy") /\ UNCHANGED word

Queue(t) ==
  LET outcome == QueueOutcome(word[F(t)], FALSE) IN
  /\ At(t, "queue") /\ UNCHANGED <<rec, wrec, unsaved, logged>>
  /\ \/ /\ outcome = "Queued"
        /\ word' = [word EXCEPT ![F(t)] = QueuedWriteback(@)]
        /\ failed' = [failed EXCEPT ![F(t)] = FALSE] /\ Goto(t, "move")
     \/ outcome = "NotDirty" /\ Unlatched(F(t)) /\ Goto(t, "clean") /\ UNCHANGED failed
     \/ outcome = "Pending" /\ Tries(t) /\ Unlatched(F(t)) /\ Goto(t, "busy") /\ UNCHANGED failed
     \/ outcome = "Pending" /\ ~Tries(t) /\ Goto(t, "await") /\ UNCHANGED <<word, failed>>

\* WaitForPendingFlush hands its error to whoever waits.
Await(t) ==
  /\ At(t, "await") /\ ~HasWriteback(word[F(t)])
  /\ \/ failed[F(t)] /\ Unlatched(F(t)) /\ Goto(t, "error")
     \/ ~failed[F(t)] /\ Goto(t, "queue") /\ UNCHANGED word
  /\ UNCHANGED <<rec, wrec, failed, unsaved, logged>>

\* Mutant of Move: rec_lsn is cleared before it is copied.
ClearFirst(t) ==
  /\ At(t, "move")
  /\ rec' = [rec EXCEPT ![F(t)] = 0]
  /\ run' = [run EXCEPT ![t].at = "snapshot", ![t].lsn = rec[F(t)]]
  /\ UNCHANGED <<word, wrec, failed, unsaved, logged>>

\* PrepareFlushTask: writeback_rec_lsn is set before rec_lsn is cleared.
Move(t) ==
  /\ At(t, "move")
  /\ wrec' = [wrec EXCEPT ![F(t)] = rec[F(t)]]
  /\ run' = [run EXCEPT ![t].at = "snapshot", ![t].lsn = wrec'[F(t)]]
  /\ UNCHANGED <<word, rec, failed, unsaved, logged>>

Snapshot(t) ==
  /\ At(t, "snapshot")
  /\ rec' = [rec EXCEPT ![F(t)] = 0] /\ wrec' = [wrec EXCEPT ![F(t)] = run[t].lsn]
  /\ run' = [run EXCEPT ![t].at = "begin", ![t].snap = unsaved[F(t)], ![t].lsn = 0]
  /\ Unlatched(F(t)) /\ UNCHANGED <<failed, unsaved, logged>>

\* BeginFlushTask, unless the pre_write_hook fails.
Begin(t) ==
  /\ At(t, "begin")
  /\ word' = [word EXCEPT ![F(t)] = BegunWriteback(@)] /\ Goto(t, "write")
  /\ UNCHANGED <<rec, wrec, failed, unsaved, logged>>

\* RollBackFlushTask, and FinalizeFlushTask after a failed write: the LSN
\* goes back to rec_lsn before the writeback is over.
Restore(t, from) ==
  /\ At(t, from)
  /\ failed' = [failed EXCEPT ![F(t)] = TRUE]
  /\ rec' = [rec EXCEPT ![F(t)] = Earlier(wrec[F(t)], @)]
  /\ Goto(t, "rollback") /\ UNCHANGED <<word, wrec, unsaved, logged>>
GiveUp(t) ==
  /\ At(t, "rollback")
  /\ word' = [word EXCEPT ![F(t)] = IF @.active THEN CompletedWriteback(@, FALSE) ELSE CancelledWriteback(@)]
  /\ run' = [run EXCEPT ![t].at = "error", ![t].snap = {}]
  /\ UNCHANGED <<rec, wrec, failed, unsaved, logged>>

\* The page is written, then FinalizeFlushTask forgets the LSN, then clears
\* the writeback.
Written(t) ==
  /\ At(t, "write")
  /\ unsaved' = [unsaved EXCEPT ![F(t)] = @ \ run[t].snap]
  /\ run' = [run EXCEPT ![t].at = "forget", ![t].snap = {}]
  /\ UNCHANGED <<word, rec, wrec, failed, logged>>
Forget(t) ==
  /\ At(t, "forget")
  /\ wrec' = [wrec EXCEPT ![F(t)] = 0]
  /\ Goto(t, "complete") /\ UNCHANGED <<word, rec, failed, unsaved, logged>>
Complete(t) ==
  /\ At(t, "complete")
  /\ word' = [word EXCEPT ![F(t)] = CompletedWriteback(@, TRUE)]
  /\ Goto(t, "wrote") /\ UNCHANGED <<rec, wrec, failed, unsaved, logged>>

FlushStep(t) ==
  \/ Latch(t) \/ Queue(t) \/ Await(t) \/ Move(t) \/ Snapshot(t) \/ Begin(t)
  \/ Restore(t, "begin") \/ Restore(t, "write") \/ GiveUp(t) \/ Written(t) \/ Forget(t) \/ Complete(t)

\* FlushBuffer by another thread, or a task of the cleaner: one round.
StartFlush(t, f) ==
  /\ At(t, "idle")
  /\ run' = [run EXCEPT ![t].at = "flush", ![t].frame = f]
  /\ UNCHANGED <<word, rec, wrec, failed, unsaved, logged>>
EndFlush(t) ==
  /\ t \in Flushers /\ run[t].at \in {"wrote", "clean", "error"}
  /\ run' = [run EXCEPT ![t] = NoCall]
  /\ UNCHANGED <<word, rec, wrec, failed, unsaved, logged>>

-----------------------------------------------------------------------------
(* MinRecLsn ("min") and CheckpointBuffers(lsn) ("sweep", then the busy    *)
(* frames, then "rounds"), frame by frame.                                 *)

C == run[Checkpointer]
CGoto(r) == run' = [run EXCEPT ![Checkpointer] = r] /\ UNCHANGED <<word, rec, wrec, failed, unsaved, logged>>
ToFrame(r, f) ==
  [r EXCEPT !.frame = f, !.pending = 0,
            !.at = IF f > Cardinality(Frames) THEN "end" ELSE IF r.phase = "busy" THEN "busyframe" ELSE "pending"]

StartMin == At(Checkpointer, "idle") /\ CGoto(ToFrame([NoCall EXCEPT !.phase = "min", !.base = logged], 1))
StartCheckpoint(lsn) ==
  At(Checkpointer, "idle") /\ CGoto(ToFrame([NoCall EXCEPT !.phase = "sweep", !.base = logged, !.oldest = lsn], 1))

\* FrameRecLsn: two loads.
LoadPending == C.at = "pending" /\ CGoto([C EXCEPT !.at = "writing", !.pending = rec[C.frame]])
LoadWriting ==
  LET lsn == Earlier(C.pending, wrec[C.frame]) IN
  /\ C.at = "writing"
  /\ \/ C.phase = "min" /\ CGoto(ToFrame([C EXCEPT !.oldest = Earlier(lsn, @)], C.frame + 1))
     \/ C.phase # "min" /\ lsn # 0 /\ lsn < C.oldest /\ CGoto([C EXCEPT !.at = "flush"])
     \/ C.phase # "min" /\ ~ (lsn # 0 /\ lsn < C.oldest) /\ CGoto(ToFrame(C, C.frame + 1))

\* FlushBusyFrames: the next busy frame, if any, until it is clean.
BusyFrame ==
  /\ C.at = "busyframe"
  /\ CGoto(IF C.frame \in C.busy THEN [C EXCEPT !.at = "flush"] ELSE ToFrame(C, C.frame + 1))

\* What follows a round; an error ends the call.
AfterRound ==
  \/ C.at = "busy" /\ CGoto(ToFrame([C EXCEPT !.busy = @ \cup {C.frame}], C.frame + 1))
  \/ C.at = "clean" /\ CGoto(ToFrame(C, C.frame + 1))
  \/ C.at = "wrote" /\ CGoto(CASE C.phase = "sweep" -> ToFrame(C, C.frame + 1)
                               [] C.phase = "busy" -> [C EXCEPT !.at = "flush"]
                               [] OTHER -> ToFrame(C, C.frame))
  \/ C.at = "error" /\ CGoto(NoCall)

EndPhase ==
  /\ C.at = "end"
  /\ CGoto(CASE C.phase = "sweep" -> ToFrame([C EXCEPT !.phase = "busy"], 1)
             [] C.phase = "busy" -> ToFrame([C EXCEPT !.phase = "rounds", !.busy = {}], 1)
             [] OTHER -> [C EXCEPT !.at = "done"])

Return == C.at = "done" /\ CGoto(NoCall)

Next ==
  \/ \E t \in Writers : \/ \E f \in Frames : LockPage(t, f)
                        \/ \E lsn \in Lsns : MarkDirty(t, lsn)
                        \/ LowerRecLsn(t) \/ UnlockPage(t)
  \/ \E t \in Flushers \cup {Checkpointer} : FlushStep(t)
  \/ \E t \in Flushers : EndFlush(t) \/ \E f \in Frames : StartFlush(t, f)
  \/ StartMin \/ (\E lsn \in Lsns : StartCheckpoint(lsn)) \/ LoadPending \/ LoadWriting
  \/ BusyFrame \/ AfterRound \/ EndPhase \/ Return

Spec == Init /\ [][Next]_lsnVars

-----------------------------------------------------------------------------
Saved(l) == \A f \in Frames : l \notin unsaved[f]

\* MinRecLsn: "Every change with a smaller LSN has been written back", for
\* the changes that were reported when it was called; nullopt says so of all.
MinRecLsnSafe ==
  C.at = "done" /\ C.phase = "min" =>
    \A l \in C.base : C.oldest = 0 \/ l < C.oldest => Saved(l)

\* CheckpointBuffers: "Afterwards every change logged below `lsn` before the
\* call" has been written back; SyncWrittenFiles then makes it durable.
CheckpointSaves ==
  C.at = "done" /\ C.phase # "min" => \A l \in C.base : l < C.oldest => Saved(l)

=============================================================================
