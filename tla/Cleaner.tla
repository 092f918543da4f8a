------------------------------- MODULE Cleaner ------------------------------
(***************************************************************************)
(* The background cleaner: the controller thread                           *)
(* (lib/buffer/cleaner_controller.cc) and the steps of users and flush     *)
(* tasks that feed it (buffer_manager_handle.cc, buffer_manager_cleaner.cc *)
(* and buffer_manager_flush.cc).                                           *)
(*                                                                         *)
(* The controller's latch is held from the test of a wait's predicate to   *)
(* the sleep ("doze..."); its other steps under the latch are one action.  *)
(* Notify takes no latch, so a notification in between is lost.            *)
(***************************************************************************)
EXTENDS FrameControl, Integers, Sequences, SequencesExt, FiniteSets

CONSTANTS
  Frames, NoFrame,
  Tasks,            \* the flush tasks that exist at a time
  High, Low,        \* the dirty page watermarks
  MaxGeneration     \* bound on candidate_generations_

VARIABLES
  word,       \* the control words
  dirty,      \* dirty_page_count_
  user,       \* a client with one exclusive handle at a time
  task,       \* the flush tasks
  ctl,        \* the controller's state
  cleaner,    \* its thread
  rolledBack  \* history: a pre_write_hook has failed for the cleaner

cleanVars == <<word, dirty, user, task, ctl, cleaner, rolledBack>>

NoTask == [at |-> "none", frame |-> NoFrame, owner |-> "none", then |-> "none"]
Written(f, owner) == [at |-> "write", frame |-> f, owner |-> owner, then |-> "none"]

Init ==
  /\ word = [f \in Frames |-> [FreeWord EXCEPT !.state = "Resident"]]
  /\ dirty = 0 /\ rolledBack = FALSE
  /\ user = [at |-> "idle", frame |-> NoFrame]
  /\ task = [k \in Tasks |-> NoTask]
  /\ ctl = [queue |-> <<>>, enqueued |-> {}, generation |-> [f \in Frames |-> 0], inflight |-> 0, shut |-> "no"]
  /\ cleaner = [at |-> "top", frame |-> NoFrame, seeded |-> {}]

TypeOK ==
  /\ \A f \in Frames : word[f] \in ControlWord
  /\ dirty \in 0 .. Cardinality(Frames) + Cardinality(Tasks) /\ ctl.inflight \in 0 .. Cardinality(Tasks)
  /\ \A i \in DOMAIN ctl.queue : ctl.queue[i].frame \in Frames

LatchFree == cleaner.at \notin {"doze", "dozeInner"}
Notified(c) == [c EXCEPT !.at = IF @ = "cv" THEN "top" ELSE IF @ = "cvInner" THEN "inner" ELSE @]

\* EnqueueCandidate, ResetCandidate.
Enqueued(c, f) ==
  IF f \in c.enqueued THEN c
  ELSE [c EXCEPT !.enqueued = @ \cup {f}, !.queue = Append(@, [frame |-> f, generation |-> c.generation[f]])]
Reset(c, f) == [c EXCEPT !.enqueued = @ \ {f}, !.generation[f] = @ + 1]

ShouldQueueCleanerCandidate(w) == IsResident(w) /\ w.dirty /\ w.pins = 0 /\ ~HasWriteback(w)

-----------------------------------------------------------------------------
(* A client: an exclusive handle, MarkDirty, and its release.              *)

UGoto(l) == user' = [user EXCEPT !.at = l]

TakeHandle(f) ==
  /\ user.at = "idle" /\ CanAcquireExclusive(word[f]) /\ ctl.generation[f] < MaxGeneration
  /\ word' = [word EXCEPT ![f] = AcquiredExclusive(Pinned(@))]
  /\ user' = [at |-> "holds", frame |-> f]
  /\ UNCHANGED <<dirty, task, ctl, cleaner, rolledBack>>

MarkHandleDirty ==
  /\ user.at = "holds"
  /\ word' = [word EXCEPT ![user.frame] = MarkedDirty(@)]
  /\ UGoto(IF word[user.frame].dirty THEN "marked" ELSE "count")
  /\ UNCHANGED <<dirty, task, ctl, cleaner, rolledBack>>

CountDirty ==
  /\ user.at = "count" /\ dirty' = dirty + 1 /\ UGoto("notify")
  /\ UNCHANGED <<word, task, ctl, cleaner, rolledBack>>

NotifyDirty ==
  /\ user.at = "notify" /\ cleaner' = Notified(cleaner) /\ UGoto("marked")
  /\ UNCHANGED <<word, dirty, task, ctl, rolledBack>>

\* ReleaseExclusiveHandle; the last pin of a dirty page makes it a candidate.
ReleaseFrame ==
  /\ user.at \in {"holds", "marked"}
  /\ word' = [word EXCEPT ![user.frame] = Unpinned(ReleasedExclusive(@))]
  /\ IF word[user.frame].dirty THEN UGoto("enqueue") ELSE user' = [at |-> "idle", frame |-> NoFrame]
  /\ UNCHANGED <<dirty, task, ctl, cleaner, rolledBack>>

\* Mutant of EnqueueReleased: without the controller's latch.
EnqueueUnlatched ==
  /\ user.at = "enqueue"
  /\ ctl' = Enqueued(ctl, user.frame) /\ UGoto("wake")
  /\ UNCHANGED <<word, dirty, task, cleaner, rolledBack>>

EnqueueReleased ==
  /\ user.at = "enqueue" /\ LatchFree
  /\ ctl' = Enqueued(ctl, user.frame) /\ UGoto("wake")
  /\ UNCHANGED <<word, dirty, task, cleaner, rolledBack>>

NotifyReleased ==
  /\ user.at = "wake" /\ cleaner' = Notified(cleaner)
  /\ user' = [at |-> "idle", frame |-> NoFrame]
  /\ UNCHANGED <<word, dirty, task, ctl, rolledBack>>

-----------------------------------------------------------------------------
(* Flush tasks: a caller's, or the cleaner's once it is enqueued.          *)

TGoto(k, l) == task' = [task EXCEPT ![k].at = l]

StartFlush(k, f) ==
  /\ task[k] = NoTask /\ CanAcquireShared(word[f]) /\ QueueOutcome(word[f], FALSE) = "Queued"
  /\ word' = [word EXCEPT ![f] = QueuedWriteback(@)]
  /\ task' = [task EXCEPT ![k] = Written(f, "caller")]
  /\ UNCHANGED <<dirty, user, ctl, cleaner, rolledBack>>

\* The write, then FinalizeFlushTask step by step: the word, the dirty count,
\* the candidate (decided by the word that was installed), the count of
\* flushes in flight, the notifications.
WriteTask(k, ok) ==
  LET f == task[k].frame
      done == CompletedWriteback(BegunWriteback(word[f]), ok) IN
  /\ task[k].at = "write"
  /\ word' = [word EXCEPT ![f] = done]
  /\ task' = [task EXCEPT ![k].at = "count",
                          ![k].then = IF ShouldQueueCleanerCandidate(done) THEN "enqueue"
                                      ELSE IF ClearsDirty(word[f], ok) THEN "reset" ELSE "none"]
  /\ UNCHANGED <<dirty, user, ctl, cleaner, rolledBack>>

Uncount(k) ==
  /\ task[k].at = "count"
  /\ dirty' = IF task[k].then = "reset" THEN dirty - 1 ELSE dirty
  /\ TGoto(k, "candidate") /\ UNCHANGED <<word, user, ctl, cleaner, rolledBack>>

Candidate(k) ==
  /\ task[k].at = "candidate" /\ LatchFree
  /\ ctl' = CASE task[k].then = "reset" -> Reset(ctl, task[k].frame)
              [] task[k].then = "enqueue" -> Enqueued(ctl, task[k].frame)
              [] OTHER -> ctl
  /\ TGoto(k, IF task[k].owner = "cleaner" THEN "finish" ELSE "wake")
  /\ UNCHANGED <<word, dirty, user, cleaner, rolledBack>>

OnFlushFinished(k) ==
  /\ task[k].at = "finish" /\ LatchFree
  /\ ctl' = [ctl EXCEPT !.inflight = IF @ > 0 THEN @ - 1 ELSE @]
  /\ TGoto(k, "wake") /\ UNCHANGED <<word, dirty, user, cleaner, rolledBack>>

NotifyFinished(k) ==
  /\ task[k].at = "wake" /\ cleaner' = Notified(cleaner)
  /\ task' = [task EXCEPT ![k] = NoTask]
  /\ UNCHANGED <<word, dirty, user, ctl, rolledBack>>

-----------------------------------------------------------------------------
(* The cleaner's thread.                                                   *)

CGoto(l) == cleaner' = [cleaner EXCEPT !.at = l, !.frame = NoFrame, !.seeded = {}]
Idle == UNCHANGED <<word, dirty, user, task, ctl, rolledBack>>
Budget == IF dirty > Low THEN dirty - Low ELSE 0
Shut == ctl.shut # "no"

\* cv_.wait for the high watermark.
Top ==
  /\ cleaner.at = "top" /\ Idle
  /\ CGoto(IF Shut THEN "gone" ELSE IF dirty >= High THEN "loop" ELSE "doze")
Sleep ==
  \/ cleaner.at = "doze" /\ CGoto("cv") /\ Idle
  \/ cleaner.at = "dozeInner" /\ CGoto("cvInner") /\ Idle

Live(e) == e.frame \in ctl.enqueued /\ ctl.generation[e.frame] = e.generation

\* TakeCandidate drops stale entries until it finds a live one.
TakeCandidate ==
  LET live == {i \in DOMAIN ctl.queue : Live(ctl.queue[i])} IN
  /\ UNCHANGED <<word, dirty, user, task, rolledBack>>
  /\ \/ live = {} /\ ctl' = [ctl EXCEPT !.queue = <<>>] /\ CGoto("loop")
     \/ \E i \in live :
          /\ \A j \in live : i <= j
          /\ ctl' = [ctl EXCEPT !.queue = SubSeq(@, i + 1, Len(@)), !.enqueued = @ \ {ctl.queue[i].frame}]
          /\ cleaner' = [cleaner EXCEPT !.at = "schedule", !.frame = ctl.queue[i].frame, !.seeded = {}]

\* One turn of the inner loop, up to what it does without the latch.
Loop ==
  /\ cleaner.at = "loop"
  /\ \/ (Shut \/ dirty < High \/ Budget = 0) /\ CGoto("top") /\ Idle
     \/ /\ ~Shut /\ dirty >= High /\ Budget > 0
        /\ \/ ctl.inflight >= Budget /\ CGoto("inner") /\ Idle
           \/ ctl.inflight < Budget /\ ctl.queue = <<>> /\ CGoto("seed") /\ Idle
           \/ ctl.inflight < Budget /\ ctl.queue # <<>> /\ TakeCandidate

Inner ==
  /\ cleaner.at = "inner" /\ Idle
  /\ CGoto(IF Shut \/ dirty < High \/ ctl.inflight < Budget THEN "loop" ELSE "dozeInner")

\* SeedCleanerCandidates, a frame at a time; the latch is taken per frame.
Seed(f) ==
  /\ cleaner.at = "seed" /\ f \notin cleaner.seeded
  /\ ctl' = IF ShouldQueueCleanerCandidate(word[f]) THEN Enqueued(ctl, f) ELSE ctl
  /\ cleaner' = [cleaner EXCEPT !.seeded = @ \cup {f}]
  /\ UNCHANGED <<word, dirty, user, task, rolledBack>>
Seeded ==
  /\ cleaner.at = "seed" /\ cleaner.seeded = Frames
  /\ \/ ctl.queue = <<>> /\ CGoto("top") /\ Idle
     \/ ctl.queue # <<>> /\ TakeCandidate

\* ScheduleCleanerFlush: skips a page that is latched, clean, pinned or being
\* written, and else queues it.
Schedule ==
  LET f == cleaner.frame IN
  /\ cleaner.at = "schedule" /\ UNCHANGED <<dirty, user, task, ctl, rolledBack>>
  /\ IF CanAcquireShared(word[f]) /\ QueueOutcome(word[f], TRUE) = "Queued"
       THEN word' = [word EXCEPT ![f] = QueuedWriteback(@)] /\ cleaner' = [cleaner EXCEPT !.at = "hook"]
       ELSE CGoto("loop") /\ UNCHANGED word

\* Mutant of OnFlushScheduled: the task is enqueued uncounted.
ScheduledUncounted ==
  /\ cleaner.at = "hook"
  /\ \E k \in Tasks : task[k] = NoTask /\ task' = [task EXCEPT ![k] = Written(cleaner.frame, "cleaner")]
  /\ CGoto("loop") /\ UNCHANGED <<word, dirty, user, ctl, rolledBack>>

\* EnqueueFlushTask: OnFlushScheduled, then the scheduler.
OnFlushScheduled ==
  /\ cleaner.at = "hook"
  /\ ctl' = [ctl EXCEPT !.inflight = @ + 1]
  /\ \E k \in Tasks : task[k] = NoTask /\ task' = [task EXCEPT ![k] = Written(cleaner.frame, "cleaner")]
  /\ CGoto("loop") /\ UNCHANGED <<word, dirty, user, rolledBack>>

\* The pre_write_hook fails: RollBackFlushTask, which calls OnFlushFinished.
RollBackFlushTask ==
  /\ cleaner.at = "hook" /\ rolledBack' = TRUE
  /\ ctl' = [ctl EXCEPT !.inflight = IF @ > 0 THEN @ - 1 ELSE @]
  /\ word' = [word EXCEPT ![cleaner.frame] = CancelledWriteback(@)]
  /\ CGoto("loop") /\ UNCHANGED <<dirty, user, task>>

Shutdown ==
  /\ ctl.shut = "no" /\ LatchFree /\ ctl' = [ctl EXCEPT !.shut = "notify"]
  /\ UNCHANGED <<word, dirty, user, task, cleaner, rolledBack>>
NotifyShutdown ==
  /\ ctl.shut = "notify" /\ ctl' = [ctl EXCEPT !.shut = "join"]
  /\ cleaner' = Notified(cleaner) /\ UNCHANGED <<word, dirty, user, task, rolledBack>>

UserStep == MarkHandleDirty \/ CountDirty \/ NotifyDirty \/ ReleaseFrame \/ EnqueueReleased \/ NotifyReleased
TaskStep(k) ==
  \/ \E ok \in BOOLEAN : WriteTask(k, ok)
  \/ Uncount(k) \/ Candidate(k) \/ OnFlushFinished(k) \/ NotifyFinished(k)
CleanerStep ==
  \/ Top \/ Sleep \/ Loop \/ Inner \/ (\E f \in Frames : Seed(f)) \/ Seeded \/ Schedule \/ OnFlushScheduled

Next ==
  \/ (\E f \in Frames : TakeHandle(f)) \/ UserStep
  \/ \E k \in Tasks : TaskStep(k) \/ \E f \in Frames : StartFlush(k, f)
  \/ CleanerStep \/ RollBackFlushTask \/ Shutdown \/ NotifyShutdown

Fairness ==
  /\ WF_cleanVars(UserStep) /\ WF_cleanVars(CleanerStep) /\ WF_cleanVars(NotifyShutdown)
  /\ \A k \in Tasks : WF_cleanVars(TaskStep(k)) /\ SF_cleanVars(WriteTask(k, TRUE))
  /\ SF_cleanVars(OnFlushScheduled)

Spec == Init /\ [][Next]_cleanVars /\ Fairness

-----------------------------------------------------------------------------
\* The flushes the cleaner counts in flight are the ones that are, which is
\* what bounds them; as long as no pre_write_hook fails for the cleaner.
InflightExact ==
  ~rolledBack => ctl.inflight = Cardinality({k \in Tasks : task[k].owner = "cleaner" /\ task[k].at # "wake"})

\* No page is a candidate twice, however often it is dirtied, flushed and
\* seeded, so that the queue is bounded by the pages and the stale entries.
OneCandidateEach ==
  \A f \in Frames : Cardinality({i \in DOMAIN ctl.queue : ctl.queue[i].frame = f /\ Live(ctl.queue[i])}) <= 1

\* A wait for flushes in flight ends: one is in flight, and its end is seen.
InnerWaitEnds == cleaner.at = "cvInner" ~> cleaner.at # "cvInner"

\* An awake cleaner brings the dirty pages below the watermark once the users
\* pause, although a reset of a candidate may race the page's next release
\* and drop it; provided writes and hooks do not fail for ever.
CleanerDrains ==
  <>[](user.at = "idle" /\ ~Shut) => []<>(dirty < High \/ cleaner.at = "cv")

\* Shutdown can join the thread.
CleanerStops == Shut ~> cleaner.at = "gone"

\* The cleaner does not sleep on while the dirty pages are at the high
\* watermark.  Notify takes no latch, so the one of MarkDirty may fall between
\* the cleaner's test and its sleep; the release of the handle that follows
\* passes through the latch and notifies again.
CleanerReacts == dirty >= High /\ cleaner.at = "cv" ~> dirty < High \/ cleaner.at # "cv"

=============================================================================
