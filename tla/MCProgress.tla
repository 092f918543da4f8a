----------------------------- MODULE MCProgress -----------------------------
(***************************************************************************)
(* What must eventually happen outside the calls of the pool, for TLC: a   *)
(* behaviour is a fair behaviour of one part, chosen in the initial state, *)
(* and the other parts stay in their initial states.                       *)
(***************************************************************************)
EXTENDS Integers

VARIABLES
  part,
  call, engine, disk, worker,
  task, foreground, background, flusher, phase, passed,
  word, dirty, user, flushes, ctl, cleaner, rolledBack,
  frame, op, loads, inFlight, manager

engineVars == <<call, engine, disk, worker>>
schedVars == <<task, foreground, background, flusher, phase, passed>>
cleanVars == <<word, dirty, user, flushes, ctl, cleaner, rolledBack>>
asyncVars == <<frame, op, loads, inFlight, manager>>
progressVars == <<part, engineVars, schedVars, cleanVars, asyncVars>>

-----------------------------------------------------------------------------
\* A call of one request that is waited for, and one that is not.
One(t) == 1
ModesOfCaller(t) == IF t = 1 THEN {"wait", "async"} ELSE {"forget"}
Engine == INSTANCE IoEngine WITH
  Callers <- {1, 2}, Workers <- {1}, Batch <- One, ModesOf <- ModesOfCaller

\* Two foreground tasks and one of the cleaner, two workers.
Scheduler == INSTANCE FlushScheduler WITH
  Flushers <- {"f1", "f2"}, Cleanings <- {"c1"}, FlushWorkers <- {"w1", "w2"},
  SubmitBatchSize <- 2, ForegroundBurstLimit <- 1

\* A pool of one frame: one dirty page is the high watermark.
Controller == INSTANCE Cleaner WITH task <- flushes,
  Frames <- {"f1"}, NoFrame <- "none", Tasks <- {1}, High <- 1, Low <- 0, MaxGeneration <- 1,
  MaxPins <- 1, MaxShared <- 1

\* A read of two blocks, and a read or a prefetch of the second, one frame.
WithRead(c) == IF c = 1 THEN {<<"read", 1, 2>>} ELSE {<<"read", 2, 1>>}
Reads == INSTANCE AsyncReads WITH
  Frames <- {"f1"}, NoFrame <- "none", Callers <- {1, 2}, Calls <- WithRead,
  MaxRequestBlocks <- 2, MaxInFlight <- 0
WithPrefetch(c) == IF c = 1 THEN {<<"read", 1, 2>>} ELSE {<<"prefetch", 2, 1>>}
Prefetches == INSTANCE AsyncReads WITH
  Frames <- {"f1"}, NoFrame <- "none", Callers <- {1, 2}, Calls <- WithPrefetch,
  MaxRequestBlocks <- 2, MaxInFlight <- 0

-----------------------------------------------------------------------------
Init ==
  /\ part \in {"engine", "scheduler", "cleaner", "reads", "prefetches"}
  /\ Engine!Init /\ Scheduler!Init /\ Controller!Init /\ Reads!Init

EngineOnly == part = "engine" /\ UNCHANGED <<part, schedVars, cleanVars, asyncVars>>
SchedulerOnly == part = "scheduler" /\ UNCHANGED <<part, engineVars, cleanVars, asyncVars>>
CleanerOnly == part = "cleaner" /\ UNCHANGED <<part, engineVars, schedVars, asyncVars>>
ReadsOnly ==
  part \in {"reads", "prefetches"} /\ UNCHANGED <<part, engineVars, schedVars, cleanVars>>

Next ==
  \/ EngineOnly /\ Engine!Next
  \/ SchedulerOnly /\ Scheduler!Next
  \/ CleanerOnly /\ Controller!Next
  \/ ReadsOnly /\ part = "reads" /\ Reads!Next
  \/ ReadsOnly /\ part = "prefetches" /\ Prefetches!Next

\* The fairness of the parts: threads that can take a step are scheduled.
Fairness ==
  /\ \A t \in {1, 2} : WF_engineVars(part = "engine" /\ Engine!CallerStep(t))
  /\ WF_engineVars(part = "engine" /\ Engine!WorkerStep(1))
  /\ WF_engineVars(part = "engine" /\ Engine!ReaperStep)
  /\ WF_engineVars(part = "engine" /\ Engine!CloserStep)
  /\ \A w \in {"w1", "w2"} : WF_schedVars(part = "scheduler" /\ Scheduler!WorkerStep(w))
  /\ WF_schedVars(part = "scheduler" /\ Scheduler!NotifyAll)
  /\ WF_schedVars(part = "scheduler" /\ Scheduler!JoinWorkers)
  /\ WF_cleanVars(part = "cleaner" /\ Controller!UserStep)
  /\ WF_cleanVars(part = "cleaner" /\ Controller!CleanerStep)
  /\ WF_cleanVars(part = "cleaner" /\ Controller!NotifyShutdown)
  /\ WF_cleanVars(part = "cleaner" /\ Controller!TaskStep(1))
  /\ SF_cleanVars(part = "cleaner" /\ Controller!WriteTask(1, TRUE))
  /\ SF_cleanVars(part = "cleaner" /\ Controller!OnFlushScheduled)
  /\ \A c \in {1, 2} : WF_asyncVars(part = "reads" /\ Reads!CallStep(c))
  /\ \A c \in {1, 2} : WF_asyncVars(part = "reads" /\ Reads!DeliveryStep(c))
  /\ WF_asyncVars(part = "reads" /\ Reads!CloseStep)
  /\ \A c \in {1, 2} : WF_asyncVars(part = "prefetches" /\ Prefetches!CallStep(c))
  /\ \A c \in {1, 2} : WF_asyncVars(part = "prefetches" /\ Prefetches!DeliveryStep(c))
  /\ WF_asyncVars(part = "prefetches" /\ Prefetches!CloseStep)

Spec == Init /\ [][Next]_progressVars /\ Fairness

-----------------------------------------------------------------------------
\* The cleaner's count of flushes in flight is the number of its tasks, and a
\* frame is queued for cleaning at most once.
CleanerExact ==
  Controller!TypeOK /\ Controller!InflightExact /\ Controller!OneCandidateEach

\* Every call of the I/O engine returns, even if the backend stops answering,
\* Shutdown returns, and a prefetch that nobody waits for is delivered if the
\* backend does not fail.
EngineAnswers ==
  Engine!CallsReturn /\ Engine!ShutdownReturns /\ Engine!PrefetchesDelivered

\* Every accepted flush task completes, the cleaner's beside any number of
\* others, and Shutdown of the flush scheduler returns.
TasksComplete == Scheduler!TasksComplete /\ Scheduler!SchedulerStops

\* The cleaner does not sleep on while the dirty pages are at the watermark, an
\* awake one brings them below it, its wait for flushes in flight ends, and
\* Shutdown can join its thread.
CleanerResponds ==
  /\ Controller!CleanerReacts
  /\ Controller!CleanerDrains
  /\ Controller!InnerWaitEnds
  /\ Controller!CleanerStops


=============================================================================
