--------------------------- MODULE FlushScheduler ---------------------------
(***************************************************************************)
(* The flush scheduler (lib/buffer/flush_scheduler.cc): tasks of flushing  *)
(* callers go to the foreground queue, tasks of the cleaner to the         *)
(* background queue, and workers take them in batches, write them through  *)
(* the I/O engine and complete them.                                       *)
(*                                                                         *)
(* A caller waits for its task, the cleaner does not.  A task is named     *)
(* after whoever enqueues it and can be enqueued again once completed.     *)
(***************************************************************************)
EXTENDS Integers, Sequences, SequencesExt, FiniteSets

CONSTANTS
  Flushers,       \* callers of Enqueue and Wait
  Cleanings,      \* tasks of the cleaner
  FlushWorkers,
  SubmitBatchSize,
  ForegroundBurstLimit

VARIABLES
  task,        \* "idle", "queued", "rejected", "running", "completed"
  foreground, background,   \* the queues
  flusher,     \* per worker: its place, its batch, consecutive_foreground_flushes
  phase,       \* of Shutdown: "open", "notify", "join", "done"
  passed       \* history: foreground tasks taken past a waiting background task

schedVars == <<task, foreground, background, flusher, phase, passed>>

Tasks == Flushers \cup Cleanings

\* What passed may reach; it is counted up to the next number.
MaxPassed == ForegroundBurstLimit * Cardinality(FlushWorkers)

Init ==
  /\ task = [k \in Tasks |-> "idle"]
  /\ foreground = <<>> /\ background = <<>>
  /\ flusher = [w \in FlushWorkers |-> [at |-> "look", batch |-> <<>>, burst |-> 0]]
  /\ phase = "open" /\ passed = 0

TypeOK ==
  /\ task \in [Tasks -> {"idle", "queued", "rejected", "running", "completed"}]
  /\ foreground \in Seq(Flushers) /\ background \in Seq(Cleanings)
  /\ \A w \in FlushWorkers : Len(flusher[w].batch) <= SubmitBatchSize
  /\ phase \in {"open", "notify", "join", "done"} /\ passed \in 0 .. MaxPassed + 1

Shut == phase # "open"
Asleep == {w \in FlushWorkers : flusher[w].at = "cv"}

\* Refused after Shutdown; else one sleeping worker is notified.
Enqueue(k) ==
  /\ task[k] = "idle" /\ UNCHANGED <<phase, passed>>
  /\ \/ /\ ~Shut
        /\ task' = [task EXCEPT ![k] = "queued"]
        /\ foreground' = IF k \in Flushers THEN Append(foreground, k) ELSE foreground
        /\ background' = IF k \in Cleanings THEN Append(background, k) ELSE background
        /\ flusher' \in IF Asleep = {} THEN {flusher} ELSE {[flusher EXCEPT ![w].at = "look"] : w \in Asleep}
     \/ /\ Shut
        /\ task' = [task EXCEPT ![k] = "rejected"]
        /\ UNCHANGED <<foreground, background, flusher>>

\* Task::Wait returns; the cleaner's tasks are simply forgotten.
Wait(k) ==
  /\ task[k] = "completed"
  /\ task' = [task EXCEPT ![k] = "idle"]
  /\ UNCHANGED <<foreground, background, flusher, phase, passed>>

\* Mutant of ShouldServeBackground: the foreground always goes first.
ServeForegroundFirst(back, burst) == FALSE

ShouldServeBackground(back, burst) == back # <<>> /\ burst >= ForegroundBurstLimit

\* TakeNextBatch once a queue is not empty: repeatedly the background after a
\* burst, else the foreground, else the background.  The burst is only ever
\* compared with its limit, so it is counted no further.
TakeOne(s) ==
  IF ShouldServeBackground(s.back, s.burst) \/ (s.fore = <<>> /\ s.back # <<>>)
    THEN [s EXCEPT !.taken = Append(@, Head(s.back)), !.back = Tail(@), !.burst = 0, !.passed = 0]
    ELSE IF s.fore # <<>>
           THEN [s EXCEPT !.taken = Append(@, Head(s.fore)), !.fore = Tail(@),
                          !.burst = IF @ < ForegroundBurstLimit THEN @ + 1 ELSE @,
                          !.passed = CASE s.back = <<>> -> 0 [] @ > MaxPassed -> @ [] OTHER -> @ + 1]
           ELSE s
Taking(w) ==
  LET take[n \in 0 .. SubmitBatchSize] ==
        IF n = 0 THEN [fore |-> foreground, back |-> background, taken |-> <<>>,
                       burst |-> flusher[w].burst, passed |-> passed]
        ELSE TakeOne(take[n - 1])
  IN take[SubmitBatchSize]

TakeNextBatch(w) ==
  /\ flusher[w].at = "look" /\ foreground \o background # <<>>
  /\ \E s \in {Taking(w)} :
       /\ foreground' = s.fore /\ background' = s.back /\ passed' = s.passed
       /\ flusher' = [flusher EXCEPT ![w] = [at |-> "write", batch |-> s.taken, burst |-> s.burst]]
       /\ task' = [k \in Tasks |-> IF k \in Range(s.taken) THEN "running" ELSE task[k]]
  /\ UNCHANGED phase

\* Mutant of NothingToTake: a worker leaves as soon as Shutdown began.
LeaveAtOnce(w) ==
  /\ flusher[w].at = "look" /\ (Shut \/ foreground \o background = <<>>)
  /\ flusher' = [flusher EXCEPT ![w].at = IF Shut THEN "gone" ELSE "cv"]
  /\ UNCHANGED <<task, foreground, background, phase, passed>>

\* With both queues empty a worker sleeps, or leaves after Shutdown.
NothingToTake(w) ==
  /\ flusher[w].at = "look" /\ foreground \o background = <<>>
  /\ flusher' = [flusher EXCEPT ![w].at = IF Shut THEN "gone" ELSE "cv"]
  /\ UNCHANGED <<task, foreground, background, phase, passed>>

\* The write of the first task of the batch is over, well or not.
CompleteTask(w) ==
  /\ flusher[w].at = "write"
  /\ task' = [task EXCEPT ![Head(flusher[w].batch)] = "completed"]
  /\ flusher' = [flusher EXCEPT ![w].batch = Tail(@),
                                ![w].at = IF Len(flusher[w].batch) = 1 THEN "look" ELSE @]
  /\ UNCHANGED <<foreground, background, phase, passed>>

Shutdown ==
  /\ phase = "open" /\ phase' = "notify"
  /\ UNCHANGED <<task, foreground, background, flusher, passed>>
NotifyAll ==
  /\ phase = "notify" /\ phase' = "join"
  /\ flusher' = [w \in FlushWorkers |-> [flusher[w] EXCEPT !.at = IF @ = "cv" THEN "look" ELSE @]]
  /\ UNCHANGED <<task, foreground, background, passed>>
JoinWorkers ==
  /\ phase = "join" /\ \A w \in FlushWorkers : flusher[w].at = "gone"
  /\ phase' = "done"
  /\ UNCHANGED <<task, foreground, background, flusher, passed>>

WorkerStep(w) == TakeNextBatch(w) \/ NothingToTake(w) \/ CompleteTask(w)

Next ==
  \/ \E k \in Tasks : Enqueue(k) \/ Wait(k)
  \/ \E w \in FlushWorkers : WorkerStep(w)
  \/ Shutdown \/ NotifyAll \/ JoinWorkers

Fairness ==
  /\ \A w \in FlushWorkers : WF_schedVars(WorkerStep(w))
  /\ WF_schedVars(NotifyAll) /\ WF_schedVars(JoinWorkers)

Spec == Init /\ [][Next]_schedVars /\ Fairness

-----------------------------------------------------------------------------
\* Every accepted task is in one place: a queue or one worker's batch.  None
\* is dropped, and none is written twice.
TasksExact ==
  \A k \in Tasks :
    Cardinality({i \in DOMAIN foreground : foreground[i] = k}) + Cardinality({i \in DOMAIN background : background[i] = k})
      + Cardinality({w \in FlushWorkers : k \in Range(flusher[w].batch)})
    = IF task[k] \in {"queued", "running"} THEN 1 ELSE 0

\* Shutdown returns with no accepted task left, so no flush waits for ever.
ShutdownDrains == phase = "done" => \A k \in Tasks : task[k] \notin {"queued", "running"}

\* Foreground flushes overtake a waiting background flush only for one burst
\* of each worker.
BackgroundServed == passed <= MaxPassed

\* Every accepted task completes, the cleaner's beside any number of others.
TasksComplete == \A k \in Tasks : task[k] = "queued" ~> task[k] = "completed"

\* Shutdown returns.
SchedulerStops == phase = "notify" ~> phase = "done"

=============================================================================
