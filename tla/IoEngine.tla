------------------------------ MODULE IoEngine ------------------------------
(***************************************************************************)
(* Delivery of I/O completions (lib/buffer/io_engine.cc) over the thread   *)
(* pool backend (lib/io/posix_disk_backend.cc).  A caller submits the      *)
(* requests of its waiter, then waits; a waiting caller reaps what is      *)
(* ready, whoever submitted it, and a reaper thread delivers the rest      *)
(* while there is demand for it.                                           *)
(*                                                                         *)
(* Request i of caller t is <<t, i>>; its outcome is chosen when it runs.  *)
(* A condition variable is the place "cv" (asleep until notified), a futex *)
(* the place "futex".                                                      *)
(***************************************************************************)
EXTENDS Integers, Sequences, SequencesExt, FiniteSets

CONSTANTS
  Callers, Workers,
  Batch(_),      \* how many requests a caller submits at once
  ModesOf(_)     \* how: "wait" and "async" are waited for, "forget" is a prefetch

VARIABLES
  call,       \* per caller: its place, its waiter and what it has reaped
  engine,     \* demand_, stopping_, stopped_, whether the backend failed; the reaper; Shutdown
  disk,       \* the backend: pending_, executing_, completed_, shutdown_
  worker      \* per worker: its place and its request

ioVars == <<call, engine, disk, worker>>

Requests == UNION {{t} \X (1 .. Batch(t)) : t \in Callers}
Idle == [at |-> "idle", mode |-> "wait", next |-> 1, accepted |-> 0, pending |-> 0, error |-> FALSE,
         failed |-> FALSE, sleeping |-> FALSE, held |-> <<>>]

Init ==
  /\ call = [t \in Callers |-> Idle]
  /\ engine = [demand |-> 0, stopping |-> FALSE, stopped |-> FALSE, broken |-> FALSE,
               reaper |-> "look", held |-> <<>>, closer |-> "no"]
  /\ disk = [pending |-> <<>>, executing |-> 0, completed |-> <<>>, shutdown |-> FALSE]
  /\ worker = [w \in Workers |-> [at |-> "look", req |-> <<>>]]

TypeOK ==
  /\ engine.demand \in 0 .. Cardinality(Requests) + Cardinality(Callers) + 1
  /\ disk.executing \in 0 .. Cardinality(Callers) + Cardinality(Workers)
  /\ \A t \in Callers : call[t].pending \in 0 .. Batch(t) /\ call[t].next \in 1 .. Batch(t) + 1

At(t, l) == call[t].at = l
Goto(t, l) == call' = [call EXCEPT ![t].at = l]
Waits(t) == call[t].mode # "forget"

-----------------------------------------------------------------------------
(* Pieces of the actions.                                                  *)

\* Mutant of Completed: a later success hides an earlier error.
CompletedLast(calls, c) ==
  [calls EXCEPT ![c.req[1]].pending = @ - 1, ![c.req[1]].error = ~c.ok]

\* IoWaiter::Complete, and the demand of an asynchronous request.
Completed(calls, c) ==
  [calls EXCEPT ![c.req[1]].pending = @ - 1, ![c.req[1]].error = @ \/ ~c.ok]
Released(e, c) == [e EXCEPT !.demand = IF call[c.req[1]].mode = "wait" THEN @ ELSE @ - 1]

\* AddReaperDemand: the first demand wakes the reaper.
WithDemand(e, n) ==
  [e EXCEPT !.demand = @ + n, !.reaper = IF @ = "futex" /\ e.demand = 0 THEN "look" ELSE @]

Drained(d) == d.shutdown /\ d.pending = <<>> /\ d.executing = 0
NotifyReaper(e) == [e EXCEPT !.reaper = IF @ = "cv" THEN "reap" ELSE @]

\* Only a worker's completion, and the one that drains the backend, wakes a
\* blocked Reap.
PushCompletion(req, ok, wake) ==
  LET d == [disk EXCEPT !.completed = Append(@, [req |-> req, ok |-> ok]), !.executing = @ - 1]
  IN disk' = d /\ engine' = IF wake \/ Drained(d) THEN NotifyReaper(engine) ELSE engine

\* notify_one and notify_all on request_cv_.
WokenOne ==
  LET asleep == {w \in Workers : worker[w].at = "cv"}
  IN IF asleep = {} THEN {worker} ELSE {[worker EXCEPT ![w].at = "look"] : w \in asleep}
WokenAll == [w \in Workers |-> [worker[w] EXCEPT !.at = IF @ = "cv" THEN "look" ELSE @]]

-----------------------------------------------------------------------------
(* A caller: Submit, then Wait unless nobody waits for the requests.       *)

\* Calls stop when the manager is closed or has failed.  The requests of a
\* prefetch must be over before the caller's records are used again.
Submit(t, mode) ==
  /\ At(t, "idle") /\ engine.closer = "no" /\ ~engine.broken /\ call[t].pending = 0
  /\ call' = [call EXCEPT ![t] = [Idle EXCEPT !.at = "submit", !.mode = mode, !.pending = Batch(t)]]
  /\ engine' = IF mode = "wait" THEN engine ELSE WithDemand(engine, Batch(t))
  /\ UNCHANGED <<disk, worker>>

\* One turn of SubmitTagged's loop up to backend_->Submit.
SubmitTagged(t) ==
  LET c == [req |-> <<t, call[t].next>>, ok |-> FALSE] IN
  /\ At(t, "submit") /\ UNCHANGED <<disk, worker>>
  /\ \/ /\ call[t].next > Batch(t) /\ UNCHANGED engine
        /\ Goto(t, IF Waits(t) THEN "wait" ELSE "idle")
     \/ /\ call[t].next <= Batch(t) /\ engine.stopped
        /\ call' = [Completed(call, c) EXCEPT ![t].next = @ + 1, ![t].failed = TRUE]
        /\ engine' = Released(engine, c)
     \/ /\ call[t].next <= Batch(t) /\ ~engine.stopped /\ UNCHANGED engine
        /\ call' = [call EXCEPT ![t].at = "accept", ![t].accepted = 0]

\* One turn of PosixDiskBackend::Submit's loop.
Accept(t) ==
  LET req == <<t, call[t].next>> IN
  /\ At(t, "accept") /\ call[t].next <= Batch(t) /\ ~disk.shutdown /\ UNCHANGED engine
  /\ IF call[t].mode = "wait"
       THEN /\ disk' = [disk EXCEPT !.executing = @ + 1]
            /\ Goto(t, "execute") /\ UNCHANGED worker
       ELSE /\ disk' = [disk EXCEPT !.pending = Append(@, req)]
            /\ call' = [call EXCEPT ![t].next = @ + 1, ![t].accepted = @ + 1]
            /\ worker' \in WokenOne

\* The request is malformed or the backend shut down: an error for the first
\* request of the span, else the accepted prefix.
Reject(t) ==
  LET c == [req |-> <<t, call[t].next>>, ok |-> FALSE] IN
  /\ At(t, "accept") /\ call[t].next <= Batch(t) /\ UNCHANGED <<disk, worker>>
  /\ \/ call[t].accepted > 0 /\ Goto(t, "submit") /\ UNCHANGED engine
     \/ /\ call[t].accepted = 0
        /\ call' = [Completed(call, c) EXCEPT ![t].at = "submit", ![t].next = @ + 1, ![t].failed = TRUE]
        /\ engine' = Released(engine, c)

AllAccepted(t) ==
  /\ At(t, "accept") /\ call[t].next > Batch(t)
  /\ Goto(t, "submit") /\ UNCHANGED <<engine, disk, worker>>

\* Execute on the calling thread.
Execute(t, ok) ==
  /\ At(t, "execute") /\ UNCHANGED worker
  /\ PushCompletion(<<t, call[t].next>>, ok, FALSE)
  /\ call' = [call EXCEPT ![t].at = "accept", ![t].next = @ + 1, ![t].accepted = @ + 1,
                          ![t].failed = @ \/ ~ok]

\* Wait returns, or reaps what is ready.
Wait(t) ==
  /\ At(t, "wait") /\ UNCHANGED worker
  /\ \/ /\ call[t].pending = 0 /\ UNCHANGED disk
        /\ engine' = [engine EXCEPT !.demand = IF call[t].sleeping THEN @ - 1 ELSE @]
        /\ call' = [call EXCEPT ![t].at = "returned"]
     \/ /\ call[t].pending > 0 /\ disk.completed # <<>> /\ UNCHANGED engine
        /\ disk' = [disk EXCEPT !.completed = <<>>]
        /\ call' = [call EXCEPT ![t].at = "dispatch", ![t].held = disk.completed]
     \/ call[t].pending > 0 /\ disk.completed = <<>> /\ Goto(t, "nothing") /\ UNCHANGED <<engine, disk>>

\* Dispatch on the waiting thread.
Dispatch(t) ==
  LET c == Head(call[t].held) IN
  /\ At(t, "dispatch")
  /\ call' = [Completed(call, c) EXCEPT ![t].held = Tail(@), ![t].at = IF Len(call[t].held) = 1 THEN "wait" ELSE @]
  /\ engine' = Released(engine, c)
  /\ UNCHANGED <<disk, worker>>

\* Nothing was ready: give up if the engine stopped, ask for the reaper the
\* first time, sleep the next.
WaitLonger(t) ==
  /\ At(t, "nothing") /\ UNCHANGED <<disk, worker>>
  /\ \/ /\ engine.stopped
        /\ engine' = [engine EXCEPT !.demand = IF call[t].sleeping THEN @ - 1 ELSE @]
        /\ call' = [call EXCEPT ![t].at = "returned", ![t].error = TRUE]
     \/ /\ ~engine.stopped /\ ~call[t].sleeping
        /\ engine' = WithDemand(engine, 1)
        /\ call' = [call EXCEPT ![t].at = "wait", ![t].sleeping = TRUE]
     \/ ~engine.stopped /\ call[t].sleeping /\ Goto(t, "futex") /\ UNCHANGED engine

\* Mutant of Timeout: the sleep has no time limit.
WokenOnly(t) == At(t, "futex") /\ call[t].pending = 0 /\ Goto(t, "wait") /\ UNCHANGED <<engine, disk, worker>>

\* FutexWaitFor ends by a wake-up or by its time limit.
Timeout(t) == At(t, "futex") /\ Goto(t, "wait") /\ UNCHANGED <<engine, disk, worker>>

Return(t) ==
  /\ At(t, "returned")
  /\ call' = [call EXCEPT ![t] = [Idle EXCEPT !.pending = call[t].pending, !.mode = call[t].mode]]
  /\ UNCHANGED <<engine, disk, worker>>

-----------------------------------------------------------------------------
(* WorkerLoop.                                                             *)

Work(w) ==
  /\ worker[w].at = "look" /\ UNCHANGED <<call, engine>>
  /\ \/ /\ disk.pending # <<>>
        /\ disk' = [disk EXCEPT !.pending = Tail(@), !.executing = @ + 1]
        /\ worker' = [worker EXCEPT ![w] = [at |-> "execute", req |-> Head(disk.pending)]]
     \/ /\ disk.pending = <<>> /\ UNCHANGED disk
        /\ worker' = [worker EXCEPT ![w].at = IF disk.shutdown THEN "gone" ELSE "cv"]

Finish(w, ok) ==
  /\ worker[w].at = "execute"
  /\ PushCompletion(worker[w].req, ok, TRUE)
  /\ worker' = [worker EXCEPT ![w] = [at |-> "look", req |-> <<>>]]
  /\ call' = [call EXCEPT ![worker[w].req[1]].failed = @ \/ ~ok]

-----------------------------------------------------------------------------
(* The reaper, IoEngine::Run, with Reap(wait) inlined.                     *)

Look ==
  /\ engine.reaper = "look" /\ UNCHANGED <<call, disk, worker>>
  /\ engine' = [engine EXCEPT !.reaper = IF ~engine.stopping /\ engine.demand = 0 THEN "park" ELSE "reap"]

\* FutexWait sleeps only if the demand is still 0.
Park ==
  /\ engine.reaper = "park" /\ UNCHANGED <<call, disk, worker>>
  /\ engine' = [engine EXCEPT !.reaper = IF engine.demand = 0 THEN "futex" ELSE "look"]

Reap ==
  /\ engine.reaper = "reap" /\ UNCHANGED <<call, worker>>
  /\ \/ /\ disk.completed # <<>>
        /\ engine' = [engine EXCEPT !.reaper = "dispatch", !.held = disk.completed]
        /\ disk' = [disk EXCEPT !.completed = <<>>]
     \/ /\ disk.completed = <<>> /\ UNCHANGED disk
        /\ engine' = [engine EXCEPT !.reaper = IF Drained(disk) THEN "stop" ELSE "cv"]

\* External: a backend whose Reap fails; the manager enters the failed state.
ReapFails ==
  /\ engine.reaper = "reap" /\ ~engine.stopping
  /\ engine' = [engine EXCEPT !.reaper = "stop", !.broken = TRUE]
  /\ UNCHANGED <<call, disk, worker>>

Deliver ==
  LET c == Head(engine.held) IN
  /\ engine.reaper = "dispatch"
  /\ call' = Completed(call, c)
  /\ engine' = [Released(engine, c) EXCEPT !.held = Tail(@), !.reaper = IF Len(engine.held) = 1 THEN "look" ELSE @]
  /\ UNCHANGED <<disk, worker>>

Stop ==
  /\ engine.reaper = "stop"
  /\ engine' = [engine EXCEPT !.reaper = "gone", !.stopped = TRUE]
  /\ UNCHANGED <<call, disk, worker>>

-----------------------------------------------------------------------------
(* Shutdown, after the calls (not the prefetches) are over.                *)

Shutdown ==
  /\ engine.closer = "no" /\ \A t \in Callers : At(t, "idle")
  /\ engine' = [engine EXCEPT !.closer = "backend", !.stopping = TRUE]
  /\ UNCHANGED <<call, disk, worker>>
ShutdownBackend ==
  /\ engine.closer = "backend"
  /\ disk' = [disk EXCEPT !.shutdown = TRUE] /\ worker' = WokenAll
  /\ engine' = [NotifyReaper(engine) EXCEPT !.closer = "wake"] /\ UNCHANGED call

WakeReaper ==
  /\ engine.closer = "wake"
  /\ engine' = [engine EXCEPT !.closer = "join", !.demand = @ + 1, !.reaper = IF @ = "futex" THEN "look" ELSE @]
  /\ UNCHANGED <<call, disk, worker>>
Join ==
  /\ engine.closer = "join" /\ engine.reaper = "gone"
  /\ engine' = [engine EXCEPT !.closer = "done", !.stopped = TRUE]
  /\ UNCHANGED <<call, disk, worker>>

CallerStep(t) ==
  \/ SubmitTagged(t) \/ Accept(t) \/ Reject(t) \/ AllAccepted(t) \/ (\E ok \in BOOLEAN : Execute(t, ok))
  \/ Wait(t) \/ Dispatch(t) \/ WaitLonger(t) \/ Timeout(t) \/ Return(t)
WorkerStep(w) == Work(w) \/ \E ok \in BOOLEAN : Finish(w, ok)
ReaperStep == Look \/ Park \/ Reap \/ Deliver \/ Stop
CloserStep == ShutdownBackend \/ WakeReaper \/ Join

Next ==
  \/ \E t \in Callers : CallerStep(t) \/ \E mode \in ModesOf(t) : Submit(t, mode)
  \/ \E w \in Workers : WorkerStep(w)
  \/ ReaperStep \/ ReapFails \/ Shutdown \/ CloserStep

Fairness ==
  /\ \A t \in Callers : WF_ioVars(CallerStep(t))
  /\ \A w \in Workers : WF_ioVars(WorkerStep(w))
  /\ WF_ioVars(ReaperStep) /\ WF_ioVars(CloserStep)

Spec == Init /\ [][Next]_ioVars /\ Fairness

-----------------------------------------------------------------------------
\* How often request r is on its way: not yet submitted, queued, running,
\* completed, or reaped and not delivered.
InSeq(s, r) == Cardinality({i \in DOMAIN s : s[i] = r})
Reqs(s) == [i \in DOMAIN s |-> s[i].req]
Places(r) ==
  LET t == r[1] IN
  (IF call[t].at \in {"submit", "accept", "execute"} /\ call[t].next <= r[2] THEN 1 ELSE 0)
  + InSeq(disk.pending, r) + InSeq(Reqs(disk.completed), r) + InSeq(Reqs(engine.held), r)
  + Cardinality({w \in Workers : worker[w].at = "execute" /\ worker[w].req = r})
  + Cardinality({u \in Callers : InSeq(Reqs(call[u].held), r) > 0})

\* "every completion runs exactly once": no request is ever in two places,
\* and a waiter's count is the number of its requests that are in one.
CompletionsExact ==
  /\ \A r \in Requests : Places(r) <= 1
  /\ \A t \in Callers : call[t].pending = Cardinality({i \in 1 .. Batch(t) : Places(<<t, i>>) = 1})

\* Wait returns the failure of any of the requests, also of one that another
\* thread delivered or the backend rejected.
ErrorsReported ==
  \A t \in Callers : At(t, "returned") /\ ~engine.broken => call[t].pending = 0 /\ call[t].error = call[t].failed

\* Shutdown "delivers the completions of requests already in flight": when it
\* returns, no prefetch waits for one.
ShutdownDelivers ==
  engine.closer = "done" /\ ~engine.broken => \A t \in Callers : call[t].pending = 0

\* Every call returns, even if the backend stops answering.
CallsReturn == \A t \in Callers : call[t].at # "idle" ~> call[t].at = "idle"

\* A prefetch that nobody waits for is delivered, if the backend does not fail.
PrefetchesDelivered == \A t \in Callers : call[t].pending > 0 ~> call[t].pending = 0 \/ engine.broken

\* Shutdown returns.
ShutdownReturns == engine.closer = "backend" ~> engine.closer = "done"

=============================================================================
