------------------------------- MODULE IoUring ------------------------------
(***************************************************************************)
(* The io_uring backend (lib/io/io_uring_disk_backend.cc) with its cache   *)
(* of file descriptors.  A submitter prepares its requests on its ring and *)
(* hands them to the kernel; reapers take completion events off the rings, *)
(* continue short transfers and finish requests.                           *)
(*                                                                         *)
(* External: the kernel takes prepared requests whole (a write with its    *)
(* linked fdatasync), in order, may refuse for a while or for good, and    *)
(* posts an event for each part.                                           *)
(***************************************************************************)
EXTENDS Integers, Sequences, SequencesExt, FiniteSets, DescriptorCache

CONSTANTS
  Submitters, BatchOf(_),   \* the requests a submitter submits
  Reapers,
  RingOf(_),                \* CallerRing, of submitters and reapers
  FileOf(_), KindOf(_),     \* of a request: "read", "write", "durable" (sync_on_write) or "sync"
  Units                     \* of data in a transfer

VARIABLES
  context,    \* per request: its RequestContext and its fate
  caller,     \* per submitter: its place in Submit
  reaper,     \* per reaper: its place in Reap
  ring,       \* per ring: broken, the completion events, the submit latch
  backend,    \* in_flight_, shutdown_, the entries of the descriptor cache
  kernel      \* external, per request: its work, the leading units moved, synced or not

uringVars == <<context, caller, reaper, ring, backend, kernel>>

Requests == UNION {Range(BatchOf(s)) : s \in Submitters}
Rings == {RingOf(x) : x \in Submitters \cup Reapers}
Durable(r) == KindOf(r) = "durable"
Total(r) == IF KindOf(r) = "sync" THEN 0 ELSE Units
Fresh == [at |-> "new", pending |-> 0, done |-> 0, result |-> 0, sync |-> 0, ok |-> FALSE, finishes |-> 0]
Resting == [at |-> "idle", wait |-> FALSE, pass |-> 0, todo |-> <<>>, finished |-> <<>>, found |-> FALSE]

Init ==
  /\ context = [r \in Requests |-> Fresh]
  /\ caller = [s \in Submitters |-> [at |-> "idle", prepared |-> <<>>, started |-> 0]]
  /\ reaper = [x \in Reapers |-> Resting]
  /\ ring = [g \in Rings |-> [broken |-> FALSE, cq |-> <<>>, locked |-> FALSE]]
  /\ backend = [inFlight |-> 0, shutdown |-> "no", entries |-> <<>>]
  /\ kernel = [r \in Requests |-> [at |-> "none", moved |-> 0, synced |-> FALSE]]

RingOfRequest(r) == RingOf(CHOOSE s \in Submitters : r \in Range(BatchOf(s)))
SubGoto(s, l) == caller' = [caller EXCEPT ![s].at = l]
Parts(r) == IF Durable(r) THEN 2 ELSE 1
ShuttingDown == backend.shutdown # "no"

-----------------------------------------------------------------------------
(* Submit.                                                                 *)

Guard(s) ==
  /\ caller[s].at = "idle" /\ SubGoto(s, "check")
  /\ backend' = [backend EXCEPT !.inFlight = @ + 1]
  /\ UNCHANGED <<context, reaper, ring, kernel>>
CheckShutdown(s) ==
  /\ caller[s].at = "check" /\ SubGoto(s, IF ShuttingDown THEN "release" ELSE "lock")
  /\ UNCHANGED <<context, reaper, ring, backend, kernel>>

Lock(s) ==
  LET g == RingOf(s) IN
  /\ caller[s].at = "lock" /\ ~ring[g].locked
  /\ ring' = [ring EXCEPT ![g].locked = TRUE] /\ SubGoto(s, IF ring[g].broken THEN "unlock" ELSE "prepare")
  /\ UNCHANGED <<context, reaper, backend, kernel>>

\* PrepareLocked; it may also fail for want of room or of a descriptor, which
\* ends the batch.
Prepare(s) ==
  LET i == Len(caller[s].prepared) + 1
      r == BatchOf(s)[i] IN
  /\ caller[s].at = "prepare" /\ i <= Len(BatchOf(s)) /\ UNCHANGED <<reaper, ring, kernel>>
  /\ \/ /\ context' = [context EXCEPT ![r] = [Fresh EXCEPT !.at = "sq", !.pending = Parts(r)]]
        /\ caller' = [caller EXCEPT ![s].prepared = Append(@, r)]
        /\ backend' = [backend EXCEPT !.inFlight = @ + 1, !.entries = Acquired(@, FileOf(r))]
     \/ SubGoto(s, "submit") /\ UNCHANGED <<context, backend>>
     \/ SubGoto(s, "submit") /\ UNCHANGED context
        /\ FileOf(r) \notin OpenFiles(backend.entries) /\ backend' = [backend EXCEPT !.entries = OpenFailed(@)]
Prepared(s) ==
  /\ caller[s].at = "prepare" /\ Len(caller[s].prepared) = Len(BatchOf(s)) /\ SubGoto(s, "submit")
  /\ UNCHANGED <<context, reaper, ring, backend, kernel>>

\* io_uring_submit takes some of the requests; EINTR, EAGAIN and EBUSY take none
\* and are retried.
SubmitSqes(s) ==
  LET ready == Len(caller[s].prepared) - caller[s].started IN
  /\ caller[s].at = "submit" /\ UNCHANGED <<reaper, ring, backend>>
  /\ \/ ready = 0 /\ SubGoto(s, "unlock") /\ UNCHANGED <<context, kernel>>
     \/ \E k \in 1 .. ready :
          LET taken == ToSet(SubSeq(caller[s].prepared, caller[s].started + 1, caller[s].started + k)) IN
          /\ caller' = [caller EXCEPT ![s].started = @ + k]
          /\ kernel' = [r \in Requests |-> IF r \in taken THEN [kernel[r] EXCEPT !.at = "transfer"] ELSE kernel[r]]
          /\ context' = [r \in Requests |-> IF r \in taken THEN [context[r] EXCEPT !.at = "kernel"] ELSE context[r]]

\* Another error: the ring is broken and the rest of the batch is taken back.
SubmitFails(s) ==
  LET back == SubSeq(caller[s].prepared, caller[s].started + 1, Len(caller[s].prepared)) IN
  /\ caller[s].at = "submit" /\ back # <<>>
  /\ ring' = [ring EXCEPT ![RingOf(s)].broken = TRUE]
  /\ context' = [r \in Requests |-> IF r \in ToSet(back) THEN Fresh ELSE context[r]]
  /\ backend' = [backend EXCEPT !.inFlight = @ - Len(back),
                                !.entries = FoldLeft(LAMBDA e, r : Released(e, FileOf(r)), @, back)]
  /\ caller' = [caller EXCEPT ![s].at = "unlock", ![s].prepared = SubSeq(@, 1, caller[s].started)]
  /\ UNCHANGED <<reaper, kernel>>
Unlock(s) ==
  /\ caller[s].at = "unlock" /\ SubGoto(s, "release")
  /\ ring' = [ring EXCEPT ![RingOf(s)].locked = FALSE] /\ UNCHANGED <<context, reaper, backend, kernel>>

\* The last one out after Shutdown closes the idle files (SignalShutdown).
LeftFlight(b) ==
  IF b.inFlight = 1 /\ b.shutdown # "no" THEN [b EXCEPT !.inFlight = 0, !.entries = EvictIdle(@, 0)]
  ELSE [b EXCEPT !.inFlight = @ - 1]
ReleaseGuard(s) ==
  /\ caller[s].at = "release" /\ SubGoto(s, "returned")
  /\ backend' = LeftFlight(backend) /\ UNCHANGED <<context, reaper, ring, kernel>>

-----------------------------------------------------------------------------
(* External: the kernel.                                                   *)

\* The transfer moves n units on from those done, or ends with an error (-1); at
\* the end of the file it moves none.  A linked sync runs only after a whole
\* transfer, else it is cancelled.
Transfer(r, n) ==
  LET whole == n = Total(r) - context[r].done
      cancelled == IF Durable(r) /\ ~whole THEN <<[req |-> r, sync |-> TRUE, res |-> -1]>> ELSE <<>> IN
  /\ kernel[r].at = "transfer" /\ n <= Total(r) - context[r].done
  /\ ring' = [ring EXCEPT ![RingOfRequest(r)].cq = Append(@, [req |-> r, sync |-> FALSE, res |-> n]) \o cancelled]
  /\ kernel' = [kernel EXCEPT ![r].at = IF Durable(r) /\ whole THEN "sync" ELSE "none",
                              ![r].moved = IF context[r].done <= @ /\ n >= 0 THEN context[r].done + n ELSE @,
                              ![r].synced = FALSE]
  /\ UNCHANGED <<context, caller, reaper, backend>>
SyncEnds(r, res) ==
  /\ kernel[r].at = "sync" /\ kernel' = [kernel EXCEPT ![r].at = "none", ![r].synced = (res = 0)]
  /\ ring' = [ring EXCEPT ![RingOfRequest(r)].cq = Append(@, [req |-> r, sync |-> TRUE, res |-> res])]
  /\ UNCHANGED <<context, caller, reaper, backend>>

-----------------------------------------------------------------------------
(* Reap.                                                                   *)

AllRings(x) == <<RingOf(x)>> \o SetToSeq(Rings \ {RingOf(x)})
Reap(x, wait) ==
  /\ reaper[x].at = "idle"
  /\ reaper' = [reaper EXCEPT ![x] = [Resting EXCEPT !.at = "ring", !.wait = wait, !.todo = <<RingOf(x)>>]]
  /\ UNCHANGED <<context, caller, ring, backend, kernel>>

\* ReapRing under the reap latch: all events of the ring.
Noted(c, e) ==
  LET d == [c[e.req] EXCEPT !.pending = @ - 1] IN
  [c EXCEPT ![e.req] = IF e.sync THEN [d EXCEPT !.sync = e.res] ELSE [d EXCEPT !.result = e.res]]
ReapRing(x) ==
  LET g == Head(reaper[x].todo)
      cq == ring[g].cq
      after == FoldLeft(Noted, context, cq)
      last == SelectSeq([i \in DOMAIN cq |-> i],
                        LAMBDA i : after[cq[i].req].pending = 0 /\ \A j \in i + 1 .. Len(cq) : cq[j].req # cq[i].req) IN
  /\ reaper[x].at = "ring" /\ context' = after
  /\ reaper' = [reaper EXCEPT ![x].todo = Tail(@), ![x].at = "finish",
                              ![x].finished = [k \in DOMAIN last |-> cq[last[k]].req]]
  /\ ring' = [ring EXCEPT ![g].cq = <<>>] /\ UNCHANGED <<caller, backend, kernel>>

\* Mutant of Short: a transfer is never continued.
NeverShort(r) == FALSE

Short(r) == context[r].result > 0 /\ context[r].result < Total(r) - context[r].done

\* FinishContext.
Succeeded(r, c) ==
  /\ c.result >= 0
  /\ KindOf(r) \in {"write", "durable"} => c.done + c.result = Total(r)
  /\ Durable(r) => c.sync >= 0
Finished(x, r, c) ==
  /\ context' = [context EXCEPT ![r] = [c EXCEPT !.at = "done", !.ok = Succeeded(r, c), !.finishes = @ + 1]]
  /\ backend' = LeftFlight([backend EXCEPT !.entries = Released(@, FileOf(r))])
  /\ reaper' = [reaper EXCEPT ![x].finished = Tail(@), ![x].found = TRUE, ![x].at = "finish"]
Finish(x) ==
  LET r == Head(reaper[x].finished) IN
  /\ reaper[x].at = "finish" /\ reaper[x].finished # <<>> /\ ~Short(r)
  /\ Finished(x, r, context[r]) /\ UNCHANGED <<caller, ring, kernel>>

\* ContinueShortTransfer hands the rest of the transfer to the kernel, unless the
\* ring is broken or full; any error of io_uring_submit breaks the ring here.
ContinueShortTransfer(x) ==
  LET r == Head(reaper[x].finished)
      g == RingOfRequest(r)
      c == [context[r] EXCEPT !.done = @ + context[r].result] IN
  /\ reaper[x].at = "finish" /\ reaper[x].finished # <<>> /\ Short(r)
  /\ ~ring[g].locked /\ reaper' = [reaper EXCEPT ![x].at = "continued"]
  /\ \/ /\ ~ring[g].broken /\ UNCHANGED ring
        /\ context' = [context EXCEPT ![r] = [c EXCEPT !.pending = Parts(r)]]
        /\ kernel' = [kernel EXCEPT ![r].at = "transfer"]
     \/ /\ context' = [context EXCEPT ![r] = c] /\ UNCHANGED kernel
        /\ \E refused \in BOOLEAN : ring' = [ring EXCEPT ![g].broken = @ \/ refused]
  /\ UNCHANGED <<caller, backend>>

\* After the submit latch is released the context is read again.  If another
\* reaper has finished and freed it meanwhile, the read gives any value.
CheckContinued(x) ==
  LET r == Head(reaper[x].finished) IN
  /\ reaper[x].at = "continued" /\ UNCHANGED <<caller, ring, kernel>>
  /\ \/ /\ context[r].pending > 0 \/ context[r].at = "done"
        /\ reaper' = [reaper EXCEPT ![x].at = "finish", ![x].finished = Tail(@)] /\ UNCHANGED <<context, backend>>
     \/ context[r].pending = 0 /\ Finished(x, r, [context[r] EXCEPT !.result = -1])

\* The own ring, then all rings, then all rings once more after a wait that
\* also ends by its timeout.
ReapOn(x) ==
  LET p == reaper[x] IN
  /\ p.at = "finish" /\ p.finished = <<>>
  /\ reaper' = [reaper EXCEPT ![x] =
       IF p.todo # <<>> THEN [p EXCEPT !.at = "ring"]
       ELSE IF p.found \/ ~p.wait \/ p.pass = 2 THEN Resting
       ELSE IF p.pass = 0 THEN [p EXCEPT !.at = "check"]
       ELSE [p EXCEPT !.at = "ring", !.todo = AllRings(x), !.pass = 2]]
  /\ UNCHANGED <<context, caller, ring, backend, kernel>>

\* Mutant of Drained: the shutdown flag is enough.
DrainedAtOnce == ShuttingDown

Drained == ShuttingDown /\ backend.inFlight = 0

CheckDrained(x) ==
  /\ reaper[x].at = "check"
  /\ reaper' = [reaper EXCEPT ![x] = IF Drained THEN [Resting EXCEPT !.at = "gone"]
                                    ELSE [@ EXCEPT !.at = "ring", !.todo = AllRings(x), !.pass = 1]]
  /\ UNCHANGED <<context, caller, ring, backend, kernel>>

Shutdown ==
  /\ ~ShuttingDown /\ backend' = [backend EXCEPT !.shutdown = "flag"]
  /\ UNCHANGED <<context, caller, reaper, ring, kernel>>

SignalShutdown ==
  /\ backend.shutdown = "flag"
  /\ backend' = [backend EXCEPT !.shutdown = "done", !.entries = IF backend.inFlight = 0 THEN EvictIdle(@, 0) ELSE @]
  /\ UNCHANGED <<context, caller, reaper, ring, kernel>>

SubmitStep(s) ==
  \/ Guard(s) \/ CheckShutdown(s) \/ Lock(s) \/ Prepare(s) \/ Prepared(s) \/ SubmitSqes(s) \/ SubmitFails(s)
  \/ Unlock(s) \/ ReleaseGuard(s)
KernelStep(r) == (\E n \in -1 .. Units : Transfer(r, n)) \/ \E res \in -1 .. 0 : SyncEnds(r, res)
ReaperStep(x) ==
  \/ \E wait \in BOOLEAN : Reap(x, wait)
  \/ ReapRing(x) \/ Finish(x) \/ ContinueShortTransfer(x) \/ CheckContinued(x) \/ ReapOn(x) \/ CheckDrained(x)

Next ==
  \/ \E s \in Submitters : SubmitStep(s)
  \/ \E r \in Requests : KernelStep(r)
  \/ \E x \in Reapers : ReaperStep(x)
  \/ Shutdown \/ SignalShutdown

Spec == Init /\ [][Next]_uringVars

-----------------------------------------------------------------------------
Held(r) == context[r].at \in {"sq", "kernel"}

\* The count of requests in flight, on which shutdown depends, is exact: the
\* requests held, and the submissions under way.
InFlightExact ==
  backend.inFlight = Cardinality({r \in Requests : Held(r)})
    + Cardinality({s \in Submitters : caller[s].at \notin {"idle", "returned"}})

\* The file of every request held is open and pinned for it and no other pin is
\* left; more files than the limit are open only while each is in use; none stays
\* open once the backend is shut down and drained.
DescriptorsHeld ==
  LET open == OpenFiles(backend.entries)
      users(f) == Cardinality({r \in Requests : Held(r) /\ FileOf(r) = f}) IN
  /\ \A f \in {FileOf(r) : r \in Requests} : users(f) = IF f \in open THEN backend.entries[f].pins ELSE 0
  /\ Cardinality(open) > MaxOpenFiles => Idle(backend.entries) = {}
  /\ backend.shutdown = "done" /\ backend.inFlight = 0 => open = {}

\* disk_backend.h: "Every accepted request produces exactly one DiskCompletion".
CompletedOnce == \A r \in Requests : context[r].finishes <= 1

\* A request completes only if Submit accepted it, and a completion that reports
\* success is true: all the data moved, or up to the end of the file for a read,
\* and a durable write was synced after its last transfer.
CompletionsFaithful ==
  /\ \A r \in Requests : context[r].ok =>
       /\ kernel[r].moved = Total(r) \/ (KindOf(r) = "read" /\ context[r].result = 0)
       /\ Durable(r) => kernel[r].synced
  /\ \A s \in Submitters : caller[s].at = "returned" =>
       \A r \in Range(BatchOf(s)) : context[r].at # "new" <=> r \in Range(caller[s].prepared)

\* Reap reports the end of the backend only when every accepted request has
\* finished and no other will be accepted.
EndMeansDrained == (\E x \in Reapers : reaper[x].at = "gone") => \A r \in Requests : ~Held(r)

=============================================================================
