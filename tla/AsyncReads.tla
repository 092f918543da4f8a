----------------------------- MODULE AsyncReads -----------------------------
(***************************************************************************)
(* PrefetchBuffer, StartReadBuffers / WaitReadBuffers and Close            *)
(* (lib/buffer/buffer_manager_async_read.cc, buffer_manager.cc): calls that*)
(* reserve the frames of several blocks, submit the reads together, and    *)
(* are completed by whichever thread delivers the I/O.                     *)
(*                                                                         *)
(* The frames are reduced to state, page and pins, and claiming a frame is *)
(* one step (BufferPool has its parts); pages are clean.  A waiting thread *)
(* is a step that is not enabled.                                          *)
(***************************************************************************)
EXTENDS Integers, Sequences, SequencesExt, FiniteSets, FiniteSetsExt

CONSTANTS
  Frames, NoFrame, Callers,
  Calls(_),           \* a caller's calls: <<"read" or "prefetch", first block, number of blocks>>
  MaxRequestBlocks,
  MaxInFlight         \* bound: prefetches in flight when another is started

VARIABLES
  frame,      \* per frame: state, page and pins
  op,         \* per caller: its call, or the operation it started
  loads,      \* AsyncLoad objects the I/O engine has, with their next entry
  inFlight,   \* prefetches_in_flight_
  manager     \* "open", the places of Close, "closed", or "broken"

asyncVars == <<frame, op, loads, inFlight, manager>>

FreeFrame == [state |-> "Free", tag |-> 0, pins |-> 0]
NoCall == [at |-> "idle", kind |-> "read", first |-> 0, i |-> 1, slots |-> <<>>, frames |-> <<>>,
           built |-> <<>>, pending |-> 0, error |-> FALSE, keep |-> FALSE]

Init ==
  /\ frame = [f \in Frames |-> FreeFrame]
  /\ op = [c \in Callers |-> NoCall]
  /\ loads = <<>> /\ inFlight = 0 /\ manager = "open"

At(c, l) == op[c].at = l
Goto(c, l) == op' = [op EXCEPT ![c].at = l]
Tag(c) == op[c].first + op[c].i - 1
Over(c) == op[c].i > Len(op[c].slots)

\* The slots of an operation that hold a pin on their frame.
Held(c) == {i \in DOMAIN op[c].slots : op[c].slots[i] \in {"pinned", "loading"}}

TypeOK ==
  /\ \A f \in Frames : frame[f].state \in {"Free", "Loading", "Resident"} /\ frame[f].pins \in 0 .. 2 * Cardinality(Callers)
  /\ \A c \in Callers : op[c].i \in 1 .. Len(op[c].slots) + 1 /\ op[c].pending >= 0
  /\ inFlight >= 0
  /\ manager \in {"open", "prefetches", "frames", "refused", "closed", "broken"}

-----------------------------------------------------------------------------
(* Frames.                                                                 *)

Resident(tag) == {f \in Frames : frame[f].state = "Resident" /\ frame[f].tag = tag}
Live(tag) == {f \in Frames : frame[f].state # "Free" /\ frame[f].tag = tag}
Reservable == {f \in Frames : frame[f].state = "Free" \/ (frame[f].state = "Resident" /\ frame[f].pins = 0)}
HasTransientFrame == \E f \in Frames : frame[f].pins = 0 \/ frame[f].state = "Loading"

Pinned(fr, f) == [fr EXCEPT ![f].pins = @ + 1]
Unpinned(fr, fs) == [f \in Frames |-> [fr[f] EXCEPT !.pins = @ - Cardinality({i \in DOMAIN fs : fs[i] = f})]]

\* TryReserveFrameForTag: a frame that loses the page to another becomes free.
Reserved(f, tag) ==
  [frame EXCEPT ![f] = IF Live(tag) \ {f} = {} THEN [state |-> "Loading", tag |-> tag, pins |-> 1] ELSE FreeFrame]
Won(f, tag) == Live(tag) \ {f} = {}

PublishLoadedFrame(fr, f, release) == [fr EXCEPT ![f].state = "Resident", ![f].pins = IF release THEN @ - 1 ELSE @]
AbortLoadReservation(fr, f) == [fr EXCEPT ![f] = FreeFrame]

-----------------------------------------------------------------------------
(* PrefetchBuffer and StartReadBuffers.                                    *)

\* Starting an operation again drops the handles it still has.
StartReadBuffers(c, kind, first, n) ==
  /\ op[c].at \in {"idle", "held"} /\ manager = "open" /\ (kind = "prefetch" => inFlight <= MaxInFlight)
  /\ frame' = Unpinned(frame, Restrict(op[c].frames, Held(c)))
  /\ op' = [op EXCEPT ![c] = [NoCall EXCEPT !.at = "probe", !.kind = kind, !.first = first,
              !.slots = [i \in 1 .. n |-> "deferred"], !.frames = [i \in 1 .. n |-> NoFrame]]]
  /\ UNCHANGED <<loads, inFlight, manager>>

\* Pin a resident page (a prefetch only looks), leave one that is being read
\* for later, reserve a frame for any other.
Probe(c) ==
  LET tag == Tag(c) IN
  /\ At(c, "probe") /\ ~Over(c) /\ UNCHANGED <<loads, inFlight, manager>>
  /\ \/ /\ op[c].kind = "read"
        /\ \E f \in Resident(tag) :
             /\ frame' = Pinned(frame, f)
             /\ op' = [op EXCEPT ![c].i = @ + 1, ![c].slots[op[c].i] = "pinned", ![c].frames[op[c].i] = f]
     \/ /\ Live(tag) # {} /\ (op[c].kind = "read" => Resident(tag) = {})
        /\ op' = [op EXCEPT ![c].i = @ + 1] /\ UNCHANGED frame
     \/ Live(tag) = {} /\ Goto(c, "reserve") /\ UNCHANGED frame

\* AppendAsyncLoad: the block joins the last request if it continues it.
AppendAsyncLoad(built, e) ==
  IF built # <<>> /\ Len(Last(built)) < MaxRequestBlocks /\ Last(Last(built)).tag + 1 = e.tag
    THEN [built EXCEPT ![Len(built)] = Append(@, e)]
    ELSE Append(built, <<e>>)


\* ReserveFrameForTag without waiting for a frame: a call that has reserved
\* frames and not yet submitted their reads waits for nothing.  Without a
\* frame a prefetch stops and a read leaves the block for later.
ReserveAhead(c) ==
  /\ At(c, "reserve") /\ UNCHANGED <<loads, inFlight, manager>>
  /\ \/ \E f \in Reservable :
          /\ frame' = Reserved(f, Tag(c))
          /\ LET e == [tag |-> Tag(c), frame |-> f, slot |-> op[c].i] IN
             op' = IF Won(f, Tag(c))
                     THEN [op EXCEPT ![c].at = "probe", ![c].i = @ + 1, ![c].slots[op[c].i] = "loading",
                                     ![c].frames[op[c].i] = f, ![c].built = AppendAsyncLoad(@, e)]
                     ELSE [op EXCEPT ![c].at = "probe", ![c].i = @ + 1]
     \/ /\ Reservable = {} /\ UNCHANGED frame
        /\ op' = [op EXCEPT ![c].at = "probe",
                            ![c].i = IF op[c].kind = "prefetch" THEN Len(op[c].slots) + 1 ELSE @ + 1]

\* SubmitAsyncLoads counts the requests before the engine has them.
SubmitAsyncLoads(c) ==
  LET b == op[c].built
      prefetch == op[c].kind = "prefetch"
  IN
  /\ At(c, "probe") /\ Over(c) /\ UNCHANGED <<frame, manager>>
  /\ loads' = loads \o [k \in DOMAIN b |-> [caller |-> c, prefetch |-> prefetch, entries |-> b[k], next |-> 1, outcome |-> "none"]]
  /\ inFlight' = inFlight + IF prefetch THEN Len(b) ELSE 0
  /\ op' = [op EXCEPT ![c] = IF prefetch THEN NoCall ELSE [@ EXCEPT !.at = "started", !.pending = Len(b), !.built = <<>>]]

-----------------------------------------------------------------------------
(* Delivery: FinishAsyncLoad, entry by entry.                              *)

Deliver(k, outcome) ==
  /\ loads[k].outcome = "none"
  /\ loads' = [loads EXCEPT ![k].outcome = outcome]
  /\ UNCHANGED <<frame, op, inFlight, manager>>

FinishEntry(k) ==
  LET l == loads[k]
      e == l.entries[l.next]
  IN
  /\ l.outcome # "none" /\ l.next <= Len(l.entries) /\ UNCHANGED <<inFlight, manager>>
  /\ loads' = [loads EXCEPT ![k].next = @ + 1]
  /\ IF l.outcome = "ok"
       THEN frame' = PublishLoadedFrame(frame, e.frame, l.prefetch) /\ UNCHANGED op
       ELSE /\ frame' = AbortLoadReservation(frame, e.frame)
            /\ op' = IF l.prefetch THEN op ELSE [op EXCEPT ![l.caller].slots[e.slot] = "failed"]

\* Mutant of LoadFinished: a waiter is completed before its last page is
\* published.
LoadDelivered(l) == l.outcome # "none" /\ l.next >= Len(l.entries) + IF l.prefetch THEN 1 ELSE 0

LoadFinished(l) == l.outcome # "none" /\ l.next > Len(l.entries)

FinishAsyncLoad(k) ==
  LET l == loads[k] IN
  /\ LoadFinished(l) /\ UNCHANGED <<frame, manager>>
  /\ loads' = RemoveAt(loads, k)
  /\ IF l.prefetch THEN inFlight' = inFlight - 1 /\ UNCHANGED op
     ELSE /\ op' = [op EXCEPT ![l.caller].pending = @ - 1, ![l.caller].error = @ \/ l.outcome = "failed"]
          /\ UNCHANGED inFlight

-----------------------------------------------------------------------------
(* FinishReadBuffers, from WaitReadBuffers or the destructor.              *)

WaitReadBuffers(c, keep) ==
  /\ At(c, "started") /\ manager \in {"open", "closed", "broken"}
  /\ op' = [op EXCEPT ![c].at = "wait", ![c].keep = keep, ![c].i = 1]
  /\ UNCHANGED <<frame, loads, inFlight, manager>>

\* The engine stopped with reads in flight: the state is left behind.
Leak(c) ==
  /\ At(c, "wait") /\ op[c].pending > 0 /\ manager = "broken"
  /\ Goto(c, "leaked") /\ UNCHANGED <<frame, loads, inFlight, manager>>

Waited(c) ==
  /\ At(c, "wait") /\ op[c].pending = 0
  /\ Goto(c, IF op[c].keep /\ ~op[c].error THEN "pin" ELSE "release")
  /\ UNCHANGED <<frame, loads, inFlight, manager>>

\* PinPage of a deferred block.  While another thread reads it, this one waits.
PinDeferred(c) ==
  LET fail == op' = [op EXCEPT ![c].at = "release", ![c].error = TRUE] IN
  /\ At(c, "pin") /\ UNCHANGED <<loads, inFlight, manager>>
  /\ \/ Over(c) /\ Goto(c, "release") /\ UNCHANGED frame
     \/ ~Over(c) /\ op[c].slots[op[c].i] # "deferred" /\ op' = [op EXCEPT ![c].i = @ + 1] /\ UNCHANGED frame
     \/ /\ ~Over(c) /\ op[c].slots[op[c].i] = "deferred"
        /\ \/ manager \in {"closed", "broken"} /\ fail /\ UNCHANGED frame
           \/ \E f \in Resident(Tag(c)) :
                /\ manager # "closed" /\ frame' = Pinned(frame, f)
                /\ op' = [op EXCEPT ![c].i = @ + 1, ![c].slots[op[c].i] = "pinned", ![c].frames[op[c].i] = f]
           \/ manager # "closed" /\ Live(Tag(c)) = {} /\ Goto(c, "load") /\ UNCHANGED frame

\* LoadPage: a frame is waited for as long as one may come free.
LoadDeferred(c) ==
  /\ At(c, "load") /\ UNCHANGED <<loads, inFlight, manager>>
  /\ \/ \E f \in Reservable :
          /\ frame' = Reserved(f, Tag(c))
          /\ op' = IF Won(f, Tag(c)) THEN [op EXCEPT ![c].at = "read", ![c].frames[op[c].i] = f, ![c].slots[op[c].i] = "loading"]
                   ELSE [op EXCEPT ![c].at = "pin"]
     \/ /\ Reservable = {} /\ ~HasTransientFrame /\ UNCHANGED frame
        /\ op' = IF Live(Tag(c)) # {} THEN [op EXCEPT ![c].at = "pin"]
                 ELSE [op EXCEPT ![c].at = "release", ![c].error = TRUE]

ReadDeferred(c) ==
  LET i == op[c].i IN
  /\ At(c, "read") /\ UNCHANGED <<loads, inFlight, manager>>
  /\ \/ /\ frame' = PublishLoadedFrame(frame, op[c].frames[i], FALSE)
        /\ op' = [op EXCEPT ![c].at = "pin", ![c].i = i + 1, ![c].slots[i] = "pinned"]
     \/ /\ frame' = AbortLoadReservation(frame, op[c].frames[i])
        /\ op' = [op EXCEPT ![c].at = "release", ![c].error = TRUE, ![c].slots[i] = "deferred"]

ReleaseSlots(c) == Held(c)

\* Handles for all blocks, or the pins of all of them dropped.
FinishReadBuffers(c) ==
  /\ At(c, "release") /\ UNCHANGED <<loads, inFlight, manager>>
  /\ IF op[c].keep /\ ~op[c].error THEN Goto(c, "held") /\ UNCHANGED frame
     ELSE /\ frame' = Unpinned(frame, Restrict(op[c].frames, ReleaseSlots(c)))
          /\ op' = [op EXCEPT ![c] = NoCall]

ReleaseHandles(c) ==
  /\ At(c, "held") /\ manager \in {"open", "closed", "broken"}
  /\ frame' = Unpinned(frame, Restrict(op[c].frames, Held(c)))
  /\ op' = [op EXCEPT ![c] = NoCall] /\ UNCHANGED <<loads, inFlight, manager>>

-----------------------------------------------------------------------------
(* Close, with the other threads' calls stopped; handles and operations    *)
(* may still exist.  External: the engine's fatal stop.                    *)

Close ==
  /\ manager = "open" /\ \A c \in Callers : op[c].at \in {"idle", "started", "held"}
  /\ manager' = "prefetches" /\ UNCHANGED <<frame, op, loads, inFlight>>

AwaitPrefetches ==
  /\ manager = "prefetches" /\ inFlight = 0 /\ manager' = "frames" /\ UNCHANGED <<frame, op, loads, inFlight>>
CloseOrRefuse ==
  /\ manager = "frames" /\ \A f \in Frames : frame[f].state # "Loading"
  /\ manager' = IF \E f \in Frames : frame[f].pins > 0 THEN "refused" ELSE "closed"
  /\ UNCHANGED <<frame, op, loads, inFlight>>

Refused == manager = "refused" /\ manager' = "open" /\ UNCHANGED <<frame, op, loads, inFlight>>

EngineFails == manager = "open" /\ manager' = "broken" /\ UNCHANGED <<frame, op, loads, inFlight>>

CallStep(c) ==
  \/ Probe(c) \/ ReserveAhead(c) \/ SubmitAsyncLoads(c) \/ Leak(c) \/ Waited(c)
  \/ PinDeferred(c) \/ LoadDeferred(c) \/ ReadDeferred(c) \/ FinishReadBuffers(c)
DeliveryStep(c) ==
  \E k \in {j \in DOMAIN loads : loads[j].caller = c} :
    (\E o \in {"ok", "failed"} : Deliver(k, o)) \/ FinishEntry(k) \/ FinishAsyncLoad(k)
CloseStep == AwaitPrefetches \/ CloseOrRefuse \/ Refused

Next ==
  \/ \E c \in Callers :
       \/ CallStep(c) \/ DeliveryStep(c) \/ ReleaseHandles(c)
       \/ \E s \in Calls(c) : StartReadBuffers(c, s[1], s[2], s[3])
       \/ \E keep \in BOOLEAN : WaitReadBuffers(c, keep)
  \/ Close \/ CloseStep \/ EngineFails

Spec == Init /\ [][Next]_asyncVars

\* The calls run, and the engine delivers what was submitted.
Fairness ==
  /\ \A c \in Callers : WF_asyncVars(CallStep(c)) /\ WF_asyncVars(DeliveryStep(c))
  /\ WF_asyncVars(CloseStep)

-----------------------------------------------------------------------------
\* A frame has one pin for every operation or handle on it and for a read
\* nobody waits for: success, failure, a stopped engine and the destructor
\* leave none behind.
PinsExact ==
  \A f \in Frames :
    frame[f].pins =
      Cardinality({c \in Callers : \E i \in Held(c) : op[c].frames[i] = f})
      + Cardinality({k \in DOMAIN loads : loads[k].prefetch /\ \E j \in loads[k].next .. Len(loads[k].entries) : loads[k].entries[j].frame = f})

\* WaitReadBuffers returns handles for all the blocks, in order, on resident
\* pages, also when it joined the reads of other calls.
HandlesRight ==
  \A c \in Callers : At(c, "held") =>
    \A i \in DOMAIN op[c].slots :
      i \in Held(c) /\ LET fr == frame[op[c].frames[i]] IN fr.state = "Resident" /\ fr.tag = op[c].first + i - 1

\* A read in flight finds the operation it belongs to, which counts it, even
\* after a wait that the engine's stop cut short; a prefetch is counted by
\* the manager.
CompletionsFindState ==
  /\ \A c \in Callers : op[c].pending = Cardinality({k \in DOMAIN loads : loads[k].caller = c /\ ~loads[k].prefetch})
  /\ inFlight = Cardinality({k \in DOMAIN loads : loads[k].prefetch})

\* Close succeeds only when nothing is pinned and no prefetch is on its way,
\* and refuses only for a handle or a read operation that pins a page.
CloseExact ==
  /\ manager = "closed" => \A f \in Frames : frame[f].pins = 0
  /\ manager = "closed" => \A k \in DOMAIN loads : ~loads[k].prefetch
  /\ manager = "refused" => \E c \in Callers : Held(c) # {}


=============================================================================
