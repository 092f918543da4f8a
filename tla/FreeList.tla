------------------------------ MODULE FreeList ------------------------------
(***************************************************************************)
(* The lock-free list of free frames (lib/buffer/frame_free_list.h): a     *)
(* stack whose links are frame indices and whose head carries a version.   *)
(* Every atomic access is an action of its own.  BufferPool takes the list *)
(* for a set with an atomic insertion and an atomic removal; ActsAsASet    *)
(* says that this is what the accesses add up to.                          *)
(***************************************************************************)
EXTENDS Integers, FiniteSets

CONSTANTS
  Poppers,      \* the threads that take and return frames
  Capacity,     \* number of frames
  MaxVersion    \* bound on the successful updates of the head

VARIABLES
  head,         \* the packed word: index and version
  next,
  call          \* the Push or Pop a thread is in, and the frames it owns

listVars == <<head, next, call>>

Frames == 0 .. Capacity - 1
kNone == Capacity
Index == Frames \cup {kNone}
Heads == [index : Index, version : 0 .. MaxVersion]

Resting(own) == [at |-> "rest", own |-> own, frame |-> kNone,
                 seen |-> [index |-> kNone, version |-> 0], link |-> kNone]

TypeOK ==
  /\ head \in Heads /\ next \in [Frames -> Index]
  /\ call \in [Poppers -> [at : {"rest", "store", "push", "read", "pop"}, own : SUBSET Frames,
                           frame : Index, seen : Heads, link : Index]]

\* SeedFreeFrames pushed the frames in the order of their ids.
Init ==
  /\ head = [index |-> Capacity - 1, version |-> 0]
  /\ next = [f \in Frames |-> IF f = 0 THEN kNone ELSE f - 1]
  /\ call = [t \in Poppers |-> Resting({})]

At(t, l) == call[t].at = l
Bumped(i) == [index |-> i, version |-> head.version + 1]

\* Push loads the head; the frame is the caller's until the CAS.
PushLoad(t, f) ==
  /\ At(t, "rest") /\ f \in call[t].own
  /\ call' = [call EXCEPT ![t].at = "store", ![t].frame = f, ![t].seen = head]
  /\ UNCHANGED <<head, next>>

PushStore(t) ==
  /\ At(t, "store")
  /\ next' = [next EXCEPT ![call[t].frame] = call[t].seen.index]
  /\ call' = [call EXCEPT ![t].at = "push"]
  /\ UNCHANGED head

\* A compare_exchange_weak that fails, for a reason or for none, loads the
\* head again.
PushCas(t) ==
  /\ At(t, "push") /\ UNCHANGED next
  /\ \/ /\ head = call[t].seen /\ head.version < MaxVersion
        /\ head' = Bumped(call[t].frame)
        /\ call' = [call EXCEPT ![t] = Resting(@.own \ {@.frame})]
     \/ /\ call' = [call EXCEPT ![t].at = "store", ![t].seen = head]
        /\ UNCHANGED head

\* Pop loads the head and gives up on an empty list.
PopLoad(t) ==
  /\ At(t, "rest") /\ head.index # kNone
  /\ call' = [call EXCEPT ![t].at = "read", ![t].seen = head]
  /\ UNCHANGED <<head, next>>

\* The link of a frame that another thread may have taken in the meantime.
PopRead(t) ==
  /\ At(t, "read")
  /\ call' = [call EXCEPT ![t].at = "pop", ![t].link = next[call[t].seen.index]]
  /\ UNCHANGED <<head, next>>

\* Mutant of PopCas: the head has no version, only an index.
PopCasUnversioned(t) ==
  /\ At(t, "pop") /\ UNCHANGED next
  /\ \/ /\ head.index = call[t].seen.index /\ head.version < MaxVersion
        /\ head' = Bumped(call[t].link)
        /\ call' = [call EXCEPT ![t] = Resting(@.own \cup {@.seen.index})]
     \/ /\ head.index # call[t].seen.index
        /\ call' = [call EXCEPT ![t] = IF head.index = kNone THEN Resting(@.own)
                                       ELSE [Resting(@.own) EXCEPT !.at = "read", !.seen = head]]
        /\ UNCHANGED head

PopCas(t) ==
  /\ At(t, "pop") /\ UNCHANGED next
  /\ \/ /\ head = call[t].seen /\ head.version < MaxVersion
        /\ head' = Bumped(call[t].link)
        /\ call' = [call EXCEPT ![t] = Resting(@.own \cup {@.seen.index})]
     \/ /\ call' = [call EXCEPT ![t] = IF head.index = kNone THEN Resting(@.own)
                                       ELSE [Resting(@.own) EXCEPT !.at = "read", !.seen = head]]
        /\ UNCHANGED head

Next == \E t \in Poppers :
  \/ \E f \in Frames : PushLoad(t, f)
  \/ PushStore(t) \/ PushCas(t) \/ PopLoad(t) \/ PopRead(t) \/ PopCas(t)

Spec == Init /\ [][Next]_listVars

-----------------------------------------------------------------------------
\* The n-th link after the head, and the frames on the list.
Link[n \in 0 .. Capacity] ==
  IF n = 0 THEN head.index
  ELSE LET f == Link[n - 1] IN IF f = kNone THEN kNone ELSE next[f]
Listed == {Link[n] : n \in 0 .. Capacity} \ {kNone}

\* The accesses of a Pop or a Push add up to one atomic removal of a frame
\* that goes to the caller, or one atomic insertion of a frame of the caller:
\* no frame is lost or handed out twice, whatever pops and pushes overlap.
SetStep ==
  LET before == Listed
      after == Listed'
      Moved(t, given, taken) ==
        /\ call'[t].own = (call[t].own \ given) \cup taken
        /\ \A u \in Poppers \ {t} : call'[u].own = call[u].own
  IN \/ after = before /\ \A t \in Poppers : call'[t].own = call[t].own
     \/ \E t \in Poppers :
          \/ \E f \in before : after = before \ {f} /\ Moved(t, {}, {f})
          \/ \E f \in call[t].own \ before : after = before \cup {f} /\ Moved(t, {f}, {})

=============================================================================
