---------------------------- MODULE QueuePolicies ---------------------------
(***************************************************************************)
(* The replacement policies that keep frames in linked lists: LRU, 2Q and  *)
(* SIEVE (lib/replacer/lru_replacer.cc, two_queue_replacer.cc and          *)
(* sieve_replacer.cc, over frame_list.h and access_batcher.h).             *)
(*                                                                         *)
(* LRU is one segment; 2Q is two: a load enters the first, an access moves *)
(* to the last, victims come from the first before the last.  SIEVE is one *)
(* list with a hand and visited bits.  Every operation holds the policy's  *)
(* latch except recording an access.  What IsEvictable answers is not      *)
(* state: a Victim call begins with a set of frames that stay evictable,   *)
(* and any answer may be given for the others.                             *)
(***************************************************************************)
EXTENDS Integers, Sequences, SequencesExt, FiniteSets

CONSTANTS
  Frames, kNone,
  Threads,       \* 1 .. n
  Peers(_),      \* the threads of a thread's process: they share a batcher
  BatchSize      \* kBatchSize, 64 in the code

VARIABLES
  policy,     \* "lru", "2q" or "sieve"
  list,       \* per segment: ends and links
  hand, visited,   \* of SIEVE
  slot,       \* per thread: the accesses recorded and not yet applied
  thread,     \* per thread: its place and its call
  loaded,     \* external: the frames that hold a page
  order       \* the abstract policy: per segment, the frames from newest to oldest

queueVars == <<policy, list, hand, visited, slot, thread, loaded, order>>

Segments == CASE policy = "lru" -> <<"recency">> [] policy = "2q" -> <<"history", "cache">> [] policy = "sieve" -> <<"queue">>
First == Segments[1]

EmptyList == [front |-> kNone, back |-> kNone, toBack |-> [f \in Frames |-> kNone], toFront |-> [f \in Frames |-> kNone], linked |-> {}]
Resting == [at |-> "idle", frame |-> kNone, segment |-> 1, scanned |-> 0, steady |-> {}, batch |-> <<>>]

Init ==
  /\ policy \in {"lru", "2q", "sieve"}
  /\ list = [s \in Range(Segments) |-> EmptyList] /\ order = [s \in Range(Segments) |-> <<>>]
  /\ hand = kNone /\ visited = {} /\ loaded = {}
  /\ slot = [t \in Threads |-> <<>>] /\ thread = [t \in Threads |-> Resting]

-----------------------------------------------------------------------------
(* FrameList.  The same operations link SIEVE's newest, oldest, newer and  *)
(* older.                                                                  *)

PushFront(l, f) ==
  [front |-> f, back |-> IF l.back = kNone THEN f ELSE l.back, linked |-> l.linked \cup {f},
   toBack |-> [l.toBack EXCEPT ![f] = l.front],
   toFront |-> [g \in Frames |-> IF g = f THEN kNone ELSE IF g = l.front THEN f ELSE l.toFront[g]]]

\* The links of the frame itself are not read again before PushFront sets
\* them; they are cleared here.
Unlink(l, f) ==
  [front |-> IF l.toFront[f] = kNone THEN l.toBack[f] ELSE l.front,
   back |-> IF l.toBack[f] = kNone THEN l.toFront[f] ELSE l.back, linked |-> l.linked \ {f},
   toBack |-> [g \in Frames |-> IF g = f THEN kNone ELSE IF g = l.toFront[f] THEN l.toBack[f] ELSE l.toBack[g]],
   toFront |-> [g \in Frames |-> IF g = f THEN kNone ELSE IF g = l.toBack[f] THEN l.toFront[f] ELSE l.toFront[g]]]

MoveToFront(l, f) == PushFront(Unlink(l, f), f)

-----------------------------------------------------------------------------
(* The policy's lists and the abstract ones, as a pair p.                  *)

Now == [list |-> list, order |-> order]
Tracked(p, f) == \E s \in DOMAIN p.list : f \in p.list[s].linked
Untrack(p, f) ==
  [list |-> [s \in DOMAIN p.list |-> IF f \in p.list[s].linked THEN Unlink(p.list[s], f) ELSE p.list[s]],
   order |-> [s \in DOMAIN p.order |-> SelectSeq(p.order[s], LAMBDA g : g # f)]]
Insert(p, s, f) ==
  [list |-> [p.list EXCEPT ![s] = PushFront(@, f)], order |-> [p.order EXCEPT ![s] = <<f>> \o @]]

Refresh(p, s, f) ==
  [list |-> [p.list EXCEPT ![s] = MoveToFront(@, f)],
   order |-> [p.order EXCEPT ![s] = <<f>> \o SelectSeq(@, LAMBDA g : g # f)]]
In(p, s, f) == f \in p.list[s].linked

LruTouch(p, f) == IF In(p, "recency", f) THEN Refresh(p, "recency", f) ELSE p
TwoQueueTouch(p, f) ==
  CASE In(p, "history", f) -> Insert(Untrack(p, f), "cache", f)
    [] In(p, "cache", f) -> Refresh(p, "cache", f)
    [] OTHER -> p
Touch(p, f) == IF policy = "lru" THEN LruTouch(p, f) ELSE TwoQueueTouch(p, f)

LruLoad(p, f) == IF In(p, "recency", f) THEN Refresh(p, "recency", f) ELSE Insert(p, "recency", f)
TwoQueueLoad(p, f) == Insert(Untrack(p, f), "history", f)
Loaded(p, f) == IF policy = "lru" THEN LruLoad(p, f) ELSE TwoQueueLoad(p, f)

Touches(p, frames) == FoldLeft(Touch, p, frames)
Install(p) == list' = p.list /\ order' = p.order

\* DrainCurrentThread, or DrainAll in the order of the slots; the accesses
\* recorded in another process stay where they are.
Drained(T) == Touches(Now, FlattenSeq([t \in 1 .. Cardinality(Threads) |-> IF t \in T THEN slot[t] ELSE <<>>]))
Emptied(T) == slot' = [t \in Threads |-> IF t \in T THEN <<>> ELSE slot[t]]

LatchFree == \A t \in Threads : thread[t].at # "scan"
Idle(t) == thread[t].at = "idle"
Call(t, c) == thread' = [thread EXCEPT ![t] = c]
Sieve == policy = "sieve"

-----------------------------------------------------------------------------
(* The calls of LRU and 2Q.  A frame is accessed while a pin keeps its     *)
(* page in it.                                                             *)

\* An access fills the slot; a full slot is emptied into the caller's batch.
RecordAccess(t, f) ==
  LET s == Append(slot[t], f) IN
  /\ ~Sieve /\ Idle(t) /\ f \in loaded
  /\ slot' = [slot EXCEPT ![t] = IF Len(s) < BatchSize THEN s ELSE <<>>]
  /\ Call(t, IF Len(s) < BatchSize THEN Resting ELSE [Resting EXCEPT !.at = "apply", !.batch = s])
  /\ UNCHANGED <<policy, list, hand, visited, loaded, order>>

\* The batch, under the policy's latch.
Apply(t) ==
  /\ thread[t].at = "apply" /\ LatchFree
  /\ Install(Touches(Now, thread[t].batch)) /\ Call(t, Resting)
  /\ UNCHANGED <<policy, hand, visited, slot, loaded>>

RecordLoad(t, f) ==
  /\ ~Sieve /\ Idle(t) /\ LatchFree
  /\ Install(Loaded(Drained({t}), f)) /\ Emptied({t}) /\ loaded' = loaded \cup {f}
  /\ UNCHANGED <<policy, hand, visited, thread>>

RemoveFrame(t, f) ==
  /\ ~Sieve /\ Idle(t) /\ LatchFree /\ f \in loaded
  /\ Install(Untrack(Drained({t}), f)) /\ Emptied({t}) /\ loaded' = loaded \ {f}
  /\ UNCHANGED <<policy, hand, visited, thread>>

\* Victim takes the latch, applies the process's accesses and starts at the
\* back of the first segment.
Victim(t, steady) ==
  LET p == Drained(Peers(t)) IN
  /\ ~Sieve /\ Idle(t) /\ LatchFree /\ Install(p) /\ Emptied(Peers(t))
  /\ Call(t, [Resting EXCEPT !.at = "scan", !.steady = steady, !.frame = p.list[First].back])
  /\ UNCHANGED <<policy, hand, visited, loaded>>

\* PickFrom: the first frame the probe says yes to, as it must to a steady one,
\* is nominated.
Scan(t, evictable) ==
  LET c == thread[t] IN
  /\ c.at = "scan" /\ ~Sieve
  /\ c.frame # kNone /\ (c.frame \in c.steady => evictable)
  /\ Call(t, IF evictable THEN Resting ELSE [c EXCEPT !.frame = list[Segments[c.segment]].toFront[@]])
  /\ UNCHANGED <<policy, list, hand, visited, slot, loaded, order>>


NextSegment(t) ==
  LET c == thread[t] IN
  /\ c.at = "scan" /\ ~Sieve /\ c.frame = kNone
  /\ Call(t, IF c.segment < Len(Segments)
               THEN [c EXCEPT !.segment = @ + 1, !.frame = list[Segments[c.segment + 1]].back]
               ELSE [Resting EXCEPT !.at = "none", !.steady = c.steady])
  /\ UNCHANGED <<policy, list, hand, visited, slot, loaded, order>>

-----------------------------------------------------------------------------
(* SIEVE's calls.                                                          *)

SetVisited(t, f) ==
  /\ Sieve /\ Idle(t) /\ f \in loaded /\ visited' = visited \cup {f}
  /\ thread' = [u \in Threads |-> [thread[u] EXCEPT !.steady = @ \ {f}]]
  /\ UNCHANGED <<policy, list, hand, slot, loaded, order>>

\* Unlink moves the hand off the frame.
SieveUnlinked(f) ==
  [queue |-> Untrack(Now, f), hand |-> IF hand = f THEN list["queue"].toFront[f] ELSE hand]

LoadNewest(t, f) ==
  LET u == SieveUnlinked(f) IN
  /\ Sieve /\ Idle(t) /\ LatchFree
  /\ Install(Insert(u.queue, "queue", f)) /\ hand' = u.hand
  /\ visited' = visited \ {f} /\ loaded' = loaded \cup {f} /\ UNCHANGED <<policy, slot, thread>>

SieveRemove(t, f) ==
  LET u == SieveUnlinked(f) IN
  /\ Sieve /\ Idle(t) /\ LatchFree /\ f \in loaded
  /\ Install(u.queue) /\ hand' = u.hand
  /\ visited' = visited \ {f} /\ loaded' = loaded \ {f} /\ UNCHANGED <<policy, slot, thread>>

SieveVictim(t, steady) ==
  /\ Sieve /\ Idle(t) /\ LatchFree
  /\ Call(t, [Resting EXCEPT !.at = "scan", !.steady = steady, !.frame = IF hand # kNone THEN hand ELSE list["queue"].back])
  /\ UNCHANGED <<policy, list, hand, visited, slot, loaded, order>>

Rounds == 2 * Cardinality(list["queue"].linked)

\* A visited frame is passed over once.
SieveScan(t, evictable) ==
  LET c == thread[t]
      q == list["queue"]
      next == IF q.toFront[c.frame] # kNone THEN q.toFront[c.frame] ELSE q.back
      on == [c EXCEPT !.frame = next, !.scanned = @ + 1] IN
  /\ c.at = "scan" /\ Sieve /\ UNCHANGED <<policy, list, slot, loaded, order>>
  /\ \/ /\ c.frame = kNone \/ c.scanned = Rounds
        /\ evictable /\ hand' = c.frame /\ Call(t, [Resting EXCEPT !.at = "none", !.steady = c.steady]) /\ UNCHANGED visited
     \/ /\ c.frame # kNone /\ c.scanned < Rounds /\ (c.frame \in c.steady => evictable)
        /\ IF evictable /\ c.frame \notin visited
             THEN hand' = next /\ Call(t, Resting) /\ UNCHANGED visited
             ELSE Call(t, on) /\ visited' = (IF evictable THEN visited \ {c.frame} ELSE visited) /\ UNCHANGED hand

Return(t) ==
  /\ thread[t].at = "none" /\ Call(t, Resting)
  /\ UNCHANGED <<policy, list, hand, visited, slot, loaded, order>>

Next ==
  \E t \in Threads :
    \/ \E f \in Frames :
         \/ RecordAccess(t, f) \/ RecordLoad(t, f) \/ RemoveFrame(t, f)
         \/ SetVisited(t, f) \/ LoadNewest(t, f) \/ SieveRemove(t, f)
    \/ Apply(t) \/ NextSegment(t) \/ Return(t)
    \/ \E steady \in SUBSET loaded : Victim(t, steady) \/ SieveVictim(t, steady)
    \/ \E evictable \in BOOLEAN : Scan(t, evictable) \/ SieveScan(t, evictable)

Spec == Init /\ [][Next]_queueVars

-----------------------------------------------------------------------------
\* The links of every list are those of the abstract sequence, and a frame is
\* in one list at most.
Represents(l, s) ==
  /\ l.linked = Range(s) /\ IsInjective(s)
  /\ l.front = (IF s = <<>> THEN kNone ELSE Head(s)) /\ l.back = (IF s = <<>> THEN kNone ELSE Last(s))
  /\ \A i \in DOMAIN s :
       /\ l.toBack[s[i]] = (IF i = Len(s) THEN kNone ELSE s[i + 1])
       /\ l.toFront[s[i]] = (IF i = 1 THEN kNone ELSE s[i - 1])
ListsExact ==
  /\ \A s \in Range(Segments) : Represents(list[s], order[s])
  /\ Sieve => hand \in list["queue"].linked \cup {kNone}

\* Exactly the frames with a page are tracked: an access that is applied late
\* does not bring back a frame that was removed since.
TrackedExact == loaded = UNION {Range(order[s]) : s \in Range(Segments)} /\ visited \subseteq loaded

\* Victim nominates the coldest frame: none that stays evictable is colder,
\* and it finds one if there is one (for SIEVE, one not accessed meanwhile).
Coldness(f) ==
  LET s == CHOOSE i \in DOMAIN Segments : f \in Range(order[Segments[i]]) IN
  (s * (Cardinality(Frames) + 1)) - (CHOOSE i \in DOMAIN order[Segments[s]] : order[Segments[s]][i] = f)

=============================================================================
