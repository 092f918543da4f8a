----------------------------- MODULE MlPrefetch -----------------------------
(***************************************************************************)
(* Planned reads (lib/facade/ml_prefetch_buffer.cc): positions of a plan   *)
(* are handed out to the threads that ask, and the blocks of the positions *)
(* ahead are prefetched once.  Positions count from 0.                     *)
(***************************************************************************)
EXTENDS Integers, Sequences, FiniteSets, FiniteSetsExt, Functions

CONSTANTS Consumers, Plans, kNeverUsed, PrefetchDepth, MaxPlans

VARIABLES
  planned,    \* plan_, next_use_ and which plan it is
  cursor,     \* cursor_
  until,      \* prefetched_until_
  consumer,   \* per thread: its place, position and what it read
  issued      \* how often each position was prefetched

planVars == <<planned, cursor, until, consumer, issued>>

Size == Len(planned.plan)
Positions == 0 .. Size - 1
Idle == [at |-> "idle", position |-> 0, observed |-> 0, first |-> 0, end |-> 0]

\* SetPlan's loop from the end: `later` after position p was visited.
LaterUses(plan) ==
  LET f[p \in 0 .. Len(plan)] ==
        IF p = Len(plan) THEN <<>>
        ELSE [b \in DOMAIN f[p + 1] \cup {plan[p + 1]} |-> IF b = plan[p + 1] THEN p ELSE f[p + 1][b]]
  IN f
NextUse(plan) ==
  [p \in 0 .. Len(plan) - 1 |->
     LET later == LaterUses(plan)[p + 1]
     IN IF plan[p + 1] \in DOMAIN later THEN later[plan[p + 1]] ELSE kNeverUsed]

Init ==
  /\ planned = [plan |-> <<>>, nextUse |-> <<>>, number |-> 0]
  /\ cursor = 0 /\ until = 0
  /\ consumer = [c \in Consumers |-> Idle]
  /\ issued = <<>>

At(c, l) == consumer[c].at = l

\* SetPlan does not race with the other calls.
SetPlan(plan) ==
  /\ planned.number < MaxPlans /\ \A c \in Consumers : At(c, "idle")
  /\ planned' = [plan |-> plan, nextUse |-> NextUse(plan), number |-> planned.number + 1]
  /\ cursor' = 0 /\ until' = 0
  /\ issued' = [p \in 0 .. Len(plan) - 1 |-> 0]
  /\ UNCHANGED consumer

\* Next claims a position with fetch_add.
NextPosition(c) ==
  /\ At(c, "idle") /\ cursor <= Size
  /\ cursor' = cursor + 1
  /\ IF cursor < Size
       THEN consumer' = [consumer EXCEPT ![c] = [Idle EXCEPT !.at = "observe", !.position = cursor]]
       ELSE UNCHANGED consumer
  /\ UNCHANGED <<planned, until, issued>>

\* Fetch of a position the caller chose.
Fetch(c, p) ==
  /\ At(c, "idle") /\ p < Size
  /\ consumer' = [consumer EXCEPT ![c] = [Idle EXCEPT !.at = "observe", !.position = p]]
  /\ UNCHANGED <<planned, cursor, until, issued>>

\* Prefetch: the load, the loop's test, the compare-and-swap.
Observe(c) ==
  /\ At(c, "observe")
  /\ consumer' = [consumer EXCEPT ![c].at = IF PrefetchDepth = 0 THEN "read" ELSE "test",
                    ![c].observed = until, ![c].end = Min({Size, consumer[c].position + 1 + PrefetchDepth})]
  /\ UNCHANGED <<planned, cursor, until, issued>>
Test(c) ==
  LET first == Max({consumer[c].observed, consumer[c].position + 1}) IN
  /\ At(c, "test")
  /\ consumer' = [consumer EXCEPT ![c].first = first, ![c].at = IF first >= consumer[c].end THEN "read" ELSE "claim"]
  /\ UNCHANGED <<planned, cursor, until, issued>>

\* Mutant of Claim: the new end is stored whatever others did meanwhile.
ClaimBlindly(c) ==
  /\ At(c, "claim") /\ until' = consumer[c].end
  /\ consumer' = [consumer EXCEPT ![c].at = "prefetch"] /\ UNCHANGED <<planned, cursor, issued>>

Claim(c) ==
  /\ At(c, "claim") /\ UNCHANGED <<planned, cursor, issued>>
  /\ IF until = consumer[c].observed
       THEN until' = consumer[c].end /\ consumer' = [consumer EXCEPT ![c].at = "prefetch"]
       ELSE consumer' = [consumer EXCEPT ![c].at = "test", ![c].observed = until] /\ UNCHANGED until
PrefetchNext(c) ==
  /\ At(c, "prefetch")
  /\ issued' = [issued EXCEPT ![consumer[c].first] = @ + 1]
  /\ consumer' = [consumer EXCEPT ![c].first = @ + 1, ![c].at = IF consumer[c].first + 1 >= consumer[c].end THEN "read" ELSE @]
  /\ UNCHANGED <<planned, cursor, until>>

\* ReadBuffer and SetNextUse.
Read(c) ==
  /\ At(c, "read") /\ consumer' = [consumer EXCEPT ![c] = Idle]
  /\ UNCHANGED <<planned, cursor, until, issued>>

Next ==
  \/ \E plan \in Plans : SetPlan(plan)
  \/ \E c \in Consumers :
       \/ NextPosition(c) \/ (\E p \in 0 .. Size - 1 : Fetch(c, p)) \/ Observe(c) \/ Test(c)
       \/ Claim(c) \/ PrefetchNext(c) \/ Read(c)

Spec == Init /\ [][Next]_planVars

-----------------------------------------------------------------------------
TypeOK == cursor \in 0 .. Size + 1 /\ until \in 0 .. Size /\ DOMAIN planned.nextUse = Positions

\* However many threads fetch at once, and in any order, a position of the
\* plan is prefetched at most once.
PrefetchedOnce == \A p \in Positions : issued[p] <= 1

\* The next use of a position is the nearest later position of its block, as
\* the replacement by furthest use needs it.
NextUseRight ==
  \A p \in Positions :
    LET uses == {q \in Positions : q > p /\ planned.plan[q + 1] = planned.plan[p + 1]}
    IN planned.nextUse[p] = IF uses = {} THEN kNeverUsed ELSE Min(uses)

=============================================================================
