-------------------------- MODULE MCBufferPoolLive --------------------------
(***************************************************************************)
(* BufferPool with clients that make finitely many calls and finitely many *)
(* optional steps inside them, so that every call must return.             *)
(***************************************************************************)
EXTENDS BufferPool

CONSTANT Budget     \* calls and optional steps of each thread

VARIABLE left       \* what is left of each thread's budget

liveVars == <<vars, left>>

Spend(t) == left[t] > 0 /\ left' = [left EXCEPT ![t] = @ - 1]

LiveInit == Init /\ left = [t \in Threads |-> Budget]

LiveNext ==
  \E t \in Threads :
    \/ Start(t) /\ Spend(t)
    \/ ClientChoice(t) /\ Spend(t)
    \/ Progress(t) /\ UNCHANGED left

(***************************************************************************)
(* Threads are scheduled and disk requests complete, so a call that can    *)
(* take a step eventually takes one, and a client releases its handle.     *)
(* The replacer may miss an evictable frame now and then, but not forever. *)
(***************************************************************************)
Fairness ==
  \A t \in Threads :
    /\ WF_liveVars(Progress(t) /\ UNCHANGED left)
    /\ SF_liveVars(Victim(t) /\ UNCHANGED left)

LiveSpec == LiveInit /\ [][LiveNext]_liveVars /\ Fairness

\* Every call returns: no wait for a load, a latch, a writeback or a frame is
\* left behind, and no pair of calls makes each other retry for ever.
CallsReturn == \A t \in Threads : ~At(t, "idle") ~> At(t, "idle")

=============================================================================
