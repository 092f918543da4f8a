---------------------------- MODULE ClockPolicies ---------------------------
(***************************************************************************)
(* The lock-free replacement policies, Clock and clock-sweep               *)
(* (lib/replacer/clock_replacer.cc, clock_sweep_replacer.cc).              *)
(*                                                                         *)
(* Both keep a small count per frame and a shared hand: Clock's reference  *)
(* bit is a count of at most 1, changed by plain stores, clock-sweep's     *)
(* usage count is changed by compare-and-swap.  A Victim call begins with  *)
(* a set of frames that stay evictable; the probe may answer anything for  *)
(* the others.                                                             *)
(***************************************************************************)
EXTENDS Integers

CONSTANTS
  Capacity, Threads,
  kMaxUsageCount     \* 5 in the code

VARIABLES
  policy,     \* "clock" or "sweep"
  count, hand,
  thread,     \* per thread: its place and its call
  loaded      \* external: the frames that hold a page

clockVars == <<policy, count, hand, thread, loaded>>

Frames == 0 .. Capacity - 1
kUntracked == -1
Top == IF policy = "clock" THEN 1 ELSE kMaxUsageCount
Resting == [at |-> "idle", frame |-> 0, seen |-> 0, scanned |-> 0, steady |-> {}]

Init ==
  /\ policy \in {"clock", "sweep"}
  /\ count = [f \in Frames |-> kUntracked] /\ hand = 0
  /\ thread = [t \in Threads |-> Resting] /\ loaded = {}

At(t, l) == thread[t].at = l
Call(t, c) == thread' = [thread EXCEPT ![t] = c]
InVictim(t) == thread[t].at \in {"take", "look", "lower"}

\* What is done to frame f ends its steadiness for every Victim call.
Disturbed(f, c) == [c EXCEPT !.steady = @ \ {f}]
CallDisturbing(t, f, c) == thread' = [u \in Threads |-> Disturbed(f, IF u = t THEN c ELSE thread[u])]

-----------------------------------------------------------------------------
(* An access pins its frame, so the frame stays loaded during it.          *)

RecordAccess(t, f) ==
  /\ At(t, "idle") /\ f \in loaded
  /\ CallDisturbing(t, f, IF count[f] < Top THEN [Resting EXCEPT !.at = "raise", !.frame = f, !.seen = count[f]] ELSE Resting)
  /\ UNCHANGED <<policy, count, hand, loaded>>

\* Clock stores.  Clock-sweep's weak compare-and-swap may fail for no reason.
SetReferenced(t) ==
  LET f == thread[t].frame IN
  /\ At(t, "raise") /\ policy = "clock" /\ count' = [count EXCEPT ![f] = 1]
  /\ CallDisturbing(t, f, Resting) /\ UNCHANGED <<policy, hand, loaded>>
RaiseUsage(t, fails) ==
  LET f == thread[t].frame IN
  /\ At(t, "raise") /\ policy = "sweep"
  /\ count' = IF fails \/ count[f] # thread[t].seen THEN count ELSE [count EXCEPT ![f] = @ + 1]
  /\ CallDisturbing(t, f, Resting) /\ UNCHANGED <<policy, hand, loaded>>

Pinned(f) == \E t \in Threads : At(t, "raise") /\ thread[t].frame = f

RecordLoad(t, f) ==
  /\ At(t, "idle") /\ ~Pinned(f)
  /\ count' = [count EXCEPT ![f] = 1] /\ loaded' = loaded \cup {f}
  /\ CallDisturbing(t, f, Resting) /\ UNCHANGED <<policy, hand>>

RemoveFrame(t, f) ==
  /\ At(t, "idle") /\ f \in loaded /\ ~Pinned(f)
  /\ count' = [count EXCEPT ![f] = kUntracked] /\ loaded' = loaded \ {f}
  /\ CallDisturbing(t, f, Resting) /\ UNCHANGED <<policy, hand>>

-----------------------------------------------------------------------------
(* Victim: (Top + 1) rounds of the hand.  Two calls share the hand, so a   *)
(* call that is not alone may be kept from seeing some frames.             *)

Victim(t, steady) ==
  LET others == {u \in Threads : InVictim(u)} IN
  /\ At(t, "idle")
  /\ thread' = [u \in Threads |->
       CASE u = t -> [Resting EXCEPT !.at = "take", !.steady = IF others = {} THEN steady ELSE {}]
         [] u \in others -> [thread[u] EXCEPT !.steady = {}]
         [] OTHER -> thread[u]]
  /\ UNCHANGED <<policy, count, hand, loaded>>

\* Mutant of Rounds: a round less.
RoundsShort == Top * Capacity

Rounds == (Top + 1) * Capacity

Take(t) ==
  LET c == thread[t] IN
  /\ c.at = "take" /\ UNCHANGED <<policy, count, loaded>>
  /\ \/ /\ c.scanned < Rounds /\ hand' = (hand + 1) % Capacity
        /\ Call(t, [c EXCEPT !.at = "look", !.frame = hand, !.scanned = @ + 1])
     \/ /\ c.scanned = Rounds /\ UNCHANGED hand
        /\ Call(t, [Resting EXCEPT !.at = "none", !.steady = c.steady])

\* Skip, lower the count, or nominate.
Look(t, evictable) ==
  LET c == thread[t]
      seen == count[c.frame] IN
  /\ c.at = "look" /\ (c.frame \in c.steady => evictable)
  /\ Call(t, CASE seen = kUntracked \/ ~evictable -> [c EXCEPT !.at = "take"]
               [] seen > 0 /\ evictable -> [c EXCEPT !.at = "lower", !.seen = seen]
               [] OTHER -> Resting)
  /\ UNCHANGED <<policy, count, hand, loaded>>

ClearReferenced(t) ==
  LET c == thread[t] IN
  /\ c.at = "lower" /\ policy = "clock" /\ count' = [count EXCEPT ![c.frame] = 0]
  /\ Call(t, [c EXCEPT !.at = "take"]) /\ UNCHANGED <<policy, hand, loaded>>

LowerUsage(t, fails) ==
  LET c == thread[t]
      lost == fails \/ count[c.frame] # c.seen
      on == [c EXCEPT !.at = "take"] IN
  /\ c.at = "lower" /\ policy = "sweep"
  /\ count' = IF lost THEN count ELSE [count EXCEPT ![c.frame] = @ - 1]
  /\ Call(t, IF lost THEN Disturbed(c.frame, on) ELSE on) /\ UNCHANGED <<policy, hand, loaded>>

Return(t) == At(t, "none") /\ Call(t, Resting) /\ UNCHANGED <<policy, count, hand, loaded>>

Next ==
  \E t \in Threads :
    \/ \E f \in Frames : RecordAccess(t, f) \/ RecordLoad(t, f) \/ RemoveFrame(t, f)
    \/ \E steady \in SUBSET loaded : Victim(t, steady)
    \/ Take(t) \/ Return(t) \/ SetReferenced(t) \/ ClearReferenced(t)
    \/ \E b \in BOOLEAN : RaiseUsage(t, b) \/ Look(t, b) \/ LowerUsage(t, b)

Spec == Init /\ [][Next]_clockVars

-----------------------------------------------------------------------------
\* No page is lost to the policy: whatever accesses and sweeps overlap, a
\* loaded frame has a count, of at most the maximum.
LoadedCounted == \A f \in loaded : count[f] \in 0 .. Top

\* A Victim call that is alone fails only if no frame was evictable and left
\* alone throughout: its rounds are enough to bring any count down to 0.
SweepFinds == \A t \in Threads : At(t, "none") => thread[t].steady \cap loaded = {}

=============================================================================
