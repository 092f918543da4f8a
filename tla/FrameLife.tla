----------------------------- MODULE FrameLife ------------------------------
(***************************************************************************)
(* What the buffer manager promises about the life of a frame: who may     *)
(* claim it, pin it, map it and give it back (docs/concurrency.md 1 and    *)
(* 5.1 to 5.5).  Latches, writeback, contents and waiting are left out.    *)
(*                                                                         *)
(* stage[t] is the claim that thread t has on the frame held[t]:           *)
(*   none       no claim                                                   *)
(*   pinned     a pin on a resident frame whose page it does not know      *)
(*   verified   a pin on a resident frame that holds the page it wants     *)
(*   popped     a free frame that is on nobody's list                      *)
(*   reserved, tagged, installed                                           *)
(*              a frame that it loads: just reserved, then with the tag of *)
(*              its page, then mapped under it                             *)
(*   unmapped   a frame that it gives up, no longer mapped                 *)
(*   dropping   a frame it freed that is still mapped                      *)
(* BufferPool implements this specification.                               *)
(***************************************************************************)
EXTENDS Naturals, FiniteSets

CONSTANTS Threads, Frames, Tags, DefaultTag, NoTag, NoFrame, MaxPins

VARIABLES
  state, pins, tag,     \* of each frame
  key, free,            \* the page table and the free list
  stage, held, want     \* the claim of each thread, its frame and its page

lifeVars == <<state, pins, tag, key, free, stage, held, want>>

claimVars == <<stage, held, want>>

LifeInit ==
  /\ state = [f \in Frames |-> "Free"]
  /\ pins = [f \in Frames |-> 0]
  /\ tag = [f \in Frames |-> DefaultTag]
  /\ key = [f \in Frames |-> NoTag]
  /\ free = Frames
  /\ stage = [t \in Threads |-> "none"]
  /\ held = [t \in Threads |-> NoFrame]
  /\ want = [t \in Threads |-> NoTag]

Claims(t, s) == stage[t] = s

Claim(t, s, f, k) ==
  /\ stage' = [stage EXCEPT ![t] = s]
  /\ held' = [held EXCEPT ![t] = f]
  /\ want' = [want EXCEPT ![t] = k]

Become(t, s) == stage' = [stage EXCEPT ![t] = s] /\ UNCHANGED <<held, want>>
Leave(t) == Claim(t, "none", NoFrame, NoTag)

-----------------------------------------------------------------------------
\* Only a resident frame can be pinned; its page is checked afterwards.
TakePin(t, f, k) ==
  /\ Claims(t, "none") /\ state[f] = "Resident" /\ pins[f] < MaxPins
  /\ pins' = [pins EXCEPT ![f] = @ + 1]
  /\ Claim(t, "pinned", f, k)
  /\ UNCHANGED <<state, tag, key, free>>

VerifyPage(t) ==
  /\ Claims(t, "pinned") /\ tag[held[t]] = want[t]
  /\ Become(t, "verified")
  /\ UNCHANGED <<state, pins, tag, key, free>>

\* The claim on the page ends before the pin does.
LeavePage(t) ==
  /\ Claims(t, "verified")
  /\ Become(t, "pinned")
  /\ UNCHANGED <<state, pins, tag, key, free>>

DropPin(t) ==
  /\ Claims(t, "pinned")
  /\ pins' = [pins EXCEPT ![held[t]] = @ - 1]
  /\ Leave(t)
  /\ UNCHANGED <<state, tag, key, free>>

TakeFree(t, f, k) ==
  /\ Claims(t, "none") /\ f \in free
  /\ free' = free \ {f}
  /\ Claim(t, "popped", f, k)
  /\ UNCHANGED <<state, pins, tag, key>>

GiveFree(t) ==
  /\ Claims(t, "popped")
  /\ free' = free \cup {held[t]}
  /\ Leave(t)
  /\ UNCHANGED <<state, pins, tag, key>>

\* A free frame goes to the thread that popped it, a resident one to anybody,
\* in both cases only if nobody pins it.
ClaimFrame(t, f, k) ==
  /\ \/ Claims(t, "popped") /\ f = held[t] /\ k = want[t]
     \/ Claims(t, "none") /\ state[f] = "Resident"
  /\ pins[f] = 0
  /\ state' = [state EXCEPT ![f] = "Loading"]
  /\ pins' = [pins EXCEPT ![f] = 1]
  /\ Claim(t, "reserved", f, k)
  /\ UNCHANGED <<tag, key, free>>

TagFrame(t) ==
  /\ Claims(t, "reserved")
  /\ tag' = [tag EXCEPT ![held[t]] = want[t]]
  /\ Become(t, "tagged")
  /\ UNCHANGED <<state, pins, key, free>>

\* A page is mapped to a frame only while no other frame is live for it.
MapFrame(t) ==
  /\ Claims(t, "tagged")
  /\ \A g \in Frames \ {held[t]} :
       key[g] = want[t] /\ tag[g] = want[t] => state[g] = "Free"
  /\ key' = [key EXCEPT ![held[t]] = want[t]]
  /\ Become(t, "installed")
  /\ UNCHANGED <<state, pins, tag, free>>

\* A lost race, or a failed load, unmaps the frame.
UnmapFrame(t) ==
  /\ Claims(t, "tagged") \/ Claims(t, "installed")
  /\ key' = [key EXCEPT ![held[t]] = NoTag]
  /\ Become(t, "unmapped")
  /\ UNCHANGED <<state, pins, tag, free>>

\* A prefetch drops its pin as it publishes the page.
PublishFrame(t) ==
  /\ Claims(t, "installed")
  /\ state' = [state EXCEPT ![held[t]] = "Resident"]
  /\ \/ Become(t, "verified") /\ UNCHANGED pins
     \/ Leave(t) /\ pins' = [pins EXCEPT ![held[t]] = @ - 1]
  /\ UNCHANGED <<tag, key, free>>

\* The tag of a frame that is given up is cleared before or after it is free.
UntagFrame(t) ==
  /\ Claims(t, "unmapped") \/ Claims(t, "popped")
  /\ tag' = [tag EXCEPT ![held[t]] = DefaultTag]
  /\ UNCHANGED <<state, pins, key, free, claimVars>>

FreeFrame(t) ==
  /\ Claims(t, "unmapped")
  /\ state' = [state EXCEPT ![held[t]] = "Free"]
  /\ pins' = [pins EXCEPT ![held[t]] = 0]
  /\ Become(t, "popped")
  /\ UNCHANGED <<tag, key, free>>

\* A drop needs the only pin.
DropFrame(t) ==
  /\ Claims(t, "verified") /\ pins[held[t]] = 1
  /\ state' = [state EXCEPT ![held[t]] = "Free"]
  /\ pins' = [pins EXCEPT ![held[t]] = 0]
  /\ Become(t, "dropping")
  /\ UNCHANGED <<tag, key, free>>

UnmapDropped(t) ==
  /\ Claims(t, "dropping")
  /\ key' = [key EXCEPT ![held[t]] = NoTag]
  /\ Become(t, "popped")
  /\ UNCHANGED <<state, pins, tag, free>>

LifeNext ==
  \E t \in Threads :
    \/ \E f \in Frames, k \in Tags : TakePin(t, f, k) \/ TakeFree(t, f, k) \/ ClaimFrame(t, f, k)
    \/ VerifyPage(t) \/ LeavePage(t) \/ DropPin(t) \/ GiveFree(t) \/ TagFrame(t) \/ MapFrame(t)
    \/ UnmapFrame(t) \/ PublishFrame(t) \/ UntagFrame(t) \/ FreeFrame(t) \/ DropFrame(t) \/ UnmapDropped(t)

LifeSpec == LifeInit /\ [][LifeNext]_lifeVars

-----------------------------------------------------------------------------
(* The inductive invariant.                                                *)

LoadStages == {"reserved", "tagged", "installed", "unmapped"}
PinStages == LoadStages \cup {"pinned", "verified"}
OwnerStages == LoadStages \cup {"popped", "dropping"}
Stages == OwnerStages \cup PinStages \cup {"none"}

LifeType ==
  /\ state \in [Frames -> {"Free", "Loading", "Resident"}]
  /\ pins \in [Frames -> 0 .. MaxPins]
  /\ tag \in [Frames -> Tags]
  /\ key \in [Frames -> Tags \cup {NoTag}]
  /\ free \subseteq Frames
  /\ stage \in [Threads -> Stages]
  /\ held \in [Threads -> Frames \cup {NoFrame}]
  /\ want \in [Threads -> Tags \cup {NoTag}]
  /\ \A t \in Threads : stage[t] # "none" => held[t] \in Frames /\ want[t] \in Tags

Owner(t, f) == stage[t] \in OwnerStages /\ held[t] = f
Pinners(f) == {t \in Threads : stage[t] \in PinStages /\ held[t] = f}

\* What each stage knows of its frame.
StageInv ==
  \A t \in Threads :
    LET f == held[t] IN
    /\ stage[t] \in LoadStages => state[f] = "Loading"
    /\ stage[t] \in {"popped", "dropping"} => state[f] = "Free"
    /\ stage[t] \in {"pinned", "verified"} => state[f] = "Resident"
    /\ stage[t] = "verified" => tag[f] = want[t]
    /\ stage[t] = "reserved" => key[f] \in {NoTag, tag[f]}
    /\ stage[t] = "tagged" => tag[f] = want[t]
    /\ stage[t] = "installed" => tag[f] = want[t] /\ key[f] = want[t]
    /\ stage[t] \in {"unmapped", "popped"} => key[f] = NoTag
    /\ stage[t] = "dropping" => key[f] = want[t]

\* A frame is on the free list, resident, or claimed by one thread.
OwnerInv ==
  /\ \A t, u \in Threads, f \in Frames : Owner(t, f) /\ Owner(u, f) => t = u
  /\ \A f \in free : state[f] = "Free" /\ key[f] = NoTag /\ \A t \in Threads : ~Owner(t, f)
  /\ \A f \in Frames : state[f] = "Resident" => key[f] = tag[f]
  /\ \A f \in Frames : f \in free \/ state[f] = "Resident" \/ \E t \in Threads : Owner(t, f)

\* Mapped under the tag it carries, and not free: the frame holds the page.
HoldsPage(f) == state[f] # "Free" /\ key[f] = tag[f]
CopyInv == \A f, g \in Frames : HoldsPage(f) /\ HoldsPage(g) /\ tag[f] = tag[g] => f = g

PinInv == \A f \in Frames : pins[f] = Cardinality(Pinners(f))

LifeInv == LifeType /\ StageInv /\ OwnerInv /\ CopyInv /\ PinInv

=============================================================================
