----------------------------- MODULE FrameProofs ----------------------------
(***************************************************************************)
(* The invariants of FrameLife and of ContentLatch hold for any finite set *)
(* of threads, any set of frames and of pages and any limits.              *)
(***************************************************************************)
EXTENDS FrameLife, FiniteSetTheorems, TLAPS

CONSTANT MaxShared
VARIABLES shared, exclusive, hold, latched
INSTANCE ContentLatch

-----------------------------------------------------------------------------
(* FrameLife.                                                              *)

LifeConstants ==
  IsFiniteSet(Threads) /\ DefaultTag \in Tags /\ NoTag \notin Tags /\ MaxPins \in Nat \ {0}

\* The pins of a frame count its pinners.
LEMMA PinCount ==
  ASSUME LifeConstants, PinInv, NEW f \in Frames, NEW t
  PROVE  /\ IsFiniteSet(Pinners(f))
         /\ pins[f] = Cardinality(Pinners(f)) /\ pins[f] \in Nat
         /\ pins[f] = 0 => Pinners(f) = {}
         /\ pins[f] = 1 /\ t \in Pinners(f) => Pinners(f) = {t}
         /\ t \in Pinners(f) => Cardinality(Pinners(f) \ {t}) = pins[f] - 1 /\ pins[f] > 0
         /\ t \notin Pinners(f) => Cardinality(Pinners(f) \cup {t}) = pins[f] + 1
<1>1. IsFiniteSet(Pinners(f))
  BY FS_Subset DEF LifeConstants, Pinners
<1>2. pins[f] = Cardinality(Pinners(f)) /\ pins[f] \in Nat
  BY <1>1, FS_CardinalityType DEF PinInv
<1>3. pins[f] = 0 => Pinners(f) = {}
  BY ZenonT(40), <1>1, <1>2, FS_EmptySet
<1>4. pins[f] = 1 /\ t \in Pinners(f) => Pinners(f) = {t}
  <2> SUFFICES ASSUME pins[f] = 1, t \in Pinners(f) PROVE Pinners(f) = {t}
    OBVIOUS
  <2>1. PICK x : Pinners(f) = {x}
    BY <1>1, <1>2, FS_Singleton
  <2> QED
    BY <2>1
<1>5. t \in Pinners(f) => Cardinality(Pinners(f) \ {t}) = pins[f] - 1 /\ pins[f] > 0
  BY <1>1, <1>2, FS_RemoveElement, FS_EmptySet
<1>6. t \notin Pinners(f) => Cardinality(Pinners(f) \cup {t}) = pins[f] + 1
  BY ZenonT(40), <1>1, <1>2, FS_AddElement
<1> QED
  BY <1>1, <1>2, <1>3, <1>4, <1>5, <1>6

\* The initial state: every frame is on the free list.
LEMMA LifeInitially == LifeConstants /\ LifeInit => LifeInv
<1> SUFFICES ASSUME LifeConstants, LifeInit PROVE LifeInv
  OBVIOUS
<1>1. LifeType
  BY DEF LifeConstants, LifeInit, LifeType, Stages
<1>2. StageInv /\ OwnerInv /\ CopyInv
  BY DEF LifeConstants, LifeInit, StageInv, OwnerInv, CopyInv, Owner, HoldsPage, LoadStages, OwnerStages
<1>3. PinInv
  <2>1. \A f \in Frames : Pinners(f) = {}
    BY DEF LifeInit, Pinners, PinStages, LoadStages
  <2> QED
    BY <2>1, FS_EmptySet DEF LifeInit, PinInv
<1> QED
  BY <1>1, <1>2, <1>3 DEF LifeInv

\* A step that moves no pin keeps the count exact.
LEMMA PinsKept ==
  ASSUME PinInv, UNCHANGED pins, \A g \in Frames : Pinners(g)' = Pinners(g)
  PROVE  PinInv'
BY DEF PinInv

\* A step that adds the pin of one thread keeps the count exact.
LEMMA PinsAdded ==
  ASSUME LifeConstants, LifeType, PinInv, NEW f \in Frames, NEW t, t \notin Pinners(f),
         pins' = [pins EXCEPT ![f] = @ + 1],
         \A g \in Frames : Pinners(g)' = IF g = f THEN Pinners(g) \cup {t} ELSE Pinners(g)
  PROVE  PinInv'
BY SMTT(30), ZenonT(40), PinCount DEF PinInv, LifeType

\* A step that removes the pin of one thread keeps it exact and in range.
LEMMA PinsRemoved ==
  ASSUME LifeConstants, LifeType, PinInv, NEW f \in Frames, NEW t \in Pinners(f),
         pins' = [pins EXCEPT ![f] = @ - 1],
         \A g \in Frames : Pinners(g)' = IF g = f THEN Pinners(g) \ {t} ELSE Pinners(g)
  PROVE  PinInv' /\ pins' \in [Frames -> 0 .. MaxPins]
<1>1. Cardinality(Pinners(f) \ {t}) = pins[f] - 1 /\ pins[f] \in Nat /\ pins[f] > 0
  BY ZenonT(40), PinCount
<1>2. pins' \in [Frames -> 0 .. MaxPins]
  BY <1>1 DEF LifeType, LifeConstants
<1>3. ASSUME NEW g \in Frames PROVE pins'[g] = Cardinality(Pinners(g)')
  BY ZenonT(40), <1>1, <1>3 DEF PinInv, LifeType
<1> QED
  BY <1>2, <1>3 DEF PinInv

\* Every step keeps the invariant.
LEMMA LifeStep == LifeConstants /\ LifeInv /\ [LifeNext]_lifeVars => LifeInv'
<1> SUFFICES ASSUME LifeConstants, LifeInv, [LifeNext]_lifeVars PROVE LifeInv'
  OBVIOUS
<1>0. LifeType /\ StageInv /\ OwnerInv /\ CopyInv /\ PinInv
  BY DEF LifeInv
<1> USE <1>0 DEF LifeConstants
<1>1. ASSUME NEW t \in Threads, NEW f \in Frames, NEW k \in Tags, TakePin(t, f, k) PROVE LifeInv'
  <2>0. t \notin Pinners(f) /\ \A g \in Frames : Pinners(g)' = IF g = f THEN Pinners(g) \cup {t} ELSE Pinners(g)
    BY <1>1 DEF TakePin, Claims, Claim, Become, Leave, Pinners, PinStages, LoadStages, LifeType
  <2>1. LifeType'
    BY <1>1 DEF TakePin, Claims, Claim, Become, Leave, Stages, OwnerStages, PinStages, LoadStages, LifeType
  <2>2. StageInv'
    BY <1>1 DEF TakePin, Claims, Claim, Become, Leave, Stages, OwnerStages, PinStages, LoadStages, LifeType, StageInv, OwnerInv, Owner
  <2>3. OwnerInv'
    BY <1>1 DEF TakePin, Claims, Claim, Become, Leave, Stages, OwnerStages, PinStages, LoadStages, LifeType, StageInv, OwnerInv, Owner
  <2>4. CopyInv'
    BY <1>1 DEF TakePin, Claims, Claim, Become, Leave, LoadStages, LifeType, StageInv, OwnerInv, CopyInv, HoldsPage
  <2>5. PinInv'
    BY ZenonT(40), <1>1, <2>0, PinsAdded DEF TakePin, Claims, Claim, Become, Leave
  <2> QED
    BY <2>1, <2>2, <2>3, <2>4, <2>5 DEF LifeInv
<1>2. ASSUME NEW t \in Threads, VerifyPage(t) PROVE LifeInv'
  <2>1. LifeType'
    BY <1>2 DEF VerifyPage, Claims, Claim, Become, Leave, Stages, OwnerStages, PinStages, LoadStages, LifeType
  <2>2. StageInv'
    BY <1>2 DEF VerifyPage, Claims, Claim, Become, Leave, Stages, OwnerStages, PinStages, LoadStages, LifeType, StageInv, OwnerInv, Owner
  <2>3. OwnerInv'
    BY <1>2 DEF VerifyPage, Claims, Claim, Become, Leave, Stages, OwnerStages, PinStages, LoadStages, LifeType, StageInv, OwnerInv, Owner
  <2>4. CopyInv'
    BY <1>2 DEF VerifyPage, Claims, Claim, Become, Leave, LoadStages, LifeType, StageInv, OwnerInv, CopyInv, HoldsPage
  <2>5. PinInv'
    <3>1. UNCHANGED pins /\ \A g \in Frames : Pinners(g)' = Pinners(g)
      BY <1>2 DEF VerifyPage, Claims, Claim, Become, Leave, Pinners, PinStages, LoadStages, LifeType, claimVars
    <3> QED
      BY <3>1, PinsKept
  <2> QED
    BY <2>1, <2>2, <2>3, <2>4, <2>5 DEF LifeInv
<1>3. ASSUME NEW t \in Threads, LeavePage(t) PROVE LifeInv'
  <2>1. LifeType'
    BY <1>3 DEF LeavePage, Claims, Claim, Become, Leave, Stages, OwnerStages, PinStages, LoadStages, LifeType
  <2>2. StageInv'
    BY <1>3 DEF LeavePage, Claims, Claim, Become, Leave, Stages, OwnerStages, PinStages, LoadStages, LifeType, StageInv, OwnerInv, Owner
  <2>3. OwnerInv'
    BY <1>3 DEF LeavePage, Claims, Claim, Become, Leave, Stages, OwnerStages, PinStages, LoadStages, LifeType, StageInv, OwnerInv, Owner
  <2>4. CopyInv'
    BY <1>3 DEF LeavePage, Claims, Claim, Become, Leave, LoadStages, LifeType, StageInv, OwnerInv, CopyInv, HoldsPage
  <2>5. PinInv'
    <3>1. UNCHANGED pins /\ \A g \in Frames : Pinners(g)' = Pinners(g)
      BY <1>3 DEF LeavePage, Claims, Claim, Become, Leave, Pinners, PinStages, LoadStages, LifeType, claimVars
    <3> QED
      BY <3>1, PinsKept
  <2> QED
    BY <2>1, <2>2, <2>3, <2>4, <2>5 DEF LifeInv
<1>4. ASSUME NEW t \in Threads, DropPin(t) PROVE LifeInv'
  <2>0. held[t] \in Frames /\ t \in Pinners(held[t])
    BY <1>4 DEF DropPin, Claims, Claim, Become, Leave, Pinners, PinStages, LoadStages, LifeType
  <2>9. \A g \in Frames : Pinners(g)' = IF g = held[t] THEN Pinners(g) \ {t} ELSE Pinners(g)
    BY <1>4 DEF DropPin, Claims, Claim, Become, Leave, Pinners, PinStages, LoadStages, LifeType
  <2>8. pins' \in [Frames -> 0 .. MaxPins]
    BY ZenonT(40), <1>4, <2>0, <2>9, PinsRemoved DEF DropPin, Claims, Claim, Become, Leave
  <2>1. LifeType'
    BY <1>4, <2>8 DEF DropPin, Claims, Claim, Become, Leave, Stages, OwnerStages, PinStages, LoadStages, LifeType
  <2>2. StageInv'
    BY <1>4 DEF DropPin, Claims, Claim, Become, Leave, Stages, OwnerStages, PinStages, LoadStages, LifeType, StageInv, OwnerInv, Owner
  <2>3. OwnerInv'
    BY <1>4 DEF DropPin, Claims, Claim, Become, Leave, Stages, OwnerStages, PinStages, LoadStages, LifeType, StageInv, OwnerInv, Owner
  <2>4. CopyInv'
    BY <1>4 DEF DropPin, Claims, Claim, Become, Leave, LoadStages, LifeType, StageInv, OwnerInv, CopyInv, HoldsPage
  <2>5. PinInv'
    BY ZenonT(40), <1>4, <2>0, <2>9, PinsRemoved DEF DropPin, Claims, Claim, Become, Leave
  <2> QED
    BY <2>1, <2>2, <2>3, <2>4, <2>5 DEF LifeInv
<1>5. ASSUME NEW t \in Threads, NEW f \in Frames, NEW k \in Tags, TakeFree(t, f, k) PROVE LifeInv'
  <2>1. LifeType'
    BY ZenonT(40), <1>5 DEF TakeFree, Claims, Claim, Become, Leave, Stages, OwnerStages, PinStages, LoadStages, LifeType
  <2>2. StageInv'
    BY <1>5 DEF TakeFree, Claims, Claim, Become, Leave, Stages, OwnerStages, PinStages, LoadStages, LifeType, StageInv, OwnerInv, Owner
  <2>3. OwnerInv'
    BY <1>5 DEF TakeFree, Claims, Claim, Become, Leave, Stages, OwnerStages, PinStages, LoadStages, LifeType, StageInv, OwnerInv, Owner
  <2>4. CopyInv'
    BY <1>5 DEF TakeFree, Claims, Claim, Become, Leave, LoadStages, LifeType, StageInv, OwnerInv, CopyInv, HoldsPage
  <2>5. PinInv'
    <3>1. UNCHANGED pins /\ \A g \in Frames : Pinners(g)' = Pinners(g)
      BY <1>5 DEF TakeFree, Claims, Claim, Become, Leave, Pinners, PinStages, LoadStages, LifeType, claimVars
    <3> QED
      BY <3>1, PinsKept
  <2> QED
    BY ZenonT(40), <2>1, <2>2, <2>3, <2>4, <2>5 DEF LifeInv
<1>6. ASSUME NEW t \in Threads, GiveFree(t) PROVE LifeInv'
  <2>1. LifeType'
    BY <1>6 DEF GiveFree, Claims, Claim, Become, Leave, Stages, OwnerStages, PinStages, LoadStages, LifeType
  <2>2. StageInv'
    BY <1>6 DEF GiveFree, Claims, Claim, Become, Leave, Stages, OwnerStages, PinStages, LoadStages, LifeType, StageInv, OwnerInv, Owner
  <2>3. OwnerInv'
    BY <1>6 DEF GiveFree, Claims, Claim, Become, Leave, Stages, OwnerStages, PinStages, LoadStages, LifeType, StageInv, OwnerInv, Owner
  <2>4. CopyInv'
    BY <1>6 DEF GiveFree, Claims, Claim, Become, Leave, LoadStages, LifeType, StageInv, OwnerInv, CopyInv, HoldsPage
  <2>5. PinInv'
    <3>1. UNCHANGED pins /\ \A g \in Frames : Pinners(g)' = Pinners(g)
      BY <1>6 DEF GiveFree, Claims, Claim, Become, Leave, Pinners, PinStages, LoadStages, LifeType, claimVars
    <3> QED
      BY <3>1, PinsKept
  <2> QED
    BY <2>1, <2>2, <2>3, <2>4, <2>5 DEF LifeInv
<1>7. ASSUME NEW t \in Threads, NEW f \in Frames, NEW k \in Tags, ClaimFrame(t, f, k) PROVE LifeInv'
  <2>9. Pinners(f) = {}
    BY ZenonT(40), <1>7, PinCount DEF ClaimFrame, Claims, Claim, Become, Leave
  <2>0. t \notin Pinners(f) /\ \A g \in Frames : Pinners(g)' = IF g = f THEN Pinners(g) \cup {t} ELSE Pinners(g)
    BY <1>7, <2>9 DEF ClaimFrame, Claims, Claim, Become, Leave, Pinners, PinStages, LoadStages, LifeType
  <2>8. pins' = [pins EXCEPT ![f] = @ + 1]
    BY <1>7 DEF ClaimFrame, Claims, Claim, Become, Leave
  <2>1. LifeType'
    BY <1>7 DEF ClaimFrame, Claims, Claim, Become, Leave, Stages, OwnerStages, PinStages, LoadStages, LifeType
  <2>2. StageInv'
    BY <1>7, <2>9 DEF ClaimFrame, Claims, Claim, Become, Leave, Stages, OwnerStages, PinStages, LoadStages, LifeType, StageInv, OwnerInv, Owner, Pinners
  <2>3. OwnerInv'
    BY <1>7 DEF ClaimFrame, Claims, Claim, Become, Leave, Stages, OwnerStages, PinStages, LoadStages, LifeType, StageInv, OwnerInv, Owner
  <2>4. CopyInv'
    BY <1>7 DEF ClaimFrame, Claims, Claim, Become, Leave, LoadStages, LifeType, StageInv, OwnerInv, CopyInv, HoldsPage
  <2>5. PinInv'
    BY ZenonT(40), <1>7, <2>0, <2>8, PinsAdded DEF ClaimFrame, Claims, Claim, Become, Leave
  <2> QED
    BY <2>1, <2>2, <2>3, <2>4, <2>5 DEF LifeInv
<1>8. ASSUME NEW t \in Threads, TagFrame(t) PROVE LifeInv'
  <2>1. LifeType'
    BY <1>8 DEF TagFrame, Claims, Claim, Become, Leave, Stages, OwnerStages, PinStages, LoadStages, LifeType
  <2>2. StageInv'
    BY <1>8 DEF TagFrame, Claims, Claim, Become, Leave, Stages, OwnerStages, PinStages, LoadStages, LifeType, StageInv, OwnerInv, Owner
  <2>3. OwnerInv'
    BY <1>8 DEF TagFrame, Claims, Claim, Become, Leave, Stages, OwnerStages, PinStages, LoadStages, LifeType, StageInv, OwnerInv, Owner
  <2>4. CopyInv'
    BY <1>8 DEF TagFrame, Claims, Claim, Become, Leave, LoadStages, LifeType, StageInv, OwnerInv, CopyInv, HoldsPage
  <2>5. PinInv'
    <3>1. UNCHANGED pins /\ \A g \in Frames : Pinners(g)' = Pinners(g)
      BY <1>8 DEF TagFrame, Claims, Claim, Become, Leave, Pinners, PinStages, LoadStages, LifeType, claimVars
    <3> QED
      BY <3>1, PinsKept
  <2> QED
    BY <2>1, <2>2, <2>3, <2>4, <2>5 DEF LifeInv
<1>9. ASSUME NEW t \in Threads, MapFrame(t) PROVE LifeInv'
  <2>1. LifeType'
    BY <1>9 DEF MapFrame, Claims, Claim, Become, Leave, Stages, OwnerStages, PinStages, LoadStages, LifeType
  <2>2. StageInv'
    BY <1>9 DEF MapFrame, Claims, Claim, Become, Leave, Stages, OwnerStages, PinStages, LoadStages, LifeType, StageInv, OwnerInv, Owner
  <2>3. OwnerInv'
    BY <1>9 DEF MapFrame, Claims, Claim, Become, Leave, Stages, OwnerStages, PinStages, LoadStages, LifeType, StageInv, OwnerInv, Owner
  <2>4. CopyInv'
    BY <1>9 DEF MapFrame, Claims, Claim, Become, Leave, LoadStages, LifeType, StageInv, OwnerInv, CopyInv, HoldsPage
  <2>5. PinInv'
    <3>1. UNCHANGED pins /\ \A g \in Frames : Pinners(g)' = Pinners(g)
      BY <1>9 DEF MapFrame, Claims, Claim, Become, Leave, Pinners, PinStages, LoadStages, LifeType, claimVars
    <3> QED
      BY <3>1, PinsKept
  <2> QED
    BY <2>1, <2>2, <2>3, <2>4, <2>5 DEF LifeInv
<1>10. ASSUME NEW t \in Threads, UnmapFrame(t) PROVE LifeInv'
  <2>1. LifeType'
    BY <1>10 DEF UnmapFrame, Claims, Claim, Become, Leave, Stages, OwnerStages, PinStages, LoadStages, LifeType
  <2>2. StageInv'
    BY <1>10 DEF UnmapFrame, Claims, Claim, Become, Leave, Stages, OwnerStages, PinStages, LoadStages, LifeType, StageInv, OwnerInv, Owner
  <2>3. OwnerInv'
    BY <1>10 DEF UnmapFrame, Claims, Claim, Become, Leave, Stages, OwnerStages, PinStages, LoadStages, LifeType, StageInv, OwnerInv, Owner
  <2>4. CopyInv'
    BY <1>10 DEF UnmapFrame, Claims, Claim, Become, Leave, LoadStages, LifeType, StageInv, OwnerInv, CopyInv, HoldsPage
  <2>5. PinInv'
    <3>1. UNCHANGED pins /\ \A g \in Frames : Pinners(g)' = Pinners(g)
      BY <1>10 DEF UnmapFrame, Claims, Claim, Become, Leave, Pinners, PinStages, LoadStages, LifeType, claimVars
    <3> QED
      BY <3>1, PinsKept
  <2> QED
    BY <2>1, <2>2, <2>3, <2>4, <2>5 DEF LifeInv
<1>11. ASSUME NEW t \in Threads, PublishFrame(t) PROVE LifeInv'
  <2>9. pins' \in [Frames -> 0 .. MaxPins] /\ PinInv'
    <3>1. CASE Become(t, "verified") /\ UNCHANGED pins
      <4>1. \A g \in Frames : Pinners(g)' = Pinners(g)
        BY <1>11, <3>1 DEF PublishFrame, Claims, Claim, Become, Leave, Pinners, PinStages, LoadStages, LifeType
      <4> QED
        BY <3>1, <4>1, PinsKept DEF LifeType
    <3>2. CASE Leave(t) /\ pins' = [pins EXCEPT ![held[t]] = @ - 1]
      <4>1. held[t] \in Frames /\ t \in Pinners(held[t])
        BY <1>11 DEF PublishFrame, Claims, Claim, Become, Leave, Pinners, PinStages, LoadStages, LifeType
      <4>2. \A g \in Frames : Pinners(g)' = IF g = held[t] THEN Pinners(g) \ {t} ELSE Pinners(g)
        BY <1>11, <3>2 DEF PublishFrame, Claims, Claim, Become, Leave, Pinners, PinStages, LoadStages, LifeType
      <4> QED
        BY ZenonT(40), <3>2, <4>1, <4>2, PinsRemoved
    <3> QED
      BY <1>11, <3>1, <3>2 DEF PublishFrame
  <2>1. LifeType'
    BY ZenonT(40), <1>11, <2>9 DEF PublishFrame, Claims, Claim, Become, Leave, Stages, OwnerStages, PinStages, LoadStages, LifeType
  <2>2. StageInv'
    BY <1>11 DEF PublishFrame, Claims, Claim, Become, Leave, Stages, OwnerStages, PinStages, LoadStages, LifeType, StageInv, OwnerInv, Owner
  <2>3. OwnerInv'
    BY <1>11 DEF PublishFrame, Claims, Claim, Become, Leave, Stages, OwnerStages, PinStages, LoadStages, LifeType, StageInv, OwnerInv, Owner
  <2>4. CopyInv'
    BY <1>11 DEF PublishFrame, Claims, Claim, Become, Leave, LoadStages, LifeType, StageInv, OwnerInv, CopyInv, HoldsPage
  <2>5. PinInv'
    BY <2>9
  <2> QED
    BY <2>1, <2>2, <2>3, <2>4, <2>5 DEF LifeInv
<1>12. ASSUME NEW t \in Threads, UntagFrame(t) PROVE LifeInv'
  <2>1. LifeType'
    BY ZenonT(40), <1>12 DEF UntagFrame, Claims, Claim, Become, Leave, claimVars, Stages, OwnerStages, PinStages, LoadStages, LifeType
  <2>2. StageInv'
    BY <1>12 DEF UntagFrame, Claims, Claim, Become, Leave, claimVars, Stages, OwnerStages, PinStages, LoadStages, LifeType, StageInv, OwnerInv, Owner
  <2>3. OwnerInv'
    BY <1>12 DEF UntagFrame, Claims, Claim, Become, Leave, claimVars, Stages, OwnerStages, PinStages, LoadStages, LifeType, StageInv, OwnerInv, Owner
  <2>4. CopyInv'
    BY <1>12 DEF UntagFrame, Claims, Claim, Become, Leave, LoadStages, LifeType, StageInv, OwnerInv, CopyInv, HoldsPage
  <2>5. PinInv'
    <3>1. UNCHANGED pins /\ \A g \in Frames : Pinners(g)' = Pinners(g)
      BY <1>12 DEF UntagFrame, Claims, Claim, Become, Leave, Pinners, PinStages, LoadStages, LifeType, claimVars
    <3> QED
      BY <3>1, PinsKept
  <2> QED
    BY <2>1, <2>2, <2>3, <2>4, <2>5 DEF LifeInv
<1>13. ASSUME NEW t \in Threads, FreeFrame(t) PROVE LifeInv'
  <2>0. held[t] \in Frames /\ t \in Pinners(held[t])
    BY <1>13 DEF FreeFrame, Claims, Claim, Become, Leave, Pinners, PinStages, LoadStages, LifeType
  <2>9. \A g \in Frames : Pinners(g)' = IF g = held[t] THEN Pinners(g) \ {t} ELSE Pinners(g)
    BY <1>13 DEF FreeFrame, Claims, Claim, Become, Leave, Pinners, PinStages, LoadStages, LifeType
  <2>7. Pinners(held[t]) = {t} /\ pins[held[t]] = 1
    <3>1. Pinners(held[t]) = {t}
      BY <1>13, <2>0 DEF FreeFrame, Claims, Claim, Become, Leave, Pinners, PinStages, LoadStages, OwnerStages, LifeType, StageInv, OwnerInv, Owner
    <3> QED
      BY ZenonT(40), <2>0, <3>1, FS_Singleton, PinCount
  <2>8. pins' = [pins EXCEPT ![held[t]] = @ - 1]
    BY <1>13, <2>7 DEF FreeFrame, Claims, Claim, Become, Leave
  <2>1. LifeType'
    BY <1>13 DEF FreeFrame, Claims, Claim, Become, Leave, Stages, OwnerStages, PinStages, LoadStages, LifeType
  <2>2. StageInv'
    BY <1>13 DEF FreeFrame, Claims, Claim, Become, Leave, Stages, OwnerStages, PinStages, LoadStages, LifeType, StageInv, OwnerInv, Owner
  <2>3. OwnerInv'
    BY <1>13 DEF FreeFrame, Claims, Claim, Become, Leave, Stages, OwnerStages, PinStages, LoadStages, LifeType, StageInv, OwnerInv, Owner
  <2>4. CopyInv'
    BY <1>13 DEF FreeFrame, Claims, Claim, Become, Leave, LoadStages, LifeType, StageInv, OwnerInv, CopyInv, HoldsPage
  <2>5. PinInv'
    BY ZenonT(40), <1>13, <2>0, <2>8, <2>9, PinsRemoved DEF FreeFrame, Claims, Claim, Become, Leave
  <2> QED
    BY <2>1, <2>2, <2>3, <2>4, <2>5 DEF LifeInv
<1>14. ASSUME NEW t \in Threads, DropFrame(t) PROVE LifeInv'
  <2>0. held[t] \in Frames /\ t \in Pinners(held[t])
    BY <1>14 DEF DropFrame, Claims, Claim, Become, Leave, Pinners, PinStages, LoadStages, LifeType
  <2>9. \A g \in Frames : Pinners(g)' = IF g = held[t] THEN Pinners(g) \ {t} ELSE Pinners(g)
    BY <1>14 DEF DropFrame, Claims, Claim, Become, Leave, Pinners, PinStages, LoadStages, LifeType
  <2>7. Pinners(held[t]) = {t} /\ pins[held[t]] = 1
    BY ZenonT(40), <1>14, <2>0, PinCount DEF DropFrame, Claims, Claim, Become, Leave
  <2>8. pins' = [pins EXCEPT ![held[t]] = @ - 1]
    BY <1>14, <2>7 DEF DropFrame, Claims, Claim, Become, Leave
  <2>1. LifeType'
    BY <1>14 DEF DropFrame, Claims, Claim, Become, Leave, Stages, OwnerStages, PinStages, LoadStages, LifeType
  <2>2. StageInv'
    BY <1>14, <2>7 DEF DropFrame, Claims, Claim, Become, Leave, Stages, OwnerStages, PinStages, LoadStages, LifeType, StageInv, OwnerInv, Owner, Pinners
  <2>3. OwnerInv'
    BY <1>14 DEF DropFrame, Claims, Claim, Become, Leave, Stages, OwnerStages, PinStages, LoadStages, LifeType, StageInv, OwnerInv, Owner
  <2>4. CopyInv'
    BY <1>14 DEF DropFrame, Claims, Claim, Become, Leave, LoadStages, LifeType, StageInv, OwnerInv, CopyInv, HoldsPage
  <2>5. PinInv'
    BY ZenonT(40), <1>14, <2>0, <2>8, <2>9, PinsRemoved DEF DropFrame, Claims, Claim, Become, Leave
  <2> QED
    BY <2>1, <2>2, <2>3, <2>4, <2>5 DEF LifeInv
<1>15. ASSUME NEW t \in Threads, UnmapDropped(t) PROVE LifeInv'
  <2>1. LifeType'
    BY ZenonT(40), <1>15 DEF UnmapDropped, Claims, Claim, Become, Leave, Stages, OwnerStages, PinStages, LoadStages, LifeType
  <2>2. StageInv'
    BY <1>15 DEF UnmapDropped, Claims, Claim, Become, Leave, Stages, OwnerStages, PinStages, LoadStages, LifeType, StageInv, OwnerInv, Owner
  <2>3. OwnerInv'
    BY <1>15 DEF UnmapDropped, Claims, Claim, Become, Leave, Stages, OwnerStages, PinStages, LoadStages, LifeType, StageInv, OwnerInv, Owner
  <2>4. CopyInv'
    BY <1>15 DEF UnmapDropped, Claims, Claim, Become, Leave, LoadStages, LifeType, StageInv, OwnerInv, CopyInv, HoldsPage
  <2>5. PinInv'
    <3>1. UNCHANGED pins /\ \A g \in Frames : Pinners(g)' = Pinners(g)
      BY SMTT(30), ZenonT(40), <1>15 DEF UnmapDropped, Claims, Claim, Become, Leave, Pinners, PinStages, LoadStages, LifeType, claimVars
    <3> QED
      BY <3>1, PinsKept
  <2> QED
    BY <2>1, <2>2, <2>3, <2>4, <2>5 DEF LifeInv
<1>16. CASE UNCHANGED lifeVars
  <2>1. LifeType' /\ StageInv'
    BY ZenonT(40), <1>16 DEF lifeVars, LifeInv, LifeType, StageInv
  <2>2. OwnerInv'
    BY ZenonT(40), <1>16 DEF lifeVars, LifeInv, OwnerInv, Owner
  <2>3. CopyInv' /\ PinInv'
    BY ZenonT(40), <1>16 DEF lifeVars, LifeInv, CopyInv, HoldsPage, PinInv, Pinners
  <2> QED
    BY <2>1, <2>2, <2>3 DEF LifeInv
<1> QED
  BY <1>1, <1>2, <1>3, <1>4, <1>5, <1>6, <1>7, <1>8, <1>9, <1>10, <1>11, <1>12, <1>13, <1>14, <1>15, <1>16 DEF LifeNext

\* Every behaviour of FrameLife keeps the invariant.
THEOREM LifeSafe == LifeConstants => (LifeSpec => []LifeInv)
<1> SUFFICES ASSUME LifeConstants PROVE LifeSpec => []LifeInv
  OBVIOUS
<1> QED
  BY LifeInitially, LifeStep, PTL DEF LifeSpec

-----------------------------------------------------------------------------
(* ContentLatch.                                                           *)

LatchConstants == IsFiniteSet(Threads) /\ MaxShared \in Nat

\* The shared count of a frame counts its readers.
LEMMA ReaderCount ==
  ASSUME LatchConstants, ReaderInv, NEW f \in Frames, NEW t
  PROVE  /\ shared[f] \in Nat
         /\ shared[f] = 0 => Readers(f) = {}
         /\ t \in Readers(f) => Cardinality(Readers(f) \ {t}) = shared[f] - 1 /\ shared[f] > 0
         /\ t \notin Readers(f) => Cardinality(Readers(f) \cup {t}) = shared[f] + 1
<1>1. IsFiniteSet(Readers(f))
  BY ZenonT(40), FS_Subset DEF LatchConstants, Readers
<1>2. shared[f] = Cardinality(Readers(f)) /\ shared[f] \in Nat
  BY <1>1, FS_CardinalityType DEF ReaderInv
<1>3. shared[f] = 0 => Readers(f) = {}
  BY ZenonT(40), <1>1, <1>2, FS_EmptySet
<1>4. t \in Readers(f) => Cardinality(Readers(f) \ {t}) = shared[f] - 1 /\ shared[f] > 0
  BY <1>1, <1>2, FS_RemoveElement, FS_EmptySet
<1>5. t \notin Readers(f) => Cardinality(Readers(f) \cup {t}) = shared[f] + 1
  BY ZenonT(40), <1>1, <1>2, FS_AddElement
<1> QED
  BY <1>2, <1>3, <1>4, <1>5

\* Nobody holds a latch at first.
LEMMA LatchInitially == LatchConstants /\ LatchInit => LatchInv
<1> SUFFICES ASSUME LatchConstants, LatchInit PROVE LatchInv
  OBVIOUS
<1>1. LatchType
  BY DEF LatchConstants, LatchInit, LatchType
<1>2. \A f \in Frames : Readers(f) = {} /\ Writers(f) = {}
  BY DEF LatchInit, Readers, Writers
<1>3. ReaderInv /\ WriterInv
  BY <1>2, FS_EmptySet DEF LatchInit, ReaderInv, WriterInv
<1> QED
  BY <1>1, <1>3 DEF LatchInv

\* Every step keeps the invariant.
LEMMA LatchStep == LatchConstants /\ LatchInv /\ [LatchNext]_latchVars => LatchInv'
<1> SUFFICES ASSUME LatchConstants, LatchInv, [LatchNext]_latchVars PROVE LatchInv'
  OBVIOUS
<1>0. LatchType /\ ReaderInv /\ WriterInv
  BY DEF LatchInv
<1> USE <1>0 DEF LatchConstants
<1>1. ASSUME NEW t \in Threads, NEW f \in Frames, TakeShared(t, f) PROVE LatchInv'
  <2>1. LatchType'
    BY <1>1 DEF TakeShared, Hold, LatchType
  <2>2. t \notin Readers(f) /\ \A g \in Frames :
          /\ Readers(g)' = IF g = f THEN Readers(g) \cup {t} ELSE Readers(g)
          /\ Writers(g)' = Writers(g)
    BY <1>1 DEF TakeShared, Hold, LatchType, Readers, Writers
  <2>3. ReaderInv'
    BY <1>1, <2>2, ReaderCount DEF TakeShared, ReaderInv, LatchType
  <2>4. WriterInv'
    BY <1>1, <2>2 DEF TakeShared, WriterInv, LatchType
  <2> QED
    BY <2>1, <2>3, <2>4 DEF LatchInv
<1>2. ASSUME NEW t \in Threads, DropShared(t) PROVE LatchInv'
  <2> DEFINE f == latched[t]
  <2>1. f \in Frames /\ t \in Readers(f)
    BY ZenonT(40), <1>2 DEF DropShared, LatchType, Readers
  <2>2. Cardinality(Readers(f) \ {t}) = shared[f] - 1 /\ shared[f] \in Nat /\ shared[f] > 0
    BY ZenonT(40), <2>1, ReaderCount
  <2>3. LatchType'
    BY <1>2, <2>1, <2>2 DEF DropShared, Hold, LatchType
  <2>4. \A g \in Frames :
          /\ Readers(g)' = IF g = f THEN Readers(g) \ {t} ELSE Readers(g)
          /\ Writers(g)' = Writers(g)
    BY ZenonT(40), <1>2 DEF DropShared, Hold, LatchType, Readers, Writers
  <2>5. ReaderInv'
    BY ZenonT(40), <1>2, <2>1, <2>2, <2>4 DEF DropShared, ReaderInv, LatchType
  <2>6. WriterInv'
    BY <1>2, <2>4 DEF DropShared, WriterInv, LatchType
  <2> QED
    BY <2>3, <2>5, <2>6 DEF LatchInv
<1>3. ASSUME NEW t \in Threads, NEW f \in Frames, TakeExclusive(t, f) PROVE LatchInv'
  <2>1. LatchType'
    BY <1>3 DEF TakeExclusive, Hold, LatchType
  <2>2. Readers(f) = {} /\ Writers(f) = {}
    BY ZenonT(40), <1>3, ReaderCount DEF TakeExclusive, WriterInv
  <2>3. \A g \in Frames :
          /\ Readers(g)' = Readers(g)
          /\ Writers(g)' = IF g = f THEN Writers(g) \cup {t} ELSE Writers(g)
    BY <1>3 DEF TakeExclusive, Hold, LatchType, Readers, Writers
  <2>4. ReaderInv'
    BY <1>3, <2>3 DEF TakeExclusive, ReaderInv
  <2>5. WriterInv'
    BY SMTT(30), ZenonT(40), <1>3, <2>2, <2>3 DEF TakeExclusive, WriterInv, LatchType
  <2> QED
    BY <2>1, <2>4, <2>5 DEF LatchInv
<1>4. ASSUME NEW t \in Threads, DropExclusive(t) PROVE LatchInv'
  <2> DEFINE f == latched[t]
  <2>1. LatchType'
    BY <1>4 DEF DropExclusive, Hold, LatchType
  <2>2. f \in Frames /\ t \in Writers(f)
    BY <1>4 DEF DropExclusive, LatchType, Writers
  <2>3. \A g \in Frames :
          /\ Readers(g)' = Readers(g)
          /\ Writers(g)' = IF g = f THEN Writers(g) \ {t} ELSE Writers(g)
    BY <1>4 DEF DropExclusive, Hold, LatchType, Readers, Writers
  <2>4. ReaderInv'
    BY <1>4, <2>3 DEF DropExclusive, ReaderInv
  <2>5. WriterInv'
    BY <1>4, <2>2, <2>3 DEF DropExclusive, WriterInv, LatchType
  <2> QED
    BY <2>1, <2>4, <2>5 DEF LatchInv
<1>5. CASE UNCHANGED latchVars
  BY <1>5 DEF latchVars, LatchInv, LatchType, ReaderInv, WriterInv, Readers, Writers
<1> QED
  BY <1>1, <1>2, <1>3, <1>4, <1>5 DEF LatchNext

\* Every behaviour of ContentLatch keeps the invariant.
THEOREM LatchSafe == LatchConstants => (LatchSpec => []LatchInv)
<1> SUFFICES ASSUME LatchConstants PROVE LatchSpec => []LatchInv
  OBVIOUS
<1> QED
  BY LatchInitially, LatchStep, PTL DEF LatchSpec

=============================================================================
