-------------------------- MODULE BufferPoolSafety --------------------------
(***************************************************************************)
(* What the pool promises of the contents of pages, for any finite set of  *)
(* threads and of frames, any set of pages and any limits: a reader sees   *)
(* the last write, an evicted page is on the disk as last written, the     *)
(* transfers of a page never overlap, and the count of dirty pages is      *)
(* exact.                                                                  *)
(***************************************************************************)
EXTENDS BufferPoolProofs, BufferPoolContents

-----------------------------------------------------------------------------
(* What that means for the contents of pages: PoolInv implies PoolFacts.   *)

\* The frame of a writer is resident, holds its page and is latched by it alone.
LEMMA WritersHold ==
  ASSUME PoolInv, NEW t \in Threads, Base(t) \in WriterPlaces
  PROVE  WriterHolds(t)
<1>1. \A u \in Threads : Base(u) \in WriterPlaces =>
        /\ StageOf(th[u]) = "verified" /\ HoldOf(th[u]) = "exclusive"
        /\ stageOf[u] = "verified" /\ heldOf[u] = F(u) /\ wantOf[u] = th[u].want
        /\ holdOf[u] = "exclusive" /\ latchedOf[u] = F(u)
  <2> SUFFICES ASSUME NEW u \in Threads, Base(u) \in WriterPlaces
               PROVE  /\ StageOf(th[u]) = "verified" /\ HoldOf(th[u]) = "exclusive"
                      /\ stageOf[u] = "verified" /\ heldOf[u] = F(u) /\ wantOf[u] = th[u].want
                      /\ holdOf[u] = "exclusive" /\ latchedOf[u] = F(u)
    OBVIOUS
  <2>1. StageOf(th[u]) = "verified" /\ HoldOf(th[u]) = "exclusive"
    BY ZenonT(40) DEF Base, BaseOf, FlushPlaces, LatchedPlaces, StageOf, HoldOf, WriterPlaces, PoolInv, CallShape, Shape, Returns
  <2> QED
    BY ZenonT(40), <2>1 DEF stageOf, heldOf, wantOf, holdOf, latchedOf, F
<1>2. F(t) \in Frames /\ th[t].want \in Tags
  BY ZenonT(40), <1>1 DEF PoolInv, LifeInv, LifeType
<1>3. IsResident(W(t)) /\ tag[F(t)] = th[t].want
  <2>1. stateOf[F(t)] = "Resident" /\ tag[F(t)] = th[t].want
    BY ZenonT(40), <1>1 DEF PoolInv, LifeInv, StageInv
  <2> QED
    BY ZenonT(40), <1>2, <2>1 DEF stateOf, IsResident, W, F
<1>4. \A u \in Threads : Base(u) \in WriterPlaces => u \in Writers(F(u))
  BY ZenonT(40), <1>1 DEF Writers
<1>5. exclusiveOf[F(t)] /\ Writers(F(t)) = {t}
  BY <1>2, <1>4 DEF PoolInv, LatchInv, WriterInv
<1>6. W(t).exclusive
  BY ZenonT(40), <1>2, <1>5 DEF exclusiveOf, W, F
<1> QED
  BY ZenonT(40), <1>2, <1>3, <1>4, <1>5, <1>6 DEF WriterHolds

\* The frame of a load is its own, and no resident frame holds its page.
LEMMA LoadersHold ==
  ASSUME PoolInv, NEW t \in Threads, th[t].pc \in {"load", "zerolatch", "publish", "abort"}
  PROVE  LoaderHolds(t)
<1>1. \A u \in Threads : th[u].pc \in {"load", "zerolatch", "publish", "abort"} =>
        stageOf[u] = "installed" /\ heldOf[u] = F(u) /\ wantOf[u] = th[u].want
  <2>1. \A u \in Threads : th[u].pc \in {"load", "zerolatch", "publish", "abort"} =>
          StageOf(th[u]) = "installed"
    BY ZenonT(40) DEF StageOf, BaseOf, FlushPlaces, WriterPlaces
  <2> QED
    BY ZenonT(40), <2>1 DEF stageOf, heldOf, wantOf, F
<1>2. F(t) \in Frames /\ th[t].want \in Tags
  BY ZenonT(40), <1>1 DEF PoolInv, LifeInv, LifeType
<1>3. stateOf[F(t)] = "Loading" /\ tag[F(t)] = th[t].want /\ key[F(t)] = th[t].want
  BY ZenonT(40), <1>1 DEF PoolInv, LifeInv, StageInv, LoadStages
<1>4. W(t).state = "Loading"
  BY ZenonT(40), <1>2, <1>3 DEF stateOf, W, F
<1>5. ASSUME NEW g \in Frames, IsResident(control[g]) PROVE tag[g] # th[t].want
  <2>1. stateOf[g] = "Resident"
    BY ZenonT(40), <1>5 DEF stateOf, IsResident
  <2>2. HoldsPage(g) /\ HoldsPage(F(t)) /\ g # F(t)
    BY ZenonT(40), <1>2, <1>3, <2>1 DEF PoolInv, LifeInv, OwnerInv, HoldsPage
  <2> QED
    BY ZenonT(40), <1>2, <1>3, <2>2 DEF PoolInv, LifeInv, CopyInv
<1>6. ASSUME NEW u \in Threads, F(u) = F(t), th[u].pc \in {"load", "zerolatch", "publish", "abort"}
      PROVE  u = t
  <2>1. Owner(u, F(t)) /\ Owner(t, F(t))
    BY ZenonT(40), <1>1, <1>6 DEF Owner, OwnerStages, LoadStages
  <2> QED
    BY ZenonT(40), <1>2, <2>1 DEF PoolInv, LifeInv, OwnerInv
<1> QED
  BY ZenonT(40), <1>2, <1>3, <1>4, <1>5, <1>6 DEF LoaderHolds

\* A frame that is being loaded or dropped is not resident, and nobody else is
\* about to publish it.
LEMMA OwnersHold ==
  ASSUME PoolInv, NEW t \in Threads, th[t].pc \in LoadPlaces \cup DropPlaces
  PROVE  OwnerHolds(t)
<1>1. /\ th[t].pc \notin Searching
      /\ StageOf(th[t]) \in {"reserved", "tagged", "installed", "unmapped", "dropping", "popped"}
  BY ZenonT(40) DEF LoadPlaces, DropPlaces, Searching, FlushPlaces, BaseOf, StageOf, WriterPlaces
<1>2. F(t) \in Frames /\ W(t) = control[F(t)]
  BY ZenonT(40), <1>1, CallFacts DEF F
<1>3. Owner(t, F(t))
  BY ZenonT(40), <1>1 DEF Owner, OwnerStages, LoadStages, stageOf, heldOf, F
<1>4. stateOf[F(t)] # "Resident"
  BY ZenonT(40), <1>2, <1>3 DEF PoolInv, LifeInv, StageInv, Owner, OwnerStages, LoadStages
<1>5. ~IsResident(W(t))
  BY ZenonT(40), <1>2, <1>4 DEF stateOf, IsResident
<1>6. \A u \in Threads : At(u, "publish") => Owner(u, F(u))
  BY ZenonT(40) DEF At, Owner, OwnerStages, LoadStages, stageOf, heldOf, StageOf, BaseOf, FlushPlaces, WriterPlaces, F
<1>7. \A u \in Threads \ {t} : At(u, "publish") => F(u) # F(t)
  BY ZenonT(40), <1>2, <1>3, <1>6 DEF PoolInv, LifeInv, OwnerInv
<1> QED
  BY ZenonT(40), <1>5, <1>7 DEF OwnerHolds

\* A frame that is read or discarded holds the page; nobody writes what is read.
LEMMA PinnersHold ==
  ASSUME PoolInv, NEW t \in Threads, Base(t) \in {"reading", "discard"}
  PROVE  PinnerHolds(t)
<1>1. StageOf(th[t]) = "verified" /\ (Base(t) = "reading" => HoldOf(th[t]) = "shared")
  BY ZenonT(40) DEF Base, BaseOf, FlushPlaces, LatchedPlaces, StageOf, HoldOf, WriterPlaces
<1>2. /\ stageOf[t] = "verified" /\ heldOf[t] = F(t) /\ wantOf[t] = th[t].want
      /\ Base(t) = "reading" => holdOf[t] = "shared" /\ latchedOf[t] = F(t)
  BY ZenonT(40), <1>1 DEF stageOf, heldOf, wantOf, holdOf, latchedOf, F
<1>3. F(t) \in Frames /\ stateOf[F(t)] = "Resident" /\ tag[F(t)] = th[t].want
  BY ZenonT(40), <1>2 DEF PoolInv, LifeInv, LifeType, StageInv
<1>4. IsResident(W(t))
  BY ZenonT(40), <1>3 DEF stateOf, IsResident, W, F
<1>5. ASSUME Base(t) = "reading" PROVE ~W(t).exclusive
  <2>1. t \in Readers(F(t))
    BY ZenonT(40), <1>2, <1>5 DEF Readers
  <2> QED
    BY ZenonT(40), <1>3, <2>1 DEF PoolInv, LatchInv, WriterInv, exclusiveOf, W, F
<1> QED
  BY ZenonT(40), <1>3, <1>4, <1>5 DEF PinnerHolds

\* The interface of the proofs about contents.
LEMMA FactsHold == PoolInv => PoolFacts
<1> SUFFICES ASSUME PoolInv PROVE PoolFacts
  OBVIOUS
<1>1. PoolTypes
  BY ZenonT(40) DEF PoolInv, LifeInv, LifeType, PoolTypes
<1>2. FramesHeld
  BY ZenonT(40), WritersHold, LoadersHold, OwnersHold, PinnersHold DEF FramesHeld
<1> QED
  BY ZenonT(40), <1>1, <1>2, PageInOneFrame DEF PoolFacts

\* The contents stay right for any set of threads, frames and pages.
THEOREM ContentsSafe == Spec => [](PoolInv /\ ContentInv)
<1>1. Init => PoolInv /\ ContentInv
  BY ZenonT(40), PoolInitially, ContentInitially
<1>2. PoolInv /\ ContentInv /\ [Next]_vars => PoolInv' /\ ContentInv'
  <2> SUFFICES ASSUME PoolInv, ContentInv, [Next]_vars PROVE PoolInv' /\ ContentInv'
    OBVIOUS
  <2>1. PoolInv' /\ th' \in [Threads -> Thread]
    BY ZenonT(40), PoolStep DEF PoolInv
  <2> QED
    BY ZenonT(40), <2>1, FactsHold, ContentStep
<1> QED
  BY <1>1, <1>2, PTL DEF Spec

\* A shared handle shows its page as last written, however often the page was
\* evicted, dropped, or written back in between.
THEOREM ReadersSeeLastWrite == Spec => []ReadsLatest
<1>1. PoolInv /\ ContentInv => ReadsLatest
  <2> SUFFICES ASSUME PoolInv, ContentInv, NEW t \in Threads, Base(t) = "reading"
               PROVE  tag[F(t)] = th[t].want /\ data[F(t)] = latest[th[t].want]
    BY ZenonT(40) DEF ReadsLatest
  <2>1. PoolFacts /\ PinnerHolds(t)
    BY ZenonT(40), FactsHold, PinnersHold
  <2>2. F(t) \in Frames /\ IsResident(control[F(t)]) /\ ~W(t).exclusive /\ tag[F(t)] = th[t].want
    BY ZenonT(40), <2>1 DEF PinnerHolds, W, F
  <2>3. \A u \in Threads : F(u) = F(t) => ~Zeroes(th[u])
    BY ZenonT(40), <2>1, <2>2, MarkersWrite, WriterFrame DEF W, F
  <2> QED
    BY ZenonT(40), <2>2, <2>3 DEF ContentInv, CopyCurrent
<1> QED
  BY <1>1, ContentsSafe, PTL

\* A page that no frame holds dirty is on the disk as last written.
THEOREM EvictionLosesNothing == Spec => []NothingLost
<1>1. ContentInv => NothingLost
  BY DEF ContentInv
<1> QED
  BY <1>1, ContentsSafe, PTL

\* Two writebacks of a page, or a writeback and a load of it, never overlap.
THEOREM TransfersAlone == Spec => []TransfersExclusive
<1>1. PoolInv /\ ContentInv => TransfersExclusive
  <2> SUFFICES ASSUME PoolInv, ContentInv, NEW t \in Threads, NEW u \in Threads, t # u, At(t, "write")
               PROVE  /\ At(u, "write") => th[u].task.tag # th[t].task.tag
                      /\ At(u, "load") => th[u].want # th[t].task.tag
    BY DEF TransfersExclusive
  <2>0. PoolFacts
    BY ZenonT(40), FactsHold
  <2>1. ASSUME NEW v \in Threads, At(v, "write")
        PROVE  /\ Runs(th[v]) /\ th[v].task.tag = tag[F(v)] /\ F(v) \in Frames /\ IsResident(control[F(v)])
    <3>1. Runs(th[v]) /\ th[v].pc \in TaskPlaces
      BY ZenonT(40), <2>1 DEF At, Runs, ActivePlaces, TaskPlaces
    <3> QED
      BY ZenonT(40), <2>0, <3>1, RunnerFrame DEF ContentInv, TaskInv
  <2>2. ASSUME At(u, "write") PROVE th[u].task.tag # th[t].task.tag
    <3>1. F(u) # F(t)
      BY ZenonT(40), <2>1, <2>2 DEF ContentInv, RunInv
    <3> QED
      BY ZenonT(40), <2>1, <2>2, <3>1, PageInOneFrame DEF SingleCopy
  <2>3. ASSUME At(u, "load") PROVE th[u].want # th[t].task.tag
    BY ZenonT(40), <2>0, <2>1, <2>3, LoaderFrame DEF At
  <2> QED
    BY ZenonT(40), <2>2, <2>3
<1> QED
  BY <1>1, ContentsSafe, PTL

-----------------------------------------------------------------------------
(* The count of dirty pages.                                               *)

DirtyFrames == {f \in Frames : control[f].dirty}
CallsAt(places) == {t \in Threads : th[t].pc \in places}

\* dirty_page_count_ is off by the updates that calls owe it.
CountInv ==
  dirtyCount = Cardinality(DirtyFrames)
               - Cardinality(CallsAt({"count"})) + Cardinality(CallsAt({"uncount", "dropcount"}))

\* A subset of a finite set is finite.
LEMMA CountPart == ASSUME NEW S, NEW T \in SUBSET S, IsFiniteSet(S) PROVE IsFiniteSet(T)
BY ZenonT(40), SameCounting, Mapped!FS_Subset

\* A finite set has a number of elements, one more with a new element and one
\* less without one of its elements.
LEMMA CountChange ==
  ASSUME NEW S, IsFiniteSet(S), NEW x
  PROVE  /\ Cardinality(S) \in Nat
         /\ x \notin S => Cardinality(S \cup {x}) = Cardinality(S) + 1
         /\ x \in S => Cardinality(S \ {x}) = Cardinality(S) - 1
<1>0. Mapped!IsFiniteSet(S)
  BY ZenonT(40), SameCounting
<1>1. Cardinality(S) \in Nat
  BY ZenonT(40), <1>0, SameCounting, Mapped!FS_CardinalityType
<1>2. x \notin S => Cardinality(S \cup {x}) = Cardinality(S) + 1
  BY ZenonT(40), <1>0, SameCounting, Mapped!FS_AddElement
<1>3. x \in S => Cardinality(S \ {x}) = Cardinality(S) - 1
  BY ZenonT(40), <1>0, SameCounting, Mapped!FS_RemoveElement
<1> QED
  BY ZenonT(40), <1>1, <1>2, <1>3

\* A function into a smaller set takes a value twice.
LEMMA CountPigeons ==
  ASSUME NEW S, NEW T, IsFiniteSet(S), IsFiniteSet(T), Cardinality(T) < Cardinality(S), NEW f \in [S -> T]
  PROVE  \E x, y \in S : x # y /\ f[x] = f[y]
<1>1. Mapped!IsFiniteSet(S) /\ Mapped!IsFiniteSet(T)
  BY ZenonT(40), SameCounting
<1>2. Mapped!Cardinality(T) = Cardinality(T) /\ Mapped!Cardinality(S) = Cardinality(S)
  BY ZenonT(40), SameCounting
<1>3. Mapped!Cardinality(T) < Mapped!Cardinality(S)
  BY ZenonT(40), SMTT(30), <1>2
<1> QED
  BY ZenonT(40), SMTT(30), <1>1, <1>3, Mapped!FS_PigeonHole

\* The sets that are counted are finite.
LEMMA CountsAreNumbers ==
  /\ IsFiniteSet(DirtyFrames) /\ Cardinality(DirtyFrames) \in Nat
  /\ \A p : IsFiniteSet(CallsAt(p)) /\ Cardinality(CallsAt(p)) \in Nat
<1>1. IsFiniteSet(DirtyFrames)
  <2>1. DirtyFrames \in SUBSET Frames
    BY ZenonT(40) DEF DirtyFrames
  <2> QED
    BY ZenonT(40), <2>1, CountPart, PoolConstants
<1>2. ASSUME NEW p PROVE IsFiniteSet(CallsAt(p))
  <2>1. CallsAt(p) \in SUBSET Threads
    BY ZenonT(40) DEF CallsAt
  <2> QED
    BY ZenonT(40), <2>1, CountPart, PoolConstants
<1> QED
  BY ZenonT(40), <1>1, <1>2, CountChange

\* A call that leaves or enters some places, alone, changes who is at them by one.
LEMMA CallsMove ==
  ASSUME NEW t \in Threads, Moves(t), NEW p
  PROVE  /\ (th[t].pc \in p <=> th'[t].pc \in p) => CallsAt(p)' = CallsAt(p)
         /\ th[t].pc \notin p /\ th'[t].pc \in p => Cardinality(CallsAt(p)') = Cardinality(CallsAt(p)) + 1
         /\ th[t].pc \in p /\ th'[t].pc \notin p => Cardinality(CallsAt(p)') = Cardinality(CallsAt(p)) - 1
<1>0. \A u \in Threads \ {t} : th'[u] = th[u]
  BY ZenonT(40) DEF Moves
<1>1. (th[t].pc \in p <=> th'[t].pc \in p) => CallsAt(p)' = CallsAt(p)
  BY <1>0 DEF CallsAt
<1>2. ASSUME th[t].pc \notin p, th'[t].pc \in p
      PROVE  Cardinality(CallsAt(p)') = Cardinality(CallsAt(p)) + 1
  <2>1. CallsAt(p)' = CallsAt(p) \cup {t} /\ t \notin CallsAt(p)
    BY <1>0, <1>2 DEF CallsAt
  <2> QED
    BY ZenonT(40), <2>1, CountsAreNumbers, CountChange
<1>3. ASSUME th[t].pc \in p, th'[t].pc \notin p
      PROVE  Cardinality(CallsAt(p)') = Cardinality(CallsAt(p)) - 1
  <2>1. CallsAt(p)' = CallsAt(p) \ {t} /\ t \in CallsAt(p)
    BY <1>0, <1>3 DEF CallsAt
  <2> QED
    BY ZenonT(40), <2>1, CountsAreNumbers, CountChange
<1> QED
  BY ZenonT(40), <1>1, <1>2, <1>3

\* A step that tallies keeps the count exact.
LEMMA CountStep ==
  ASSUME CountInv, NEW t \in Threads, Tallies(t)
  PROVE  CountInv'
<1> DEFINE D == Cardinality(DirtyFrames)
           C == Cardinality(CallsAt({"count"}))
           U == Cardinality(CallsAt({"uncount", "dropcount"}))
<1>1. D \in Nat /\ C \in Nat /\ U \in Nat
  BY ZenonT(40), CountsAreNumbers
<1>2. /\ th[t].pc \notin TallyPlaces /\ th'[t].pc \notin TallyPlaces => C' = C /\ U' = U
      /\ th[t].pc \notin TallyPlaces /\ th'[t].pc = "count" => C' = C + 1 /\ U' = U
      /\ th[t].pc \notin TallyPlaces /\ th'[t].pc \in {"uncount", "dropcount"} => C' = C /\ U' = U + 1
      /\ th[t].pc = "count" /\ th'[t].pc \notin TallyPlaces => C' = C - 1 /\ U' = U
      /\ th[t].pc \in {"uncount", "dropcount"} /\ th'[t].pc \notin TallyPlaces => C' = C /\ U' = U - 1
  <2>1. Moves(t)
    BY ZenonT(40) DEF Tallies
  <2>2. \A l : l \notin TallyPlaces <=> l \notin {"count"} /\ l \notin {"uncount", "dropcount"}
    BY ZenonT(40) DEF TallyPlaces
  <2>3. /\ (th[t].pc \in {"count"} <=> th'[t].pc \in {"count"}) => C' = C
        /\ th[t].pc \notin {"count"} /\ th'[t].pc \in {"count"} => C' = C + 1
        /\ th[t].pc \in {"count"} /\ th'[t].pc \notin {"count"} => C' = C - 1
    BY ZenonT(40), <2>1, CallsMove
  <2>4. /\ (th[t].pc \in {"uncount", "dropcount"} <=> th'[t].pc \in {"uncount", "dropcount"}) => U' = U
        /\ th[t].pc \notin {"uncount", "dropcount"} /\ th'[t].pc \in {"uncount", "dropcount"} => U' = U + 1
        /\ th[t].pc \in {"uncount", "dropcount"} /\ th'[t].pc \notin {"uncount", "dropcount"} => U' = U - 1
    BY ZenonT(40), <2>1, CallsMove
  <2> HIDE DEF C, U
  <2> QED
    BY ZenonT(40), <2>2, <2>3, <2>4
<1>3. SameBits => D' = D
  BY ZenonT(40) DEF SameBits, DirtyFrames
<1>4. ASSUME NEW f \in Frames, BitTurns(f), control'[f].dirty = TRUE, control[f].dirty = FALSE PROVE D' = D + 1
  <2>1. DirtyFrames' = DirtyFrames \cup {f} /\ f \notin DirtyFrames
    BY ZenonT(40), <1>4 DEF BitTurns, DirtyFrames
  <2> QED
    BY ZenonT(40), <2>1, CountsAreNumbers, CountChange
<1>5. ASSUME NEW f \in Frames, BitTurns(f), control'[f].dirty = FALSE, control[f].dirty = TRUE PROVE D' = D - 1
  <2>1. DirtyFrames' = DirtyFrames \ {f} /\ f \in DirtyFrames
    BY ZenonT(40), <1>5 DEF BitTurns, DirtyFrames
  <2> QED
    BY ZenonT(40), <2>1, CountsAreNumbers, CountChange
<1>6. dirtyCount = D - C + U
  BY ZenonT(40) DEF CountInv
<1> HIDE DEF D, C, U
<1>7. \/ D' = D /\ C' = C /\ U' = U /\ dirtyCount' = dirtyCount
      \/ D' = D + 1 /\ C' = C + 1 /\ U' = U /\ dirtyCount' = dirtyCount
      \/ D' = D - 1 /\ C' = C /\ U' = U + 1 /\ dirtyCount' = dirtyCount
      \/ D' = D /\ C' = C - 1 /\ U' = U /\ dirtyCount' = dirtyCount + 1
      \/ D' = D /\ C' = C /\ U' = U - 1 /\ dirtyCount' = dirtyCount - 1
  BY ZenonT(40), <1>2, <1>3, <1>4, <1>5 DEF Tallies
<1>8. dirtyCount' = D' - C' + U'
  BY <1>1, <1>6, <1>7
<1> QED
  BY ZenonT(40), <1>8 DEF CountInv, D, C, U

\* Distinct calls that are about to count a page have marked distinct frames.
LEMMA CountedFrames ==
  ASSUME PoolFacts, ContentInv
  PROVE  Cardinality(CallsAt({"count"})) <= Cardinality(DirtyFrames)
<1>1. \A t \in CallsAt({"count"}) : t \in Threads /\ Base(t) \in WriterPlaces /\ W(t).dirty
  BY ZenonT(40) DEF CallsAt, Base, BaseOf, FlushPlaces, WriterPlaces, ContentInv, CallInv, Dirties
<1>2. \A t \in CallsAt({"count"}) : F(t) \in DirtyFrames
  BY ZenonT(40), <1>1, WriterFrame DEF DirtyFrames, W, F
<1>3. \A t, u \in CallsAt({"count"}) : F(t) = F(u) => t = u
  BY ZenonT(40), <1>1, WriterFrame
<1> DEFINE g == [t \in CallsAt({"count"}) |-> F(t)]
<1>4. g \in [CallsAt({"count"}) -> DirtyFrames] /\ \A t \in CallsAt({"count"}) : g[t] = F(t)
  BY ZenonT(40), <1>2
<1> HIDE DEF g
<1>5. ~(Cardinality(DirtyFrames) < Cardinality(CallsAt({"count"})))
  <2> SUFFICES ASSUME Cardinality(DirtyFrames) < Cardinality(CallsAt({"count"})) PROVE FALSE
    BY ZenonT(40)
  <2>1. PICK t, u \in CallsAt({"count"}) : t # u /\ g[t] = g[u]
    BY SMTT(30), ZenonT(40), <1>4, CountsAreNumbers, CountPigeons
  <2> QED
    BY ZenonT(40), <1>3, <1>4, <2>1
<1> QED
  BY <1>5, CountsAreNumbers

\* The count stays exact, up to what calls owe it.
LEMMA CountKept ==
  ASSUME PoolInv, ContentInv, CountInv, [Next]_vars
  PROVE  CountInv'
<1>1. PoolFacts /\ th' \in [Threads -> Thread]
  BY ZenonT(40), FactsHold, PoolStep DEF PoolInv
<1>2. ASSUME NEW t \in Threads, Start(t) \/ ClientChoice(t) \/ Progress(t)
      PROVE  CountInv'
  BY ZenonT(40), <1>1, <1>2, TallyStep, CountStep
<1>3. CASE UNCHANGED vars
  BY ZenonT(40), <1>3 DEF vars, CountInv, DirtyFrames, CallsAt
<1> QED
  BY ZenonT(40), <1>2, <1>3 DEF Next

\* dirty_page_count_ (buffer_manager_flush.cc) is never negative, and differs from the
\* number of dirty frames by exactly the updates that calls are about to make.
THEOREM DirtyCounted == Spec => []DirtyCountExact
<1>1. Init => CountInv
  <2> SUFFICES ASSUME Init PROVE CountInv
    OBVIOUS
  <2>1. DirtyFrames = {} /\ CallsAt({"count"}) = {} /\ CallsAt({"uncount", "dropcount"}) = {} /\ dirtyCount = 0
    BY ZenonT(40) DEF Init, DirtyFrames, CallsAt, FreeWord, IdleThread
  <2>2. Cardinality({}) = 0
    BY ZenonT(40), CountNone
  <2> QED
    BY <2>1, <2>2 DEF CountInv
<1>2. PoolInv /\ ContentInv /\ CountInv => DirtyCountExact
  <2> SUFFICES ASSUME PoolInv, ContentInv, CountInv PROVE DirtyCountExact
    OBVIOUS
  <2> DEFINE D == Cardinality(DirtyFrames)
             C == Cardinality(CallsAt({"count"}))
             U == Cardinality(CallsAt({"uncount", "dropcount"}))
  <2>1. D \in Nat /\ C \in Nat /\ U \in Nat /\ C <= D /\ dirtyCount = D - C + U
    BY ZenonT(40), CountsAreNumbers, FactsHold, CountedFrames DEF CountInv
  <2>2. DirtyCountExact <=> dirtyCount >= 0 /\ dirtyCount = D - C + U
    BY ZenonT(40) DEF DirtyCountExact, DirtyFrames, CallsAt
  <2> HIDE DEF D, C, U
  <2> QED
    BY <2>1, <2>2
<1> QED
  BY <1>1, <1>2, CountKept, ContentsSafe, PTL DEF Spec

=============================================================================
