--------------------------- MODULE BufferPoolProofs -------------------------
(***************************************************************************)
(* BufferPool implements FrameLife and ContentLatch, for any finite set of *)
(* threads, any set of frames and pages and any limits; so its frames have *)
(* one owner, its pages one copy, and its pin and latch counts are exact.  *)
(***************************************************************************)
EXTENDS BufferPoolSteps

-----------------------------------------------------------------------------
(* The last steps: publication, the end of a handle, and drop.             *)

\* A loaded page is published; a handle is closed.
LEMMA HandleSteps ==
  ASSUME PoolInv, NEW t \in Threads
  PROVE  /\ PublishLoadedFrame(t) => Follows
         /\ ReleaseHandle(t) => Follows
<1>a. th \in [Threads -> Thread] /\ th[t] \in Thread /\ Shape(th[t])
  BY ZenonT(40), CallFacts
<1>1. ASSUME PublishLoadedFrame(t) PROVE Follows
  <2> DEFINE b == (th[t].op = "prefetch")
             w == PublishedResident(W(t), b)
  <2>0. th[t].pc = "publish" /\ UNCHANGED <<tag, key, free>> /\ SetControl(t, w)
    BY ZenonT(40), <1>1 DEF PublishLoadedFrame, At, tableVars
  <2>1. PICK f \in Frames : f = th[t].frame /\ W(t) \in Word
    BY ZenonT(40), <2>0, CallFacts DEF Searching
  <2>2. /\ StageOf(th[t]) = "installed" /\ th[t].ret = "idle" /\ th[t].op \notin {"drop", "flushall", "clean"}
        /\ HoldOf(th[t]) = IF th[t].op = "zero" THEN "exclusive" ELSE "none"
    BY ZenonT(40), <1>a, <2>0 DEF StageOf, HoldOf, BaseOf, FlushPlaces, WriterPlaces, LatchedPlaces, Shape, Returns, Dropping
  <2>3. /\ w \in Word /\ w.state = "Resident" /\ w.pins = IF b THEN W(t).pins - 1 ELSE W(t).pins
        /\ w.shared = W(t).shared /\ w.exclusive = W(t).exclusive
    BY ZenonT(40), <2>1, OwnerWords
  <2> HIDE DEF w
  <2>4. /\ stateOf' = [stateOf EXCEPT ![f] = "Resident"] /\ pinsOf[f] = W(t).pins
        /\ pinsOf' = [pinsOf EXCEPT ![f] = w.pins]
        /\ w.pins = W(t).pins => pinsOf' = pinsOf
    <3>1. w \in Word /\ SetControl(t, w) /\ th[t].frame = f
      BY ZenonT(40), <2>0, <2>1, <2>3
    <3>2. /\ stateOf' = [stateOf EXCEPT ![f] = w.state] /\ pinsOf[f] = W(t).pins
          /\ pinsOf' = [pinsOf EXCEPT ![f] = w.pins]
          /\ w.pins = W(t).pins => pinsOf' = pinsOf
      BY <3>1, WordSet
    <3> QED
      BY <2>3, <3>2
  <2>5. CASE th[t].op = "prefetch"
    <3>1. th' = [th EXCEPT ![t] = IdleThread]
      BY ZenonT(40), <1>1, <2>5 DEF PublishLoadedFrame
    <3>2. Becomes(t, "idle", "none", NoTag, NoFrame, "none", "none", "idle")
      BY ZenonT(40), <1>a, <3>1, Replaced, IdleRecord
    <3>3. Shape(th'[t])
      BY ZenonT(40), <3>2 DEF Becomes, Shape, Returns, Searching, Dropping, FlushPlaces
    <3>4. StageOf(th'[t]) = "none" /\ KeepsLatch(t)
      BY ZenonT(40), <2>2, <2>5, <3>2 DEF Becomes, KeepsLatch, StageOf, HoldOf, BaseOf, FlushPlaces, WriterPlaces, LatchedPlaces
    <3>5. PublishFrame(t)
      BY ZenonT(40), <2>0, <2>1, <2>2, <2>3, <2>4, <2>5, <3>2, <3>4, BecomesMoves, ClaimChanges DEF PublishFrame
    <3>6. [LifeNext]_lifeVars
      BY ZenonT(40), <3>5 DEF LifeNext
    <3> QED
      BY ZenonT(40), <2>0, <2>1, <2>3, <3>2, <3>3, <3>4, <3>6, BecomesMoves, ClaimWordFollows
  <2>6. CASE th[t].op # "prefetch"
    <3> DEFINE l == IF th[t].op = "zero" THEN "writing" ELSE "latch"
               s == [th[t] EXCEPT !.pc = l, !.from = "none", !.evicted = NoTag]
    <3>1. l \in Places /\ l \in {"writing", "latch"}
      BY DEF Places
    <3>2. th' = [th EXCEPT ![t] = s]
      BY ZenonT(40), <1>1, <2>6 DEF PublishLoadedFrame
    <3>3. /\ s \in Thread /\ s.pc = l /\ s.op = th[t].op /\ s.want = th[t].want
          /\ s.frame = th[t].frame /\ s.from = "none" /\ s.mode = th[t].mode /\ s.ret = th[t].ret
      <4> HIDE DEF l
      <4> QED
        BY ZenonT(40), <1>a, <3>1 DEF Thread
    <3> HIDE DEF s
    <3>4. Becomes(t, l, th[t].op, th[t].want, th[t].frame, "none", th[t].mode, th[t].ret)
      BY ZenonT(40), <1>a, <3>2, <3>3, Replaced
    <3>5. Shape(th'[t])
      BY ZenonT(40), <1>a, <2>0, <2>2, <3>1, <3>4 DEF Becomes, Shape, Returns, Searching, Dropping, FlushPlaces
    <3>6. /\ StageOf(th'[t]) = "verified" /\ KeepsLatch(t)
          /\ th'[t].frame = th[t].frame /\ th'[t].want = th[t].want
      BY ZenonT(60), <2>2, <3>4 DEF Becomes, KeepsLatch, StageOf, HoldOf, BaseOf, FlushPlaces, WriterPlaces, LatchedPlaces
    <3>7. PublishFrame(t)
      BY ZenonT(40), <2>0, <2>1, <2>2, <2>3, <2>4, <2>6, <3>4, <3>6, BecomesMoves, ClaimChanges DEF PublishFrame
    <3>8. [LifeNext]_lifeVars
      BY ZenonT(40), <3>7 DEF LifeNext
    <3> QED
      BY ZenonT(40), <2>0, <2>1, <2>3, <3>4, <3>5, <3>6, <3>8, BecomesMoves, ClaimWordFollows
  <2> QED
    BY <2>5, <2>6
<1>2. ASSUME ReleaseHandle(t) PROVE Follows
  <2>0. /\ th[t].pc \in {"reading", "written", "writing", "marked"} /\ UNCHANGED <<tag, key, free>> /\ Goto(t, "unpin")
        /\ \/ th[t].pc = "reading" /\ SetControl(t, ReleasedShared(W(t)))
           \/ th[t].pc # "reading" /\ SetControl(t, ReleasedExclusive(W(t)))
    BY ZenonT(40), <1>2 DEF ReleaseHandle, At, tableVars
  <2>1. PICK f \in Frames : f = th[t].frame /\ W(t) \in Word
    BY ZenonT(40), <2>0, CallFacts DEF Searching
  <2>2. PICK w \in Word : /\ SetControl(t, w) /\ w.state = W(t).state /\ w.pins = W(t).pins
                          /\ th[t].pc = "reading" => w.shared = W(t).shared - 1 /\ w.exclusive = W(t).exclusive
                          /\ th[t].pc # "reading" => w.shared = W(t).shared /\ w.exclusive = FALSE
    BY ZenonT(40), <2>0, <2>1, LatchWords
  <2>3. "unpin" \in Places
    BY DEF Places
  <2>4. Becomes(t, "unpin", th[t].op, th[t].want, th[t].frame, th[t].from, th[t].mode, th[t].ret)
    BY ZenonT(40), <1>a, <2>0, <2>3, GotoFields
  <2>5. Shape(th'[t])
    BY SMTT(30), ZenonT(40), <1>a, <2>0, <2>4 DEF Becomes, Shape, Returns, Searching, Dropping, FlushPlaces
  <2>6. /\ StageOf(th[t]) = "verified" /\ StageOf(th'[t]) = "pinned"
        /\ th'[t].frame = th[t].frame /\ th'[t].want = th[t].want
        /\ HoldOf(th[t]) = (IF th[t].pc = "reading" THEN "shared" ELSE "exclusive") /\ HoldOf(th'[t]) = "none"
    BY ZenonT(40), <2>0, <2>4 DEF Becomes, StageOf, HoldOf, BaseOf, FlushPlaces, WriterPlaces, LatchedPlaces
  <2>7. stateOf' = stateOf /\ pinsOf' = pinsOf
    BY ZenonT(40), <2>1, <2>2, WordSet
  <2>8. LeavePage(t)
    BY ZenonT(40), <2>0, <2>4, <2>6, <2>7, BecomesMoves, ClaimChanges DEF LeavePage
  <2>9. [LifeNext]_lifeVars
    BY <2>8 DEF LifeNext
  <2> QED
    BY ZenonT(40), <2>0, <2>1, <2>2, <2>4, <2>5, <2>6, <2>9, BecomesMoves, LatchFollows
<1> QED
  BY ZenonT(40), <1>1, <1>2

\* A page is dropped.
LEMMA DropSteps ==
  ASSUME PoolInv, NEW t \in Threads
  PROVE  /\ TryDiscardPinned(t) => Follows
         /\ DropWaitLatch(t) => Follows
         /\ DropRemove(t) => Follows
         /\ DropClearTag(t) => Follows
<1>a. th \in [Threads -> Thread] /\ th[t] \in Thread /\ Shape(th[t])
  BY ZenonT(40), CallFacts
<1>g. ASSUME NEW l \in Places, Goto(t, l) PROVE th'[t].pc = l /\ Goto(t, th'[t].pc)
  BY ZenonT(40), <1>a, <1>g, GotoFields DEF Becomes
<1>l. ASSUME UNCHANGED <<control, tag, key, free>>, th[t].pc \in {"discard", "waitlatch"},
             \/ Goto(t, "unpin")
             \/ \E p \in {"waitwb", "dscan"} : th' = [th EXCEPT ![t].pc = "unpin", ![t].ret = p]
      PROVE  Follows
  <2>1. "unpin" \in Places /\ "waitwb" \in Places /\ "dscan" \in Places
    BY DEF Places
  <2>2. \E p \in {th[t].ret, "waitwb", "dscan"} :
          Becomes(t, "unpin", th[t].op, th[t].want, th[t].frame, th[t].from, th[t].mode, p)
    <3>1. CASE Goto(t, "unpin")
      BY ZenonT(40), <1>a, <2>1, <3>1, GotoFields
    <3>2. ASSUME NEW p \in {"waitwb", "dscan"}, th' = [th EXCEPT ![t].pc = "unpin", ![t].ret = p]
          PROVE  Becomes(t, "unpin", th[t].op, th[t].want, th[t].frame, th[t].from, th[t].mode, p)
      BY ZenonT(40), <1>a, <2>1, <3>2, FieldsSet
    <3> QED
      BY ZenonT(40), <1>l, <3>1, <3>2
  <2>3. Shape(th'[t])
    <3>1. PICK p \in {th[t].ret, "waitwb", "dscan"} :
            /\ th'[t].pc = "unpin" /\ th'[t].op = th[t].op /\ th'[t].want = th[t].want
            /\ th'[t].frame = th[t].frame /\ th'[t].from = th[t].from
            /\ th'[t].mode = th[t].mode /\ th'[t].ret = p
      BY ZenonT(40), <2>2 DEF Becomes
    <3>2. th[t].pc \notin FlushPlaces /\ th[t].pc \notin Searching
      BY ZenonT(40), <1>l DEF FlushPlaces, Searching
    <3>3. th[t].ret = "idle"
      BY ZenonT(40), <1>a, <1>l, <3>2 DEF Shape, Returns
    <3>4. p \in Returns(th'[t]) /\ p # "reserve"
      BY ZenonT(40), <3>1, <3>3 DEF Returns, FlushPlaces
    <3> QED
      BY ZenonT(40), <1>a, <1>l, <3>1, <3>2, <3>3, <3>4 DEF Shape, Dropping, Searching
  <2>4. /\ StageOf(th[t]) = "verified" /\ StageOf(th'[t]) = "pinned" /\ KeepsLatch(t)
        /\ th'[t].frame = th[t].frame /\ th'[t].want = th[t].want
    BY ZenonT(40), <1>l, <2>2 DEF Becomes, KeepsLatch, StageOf, HoldOf, BaseOf, FlushPlaces, WriterPlaces, LatchedPlaces
  <2>5. Moves(t)
    BY ZenonT(40), <2>2, BecomesMoves
  <2>6. ASSUME UNCHANGED <<stateOf, pinsOf>> PROVE [LifeNext]_lifeVars
    <3>1. LeavePage(t)
      BY ZenonT(40), <1>l, <2>4, <2>5, <2>6, ClaimChanges DEF LeavePage
    <3> QED
      BY <3>1 DEF LifeNext
  <2> QED
    BY ZenonT(40), <1>l, <2>3, <2>4, <2>5, <2>6, ClaimFollows
<1>1. ASSUME TryDiscardPinned(t) PROVE Follows
  <2>0. th[t].pc = "discard" /\ UNCHANGED <<tag, key, free>>
    BY ZenonT(40), <1>1 DEF TryDiscardPinned, At, tableVars
  <2>1. PICK f \in Frames : f = th[t].frame /\ W(t) \in Word
    BY ZenonT(40), <2>0, CallFacts DEF Searching
  <2>2. ASSUME DiscardOutcome(W(t)) = "Discarded", SetControl(t, FreeWord),
               NEW l \in {"dropcount", "dropremove"}, Goto(t, l)
        PROVE  Follows
    <3>1. th'[t].pc = l /\ Goto(t, th'[t].pc)
      BY <1>g, <2>2 DEF Places
    <3>2. /\ Moves(t) /\ Shape(th'[t]) /\ KeepsLatch(t)
          /\ th'[t].frame = th[t].frame /\ th'[t].want = th[t].want
          /\ StageOf(th[t]) = "verified" /\ StageOf(th'[t]) = "dropping"
      BY ZenonT(40), <2>0, <3>1, ClaimGoto DEF StageOf, WriterPlaces
    <3>3. /\ FreeWord \in Word /\ FreeWord.state = "Free" /\ FreeWord.pins = 0
          /\ FreeWord.shared = 0 /\ FreeWord.exclusive = FALSE
      BY ZenonT(40), <2>1, OwnerWords
    <3>4. /\ stateOf' = [stateOf EXCEPT ![f] = "Free"] /\ pinsOf' = [pinsOf EXCEPT ![f] = 0]
          /\ pinsOf[f] = W(t).pins /\ sharedOf[f] = W(t).shared /\ exclusiveOf[f] = W(t).exclusive
      BY <2>1, <2>2, <3>3, WordSet
    <3>5. sharedOf[f] \in 0 .. MaxShared /\ exclusiveOf[f] \in BOOLEAN
      BY ZenonT(40) DEF PoolInv, LatchInv, LatchType
    <3>6. W(t).pins = 1 /\ W(t).shared = 0 /\ W(t).exclusive = FALSE
      <4>1. W(t).pins = 1 /\ ~W(t).exclusive /\ ~(W(t).shared > 0)
        BY ZenonT(40), <2>2 DEF DiscardOutcome, Latched
      <4>2. W(t).exclusive = FALSE
        BY ZenonT(40), <3>4, <3>5, <4>1
      <4>3. \A n \in 0 .. MaxShared : ~(n > 0) => n = 0
        BY FrameControlBounds
      <4>4. W(t).shared \in 0 .. MaxShared
        BY ZenonT(40), <3>4, <3>5
      <4> QED
        BY ZenonT(40), <4>1, <4>2, <4>3, <4>4
    <3>7. DropFrame(t)
      BY ZenonT(40), <2>0, <2>1, <3>2, <3>4, <3>6, ClaimChanges DEF DropFrame
    <3>8. [LifeNext]_lifeVars
      BY ZenonT(40), <3>7 DEF LifeNext
    <3> QED
      BY ZenonT(40), <2>1, <2>2, <3>2, <3>3, <3>6, <3>8, ClaimWordFollows
  <2>3. ASSUME UNCHANGED control, Goto(t, "waitlatch") PROVE Follows
    <3>1. th'[t].pc = "waitlatch" /\ Goto(t, th'[t].pc)
      BY ZenonT(40), <1>g, <2>3 DEF Places
    <3>2. /\ Moves(t) /\ Shape(th'[t]) /\ KeepsLatch(t)
          /\ th'[t].frame = th[t].frame /\ th'[t].want = th[t].want
          /\ StageOf(th[t]) = "verified" /\ StageOf(th'[t]) = "verified"
      BY ZenonT(40), <2>0, <3>1, ClaimGoto DEF StageOf, WriterPlaces
    <3> QED
      BY ZenonT(40), <2>0, <2>3, <3>2, CallMoves DEF KeepsClaim
  <2> QED
    BY ZenonT(40), <1>1, <1>l, <2>0, <2>2, <2>3 DEF TryDiscardPinned
<1>2. ASSUME DropWaitLatch(t) PROVE Follows
  BY ZenonT(40), <1>2, <1>l DEF DropWaitLatch, At, frameVars, tableVars
<1>3. ASSUME DropRemove(t) PROVE Follows
  <2>0. th[t].pc = "dropremove" /\ UNCHANGED <<control, tag, free>> /\ Goto(t, "droptag")
    BY ZenonT(40), <1>3 DEF DropRemove, At, frameVars
  <2>1. th'[t].pc = "droptag" /\ Goto(t, th'[t].pc)
    BY ZenonT(40), <1>g, <2>0 DEF Places
  <2>2. PICK f \in Frames : f = th[t].frame
    BY ZenonT(40), <2>0, CallFacts DEF Searching
  <2>3. /\ Moves(t) /\ Shape(th'[t]) /\ KeepsLatch(t)
        /\ th'[t].frame = th[t].frame /\ th'[t].want = th[t].want
        /\ StageOf(th[t]) = "dropping" /\ StageOf(th'[t]) = "popped"
    BY ZenonT(40), <2>0, <2>1, ClaimGoto DEF StageOf, WriterPlaces
  <2>4. key' = [key EXCEPT ![f] = NoTag]
    BY ZenonT(40), <1>3, <2>2, <2>3, ClaimKnows DEF DropRemove, Unlink, F
  <2>5. ASSUME UNCHANGED <<stateOf, pinsOf>> PROVE [LifeNext]_lifeVars
    <3>1. UnmapDropped(t)
      BY ZenonT(40), <2>0, <2>2, <2>3, <2>4, <2>5, ClaimChanges DEF UnmapDropped
    <3> QED
      BY ZenonT(40), <3>1 DEF LifeNext
  <2> QED
    BY ZenonT(40), <2>0, <2>3, <2>5, ClaimFollows
<1>4. ASSUME DropClearTag(t) PROVE Follows
  <2>0. /\ th[t].pc = "droptag" /\ UNCHANGED <<control, key, free>> /\ Goto(t, "push")
        /\ tag' = [tag EXCEPT ![th[t].frame] = DefaultTag]
    BY ZenonT(40), <1>4 DEF DropClearTag, At, F, tableVars
  <2>1. th'[t].pc = "push" /\ Goto(t, th'[t].pc)
    BY ZenonT(40), <1>g, <2>0 DEF Places
  <2>2. /\ Moves(t) /\ Shape(th'[t]) /\ KeepsLatch(t)
        /\ th'[t].frame = th[t].frame /\ th'[t].want = th[t].want
        /\ StageOf(th[t]) = "popped" /\ StageOf(th'[t]) = "popped"
    BY ZenonT(40), <2>0, <2>1, ClaimGoto DEF StageOf, WriterPlaces
  <2>3. ASSUME UNCHANGED <<stateOf, pinsOf>> PROVE [LifeNext]_lifeVars
    <3>1. Claims(t, "popped") /\ heldOf[t] = th[t].frame /\ UNCHANGED <<stageOf, heldOf, wantOf>>
      BY ZenonT(40), <2>2, ClaimChanges, ClaimsMoved DEF KeepsClaim
    <3>2. UntagFrame(t)
      BY ZenonT(40), <2>0, <2>3, <3>1 DEF UntagFrame, claimVars
    <3> QED
      BY ZenonT(40), <3>2 DEF LifeNext
  <2> QED
    BY ZenonT(40), <2>0, <2>2, <2>3, ClaimFollows
<1> QED
  BY ZenonT(40), <1>1, <1>2, <1>3, <1>4

-----------------------------------------------------------------------------
(* The variables that are not mapped.                                      *)

dataVars == <<wbError, behind, data, disk, dirtyCount, latest>>

\* Most steps leave contents, counts and the chains of the table alone.
LEMMA DataUnchanged ==
  ASSUME NEW t \in Threads
  PROVE  /\ Start(t) \/ FlushHandle(t) => UNCHANGED dataVars
         /\ Lookup(t) \/ TryPinResident(t) \/ CheckPinnedTag(t) \/ Unpin(t) => UNCHANGED dataVars
         /\ IsLoadingState(t) \/ IsLoadingTag(t) \/ WaitForLoad(t) => UNCHANGED dataVars
         /\ PeekLookup(t) \/ PeekState(t) \/ PeekTag(t) => UNCHANGED dataVars
         /\ TryReserveRingFrame(t) \/ PopFree(t) \/ Victim(t) \/ NoVictim(t) => UNCHANGED dataVars
         /\ HasTransientFrame(t) \/ Exhausted(t) \/ TryReserve(t) \/ StoreTag(t) => UNCHANGED dataVars
         /\ ZeroLatch(t) \/ PublishLoadedFrame(t) \/ ClearTag(t) \/ ReleaseToFree(t) => UNCHANGED dataVars
         /\ PushFree(t) \/ AcquireLatch(t) \/ MarkHandleDirty(t) \/ ReleaseHandle(t) => UNCHANGED dataVars
         /\ PrepareLatch(t) \/ WaitForPendingFlush(t) \/ ReadWritebackError(t) => UNCHANGED dataVars
         /\ CaptureFlushSnapshot(t) \/ PrepareUnlatch(t) \/ BeginFlushTask(t) => UNCHANGED dataVars
         /\ DropScanTag(t) \/ DropScanState(t) \/ DropWaitLatch(t) \/ DropClearTag(t) => UNCHANGED dataVars
<1> USE DEF dataVars, frameVars, tableVars, contentVars
<1>1. Start(t) \/ FlushHandle(t) => UNCHANGED dataVars
  BY ZenonT(40) DEF Start, StartPage, StartSweep, StartDrop, FlushHandle
<1>2. Lookup(t) \/ TryPinResident(t) \/ CheckPinnedTag(t) \/ Unpin(t) => UNCHANGED dataVars
  BY ZenonT(40) DEF Lookup, TryPinResident, CheckPinnedTag, Unpin
<1>3. IsLoadingState(t) \/ IsLoadingTag(t) \/ WaitForLoad(t) => UNCHANGED dataVars
  BY ZenonT(40) DEF IsLoadingState, IsLoadingTag, WaitForLoad
<1>4. PeekLookup(t) \/ PeekState(t) \/ PeekTag(t) => UNCHANGED dataVars
  BY ZenonT(40) DEF PeekLookup, PeekState, PeekTag
<1>5. TryReserveRingFrame(t) \/ PopFree(t) \/ Victim(t) \/ NoVictim(t) => UNCHANGED dataVars
  BY ZenonT(40) DEF TryReserveRingFrame, PopFree, Victim, NoVictim
<1>6. HasTransientFrame(t) \/ Exhausted(t) \/ TryReserve(t) \/ StoreTag(t) => UNCHANGED dataVars
  BY DEF HasTransientFrame, Exhausted, TryReserve, StoreTag
<1>7. ZeroLatch(t) \/ PublishLoadedFrame(t) \/ ClearTag(t) \/ ReleaseToFree(t) => UNCHANGED dataVars
  BY DEF ZeroLatch, PublishLoadedFrame, ClearTag, ReleaseToFree
<1>8. PushFree(t) \/ AcquireLatch(t) \/ MarkHandleDirty(t) \/ ReleaseHandle(t) => UNCHANGED dataVars
  BY ZenonT(40) DEF PushFree, AcquireLatch, MarkHandleDirty, ReleaseHandle
<1>9. PrepareLatch(t) \/ WaitForPendingFlush(t) \/ ReadWritebackError(t) => UNCHANGED dataVars
  BY ZenonT(40) DEF PrepareLatch, WaitForPendingFlush, ReadWritebackError
<1>10. CaptureFlushSnapshot(t) \/ PrepareUnlatch(t) \/ BeginFlushTask(t) => UNCHANGED dataVars
  BY ZenonT(40) DEF CaptureFlushSnapshot, PrepareUnlatch, BeginFlushTask
<1>11. DropScanTag(t) \/ DropScanState(t) \/ DropWaitLatch(t) \/ DropClearTag(t) => UNCHANGED dataVars
  BY ZenonT(40) DEF DropScanTag, DropScanState, DropWaitLatch, DropClearTag
<1> QED
  BY ZenonT(40), <1>1, <1>2, <1>3, <1>4, <1>5, <1>6, <1>7, <1>8, <1>9, <1>10, <1>11

\* The others keep them well typed.
LEMMA DataTyped ==
  ASSUME PoolInv, NEW t \in Threads
  PROVE  /\ TryQueueWriteback(t) \/ RollBackFlushTask(t) \/ FinalizeFlushTask(t) => DataTypes'
         /\ Install(t) \/ AbortRemove(t) \/ DropRemove(t) => DataTypes'
         /\ ReadReservedPage(t) \/ ZeroFill(t) => DataTypes'
         /\ WritePage(t) => DataTypes'
         /\ WriteTask(t) => DataTypes'
         /\ TryDiscardPinned(t) => DataTypes'
         /\ CountDirty(t) \/ UncountDirty(t) \/ DropUncount(t) => DataTypes'
<1>0. DataTypes
  BY DEF PoolInv
<1> USE DEF frameVars, tableVars, contentVars
<1>1. TryQueueWriteback(t) \/ RollBackFlushTask(t) \/ FinalizeFlushTask(t) => DataTypes'
  <2>1. ASSUME TryQueueWriteback(t) \/ RollBackFlushTask(t) \/ FinalizeFlushTask(t)
        PROVE  /\ wbError' = wbError \/ \E b \in BOOLEAN : wbError' = [wbError EXCEPT ![F(t)] = b]
               /\ UNCHANGED <<behind, data, disk, dirtyCount, latest>>
    BY ZenonT(40), <2>1 DEF TryQueueWriteback, RollBackFlushTask, FinalizeFlushTask, At
  <2> QED
    BY ZenonT(40), <1>0, <2>1 DEF DataTypes
<1>2. Install(t) \/ AbortRemove(t) \/ DropRemove(t) => DataTypes'
  <2>1. ASSUME Install(t) \/ AbortRemove(t) \/ DropRemove(t)
        PROVE  /\ \/ behind' = behind \/ Unlink(F(t)) \/ Relink(F(t), th[t].want)
               /\ UNCHANGED <<wbError, data, disk, dirtyCount, latest>>
    BY <2>1 DEF Install, AbortRemove, DropRemove
  <2>2. ASSUME behind' = behind \/ Unlink(F(t)) \/ Relink(F(t), th[t].want)
        PROVE  behind' \in [Frames -> SUBSET Frames]
    BY ZenonT(40), <1>0, <2>2 DEF Unlink, Relink, Linked, DataTypes
  <2> QED
    BY ZenonT(40), <1>0, <2>1, <2>2 DEF DataTypes
<1>3. ReadReservedPage(t) \/ ZeroFill(t) => DataTypes'
  <2>1. ASSUME ReadReservedPage(t) \/ ZeroFill(t)
        PROVE  /\ \E v \in Content : data' = [data EXCEPT ![F(t)] = v]
               /\ UNCHANGED <<wbError, behind, disk, dirtyCount, latest>>
    <3>1. At(t, "load") => th[t].want \in Tags
      BY ZenonT(40), CallFacts DEF At, Shape, FlushPlaces
    <3>2. th[t].want \in Tags => disk[th[t].want] \in Content
      BY <1>0 DEF DataTypes
    <3> QED
      BY ZenonT(40), <2>1, <3>1, <3>2 DEF ReadReservedPage, ZeroFill, Content
  <2> QED
    BY ZenonT(40), <1>0, <2>1 DEF DataTypes
<1>4. WritePage(t) => DataTypes'
  <2>1. Contents \subseteq Content
    BY DEF Content
  <2> QED
    BY ZenonT(40), <1>0, <2>1 DEF WritePage, DataTypes
<1>5. WriteTask(t) => DataTypes'
  <2>1. th[t].task.data \in Content /\ Torn \in Content
    BY ZenonT(40), CallFacts DEF Thread, Content
  <2>2. ASSUME WriteTask(t)
        PROVE  /\ \E v \in Content : disk' = [disk EXCEPT ![th[t].task.tag] = v]
               /\ UNCHANGED <<wbError, behind, data, dirtyCount, latest>>
    BY ZenonT(40), <2>1, <2>2 DEF WriteTask
  <2> QED
    BY ZenonT(40), <1>0, <2>2 DEF DataTypes
<1>6. TryDiscardPinned(t) => DataTypes'
  <2>1. ASSUME TryDiscardPinned(t)
        PROVE  /\ \/ latest' = latest
                  \/ th[t].want \in Tags /\ latest' = [latest EXCEPT ![th[t].want] = disk[th[t].want]]
               /\ UNCHANGED <<wbError, behind, data, disk, dirtyCount>>
    <3>1. th[t].want \in Tags
      BY ZenonT(40), <2>1, CallFacts DEF TryDiscardPinned, At, Shape, FlushPlaces
    <3> QED
      BY ZenonT(40), <2>1, <3>1 DEF TryDiscardPinned
  <2> QED
    BY ZenonT(40), <1>0, <2>1 DEF DataTypes
<1>7. CountDirty(t) \/ UncountDirty(t) \/ DropUncount(t) => DataTypes'
  <2>1. ASSUME CountDirty(t) \/ UncountDirty(t) \/ DropUncount(t)
        PROVE  /\ dirtyCount' = dirtyCount + 1 \/ dirtyCount' = dirtyCount - 1
               /\ UNCHANGED <<wbError, behind, data, disk, latest>>
    BY ZenonT(40), <2>1 DEF CountDirty, UncountDirty, DropUncount
  <2> QED
    BY <1>0, <2>1 DEF DataTypes
<1> QED
  BY ZenonT(40), <1>1, <1>2, <1>3, <1>4, <1>5, <1>6, <1>7

-----------------------------------------------------------------------------
(* The inductive invariant.                                                *)

\* The proofs about FrameLife and ContentLatch, for the mapped variables.
Mapped == INSTANCE FrameProofs WITH
  state <- stateOf, pins <- pinsOf, stage <- stageOf, held <- heldOf, want <- wantOf,
  shared <- sharedOf, exclusive <- exclusiveOf, hold <- holdOf, latched <- latchedOf

\* The library's facts on finite sets come with that instance, about its own
\* copy of the counting operators.
LEMMA SameCounting ==
  ASSUME NEW S
  PROVE  Mapped!IsFiniteSet(S) = IsFiniteSet(S) /\ Mapped!Cardinality(S) = Cardinality(S)
<1>1. Mapped!IsFiniteSet(S) = IsFiniteSet(S)
  BY ZenonT(40) DEF Mapped!IsFiniteSet, IsFiniteSet
<1>2. Mapped!Cardinality(S) = Cardinality(S)
  BY ZenonT(40) DEF Mapped!Cardinality, Cardinality
<1> QED
  BY ZenonT(40), <1>1, <1>2

\* An empty set has no element.
LEMMA CountNone == IsFiniteSet({}) /\ Cardinality({}) = 0
BY ZenonT(40), SameCounting, Mapped!FS_EmptySet

\* A singleton has one.
LEMMA CountOne == \A x : IsFiniteSet({x}) /\ Cardinality({x}) = 1
BY ZenonT(40), SameCounting, Mapped!FS_Singleton

\* The mapped specifications are the ones that BufferPoolLife names.
LEMMA MappedLife ==
  /\ Mapped!LifeInit <=> LifeInit
  /\ Mapped!LifeInv <=> LifeInv
  /\ Mapped!PinInv <=> PinInv
  /\ \A f : Mapped!Pinners(f) = Pinners(f)
  /\ [Mapped!LifeNext]_Mapped!lifeVars <=> [LifeNext]_lifeVars
<1>1. ASSUME NEW S PROVE Mapped!Cardinality(S) = Cardinality(S)
  BY ZenonT(40) DEF Mapped!Cardinality, Cardinality
<1>2. \A f : Mapped!Pinners(f) = Pinners(f)
  BY ZenonT(40) DEF Mapped!Pinners, Mapped!PinStages, Mapped!LoadStages, Pinners, PinStages, LoadStages
<1>3. Mapped!PinInv <=> PinInv
  BY ZenonT(40), <1>1, <1>2 DEF Mapped!PinInv, PinInv
<1>4. Mapped!LifeType <=> LifeType
  BY ZenonT(40) DEF Mapped!LifeType, Mapped!Stages, Mapped!PinStages, Mapped!OwnerStages, Mapped!LoadStages,
     LifeType, Stages, PinStages, OwnerStages, LoadStages
<1>5. (Mapped!StageInv <=> StageInv) /\ (Mapped!OwnerInv <=> OwnerInv) /\ (Mapped!CopyInv <=> CopyInv)
  BY ZenonT(40) DEF Mapped!StageInv, Mapped!OwnerInv, Mapped!Owner, Mapped!CopyInv, Mapped!HoldsPage,
     Mapped!OwnerStages, Mapped!LoadStages,
     StageInv, OwnerInv, Owner, CopyInv, HoldsPage, OwnerStages, LoadStages
<1>6. Mapped!LifeInv <=> LifeInv
  BY ZenonT(40), <1>3, <1>4, <1>5 DEF Mapped!LifeInv, LifeInv
<1>7. Mapped!LifeNext <=> LifeNext
  BY DEF Mapped!LifeNext, Mapped!TakePin, Mapped!TakeFree, Mapped!ClaimFrame, Mapped!VerifyPage,
     Mapped!LeavePage, Mapped!DropPin, Mapped!GiveFree, Mapped!TagFrame, Mapped!MapFrame,
     Mapped!UnmapFrame, Mapped!PublishFrame, Mapped!UntagFrame, Mapped!FreeFrame,
     Mapped!DropFrame, Mapped!UnmapDropped, Mapped!Claims, Mapped!Claim, Mapped!Become,
     Mapped!Leave, Mapped!claimVars,
     LifeNext, TakePin, TakeFree, ClaimFrame, VerifyPage, LeavePage, DropPin, GiveFree, TagFrame,
     MapFrame, UnmapFrame, PublishFrame, UntagFrame, FreeFrame, DropFrame, UnmapDropped, Claims,
     Claim, Become, Leave, claimVars
<1>8. [Mapped!LifeNext]_Mapped!lifeVars <=> [LifeNext]_lifeVars
  BY ZenonT(40), <1>7 DEF Mapped!lifeVars, lifeVars
<1>9. Mapped!LifeInit <=> LifeInit
  BY ZenonT(40) DEF Mapped!LifeInit, LifeInit
<1> QED
  BY ZenonT(40), <1>2, <1>3, <1>6, <1>8, <1>9

\* The same for the latch.
LEMMA MappedLatch ==
  /\ Mapped!LatchInit <=> LatchInit
  /\ Mapped!LatchInv <=> LatchInv
  /\ [Mapped!LatchNext]_Mapped!latchVars <=> [LatchNext]_latchVars
<1>1. ASSUME NEW S PROVE Mapped!Cardinality(S) = Cardinality(S)
  BY ZenonT(40) DEF Mapped!Cardinality, Cardinality
<1>2. Mapped!LatchType <=> LatchType
  BY ZenonT(40) DEF Mapped!LatchType, LatchType
<1>3. \A f : Mapped!Readers(f) = Readers(f) /\ Mapped!Writers(f) = Writers(f)
  BY ZenonT(40) DEF Mapped!Readers, Readers, Mapped!Writers, Writers
<1>4. (Mapped!ReaderInv <=> ReaderInv) /\ (Mapped!WriterInv <=> WriterInv)
  BY ZenonT(40), <1>1, <1>3 DEF Mapped!ReaderInv, ReaderInv, Mapped!WriterInv, WriterInv
<1>5. Mapped!LatchInv <=> LatchInv
  BY ZenonT(40), <1>2, <1>4 DEF Mapped!LatchInv, LatchInv
<1>6. Mapped!LatchNext <=> LatchNext
  BY DEF Mapped!LatchNext, Mapped!TakeShared, Mapped!TakeExclusive, Mapped!DropShared,
     Mapped!DropExclusive, Mapped!Hold, LatchNext, TakeShared, TakeExclusive, DropShared,
     DropExclusive, Hold
<1>7. [Mapped!LatchNext]_Mapped!latchVars <=> [LatchNext]_latchVars
  BY ZenonT(40), <1>6 DEF Mapped!latchVars, latchVars
<1>8. Mapped!LatchInit <=> LatchInit
  BY ZenonT(40) DEF Mapped!LatchInit, LatchInit
<1> QED
  BY ZenonT(40), <1>5, <1>7, <1>8

\* What FrameLife and ContentLatch assume of the constants.
LEMMA MappedConstants == Mapped!LifeConstants /\ Mapped!LatchConstants
<1>1. ASSUME NEW S PROVE Mapped!IsFiniteSet(S) <=> IsFiniteSet(S)
  BY DEF Mapped!IsFiniteSet, IsFiniteSet
<1> QED
  BY ZenonT(40), <1>1, PoolConstants, FrameControlBounds DEF Mapped!LifeConstants, Mapped!LatchConstants

\* The invariants of FrameLife and ContentLatch hold initially and are kept.
LEMMA MappedInvariants ==
  /\ LifeInit => LifeInv
  /\ LatchInit => LatchInv
  /\ LifeInv /\ [LifeNext]_lifeVars => LifeInv'
  /\ LatchInv /\ [LatchNext]_latchVars => LatchInv'
<1>1. LifeInit => LifeInv
  BY ZenonT(40), MappedLife, MappedConstants, Mapped!LifeInitially
<1>2. LatchInit => LatchInv
  BY ZenonT(40), MappedLatch, MappedConstants, Mapped!LatchInitially
<1>3. LifeInv /\ [LifeNext]_lifeVars => LifeInv'
  <2>1. Mapped!LifeInv' <=> LifeInv'
    BY MappedLife, PTL
  <2> QED
    BY ZenonT(40), <2>1, MappedLife, MappedConstants, Mapped!LifeStep
<1>4. LatchInv /\ [LatchNext]_latchVars => LatchInv'
  <2>1. Mapped!LatchInv' <=> LatchInv'
    BY MappedLatch, PTL
  <2> QED
    BY ZenonT(40), <2>1, MappedLatch, MappedConstants, Mapped!LatchStep
<1> QED
  BY ZenonT(40), <1>1, <1>2, <1>3, <1>4

\* A call that gives a pin back has one.
LEMMA UnpinsPinned ==
  ASSUME PoolInv, NEW t \in Threads, Unpin(t)
  PROVE  W(t).pins # 0
<1>1. th[t].pc = "unpin" /\ F(t) \in Frames
  BY ZenonT(40), CallFacts DEF Unpin, At, Searching, F
<1>2. StageOf(th[t]) = "pinned"
  BY ZenonT(40), <1>1 DEF StageOf, BaseOf, FlushPlaces, WriterPlaces
<1>3. t \in Pinners(F(t))
  BY ZenonT(40), <1>2 DEF Pinners, PinStages, stageOf, heldOf, F
<1>4. PinInv
  BY DEF PoolInv, LifeInv
<1>5. pinsOf[F(t)] > 0
  BY ZenonT(40), <1>1, <1>3, <1>4, MappedLife, MappedConstants, Mapped!PinCount
<1> QED
  BY <1>1, <1>5 DEF pinsOf, W, F

\* Every step of the pool is a step or a stutter of both specifications.
LEMMA NextFollows ==
  ASSUME PoolInv, [Next]_vars
  PROVE  Follows /\ DataTypes'
<1>1. ASSUME NEW t \in Threads, Start(t) \/ ClientChoice(t) \/ Progress(t) PROVE Follows
  BY ZenonT(40), <1>1, StartSteps, ReadSteps, SearchSteps, DataSteps, FlushSteps, LatchSteps, PrepareSteps,
     PinSteps, UnpinsPinned, ReserveSteps, LoadSteps, HandleSteps, DropSteps DEF ClientChoice, Progress
<1>2. ASSUME NEW t \in Threads, Start(t) \/ ClientChoice(t) \/ Progress(t) PROVE DataTypes'
  <2>1. UNCHANGED dataVars \/ DataTypes'
    BY ZenonT(40), <1>2, DataUnchanged, DataTyped DEF ClientChoice, Progress
  <2> QED
    BY ZenonT(40), <2>1 DEF dataVars, DataTypes, PoolInv
<1>3. CASE UNCHANGED vars
  <2>1. UNCHANGED <<control, tag, key, free, th>> /\ UNCHANGED dataVars
    BY ZenonT(40), <1>3 DEF vars, dataVars
  <2>2. UNCHANGED <<stateOf, pinsOf, sharedOf, exclusiveOf, stageOf, heldOf, wantOf, holdOf, latchedOf>>
    BY ZenonT(40), <2>1 DEF stateOf, pinsOf, sharedOf, exclusiveOf, stageOf, heldOf, wantOf, holdOf, latchedOf
  <2>3. Follows
    BY ZenonT(40), <2>1, <2>2 DEF Follows, PoolInv, CallShape, lifeVars, latchVars
  <2> QED
    BY ZenonT(40), <2>1, <2>3 DEF dataVars, DataTypes, PoolInv
<1> QED
  BY ZenonT(40), <1>1, <1>2, <1>3 DEF Next

\* The invariant is inductive.
LEMMA PoolStep == PoolInv /\ [Next]_vars => PoolInv'
<1> SUFFICES ASSUME PoolInv, [Next]_vars PROVE PoolInv'
  BY ZenonT(40)
<1>1. LifeInv'
  BY ZenonT(40), NextFollows, MappedInvariants DEF Follows, PoolInv
<1>2. LatchInv'
  BY ZenonT(40), NextFollows, MappedInvariants DEF Follows, PoolInv
<1> QED
  BY ZenonT(40), <1>1, <1>2, NextFollows DEF Follows, PoolInv

\* The pool starts with every frame free and no call in progress.
LEMMA PoolInitially == Init => PoolInv /\ LifeInit /\ LatchInit
<1> SUFFICES ASSUME Init PROVE PoolInv /\ LifeInit /\ LatchInit
  BY ZenonT(40)
<1>1. th = [t \in Threads |-> IdleThread] /\ control = [f \in Frames |-> FreeWord]
  BY ZenonT(40) DEF Init
<1>2. /\ FreeWord \in Word /\ FreeWord.state = "Free" /\ FreeWord.pins = 0
      /\ FreeWord.shared = 0 /\ FreeWord.exclusive = FALSE
  BY DEF FreeWord, Word, States
<1>3. th \in [Threads -> Thread] /\ control \in [Frames -> Word]
  BY ZenonT(40), <1>1, <1>2, IdleRecord
<1>4. StageOf(IdleThread) = "none" /\ HoldOf(IdleThread) = "none" /\ Shape(IdleThread)
  BY ZenonT(40), IdleRecord DEF StageOf, HoldOf, BaseOf, FlushPlaces, WriterPlaces, LatchedPlaces, Shape, Returns, Searching
<1>5. CallShape
  BY ZenonT(40), <1>1, <1>4 DEF CallShape
<1>6. DataTypes
  BY PoolConstants DEF Init, DataTypes, Content
<1>7. LifeInit
  BY ZenonT(40), <1>1, <1>2, <1>4 DEF Init, LifeInit, stateOf, pinsOf, stageOf, heldOf, wantOf
<1>8. LatchInit
  BY ZenonT(40), <1>1, <1>2, <1>4 DEF LatchInit, sharedOf, exclusiveOf, holdOf, latchedOf
<1> QED
  BY ZenonT(40), <1>3, <1>5, <1>6, <1>7, <1>8, MappedInvariants DEF PoolInv

\* Every behaviour of the pool keeps the invariant.
THEOREM PoolSafe == Spec => []PoolInv
<1>1. Init => PoolInv
  BY ZenonT(40), PoolInitially
<1> QED
  BY <1>1, PoolStep, PTL DEF Spec

-----------------------------------------------------------------------------
(* The pool implements FrameLife and ContentLatch.                         *)

\* Every behaviour of the pool is a behaviour of FrameLife: whatever its calls
\* race for, only the owner of a frame loads, maps, retags or frees it.
THEOREM ImplementsFrameLife == Spec => KeepsFrameLife
<1>1. Init => LifeInit
  BY ZenonT(40), PoolInitially
<1>2. PoolInv /\ [Next]_vars => [UNCHANGED lifeVars \/ LifeNext]_lifeVars
  BY ZenonT(40), NextFollows DEF Follows
<1> QED
  BY <1>1, <1>2, PoolSafe, PTL DEF Spec, KeepsFrameLife

\* Every behaviour of the pool is a behaviour of ContentLatch: the bits that
\* it packs with the rest of the control word stay a readers-writer latch.
THEOREM ImplementsContentLatch == Spec => KeepsContentLatch
<1>1. Init => LatchInit
  BY ZenonT(40), PoolInitially
<1>2. PoolInv /\ [Next]_vars => [UNCHANGED latchVars \/ LatchNext]_latchVars
  BY ZenonT(40), NextFollows DEF Follows
<1> QED
  BY <1>1, <1>2, PoolSafe, PTL DEF Spec, KeepsContentLatch

-----------------------------------------------------------------------------
(* What that means for frames, pages, pins and latches.                    *)

\* The claims and latches, read off the calls.
LEMMA HoldersMapped ==
  ASSUME PoolInv, NEW t \in Threads, NEW f \in Frames
  PROVE  /\ Owns(t, f) <=> Owner(t, f)
         /\ HoldsPin(t, f) <=> t \in Pinners(f)
         /\ HoldsShared(t, f) /\ ~HoldsExclusive(t, f) <=> t \in Readers(f)
         /\ HoldsExclusive(t, f) <=> t \in Writers(f)
<1>a. th[t] \in Thread /\ Shape(th[t])
  BY ZenonT(40), CallFacts
<1>b. th[t].pc \in FlushPlaces =>
        th[t].ret \in {"idle", "unpin", "reserve", "reading", "writing", "marked", "written"}
  BY ZenonT(40), <1>a DEF Shape, Returns, FlushPlaces
<1>1. Owns(t, f) <=> th[t].frame = f /\ StageOf(th[t]) \in OwnerStages
  BY ZenonT(40), <1>b DEF Owns, StageOf, BaseOf, FlushPlaces, WriterPlaces, LoadPlaces, DropPlaces, OwnerStages, LoadStages
<1>2. HoldsPin(t, f) <=> th[t].frame = f /\ StageOf(th[t]) \in PinStages
  <2>1. CASE th[t].pc \in FlushPlaces
    <3>1. BaseOf(th[t]) = th[t].ret
      BY ZenonT(40), <2>1 DEF BaseOf
    <3>2. Base(t) \in {"idle", "unpin", "reserve", "reading", "writing", "marked", "written"}
      BY ZenonT(40), <1>b, <2>1, <3>1 DEF Base
    <3> QED
      BY ZenonT(40), <2>1, <3>1, <3>2 DEF HoldsPin, Base, StageOf, FlushPlaces, WriterPlaces, LoadPlaces, PinStages, LoadStages
  <2>2. CASE th[t].pc \notin FlushPlaces
    <3>1. BaseOf(th[t]) = th[t].pc
      BY ZenonT(40), <2>2 DEF BaseOf
    <3> QED
      BY ZenonT(40), <3>1 DEF HoldsPin, Base, StageOf, WriterPlaces, LoadPlaces, PinStages, LoadStages
  <2> QED
    BY ZenonT(40), <2>1, <2>2
<1>3. HoldsExclusive(t, f) <=> th[t].frame = f /\ HoldOf(th[t]) = "exclusive"
  BY ZenonT(40), <1>a, <1>b DEF HoldsExclusive, Base, BaseOf, HoldOf, FlushPlaces, WriterPlaces, LatchedPlaces, Shape, Returns
<1>4. HoldsShared(t, f) /\ ~HoldsExclusive(t, f) <=> th[t].frame = f /\ HoldOf(th[t]) = "shared"
  BY ZenonT(40), <1>a, <1>b DEF HoldsShared, HoldsExclusive, Base, BaseOf, HoldOf, TakesLatch, FlushPlaces, WriterPlaces,
     LatchedPlaces, Shape, Returns
<1>5. /\ stageOf[t] = StageOf(th[t]) /\ (StageOf(th[t]) # "none" => heldOf[t] = th[t].frame)
      /\ holdOf[t] = HoldOf(th[t]) /\ (HoldOf(th[t]) # "none" => latchedOf[t] = th[t].frame)
  BY ZenonT(40) DEF stageOf, heldOf, holdOf, latchedOf
<1>6. Owns(t, f) <=> Owner(t, f)
  BY ZenonT(40), <1>1, <1>5 DEF Owner, OwnerStages, LoadStages
<1>7. HoldsPin(t, f) <=> t \in Pinners(f)
  BY ZenonT(40), <1>2, <1>5 DEF Pinners, PinStages, LoadStages
<1>8. HoldsShared(t, f) /\ ~HoldsExclusive(t, f) <=> t \in Readers(f)
  BY ZenonT(40), <1>4, <1>5 DEF Readers
<1>9. HoldsExclusive(t, f) <=> t \in Writers(f)
  BY ZenonT(40), <1>3, <1>5 DEF Writers
<1> QED
  BY ZenonT(40), <1>6, <1>7, <1>8, <1>9

\* A call does not hold the latch both ways.
LEMMA OneLatch ==
  ASSUME PoolInv, NEW t \in Threads, NEW f \in Frames, HoldsShared(t, f)
  PROVE  ~HoldsExclusive(t, f)
<1>1. th[t] \in Thread /\ Shape(th[t])
  BY ZenonT(40), CallFacts
<1> QED
  BY ZenonT(40), <1>1 DEF HoldsShared, HoldsExclusive, Base, BaseOf, FlushPlaces, WriterPlaces, LatchedPlaces, TakesLatch, Shape, Returns

\* The control words keep their width: no pin and no reader overflows into the
\* next field or underflows, and every variable keeps its type.
THEOREM TypesKept == Spec => []TypeOK
<1>1. PoolInv => TypeOK
  <2> SUFFICES ASSUME PoolInv PROVE TypeOK
    BY ZenonT(40)
  <2>1. control \in [Frames -> ControlWord]
    <3>1. ASSUME NEW f \in Frames PROVE control[f] \in ControlWord
      <4>1. control[f] \in Word
        BY ZenonT(40) DEF PoolInv
      <4>2. pinsOf[f] \in 0 .. MaxPins /\ sharedOf[f] \in 0 .. MaxShared
        BY ZenonT(40) DEF PoolInv, LifeInv, LifeType, LatchInv, LatchType
      <4>3. control[f].pins \in 0 .. MaxPins /\ control[f].shared \in 0 .. MaxShared
        BY ZenonT(40), <4>2 DEF pinsOf, sharedOf
      <4> QED
        BY ZenonT(40), <4>1, <4>3 DEF Word, ControlWord
    <3> QED
      BY ZenonT(40), <3>1 DEF PoolInv
  <2> QED
    BY ZenonT(40), <2>1 DEF PoolInv, DataTypes, LifeInv, LifeType, TypeOK
<1> QED
  BY <1>1, PoolSafe, PTL

\* Two resident frames with one tag are one frame.
LEMMA PageInOneFrame == PoolInv => SingleCopy
<1> SUFFICES ASSUME PoolInv, NEW f \in Frames, NEW g \in Frames, IsResident(control[f]),
                    IsResident(control[g]), tag[f] = tag[g]
             PROVE  f = g
  BY DEF SingleCopy
<1>1. stateOf[f] = "Resident" /\ stateOf[g] = "Resident"
  BY ZenonT(40) DEF stateOf, IsResident
<1>2. HoldsPage(f) /\ HoldsPage(g)
  BY ZenonT(40), <1>1 DEF PoolInv, LifeInv, OwnerInv, HoldsPage
<1> QED
  BY ZenonT(40), <1>2 DEF PoolInv, LifeInv, CopyInv

\* A page has at most one resident frame, for any number of threads and frames.
THEOREM OneCopy == Spec => []SingleCopy
  BY PageInOneFrame, PoolSafe, PTL

\* A frame is free, resident, or owned by exactly one call.
THEOREM OneOwner == Spec => []FrameOwnership
<1>1. PoolInv => FrameOwnership
  <2> SUFFICES ASSUME PoolInv, NEW f \in Frames
               PROVE  LET owners == {t \in Threads : Owns(t, f)} IN
                      /\ Cardinality(owners) <= 1
                      /\ f \in free => owners = {} /\ control[f].state = "Free" /\ key[f] = NoTag
                      /\ IsResident(control[f]) => owners = {} /\ f \notin free /\ key[f] = tag[f]
                      /\ f \in free \/ IsResident(control[f]) \/ owners # {}
    BY ZenonT(40) DEF FrameOwnership
  <2> DEFINE owners == {t \in Threads : Owns(t, f)}
  <2>1. owners = {t \in Threads : Owner(t, f)}
    BY ZenonT(40), HoldersMapped
  <2>2. stateOf[f] = control[f].state
    BY ZenonT(40) DEF stateOf
  <2>3. OwnerInv /\ StageInv
    BY ZenonT(40) DEF PoolInv, LifeInv
  <2>4. Cardinality(owners) <= 1
    <3>1. CASE owners = {}
      BY <3>1, CountNone
    <3>2. ASSUME NEW t \in owners PROVE Cardinality(owners) <= 1
      <4>1. owners = {t}
        BY ZenonT(40), <2>1, <2>3, <3>2 DEF OwnerInv
      <4>2. Cardinality({t}) = 1
        BY ZenonT(40), CountOne
      <4> QED
        BY <4>1, <4>2
    <3> QED
      BY ZenonT(40), <3>1, <3>2
  <2>5. stateOf[f] = "Resident" => \A t \in Threads : ~Owner(t, f)
    BY ZenonT(40), <2>3 DEF StageInv, Owner, OwnerStages
  <2> QED
    BY ZenonT(40), <2>1, <2>2, <2>3, <2>4, <2>5 DEF OwnerInv, IsResident
<1> QED
  BY <1>1, PoolSafe, PTL

\* The pin count of a frame is the number of calls that pin it.
THEOREM PinsExact == Spec => []PinsMatchHolders
<1>1. PoolInv => PinsMatchHolders
  <2> SUFFICES ASSUME PoolInv, NEW f \in Frames
               PROVE  control[f].pins = Cardinality({t \in Threads : HoldsPin(t, f)})
    BY ZenonT(40) DEF PinsMatchHolders
  <2>1. {t \in Threads : HoldsPin(t, f)} = Pinners(f)
    BY ZenonT(40), HoldersMapped DEF Pinners
  <2>2. pinsOf[f] = Cardinality(Pinners(f))
    BY ZenonT(40) DEF PoolInv, LifeInv, PinInv
  <2> QED
    BY ZenonT(40), <2>1, <2>2 DEF pinsOf
<1> QED
  BY <1>1, PoolSafe, PTL

\* The latch bits of a frame are its holders, and a writer is alone.
THEOREM LatchesExact == Spec => []LatchesMatchHolders
<1>1. PoolInv => LatchesMatchHolders
  <2> SUFFICES ASSUME PoolInv, NEW f \in Frames
               PROVE  LET readers == {t \in Threads : HoldsShared(t, f)}
                          writers == {t \in Threads : HoldsExclusive(t, f)}
                      IN /\ control[f].shared = Cardinality(readers)
                         /\ control[f].exclusive <=> writers # {}
                         /\ Cardinality(writers) <= 1
                         /\ writers # {} => readers = {}
    BY ZenonT(40) DEF LatchesMatchHolders
  <2> DEFINE readers == {t \in Threads : HoldsShared(t, f)}
             writers == {t \in Threads : HoldsExclusive(t, f)}
  <2>1. readers = Readers(f)
    BY ZenonT(40), HoldersMapped, OneLatch DEF Readers
  <2>2. writers = Writers(f)
    BY ZenonT(40), HoldersMapped DEF Writers
  <2>3. sharedOf[f] = control[f].shared /\ exclusiveOf[f] = control[f].exclusive
    BY ZenonT(40) DEF sharedOf, exclusiveOf
  <2>4. ReaderInv /\ WriterInv
    BY DEF PoolInv, LatchInv
  <2>5. Cardinality(writers) <= 1
    <3>1. CASE writers = {}
      BY <3>1, CountNone
    <3>2. ASSUME NEW t \in writers PROVE Cardinality(writers) <= 1
      <4>1. writers = {t}
        BY <2>2, <2>4, <3>2 DEF WriterInv
      <4>2. Cardinality({t}) = 1
        BY ZenonT(40), CountOne
      <4> QED
        BY <4>1, <4>2
    <3> QED
      BY ZenonT(40), <3>1, <3>2
  <2>6. sharedOf[f] = Cardinality(Readers(f)) /\ (exclusiveOf[f] <=> Writers(f) # {})
        /\ (exclusiveOf[f] => Readers(f) = {})
    BY ZenonT(40), <2>4 DEF ReaderInv, WriterInv
  <2> QED
    BY ZenonT(40), <2>1, <2>2, <2>3, <2>5, <2>6
<1> QED
  BY <1>1, PoolSafe, PTL

=============================================================================
