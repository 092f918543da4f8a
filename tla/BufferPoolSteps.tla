--------------------------- MODULE BufferPoolSteps --------------------------
(***************************************************************************)
(* The steps of BufferPool are steps or stutters of FrameLife and of       *)
(* ContentLatch, and keep the shape of calls.  First what a transition of  *)
(* a control word, or a move in the record of a call, does to the claims   *)
(* of FrameLife and the holders of ContentLatch; then the steps, up to the *)
(* ones that publish and drop, which BufferPoolProofs adds.                *)
(***************************************************************************)
EXTENDS BufferPoolLife, BufferPoolCalls

-----------------------------------------------------------------------------
(* Moves of words and of calls.                                            *)

\* What a step that writes one control word does to the mapped variables.
LEMMA WordWritten ==
  ASSUME control \in [Frames -> Word], NEW f \in Frames, NEW w \in Word,
         control' = [control EXCEPT ![f] = w]
  PROVE  /\ control' \in [Frames -> Word]
         /\ stateOf' = [stateOf EXCEPT ![f] = w.state]
         /\ pinsOf' = [pinsOf EXCEPT ![f] = w.pins]
         /\ sharedOf' = [sharedOf EXCEPT ![f] = w.shared]
         /\ exclusiveOf' = [exclusiveOf EXCEPT ![f] = w.exclusive]
         /\ stateOf[f] = control[f].state /\ pinsOf[f] = control[f].pins
         /\ sharedOf[f] = control[f].shared /\ exclusiveOf[f] = control[f].exclusive
         /\ w.state = control[f].state => stateOf' = stateOf
         /\ w.pins = control[f].pins => pinsOf' = pinsOf
         /\ w.shared = control[f].shared => sharedOf' = sharedOf
         /\ w.exclusive = control[f].exclusive => exclusiveOf' = exclusiveOf
<1> HIDE DEF Word
<1> QED
  BY ZenonT(40) DEF stateOf, pinsOf, sharedOf, exclusiveOf

-----------------------------------------------------------------------------
(* The induction.  A step must keep types and shapes, and be a step of     *)
(* FrameLife and of ContentLatch; their invariants follow.                 *)

PoolInv ==
  /\ th \in [Threads -> Thread]
  /\ control \in [Frames -> Word]
  /\ DataTypes
  /\ CallShape
  /\ LifeInv
  /\ LatchInv

Follows ==
  /\ th' \in [Threads -> Thread]
  /\ control' \in [Frames -> Word]
  /\ CallShape'
  /\ [LifeNext]_lifeVars
  /\ [LatchNext]_latchVars

\* The claim and the latch of t stay what they are.
KeepsClaim(t) ==
  /\ StageOf(th'[t]) = StageOf(th[t])
  /\ StageOf(th[t]) = "none" \/ (th'[t].frame = th[t].frame /\ th'[t].want = th[t].want)
KeepsLatch(t) ==
  /\ HoldOf(th'[t]) = HoldOf(th[t])
  /\ HoldOf(th[t]) = "none" \/ th'[t].frame = th[t].frame

\* What a move of t does to the mapped claims.
LEMMA ClaimsMoved ==
  ASSUME NEW t \in Threads, Moves(t)
  PROVE  /\ stageOf' = [stageOf EXCEPT ![t] = StageOf(th'[t])]
         /\ heldOf' = [heldOf EXCEPT ![t] = IF StageOf(th'[t]) = "none" THEN NoFrame ELSE th'[t].frame]
         /\ wantOf' = [wantOf EXCEPT ![t] = IF StageOf(th'[t]) = "none" THEN NoTag ELSE th'[t].want]
         /\ stageOf[t] = StageOf(th[t])
         /\ StageOf(th[t]) # "none" => heldOf[t] = th[t].frame /\ wantOf[t] = th[t].want
         /\ KeepsClaim(t) => UNCHANGED <<stageOf, heldOf, wantOf>>
<1>1. /\ stageOf' = [stageOf EXCEPT ![t] = StageOf(th'[t])]
      /\ stageOf[t] = StageOf(th[t])
      /\ StageOf(th'[t]) = StageOf(th[t]) => stageOf' = stageOf
  BY ZenonT(40) DEF Moves, stageOf
<1>2. /\ heldOf' = [heldOf EXCEPT ![t] = IF StageOf(th'[t]) = "none" THEN NoFrame ELSE th'[t].frame]
      /\ StageOf(th[t]) # "none" => heldOf[t] = th[t].frame
      /\ KeepsClaim(t) => heldOf' = heldOf
  BY ZenonT(40) DEF Moves, heldOf, KeepsClaim
<1>3. /\ wantOf' = [wantOf EXCEPT ![t] = IF StageOf(th'[t]) = "none" THEN NoTag ELSE th'[t].want]
      /\ StageOf(th[t]) # "none" => wantOf[t] = th[t].want
      /\ KeepsClaim(t) => wantOf' = wantOf
  BY ZenonT(40) DEF Moves, wantOf, KeepsClaim
<1> QED
  BY <1>1, <1>2, <1>3 DEF KeepsClaim

\* What a move of t does to the mapped latches.
LEMMA LatchesMoved ==
  ASSUME NEW t \in Threads, Moves(t)
  PROVE  /\ holdOf' = [holdOf EXCEPT ![t] = HoldOf(th'[t])]
         /\ latchedOf' = [latchedOf EXCEPT ![t] = IF HoldOf(th'[t]) = "none" THEN NoFrame ELSE th'[t].frame]
         /\ holdOf[t] = HoldOf(th[t])
         /\ HoldOf(th[t]) # "none" => latchedOf[t] = th[t].frame
         /\ KeepsLatch(t) => UNCHANGED <<holdOf, latchedOf>>
<1>1. /\ holdOf' = [holdOf EXCEPT ![t] = HoldOf(th'[t])]
      /\ holdOf[t] = HoldOf(th[t])
      /\ HoldOf(th'[t]) = HoldOf(th[t]) => holdOf' = holdOf
  BY ZenonT(40) DEF Moves, holdOf
<1>2. /\ latchedOf' = [latchedOf EXCEPT ![t] = IF HoldOf(th'[t]) = "none" THEN NoFrame ELSE th'[t].frame]
      /\ HoldOf(th[t]) # "none" => latchedOf[t] = th[t].frame
      /\ KeepsLatch(t) => latchedOf' = latchedOf
  BY ZenonT(40) DEF Moves, latchedOf, KeepsLatch
<1> QED
  BY <1>1, <1>2 DEF KeepsLatch

\* A step that leaves the claims and the frames alone is a stutter of FrameLife.
LEMMA LifeStutters ==
  ASSUME NEW t \in Threads, Moves(t), KeepsClaim(t), UNCHANGED <<tag, key, free, stateOf, pinsOf>>
  PROVE  [LifeNext]_lifeVars
BY ClaimsMoved DEF lifeVars

\* A step that leaves the latches alone is a stutter of ContentLatch.
LEMMA LatchStutters ==
  ASSUME NEW t \in Threads, Moves(t), KeepsLatch(t), UNCHANGED <<sharedOf, exclusiveOf>>
  PROVE  [LatchNext]_latchVars
BY LatchesMoved DEF latchVars

\* The shapes of the other calls do not change.
LEMMA ShapesKept ==
  ASSUME PoolInv, NEW t \in Threads, Moves(t), Shape(th'[t])
  PROVE  CallShape'
BY DEF PoolInv, Moves, CallShape

\* Nothing mapped changes.
LEMMA CallMoves ==
  ASSUME PoolInv, NEW t \in Threads, Moves(t), Shape(th'[t]), KeepsClaim(t), KeepsLatch(t),
         UNCHANGED <<control, tag, key, free>>
  PROVE  Follows
<1>1. UNCHANGED <<stateOf, pinsOf, sharedOf, exclusiveOf>>
  BY DEF stateOf, pinsOf, sharedOf, exclusiveOf
<1> QED
  BY <1>1, ShapesKept, LifeStutters, LatchStutters DEF Follows, Moves, PoolInv

\* One word changes, in nothing that is mapped.
LEMMA WordMoves ==
  ASSUME PoolInv, NEW t \in Threads, Moves(t), Shape(th'[t]), KeepsClaim(t), KeepsLatch(t),
         UNCHANGED <<tag, key, free>>, NEW f \in Frames, NEW w \in Word, SameWord(w, control[f]),
         control' = [control EXCEPT ![f] = w]
  PROVE  Follows
<1>1. UNCHANGED <<stateOf, pinsOf, sharedOf, exclusiveOf>> /\ control' \in [Frames -> Word]
  BY ZenonT(40), WordWritten DEF SameWord, PoolInv
<1> QED
  BY <1>1, ShapesKept, LifeStutters, LatchStutters DEF Follows, Moves

-----------------------------------------------------------------------------
(* Steps that change nothing mapped.                                       *)

\* What a step may use of the call it moves.
LEMMA CallFacts ==
  ASSUME PoolInv, NEW t \in Threads
  PROVE  /\ th \in [Threads -> Thread] /\ th[t] \in Thread /\ Shape(th[t])
         /\ th[t].pc \notin Searching =>
              th[t].frame \in Frames /\ W(t) \in Word /\ W(t) = control[th[t].frame]
  BY DEF PoolInv, CallShape, Shape, W

\* A call without a claim or a latch goes on somewhere else in its search.
LEMMA Resumes ==
  ASSUME PoolInv, NEW t \in Threads,
         NEW l \in {"idle", "lookup", "miss", "acquire", "scan", "isloading", "isloadingtag",
                    "waitload", "peektag", "dscan", "dscanstate", "pin"},
         Continue(t, l), th[t].pc # "idle",
         StageOf(th[t]) = "none", HoldOf(th[t]) = "none",
         l \notin Searching => th[t].frame \in Frames,
         th[t].op \in {"flushall", "clean"} => l = "idle",
         th[t].op = "drop" => l \in Dropping \cup {"idle"},
         UNCHANGED <<control, tag, key, free>>
  PROVE  Follows
<1>1. l \in Places
  BY DEF Places
<1>2. \/ l = "idle" /\ Becomes(t, l, "none", NoTag, NoFrame, "none", "none", "idle")
      \/ /\ l \in {"lookup", "miss", "acquire"}
         /\ Becomes(t, l, th[t].op, th[t].want, NoFrame, "none", "none", "idle")
      \/ /\ l \notin {"idle", "lookup", "miss", "acquire"}
         /\ Becomes(t, l, th[t].op, th[t].want, th[t].frame, th[t].from, "none", "idle")
  BY ZenonT(40), <1>1, ContinueFields, CallFacts
<1>3. Shape(th'[t])
  BY ZenonT(40), <1>2, CallFacts DEF Becomes, Shape, Returns, Searching, Dropping, FlushPlaces
<1>4. KeepsClaim(t) /\ KeepsLatch(t)
  BY ZenonT(40), <1>2 DEF Becomes, KeepsClaim, KeepsLatch, StageOf, HoldOf, BaseOf, FlushPlaces, WriterPlaces, LatchedPlaces
<1> QED
  BY <1>2, <1>3, <1>4, BecomesMoves, CallMoves

\* The call of t alone moves, and keeps what it has.
Quiet(t) == Moves(t) /\ Shape(th'[t]) /\ KeepsClaim(t) /\ KeepsLatch(t)

\* A quiet move is a stutter, whether or not it writes a quiet word.
LEMMA QuietFollows ==
  ASSUME PoolInv, NEW t \in Threads, Quiet(t), UNCHANGED <<tag, key, free>>
  PROVE  /\ UNCHANGED control => Follows
         /\ \A w \in Word : th[t].frame \in Frames /\ SameWord(w, W(t)) /\ SetControl(t, w) => Follows
  BY CallMoves, WordMoves DEF Quiet, SetControl, F, W

\* The places between which a call goes without gaining or losing anything.
QuietGoto(r, l) ==
  \/ r.pc = "load" /\ r.op # "zero" /\ l \in {"publish", "abort"}
  \/ r.pc = "load" /\ r.op = "zero" /\ l = "zerolatch"
  \/ r.pc \in WriterPlaces /\ l \in WriterPlaces
  \/ r.pc = "dropcount" /\ l = "dropremove"
  \/ /\ r.pc \in FlushPlaces \ {"flush"} /\ l \in FlushPlaces /\ r.op # "drop"
     /\ r.mode \in {"block", "try", "clean"} => (l \in LatchedPlaces <=> r.pc \in LatchedPlaces)
     /\ l \in {"flush", "unlatch_task", "unlatch_clean", "unlatch_fail", "unlatch_busy"} =>
          r.mode \in {"block", "try", "clean"}
     /\ l = "unlatch_busy" => r.mode # "block"

\* A call that only changes its place so makes a quiet move.
LEMMA QuietPlaces ==
  ASSUME PoolInv, NEW t \in Threads, NEW l \in Places, QuietGoto(th[t], l),
         Becomes(t, l, th[t].op, th[t].want, th[t].frame, th[t].from, th[t].mode, th[t].ret)
  PROVE  Quiet(t)
<1>0. Shape(th[t])
  BY ZenonT(40), CallFacts
<1>1. /\ th'[t].pc = l /\ th'[t].op = th[t].op /\ th'[t].want = th[t].want
      /\ th'[t].frame = th[t].frame /\ th'[t].from = th[t].from
      /\ th'[t].mode = th[t].mode /\ th'[t].ret = th[t].ret
  BY ZenonT(40) DEF Becomes
<1>2. CASE th[t].pc \in FlushPlaces
  <2>1. /\ l \in FlushPlaces /\ th[t].op # "drop"
        /\ th[t].mode \in {"block", "try", "clean"} => (l \in LatchedPlaces <=> th[t].pc \in LatchedPlaces)
        /\ l \in {"flush", "unlatch_task", "unlatch_clean", "unlatch_fail", "unlatch_busy"} =>
             th[t].mode \in {"block", "try", "clean"}
        /\ l = "unlatch_busy" => th[t].mode # "block"
    BY ZenonT(40), <1>2 DEF QuietGoto, FlushPlaces, WriterPlaces
  <2>2. /\ th[t].pc \notin Searching /\ l \notin Searching /\ l # "zerolatch"
        /\ BaseOf(th[t]) = th[t].ret /\ BaseOf(th'[t]) = th[t].ret
    BY ZenonT(40), <1>1, <1>2, <2>1 DEF Searching, FlushPlaces, BaseOf
  <2>0. ASSUME NEW p \in FlushPlaces
        PROVE  /\ p \notin {"unpin", "push", "cleartag", "release", "storetag", "install", "load"}
               /\ p \notin {"zerolatch", "publish", "abort", "dropcount", "dropremove", "droptag", "reserve"}
    BY ZenonT(40) DEF FlushPlaces
  <2>3. Returns(th'[t]) = Returns(th[t])
    BY ZenonT(40), <1>1, <1>2, <2>0, <2>1 DEF Returns
  <2>4. Shape(th'[t])
    BY ZenonT(40), <1>0, <1>1, <2>1, <2>2, <2>3 DEF Shape, Searching
  <2>5. StageOf(th'[t]) = StageOf(th[t])
    <3>1. /\ th[t].pc \notin {"storetag", "install", "load", "zerolatch", "publish", "abort", "cleartag", "release"}
          /\ th[t].pc \notin {"dropcount", "dropremove", "droptag", "push", "reserve"}
      BY ZenonT(40), <1>2, <2>0
    <3>2. /\ l \notin {"storetag", "install", "load", "zerolatch", "publish", "abort", "cleartag", "release"}
          /\ l \notin {"dropcount", "dropremove", "droptag", "push", "reserve"}
      BY ZenonT(40), <2>0, <2>1
    <3>3. CASE th[t].ret \in {"check", "unpin"}
      BY ZenonT(40), <1>1, <2>2, <3>1, <3>2, <3>3 DEF StageOf, WriterPlaces
    <3>4. CASE th[t].ret \in {"latch", "reading", "discard", "waitlatch"} \cup WriterPlaces
      BY ZenonT(40), <1>1, <2>2, <3>1, <3>2, <3>4 DEF StageOf, WriterPlaces
    <3>5. CASE th[t].ret \notin {"check", "unpin"} \cup ({"latch", "reading", "discard", "waitlatch"} \cup WriterPlaces)
      <4>1. StageOf(th[t]) = "none"
        BY ZenonT(40), <2>2, <3>1, <3>5 DEF StageOf
      <4>2. StageOf(th'[t]) = "none"
        BY ZenonT(40), <1>1, <2>2, <3>2, <3>5 DEF StageOf
      <4> QED
        BY ZenonT(40), <4>1, <4>2
    <3> QED
      BY ZenonT(40), <3>3, <3>4, <3>5
  <2>6. HoldOf(th'[t]) = HoldOf(th[t])
    BY ZenonT(40), <1>1, <1>2, <2>0, <2>1, <2>2 DEF HoldOf
  <2> QED
    BY ZenonT(40), <1>1, <2>4, <2>5, <2>6, BecomesMoves DEF Quiet, KeepsClaim, KeepsLatch
<1>3. CASE th[t].pc \notin FlushPlaces
  <2>1. \/ th[t].pc = "load" /\ l \in {"publish", "abort"} /\ th[t].op # "zero"
        \/ th[t].pc = "load" /\ l = "zerolatch" /\ th[t].op = "zero"
        \/ th[t].pc \in WriterPlaces /\ l \in WriterPlaces
        \/ th[t].pc = "dropcount" /\ l = "dropremove"
    BY ZenonT(40), <1>3 DEF QuietGoto
  <2>2. /\ th[t].pc \notin Searching /\ l \notin Searching /\ l \notin FlushPlaces
        /\ BaseOf(th[t]) = th[t].pc /\ BaseOf(th'[t]) = l
    BY ZenonT(40), <1>1, <1>3, <2>1 DEF Searching, FlushPlaces, WriterPlaces, BaseOf
  <2>3. Returns(th'[t]) = {"idle"} /\ Returns(th[t]) = {"idle"}
    BY ZenonT(40), <1>1, <1>3, <2>1, <2>2 DEF Returns, WriterPlaces
  <2>4. th[t].op = "drop" => l \in Dropping
    BY ZenonT(40), <1>0, <2>1 DEF Shape, Dropping, WriterPlaces
  <2>5. /\ th[t].op \notin {"flushall", "clean"}
        /\ l \notin {"flush", "unlatch_task", "unlatch_clean", "unlatch_fail", "unlatch_busy"}
        /\ l = "zerolatch" => th[t].op = "zero"
    BY ZenonT(40), <1>0, <1>3, <2>1, <2>2 DEF Shape, FlushPlaces, WriterPlaces
  <2>6. Shape(th'[t])
    BY ZenonT(40), <1>0, <1>1, <2>2, <2>3, <2>4, <2>5 DEF Shape, Searching
  <2>7. StageOf(th'[t]) = StageOf(th[t])
    BY ZenonT(40), <1>1, <2>1, <2>2 DEF StageOf, WriterPlaces
  <2>8. HoldOf(th'[t]) = HoldOf(th[t])
    BY ZenonT(40), <1>1, <2>1, <2>2 DEF HoldOf, WriterPlaces, LatchedPlaces
  <2> QED
    BY ZenonT(40), <1>1, <2>6, <2>7, <2>8, BecomesMoves DEF Quiet, KeepsClaim, KeepsLatch
<1> QED
  BY ZenonT(40), <1>2, <1>3

\* Goto between two such places is quiet.
LEMMA QuietSteps ==
  ASSUME PoolInv, NEW t \in Threads, NEW l \in Places, QuietGoto(th[t], l), Goto(t, l)
  PROVE  Quiet(t)
  BY ZenonT(40), QuietPlaces, GotoFields, CallFacts

\* A flush that no longer holds a latch of its own returns to its caller.
LEMMA FlushReturns ==
  ASSUME PoolInv, NEW t \in Threads, th[t].pc \in FlushPlaces, th[t].op # "drop",
         th[t].pc \notin LatchedPlaces \/ th[t].mode \notin {"block", "try", "clean"},
         Continue(t, th[t].ret) \/ FlushFails(t)
  PROVE  Quiet(t)
<1>0. th \in [Threads -> Thread] /\ th[t] \in Thread /\ Shape(th[t])
  BY ZenonT(40), CallFacts
<1>1. th[t].ret \in {"idle", "unpin", "reserve", "reading", "writing", "marked", "written"}
  BY ZenonT(40), <1>0 DEF Shape, Returns, FlushPlaces
<1>2. PICK l \in {"idle", "unpin", "reserve", "reading", "writing", "marked", "written"} :
        Continue(t, l) /\ (l = th[t].ret \/ (l = "idle" /\ th[t].ret = "reserve"))
  BY ZenonT(40), <1>1 DEF FlushFails
<1>3. l \in Places
  BY ZenonT(40) DEF Places
<1>4. \/ l = "idle" /\ Becomes(t, l, "none", NoTag, NoFrame, "none", "none", "idle")
      \/ l # "idle" /\ Becomes(t, l, th[t].op, th[t].want, th[t].frame, th[t].from, "none", "idle")
  BY ZenonT(40), <1>0, <1>2, <1>3, ContinueFields
<1>a. /\ th[t].pc \notin Searching /\ th[t].frame \in Frames
      /\ th[t].ret = "reserve" => th[t].from = "flushed"
      /\ th[t].op \in {"flushall", "clean"} => th[t].ret = "idle"
      /\ th[t].op \notin {"flushall", "clean"} => th[t].want \in Tags
  BY ZenonT(40), <1>0 DEF Shape, Searching, FlushPlaces
<1>5. Shape(th'[t])
  <2>1. CASE l = "idle"
    <3>1. /\ th'[t].pc = "idle" /\ th'[t].op = "none" /\ th'[t].ret = "idle"
      BY ZenonT(40), <1>4, <2>1 DEF Becomes
    <3>2. Returns(th'[t]) = {"idle"}
      BY ZenonT(40), <3>1 DEF Returns, FlushPlaces
    <3> QED
      BY ZenonT(40), <3>1, <3>2 DEF Shape, Searching
  <2>2. CASE l # "idle"
    <3>1. /\ th'[t].pc = l /\ th'[t].op = th[t].op /\ th'[t].want = th[t].want
          /\ th'[t].frame = th[t].frame /\ th'[t].ret = "idle" /\ l = th[t].ret
      BY ZenonT(40), <1>2, <1>4, <2>2 DEF Becomes
    <3>2. "idle" \in Returns(th'[t])
      BY ZenonT(40), <1>2, <2>2, <3>1 DEF Returns, FlushPlaces
    <3>3. l \notin {"flush", "unlatch_task", "unlatch_clean", "unlatch_fail", "unlatch_busy", "zerolatch"}
      BY ZenonT(40), <1>2
    <3> QED
      BY ZenonT(40), <1>a, <2>2, <3>1, <3>2, <3>3 DEF Shape
  <2> QED
    BY ZenonT(40), <2>1, <2>2
<1>6. KeepsClaim(t)
  <2>1. th[t].ret = "reserve" => th[t].from = "flushed"
    BY ZenonT(40), <1>a
  <2>2. CASE l = "idle"
    <3>1. StageOf(th'[t]) = "none"
      BY ZenonT(40), <1>4, <2>2 DEF Becomes, StageOf, BaseOf, FlushPlaces, WriterPlaces
    <3>2. StageOf(th[t]) = "none"
      BY <1>2, <2>2 DEF StageOf, BaseOf, FlushPlaces, WriterPlaces
    <3> QED
      BY ZenonT(40), <3>1, <3>2 DEF KeepsClaim
  <2>3. CASE l # "idle"
    <3>1. /\ th'[t].pc = l /\ l = th[t].ret /\ th'[t].from = th[t].from
          /\ th'[t].frame = th[t].frame /\ th'[t].want = th[t].want
      BY ZenonT(40), <1>2, <1>4, <2>3 DEF Becomes
    <3>2. StageOf(th'[t]) = StageOf(th[t])
      BY ZenonT(40), <1>2, <2>1, <3>1 DEF StageOf, BaseOf, FlushPlaces, WriterPlaces
    <3> QED
      BY ZenonT(40), <3>1, <3>2 DEF KeepsClaim
  <2> QED
    BY ZenonT(40), <2>2, <2>3
<1>7. KeepsLatch(t)
  <2>1. BaseOf(th[t]) = th[t].ret
    BY ZenonT(40) DEF BaseOf
  <2>2. th[t].pc # "publish" /\ ~(th[t].pc \in LatchedPlaces /\ th[t].mode \in {"block", "try", "clean"})
    BY ZenonT(40) DEF FlushPlaces
  <2>3. CASE l = "idle"
    <3>1. th'[t].pc = "idle" /\ BaseOf(th'[t]) = "idle"
      BY ZenonT(40), <1>4, <2>3 DEF Becomes, BaseOf, FlushPlaces
    <3>2. HoldOf(th'[t]) = "none"
      BY ZenonT(40), <3>1 DEF HoldOf, WriterPlaces, LatchedPlaces
    <3>3. HoldOf(th[t]) = "none"
      BY ZenonT(40), <1>2, <2>1, <2>2, <2>3 DEF HoldOf, WriterPlaces
    <3> QED
      BY ZenonT(40), <3>2, <3>3 DEF KeepsLatch
  <2>4. CASE l # "idle"
    <3>1. th'[t].pc = l /\ l = th[t].ret /\ th'[t].frame = th[t].frame
      BY ZenonT(40), <1>2, <1>4, <2>4 DEF Becomes
    <3>2. l \notin FlushPlaces /\ l \notin LatchedPlaces /\ l # "publish"
      BY ZenonT(40), <1>2 DEF FlushPlaces, LatchedPlaces
    <3>3. BaseOf(th'[t]) = l
      BY ZenonT(40), <3>1, <3>2 DEF BaseOf
    <3>4. HoldOf(th'[t]) = HoldOf(th[t])
      BY ZenonT(40), <2>1, <2>2, <3>1, <3>2, <3>3 DEF HoldOf, WriterPlaces
    <3> QED
      BY ZenonT(40), <3>1, <3>4 DEF KeepsLatch
  <2> QED
    BY ZenonT(40), <2>3, <2>4
<1> QED
  BY ZenonT(40), <1>4, <1>5, <1>6, <1>7, BecomesMoves DEF Quiet

\* A round of a flush ends, with the latch it may have taken released.
LEMMA RoundEnds ==
  ASSUME PoolInv, NEW t \in Threads, th[t].pc \in {"complete", "completefail", "uncount"}, RoundDone(t)
  PROVE  Quiet(t)
<1> USE CallFacts
<1>1. th[t].pc \in FlushPlaces \ LatchedPlaces
  BY DEF FlushPlaces, LatchedPlaces
<1>2. th[t].op # "drop"
  BY DEF Shape, Dropping
<1>3. CASE th[t].mode \in {"block", "stable"}
  <2>1. PICK l \in {"flush", "queue"} :
          /\ l = IF TakesLatch(t) THEN "flush" ELSE "queue"
          /\ th' = [th EXCEPT ![t].pc = l, ![t].task = NoTask]
    BY <1>3 DEF RoundDone
  <2>2. l \in Places
    BY ZenonT(40) DEF Places
  <2>3. Becomes(t, l, th[t].op, th[t].want, th[t].frame, th[t].from, th[t].mode, th[t].ret)
    BY ZenonT(40), <2>1, <2>2, FieldsSet, IdleRecord
  <2>4. QuietGoto(th[t], l)
    BY <1>1, <1>2, <1>3, <2>1 DEF QuietGoto, TakesLatch, FlushPlaces, LatchedPlaces
  <2> QED
    BY ZenonT(40), <2>2, <2>3, <2>4, QuietPlaces
<1>4. CASE th[t].mode \notin {"block", "stable"}
  BY <1>1, <1>2, <1>4, FlushReturns DEF RoundDone
<1> QED
  BY ZenonT(40), <1>3, <1>4

-----------------------------------------------------------------------------
(* Steps that take or release a latch.                                     *)

\* What a step that writes the word of a call does to the mapped variables.
LEMMA WordSet ==
  ASSUME PoolInv, NEW t \in Threads, NEW f \in Frames, th[t].frame = f, NEW w \in Word, SetControl(t, w)
  PROVE  /\ control' \in [Frames -> Word]
         /\ stateOf' = [stateOf EXCEPT ![f] = w.state]
         /\ pinsOf' = [pinsOf EXCEPT ![f] = w.pins]
         /\ sharedOf' = [sharedOf EXCEPT ![f] = w.shared]
         /\ exclusiveOf' = [exclusiveOf EXCEPT ![f] = w.exclusive]
         /\ stateOf[f] = W(t).state /\ pinsOf[f] = W(t).pins
         /\ sharedOf[f] = W(t).shared /\ exclusiveOf[f] = W(t).exclusive
         /\ w.state = W(t).state => stateOf' = stateOf
         /\ w.pins = W(t).pins => pinsOf' = pinsOf
         /\ w.shared = W(t).shared => sharedOf' = sharedOf
         /\ w.exclusive = W(t).exclusive => exclusiveOf' = exclusiveOf
<1>1. control \in [Frames -> Word] /\ control' = [control EXCEPT ![f] = w]
  BY DEF PoolInv, SetControl, F
<1>2. W(t) = control[f]
  BY DEF W
<1> HIDE DEF Word
<1> QED
  BY ZenonT(40), <1>1, <1>2 DEF stateOf, pinsOf, sharedOf, exclusiveOf

\* One word changes in its latch bits, and t takes or releases that latch.
LEMMA LatchFollows ==
  ASSUME PoolInv, NEW t \in Threads, Moves(t), Shape(th'[t]), th[t].frame \in Frames,
         NEW w \in Word, SetControl(t, w), w.state = W(t).state, w.pins = W(t).pins,
         [LifeNext]_lifeVars,
         \/ /\ HoldOf(th[t]) = "none" /\ HoldOf(th'[t]) = "shared" /\ th'[t].frame = th[t].frame
            /\ CanAcquireShared(W(t)) /\ w.shared = W(t).shared + 1 /\ w.exclusive = W(t).exclusive
         \/ /\ HoldOf(th[t]) = "none" /\ HoldOf(th'[t]) = "exclusive" /\ th'[t].frame = th[t].frame
            /\ CanAcquireExclusive(W(t)) /\ w.shared = W(t).shared /\ w.exclusive = TRUE
         \/ /\ HoldOf(th[t]) = "shared" /\ HoldOf(th'[t]) = "none"
            /\ w.shared = W(t).shared - 1 /\ w.exclusive = W(t).exclusive
         \/ /\ HoldOf(th[t]) = "exclusive" /\ HoldOf(th'[t]) = "none"
            /\ w.shared = W(t).shared /\ w.exclusive = FALSE
  PROVE  Follows
<1>0. PICK f \in Frames : f = th[t].frame
  OBVIOUS
<1>2. /\ control' \in [Frames -> Word]
      /\ sharedOf' = [sharedOf EXCEPT ![f] = w.shared]
      /\ exclusiveOf' = [exclusiveOf EXCEPT ![f] = w.exclusive]
      /\ sharedOf[f] = W(t).shared /\ exclusiveOf[f] = W(t).exclusive
      /\ w.shared = W(t).shared => sharedOf' = sharedOf
      /\ w.exclusive = W(t).exclusive => exclusiveOf' = exclusiveOf
  BY <1>0, WordSet
<1>3. /\ holdOf' = [holdOf EXCEPT ![t] = HoldOf(th'[t])]
      /\ latchedOf' = [latchedOf EXCEPT ![t] = IF HoldOf(th'[t]) = "none" THEN NoFrame ELSE th'[t].frame]
      /\ holdOf[t] = HoldOf(th[t])
      /\ HoldOf(th[t]) # "none" => latchedOf[t] = f
  BY ZenonT(40), <1>0, LatchesMoved
<1>4. W(t).shared \in 0 .. MaxShared /\ W(t).exclusive \in BOOLEAN
  BY ZenonT(40), <1>2 DEF PoolInv, LatchInv, LatchType
<1>5. LatchNext
  <2>1. CASE HoldOf(th'[t]) = "shared"
    <3>1. TakeShared(t, f)
      BY ZenonT(40), <1>0, <1>2, <1>3, <2>1 DEF TakeShared, Hold, CanAcquireShared
    <3> QED
      BY ZenonT(40), <3>1 DEF LatchNext
  <2>2. CASE HoldOf(th'[t]) = "exclusive"
    <3>1. W(t).shared = 0 /\ ~W(t).exclusive
      BY <1>4, <2>2 DEF CanAcquireExclusive, Latched
    <3>2. TakeExclusive(t, f)
      BY ZenonT(40), <1>0, <1>2, <1>3, <2>2, <3>1 DEF TakeExclusive, Hold
    <3> QED
      BY <3>2 DEF LatchNext
  <2>3. CASE HoldOf(th[t]) = "shared"
    <3>1. DropShared(t)
      BY ZenonT(40), <1>2, <1>3, <2>3 DEF DropShared, Hold
    <3> QED
      BY <3>1 DEF LatchNext
  <2>4. CASE HoldOf(th[t]) = "exclusive"
    <3>1. DropExclusive(t)
      BY ZenonT(40), <1>2, <1>3, <2>4 DEF DropExclusive, Hold
    <3> QED
      BY <3>1 DEF LatchNext
  <2> QED
    BY ZenonT(40), <2>1, <2>2, <2>3, <2>4
<1> QED
  BY <1>2, <1>5, ShapesKept DEF Follows, Moves

\* A word that changes in its latch bits alone is a stutter of FrameLife.
LEMMA LatchWordStutters ==
  ASSUME PoolInv, NEW t \in Threads, Moves(t), KeepsClaim(t), th[t].frame \in Frames,
         UNCHANGED <<tag, key, free>>,
         NEW w \in Word, SetControl(t, w), w.state = W(t).state, w.pins = W(t).pins
  PROVE  [LifeNext]_lifeVars
<1>0. PICK f \in Frames : f = th[t].frame
  OBVIOUS
<1>2. stateOf' = stateOf /\ pinsOf' = pinsOf
  BY <1>0, WordSet
<1> QED
  BY <1>2, LifeStutters

\* The steps that take the latch.
LEMMA LatchSteps ==
  ASSUME PoolInv, NEW t \in Threads
  PROVE  /\ ZeroLatch(t) => Follows
         /\ AcquireLatch(t) => Follows
<1>0. {"publish", "reading", "writing"} \subseteq Places
  BY DEF Places
<1>a. th \in [Threads -> Thread] /\ th[t] \in Thread /\ Shape(th[t])
  BY ZenonT(40), CallFacts
<1>1. ASSUME ZeroLatch(t) PROVE Follows
  <2>0. th[t].pc = "zerolatch" /\ th[t].op = "zero" /\ UNCHANGED <<tag, key, free>>
    BY <1>1, <1>a DEF ZeroLatch, At, tableVars, Shape
  <2>1. th[t].frame \in Frames /\ W(t) \in Word
    BY <2>0, CallFacts DEF Searching
  <2>2. Becomes(t, "publish", th[t].op, th[t].want, th[t].frame, th[t].from, th[t].mode, th[t].ret)
    BY <1>0, <1>1, <1>a, GotoFields DEF ZeroLatch
  <2>3. Shape(th'[t])
    BY ZenonT(40), <1>a, <2>0, <2>2 DEF Becomes, Shape, Returns, Searching, Dropping, FlushPlaces
  <2>4. KeepsClaim(t) /\ HoldOf(th[t]) = "none" /\ HoldOf(th'[t]) = "exclusive" /\ th'[t].frame = th[t].frame
    BY ZenonT(40), <2>0, <2>2 DEF Becomes, KeepsClaim, StageOf, HoldOf, BaseOf, FlushPlaces, WriterPlaces, LatchedPlaces
  <2> QED
    BY ZenonT(40), <1>1, <2>0, <2>1, <2>2, <2>3, <2>4, LatchWords, BecomesMoves, LatchWordStutters, LatchFollows DEF ZeroLatch
<1>2. ASSUME AcquireLatch(t) PROVE Follows
  <2>0. th[t].pc = "latch" /\ UNCHANGED <<tag, key, free>>
    BY ZenonT(40), <1>2 DEF AcquireLatch, At, tableVars
  <2>1. th[t].frame \in Frames /\ W(t) \in Word
    BY ZenonT(40), <2>0, CallFacts DEF Searching
  <2>2. ASSUME NEW l \in {"reading", "writing"}, Goto(t, l)
        PROVE  /\ Moves(t) /\ Shape(th'[t]) /\ KeepsClaim(t) /\ th'[t].frame = th[t].frame
               /\ HoldOf(th[t]) = "none" /\ HoldOf(th'[t]) = IF l = "reading" THEN "shared" ELSE "exclusive"
    <3>1. Becomes(t, l, th[t].op, th[t].want, th[t].frame, th[t].from, th[t].mode, th[t].ret)
      BY ZenonT(40), <1>0, <1>a, <2>2, GotoFields
    <3>2. Shape(th'[t])
      BY ZenonT(40), <1>a, <2>0, <3>1 DEF Becomes, Shape, Returns, Searching, Dropping, FlushPlaces
    <3>3. /\ KeepsClaim(t) /\ HoldOf(th[t]) = "none" /\ th'[t].frame = th[t].frame
          /\ HoldOf(th'[t]) = IF l = "reading" THEN "shared" ELSE "exclusive"
      BY ZenonT(40), <2>0, <3>1 DEF Becomes, KeepsClaim, StageOf, HoldOf, BaseOf, FlushPlaces, WriterPlaces, LatchedPlaces
    <3> QED
      BY ZenonT(40), <3>1, <3>2, <3>3, BecomesMoves
  <2>3. CASE Goto(t, "reading") /\ CanAcquireShared(W(t)) /\ SetControl(t, AcquiredShared(W(t)))
    BY ZenonT(40), <2>0, <2>1, <2>2, <2>3, LatchWords, LatchWordStutters, LatchFollows
  <2>4. CASE Goto(t, "writing") /\ CanAcquireExclusive(W(t)) /\ SetControl(t, AcquiredExclusive(W(t)))
    BY ZenonT(40), <2>0, <2>1, <2>2, <2>4, LatchWords, LatchWordStutters, LatchFollows
  <2> QED
    BY ZenonT(40), <1>2, <2>3, <2>4 DEF AcquireLatch
<1> QED
  BY <1>1, <1>2

\* WriteBackFrames comes back to a busy frame; the cleaner gives it up.
LEMMA BusyMoves ==
  ASSUME PoolInv, NEW t \in Threads, Busy(t), th[t].pc \in {"flush", "unlatch_busy"},
         th[t].mode \in {"try", "clean"}
  PROVE  Moves(t) /\ Shape(th'[t]) /\ KeepsClaim(t) /\ HoldOf(th'[t]) = "none"
<1>a. th \in [Threads -> Thread] /\ th[t] \in Thread /\ Shape(th[t]) /\ th[t].ret = "idle" /\ th[t].op # "drop"
  BY ZenonT(40), CallFacts DEF Shape, Returns, FlushPlaces
<1>1. CASE th[t].op = "flushall"
  <2> DEFINE s == [th[t] EXCEPT !.pc = "flush", !.mode = "block"]
  <2>1. "flush" \in Places /\ "block" \in {"none", "block", "stable", "once", "try", "clean"}
    BY DEF Places
  <2>2. /\ s \in Thread /\ s.pc = "flush" /\ s.op = th[t].op /\ s.want = th[t].want
        /\ s.frame = th[t].frame /\ s.from = th[t].from /\ s.mode = "block" /\ s.ret = th[t].ret
    BY ZenonT(40), <1>a, <2>1 DEF Thread
  <2>3. th' = [th EXCEPT ![t] = s]
    BY <1>1 DEF Busy
  <2> HIDE DEF s
  <2>4. Becomes(t, "flush", th[t].op, th[t].want, th[t].frame, th[t].from, "block", th[t].ret)
    BY ZenonT(40), <1>a, <2>2, <2>3, Replaced
  <2>5. Shape(th'[t])
    BY <1>1, <1>a, <2>4 DEF Becomes, Shape, Returns, Searching, Dropping, FlushPlaces
  <2>6. KeepsClaim(t) /\ HoldOf(th'[t]) = "none"
    BY ZenonT(40), <1>a, <2>4 DEF Becomes, KeepsClaim, StageOf, HoldOf, BaseOf, FlushPlaces, WriterPlaces, LatchedPlaces
  <2> QED
    BY ZenonT(40), <2>4, <2>5, <2>6, BecomesMoves
<1>2. CASE th[t].op # "flushall"
  <2>1. th' = [th EXCEPT ![t] = IdleThread]
    BY <1>2 DEF Busy
  <2>2. Becomes(t, "idle", "none", NoTag, NoFrame, "none", "none", "idle")
    BY ZenonT(40), <1>a, <2>1, Replaced, IdleRecord
  <2>3. Shape(th'[t])
    BY ZenonT(40), <2>2 DEF Becomes, Shape, Returns, Searching, Dropping, FlushPlaces
  <2>4. KeepsClaim(t) /\ HoldOf(th'[t]) = "none"
    BY <1>a, <2>2 DEF Becomes, KeepsClaim, StageOf, HoldOf, BaseOf, FlushPlaces, WriterPlaces, LatchedPlaces
  <2> QED
    BY ZenonT(40), <2>2, <2>3, <2>4, BecomesMoves
<1> QED
  BY SMTT(30), ZenonT(40), <1>1, <1>2

\* PrepareFlushTask is over, with the latch it took released.
LEMMA UnlatchMoves ==
  ASSUME PoolInv, NEW t \in Threads, AfterPrepare(t, th[t].pc),
         th[t].pc \in {"unlatch_task", "unlatch_clean", "unlatch_fail", "unlatch_busy"}
  PROVE  Moves(t) /\ Shape(th'[t]) /\ KeepsClaim(t) /\ HoldOf(th'[t]) = "none"
<1>a. /\ th \in [Threads -> Thread] /\ th[t] \in Thread /\ Shape(th[t]) /\ th[t].op # "drop"
      /\ th[t].mode \in {"block", "try", "clean"} /\ th[t].ret \in {"idle", "unpin", "reserve"}
  BY ZenonT(40), CallFacts DEF Shape, Returns, Dropping, FlushPlaces
<1>1. CASE th[t].pc = "unlatch_task"
  <2>1. "begin" \in Places /\ Goto(t, "begin")
    BY ZenonT(40), <1>1 DEF AfterPrepare, Places
  <2>2. Becomes(t, "begin", th[t].op, th[t].want, th[t].frame, th[t].from, th[t].mode, th[t].ret)
    BY ZenonT(40), <1>a, <2>1, GotoFields
  <2>3. Shape(th'[t])
    BY ZenonT(40), <1>1, <1>a, <2>2 DEF Becomes, Shape, Returns, Searching, Dropping, FlushPlaces
  <2>4. KeepsClaim(t) /\ HoldOf(th'[t]) = "none"
    BY ZenonT(40), <1>1, <1>a, <2>2 DEF Becomes, KeepsClaim, StageOf, HoldOf, BaseOf, FlushPlaces, WriterPlaces, LatchedPlaces
  <2> QED
    BY ZenonT(40), <2>2, <2>3, <2>4, BecomesMoves
<1>2. CASE th[t].pc \in {"unlatch_clean", "unlatch_fail"}
  <2>1. PICK l \in {"idle", "unpin", "reserve"} :
          Continue(t, l) /\ (l = th[t].ret \/ (l = "idle" /\ th[t].ret = "reserve"))
    BY ZenonT(40), <1>2, <1>a DEF AfterPrepare, FlushFails
  <2>2. l \in Places
    BY DEF Places
  <2>3. \/ l = "idle" /\ Becomes(t, l, "none", NoTag, NoFrame, "none", "none", "idle")
        \/ l # "idle" /\ Becomes(t, l, th[t].op, th[t].want, th[t].frame, th[t].from, "none", "idle")
    BY ZenonT(40), <1>a, <2>1, <2>2, ContinueFields
  <2>4. Shape(th'[t])
    BY ZenonT(40), <1>2, <1>a, <2>1, <2>3 DEF Becomes, Shape, Returns, Searching, Dropping, FlushPlaces
  <2>5. KeepsClaim(t) /\ HoldOf(th'[t]) = "none"
    BY ZenonT(40), <1>2, <1>a, <2>1, <2>3 DEF Becomes, KeepsClaim, StageOf, HoldOf, BaseOf, FlushPlaces, WriterPlaces, LatchedPlaces, Shape
  <2> QED
    BY ZenonT(40), <2>3, <2>4, <2>5, BecomesMoves
<1>3. CASE th[t].pc = "unlatch_busy"
  <2>1. Busy(t) /\ th[t].mode \in {"try", "clean"}
    BY <1>3, <1>a DEF AfterPrepare, Shape
  <2> QED
    BY <1>3, <2>1, BusyMoves
<1> QED
  BY <1>1, <1>2, <1>3

\* The latch that a flush takes while it prepares its task.
LEMMA PrepareSteps ==
  ASSUME PoolInv, NEW t \in Threads
  PROVE  /\ PrepareLatch(t) => Follows
         /\ PrepareUnlatch(t) => Follows
<1>a. th \in [Threads -> Thread] /\ th[t] \in Thread /\ Shape(th[t])
  BY CallFacts
<1>1. ASSUME PrepareLatch(t) PROVE Follows
  <2>0. th[t].pc = "flush" /\ th[t].op # "drop" /\ UNCHANGED <<tag, key, free>>
    BY ZenonT(40), <1>1, <1>a DEF PrepareLatch, At, tableVars, Shape, Dropping
  <2>1. th[t].mode \in {"block", "try", "clean"} /\ th[t].ret \in {"idle", "unpin", "reserve"}
    BY ZenonT(40), <1>a, <2>0 DEF Shape, Returns, FlushPlaces
  <2>2. th[t].frame \in Frames /\ W(t) \in Word
    BY <2>0, CallFacts DEF Searching
  <2>3. HoldOf(th[t]) = "none"
    BY ZenonT(40), <2>0, <2>1 DEF HoldOf, BaseOf, FlushPlaces, WriterPlaces, LatchedPlaces
  <2>4. CASE CanAcquireShared(W(t)) /\ SetControl(t, AcquiredShared(W(t))) /\ Goto(t, "queue")
    <3>1. "queue" \in Places
      BY DEF Places
    <3>2. Becomes(t, "queue", th[t].op, th[t].want, th[t].frame, th[t].from, th[t].mode, th[t].ret)
      BY ZenonT(40), <1>a, <2>4, <3>1, GotoFields
    <3>3. Shape(th'[t])
      BY ZenonT(40), <1>a, <2>0, <2>1, <3>2 DEF Becomes, Shape, Returns, Searching, Dropping, FlushPlaces
    <3>4. KeepsClaim(t) /\ HoldOf(th'[t]) = "shared" /\ th'[t].frame = th[t].frame
      BY ZenonT(40), <2>0, <2>1, <3>2 DEF Becomes, KeepsClaim, StageOf, HoldOf, BaseOf, FlushPlaces, WriterPlaces, LatchedPlaces
    <3> QED
      BY ZenonT(40), <2>0, <2>2, <2>3, <2>4, <3>2, <3>3, <3>4, LatchWords, BecomesMoves, LatchWordStutters, LatchFollows
  <2>5. CASE Opportunistic(t) /\ Busy(t) /\ UNCHANGED control
    <3>1. Moves(t) /\ Shape(th'[t]) /\ KeepsClaim(t) /\ HoldOf(th'[t]) = "none"
      BY ZenonT(40), <2>0, <2>5, BusyMoves DEF Opportunistic
    <3> QED
      BY ZenonT(40), <2>0, <2>3, <2>5, <3>1, CallMoves DEF KeepsLatch
  <2> QED
    BY ZenonT(40), <1>1, <2>4, <2>5 DEF PrepareLatch
<1>2. ASSUME PrepareUnlatch(t) PROVE Follows
  <2>0. /\ th[t].pc \in {"unlatch_task", "unlatch_clean", "unlatch_fail", "unlatch_busy"}
        /\ SetControl(t, ReleasedShared(W(t))) /\ UNCHANGED <<tag, key, free>>
    BY ZenonT(40), <1>2 DEF PrepareUnlatch, tableVars
  <2>1. th[t].mode \in {"block", "try", "clean"} /\ th[t].ret \in {"idle", "unpin", "reserve"}
    BY <1>a, <2>0 DEF Shape, Returns, FlushPlaces
  <2>2. th[t].frame \in Frames /\ W(t) \in Word
    BY ZenonT(40), <2>0, CallFacts DEF Searching
  <2>3. HoldOf(th[t]) = "shared"
    BY ZenonT(40), <2>0, <2>1 DEF HoldOf, BaseOf, FlushPlaces, WriterPlaces, LatchedPlaces
  <2>4. Moves(t) /\ Shape(th'[t]) /\ KeepsClaim(t) /\ HoldOf(th'[t]) = "none"
    BY ZenonT(40), <1>2, <2>0, UnlatchMoves DEF PrepareUnlatch
  <2> QED
    BY ZenonT(40), <2>0, <2>2, <2>3, <2>4, LatchWords, LatchWordStutters, LatchFollows
<1> QED
  BY ZenonT(40), <1>1, <1>2

-----------------------------------------------------------------------------
(* Steps that change a claim.                                              *)

\* A claim is taken, moved on or given up.
LEMMA ClaimChanges ==
  ASSUME NEW t \in Threads, Moves(t)
  PROVE  /\ Claims(t, StageOf(th[t]))
         /\ StageOf(th[t]) # "none" => heldOf[t] = th[t].frame /\ wantOf[t] = th[t].want
         /\ StageOf(th'[t]) = "none" => Leave(t)
         /\ StageOf(th'[t]) # "none" => Claim(t, StageOf(th'[t]), th'[t].frame, th'[t].want)
         /\ /\ StageOf(th[t]) # "none" /\ StageOf(th'[t]) # "none"
            /\ th'[t].frame = th[t].frame /\ th'[t].want = th[t].want
            => Become(t, StageOf(th'[t]))
<1>1. Claims(t, StageOf(th[t]))
  BY ZenonT(40), ClaimsMoved DEF Claims
<1>2. StageOf(th'[t]) = "none" => Leave(t)
  BY ZenonT(40), ClaimsMoved DEF Leave, Claim
<1>3. StageOf(th'[t]) # "none" => Claim(t, StageOf(th'[t]), th'[t].frame, th'[t].want)
  BY ClaimsMoved DEF Claim
<1>4. ASSUME StageOf(th[t]) # "none", StageOf(th'[t]) # "none",
             th'[t].frame = th[t].frame, th'[t].want = th[t].want
      PROVE  Become(t, StageOf(th'[t]))
  <2>1. stageOf' = [stageOf EXCEPT ![t] = StageOf(th'[t])]
    BY ClaimsMoved
  <2>2. heldOf' = heldOf
    BY <1>4 DEF Moves, heldOf
  <2>3. wantOf' = wantOf
    BY <1>4 DEF Moves, wantOf
  <2> QED
    BY ZenonT(40), <2>1, <2>2, <2>3 DEF Become
<1> QED
  BY ZenonT(40), <1>1, <1>2, <1>3, <1>4, ClaimsMoved

\* A step of FrameLife that leaves the control words alone.
LEMMA ClaimFollows ==
  ASSUME PoolInv, NEW t \in Threads, Moves(t), Shape(th'[t]), KeepsLatch(t), UNCHANGED control,
         UNCHANGED <<stateOf, pinsOf>> => [LifeNext]_lifeVars
  PROVE  Follows
<1>1. UNCHANGED <<stateOf, pinsOf, sharedOf, exclusiveOf>>
  BY ZenonT(40) DEF stateOf, pinsOf, sharedOf, exclusiveOf
<1> QED
  BY ZenonT(40), <1>1, ShapesKept, LatchStutters DEF Follows, Moves, PoolInv

\* A step of FrameLife that writes a control word and leaves its latch.
LEMMA ClaimWordFollows ==
  ASSUME PoolInv, NEW t \in Threads, Moves(t), Shape(th'[t]), KeepsLatch(t),
         NEW f \in Frames, th[t].frame = f, NEW w \in Word, SetControl(t, w),
         w.shared = W(t).shared, w.exclusive = W(t).exclusive, [LifeNext]_lifeVars
  PROVE  Follows
<1>1. UNCHANGED <<sharedOf, exclusiveOf>> /\ control' \in [Frames -> Word]
  BY WordSet
<1> QED
  BY ZenonT(40), <1>1, ShapesKept, LatchStutters DEF Follows, Moves

\* What a claim knows of its frame, from the invariant of FrameLife.
LEMMA ClaimKnows ==
  ASSUME PoolInv, NEW t \in Threads, NEW f \in Frames, th[t].frame = f, StageOf(th[t]) # "none"
  PROVE  /\ StageOf(th[t]) \in {"popped", "dropping"} => W(t).state = "Free"
         /\ StageOf(th[t]) = "installed" => key[f] = th[t].want
         /\ StageOf(th[t]) = "dropping" => key[f] = th[t].want
<1>1. stageOf[t] = StageOf(th[t]) /\ heldOf[t] = f /\ wantOf[t] = th[t].want
  BY DEF stageOf, heldOf, wantOf
<1>2. stateOf[f] = W(t).state
  BY DEF stateOf, W
<1>3. StageInv
  BY DEF PoolInv, LifeInv
<1> QED
  BY ZenonT(40), <1>1, <1>2, <1>3 DEF StageInv

\* Pins: taken on a resident frame, checked, and given back.  A pin is given
\* back only while the word counts it.
LEMMA PinSteps ==
  ASSUME PoolInv, NEW t \in Threads
  PROVE  /\ TryPinResident(t) => Follows
         /\ CheckPinnedTag(t) => Follows
         /\ Unpin(t) /\ W(t).pins # 0 => Follows
<1>a. th \in [Threads -> Thread] /\ th[t] \in Thread /\ Shape(th[t])
  BY ZenonT(40), CallFacts
<1>1. ASSUME TryPinResident(t) PROVE Follows
  <2>0. th[t].pc = "pin" /\ UNCHANGED <<tag, key, free>>
    BY ZenonT(40), <1>1 DEF TryPinResident, At, tableVars
  <2>1. /\ th[t].frame \in Frames /\ W(t) \in Word /\ th[t].want \in Tags
        /\ th[t].op \notin {"flushall", "clean"}
    BY ZenonT(40), <1>a, <2>0, CallFacts DEF Searching, Shape, FlushPlaces
  <2>2. StageOf(th[t]) = "none" /\ HoldOf(th[t]) = "none"
    BY ZenonT(40), <2>0 DEF StageOf, HoldOf, BaseOf, FlushPlaces, WriterPlaces, LatchedPlaces
  <2>3. CASE CanPinResident(W(t)) /\ SetControl(t, Pinned(W(t))) /\ Goto(t, "check")
    <3>0. PICK f \in Frames : f = th[t].frame
      BY <2>1
    <3>1. "check" \in Places
      BY DEF Places
    <3>2. Becomes(t, "check", th[t].op, th[t].want, th[t].frame, th[t].from, th[t].mode, th[t].ret)
      BY ZenonT(40), <1>a, <2>3, <3>1, GotoFields
    <3>3. Shape(th'[t])
      BY ZenonT(40), <1>a, <2>0, <3>2 DEF Becomes, Shape, Returns, Searching, Dropping, FlushPlaces
    <3>4. /\ StageOf(th'[t]) = "pinned" /\ HoldOf(th'[t]) = "none"
          /\ th'[t].frame = f /\ th'[t].want = th[t].want
      BY ZenonT(40), <3>0, <3>2 DEF Becomes, StageOf, HoldOf, BaseOf, FlushPlaces, WriterPlaces, LatchedPlaces
    <3>5. /\ Pinned(W(t)) \in Word /\ Pinned(W(t)).pins = W(t).pins + 1 /\ Pinned(W(t)).state = W(t).state
          /\ Pinned(W(t)).shared = W(t).shared /\ Pinned(W(t)).exclusive = W(t).exclusive
      BY ZenonT(40), <2>1, OwnerWords
    <3>6. /\ stateOf' = stateOf /\ pinsOf' = [pinsOf EXCEPT ![f] = W(t).pins + 1]
          /\ stateOf[f] = W(t).state /\ pinsOf[f] = W(t).pins
      BY <2>3, <3>0, <3>5, WordSet
    <3>7. TakePin(t, f, th[t].want)
      BY ZenonT(40), <2>0, <2>2, <2>3, <3>2, <3>4, <3>6, BecomesMoves, ClaimChanges DEF TakePin, CanPinResident, IsResident
    <3>8. [LifeNext]_lifeVars
      BY ZenonT(40), <2>1, <3>7 DEF LifeNext
    <3> QED
      BY ZenonT(40), <2>2, <2>3, <3>0, <3>2, <3>3, <3>4, <3>5, <3>8, BecomesMoves, ClaimWordFollows DEF KeepsLatch
  <2>4. CASE Continue(t, NotPinned(th[t].op)) /\ UNCHANGED control
    <3>1. /\ NotPinned(th[t].op) \in {"idle", "dscan", "isloading"}
          /\ th[t].op = "drop" => NotPinned(th[t].op) = "dscan"
      BY ZenonT(40) DEF NotPinned
    <3> QED
      BY SMTT(30), ZenonT(40), <2>0, <2>1, <2>2, <2>4, <3>1, Resumes DEF Dropping
  <2> QED
    BY ZenonT(40), <1>1, <2>3, <2>4 DEF TryPinResident
<1>2. ASSUME CheckPinnedTag(t) PROVE Follows
  <2>0. th[t].pc = "check" /\ UNCHANGED <<control, tag, key, free>>
    BY ZenonT(40), <1>2 DEF CheckPinnedTag, At, frameVars, tableVars
  <2>1. PICK f \in Frames : f = th[t].frame
    BY ZenonT(40), <2>0, CallFacts DEF Searching
  <2>2. StageOf(th[t]) = "pinned" /\ HoldOf(th[t]) = "none" /\ th[t].ret = "idle"
    BY ZenonT(40), <1>a, <2>0 DEF StageOf, HoldOf, BaseOf, FlushPlaces, WriterPlaces, LatchedPlaces, Shape, Returns
  <2>3. CASE tag[F(t)] # th[t].want
    <3>1. /\ "unpin" \in Places /\ NotPinned(th[t].op) \in Places
          /\ NotPinned(th[t].op) \in {"idle", "dscan", "isloading"}
          /\ th[t].op = "drop" => NotPinned(th[t].op) = "dscan"
      BY DEF NotPinned, Places
    <3>2. th' = [th EXCEPT ![t].pc = "unpin", ![t].ret = NotPinned(th[t].op)]
      BY ZenonT(40), <1>2, <2>3 DEF CheckPinnedTag
    <3>3. Becomes(t, "unpin", th[t].op, th[t].want, th[t].frame, th[t].from, th[t].mode, NotPinned(th[t].op))
      BY ZenonT(40), <1>a, <3>1, <3>2, FieldsSet
    <3>4. Shape(th'[t])
      BY ZenonT(40), <1>a, <2>0, <3>1, <3>3 DEF Becomes, Shape, Returns, Searching, Dropping, FlushPlaces
    <3>5. KeepsClaim(t) /\ KeepsLatch(t)
      BY ZenonT(40), <2>2, <3>3 DEF Becomes, KeepsClaim, KeepsLatch, StageOf, HoldOf, BaseOf, FlushPlaces, WriterPlaces, LatchedPlaces
    <3> QED
      BY ZenonT(40), <2>0, <3>3, <3>4, <3>5, BecomesMoves, CallMoves
  <2>4. CASE tag[F(t)] = th[t].want /\ th[t].op = "flush"
    <3> DEFINE s == [th[t] EXCEPT !.pc = "flush", !.mode = "block", !.ret = "unpin"]
    <3>1. "flush" \in Places /\ "unpin" \in Places
      BY DEF Places
    <3>2. /\ s \in Thread /\ s.pc = "flush" /\ s.op = th[t].op /\ s.want = th[t].want
          /\ s.frame = th[t].frame /\ s.from = th[t].from /\ s.mode = "block" /\ s.ret = "unpin"
      BY ZenonT(40), <1>a, <3>1 DEF Thread
    <3>3. th' = [th EXCEPT ![t] = s]
      BY <1>2, <2>4 DEF CheckPinnedTag
    <3> HIDE DEF s
    <3>4. Becomes(t, "flush", th[t].op, th[t].want, th[t].frame, th[t].from, "block", "unpin")
      BY ZenonT(40), <1>a, <3>2, <3>3, Replaced
    <3>5. Shape(th'[t])
      BY ZenonT(40), <1>a, <2>0, <2>4, <3>4 DEF Becomes, Shape, Returns, Searching, Dropping, FlushPlaces
    <3>6. KeepsClaim(t) /\ KeepsLatch(t)
      BY ZenonT(40), <2>2, <3>4 DEF Becomes, KeepsClaim, KeepsLatch, StageOf, HoldOf, BaseOf, FlushPlaces, WriterPlaces, LatchedPlaces
    <3> QED
      BY ZenonT(40), <2>0, <3>4, <3>5, <3>6, BecomesMoves, CallMoves
  <2>5. CASE tag[F(t)] = th[t].want /\ th[t].op # "flush"
    <3>1. PICK l \in {"discard", "latch"} : Goto(t, l) /\ (th[t].op = "drop" => l = "discard")
      BY ZenonT(40), <1>2, <2>5 DEF CheckPinnedTag, Goto
    <3>2. l \in Places
      BY DEF Places
    <3>3. Becomes(t, l, th[t].op, th[t].want, th[t].frame, th[t].from, th[t].mode, th[t].ret)
      BY SMTT(30), ZenonT(40), <1>a, <3>1, <3>2, GotoFields
    <3>4. Shape(th'[t])
      BY ZenonT(40), <1>a, <2>0, <3>1, <3>3 DEF Becomes, Shape, Returns, Searching, Dropping, FlushPlaces
    <3>5. StageOf(th'[t]) = "verified" /\ th'[t].frame = th[t].frame /\ th'[t].want = th[t].want /\ KeepsLatch(t)
      BY ZenonT(40), <2>2, <3>3 DEF Becomes, KeepsLatch, StageOf, HoldOf, BaseOf, FlushPlaces, WriterPlaces, LatchedPlaces
    <3>6. ASSUME UNCHANGED <<stateOf, pinsOf>> PROVE [LifeNext]_lifeVars
      <4>1. VerifyPage(t)
        BY ZenonT(40), <2>0, <2>2, <2>5, <3>3, <3>5, <3>6, BecomesMoves, ClaimChanges DEF VerifyPage, F
      <4> QED
        BY ZenonT(40), <4>1 DEF LifeNext
    <3> QED
      BY ZenonT(40), <2>0, <3>3, <3>4, <3>5, <3>6, BecomesMoves, ClaimFollows
  <2> QED
    BY ZenonT(40), <2>3, <2>4, <2>5
<1>3. ASSUME Unpin(t), W(t).pins # 0 PROVE Follows
  <2>0. th[t].pc = "unpin" /\ UNCHANGED <<tag, key, free>> /\ SetControl(t, Unpinned(W(t))) /\ Continue(t, th[t].ret)
    BY ZenonT(40), <1>3 DEF Unpin, At, tableVars
  <2>1. PICK f \in Frames : f = th[t].frame /\ W(t) \in Word
    BY ZenonT(40), <2>0, CallFacts DEF Searching
  <2>2. StageOf(th[t]) = "pinned" /\ HoldOf(th[t]) = "none" /\ th[t].ret \in {"idle", "isloading", "dscan", "waitwb"}
    BY ZenonT(40), <1>a, <2>0 DEF StageOf, HoldOf, BaseOf, FlushPlaces, WriterPlaces, LatchedPlaces, Shape, Returns
  <2>3. th[t].ret \in Places
    BY ZenonT(40), <1>a DEF Thread
  <2>4. \/ th[t].ret = "idle" /\ Becomes(t, "idle", "none", NoTag, NoFrame, "none", "none", "idle")
        \/ /\ th[t].ret # "idle"
           /\ Becomes(t, th[t].ret, th[t].op, th[t].want, th[t].frame, th[t].from, "none", "idle")
    BY ZenonT(40), <1>a, <2>0, <2>2, <2>3, ContinueFields
  <2>5. Shape(th'[t])
    BY ZenonT(40), <1>a, <2>0, <2>2, <2>4 DEF Becomes, Shape, Returns, Searching, Dropping, FlushPlaces
  <2>6. StageOf(th'[t]) = "none" /\ KeepsLatch(t)
    BY ZenonT(40), <2>2, <2>4 DEF Becomes, KeepsLatch, StageOf, HoldOf, BaseOf, FlushPlaces, WriterPlaces, LatchedPlaces
  <2>8. /\ Unpinned(W(t)) \in Word /\ Unpinned(W(t)).pins = W(t).pins - 1 /\ Unpinned(W(t)).state = W(t).state
        /\ Unpinned(W(t)).shared = W(t).shared /\ Unpinned(W(t)).exclusive = W(t).exclusive
    BY ZenonT(40), <1>3, <2>1, OwnerWords
  <2>9. /\ stateOf' = stateOf /\ pinsOf' = [pinsOf EXCEPT ![f] = W(t).pins - 1] /\ pinsOf[f] = W(t).pins
    BY <2>0, <2>1, <2>8, WordSet
  <2>10. DropPin(t)
    BY ZenonT(40), <2>0, <2>1, <2>2, <2>4, <2>6, <2>9, BecomesMoves, ClaimChanges DEF DropPin
  <2>11. [LifeNext]_lifeVars
    BY <2>10 DEF LifeNext
  <2> QED
    BY ZenonT(40), <2>0, <2>1, <2>4, <2>5, <2>6, <2>8, <2>11, BecomesMoves, ClaimWordFollows
<1> QED
  BY ZenonT(40), <1>1, <1>2, <1>3

-----------------------------------------------------------------------------
(* Steps that change nothing mapped.                                       *)

\* The reads that a lookup, a wait or a scan makes.
LEMMA ReadSteps ==
  ASSUME PoolInv, NEW t \in Threads
  PROVE  /\ IsLoadingState(t) => Follows
         /\ IsLoadingTag(t) => Follows
         /\ WaitForLoad(t) => Follows
         /\ PeekState(t) => Follows
         /\ PeekTag(t) => Follows
         /\ NoVictim(t) => Follows
         /\ DropScanTag(t) => Follows
         /\ DropScanState(t) => Follows
<1> USE CallFacts
<1>1. ASSUME IsLoadingState(t) PROVE Follows
  <2>1. th[t].pc = "isloading"
    BY <1>1 DEF IsLoadingState, At
  <2>2. StageOf(th[t]) = "none" /\ HoldOf(th[t]) = "none"
    BY ZenonT(40), <2>1 DEF StageOf, HoldOf, BaseOf, FlushPlaces, WriterPlaces, LatchedPlaces
  <2>3. th[t].op \notin {"flushall", "clean"} /\ (th[t].pc \notin Dropping => th[t].op # "drop")
    BY <2>1 DEF Shape, FlushPlaces
  <2> QED
    BY ZenonT(40), <1>1, <2>1, <2>2, <2>3, Resumes DEF IsLoadingState, frameVars, tableVars, Searching, Dropping
<1>2. ASSUME IsLoadingTag(t) PROVE Follows
  <2>1. th[t].pc = "isloadingtag"
    BY <1>2 DEF IsLoadingTag, At
  <2>2. StageOf(th[t]) = "none" /\ HoldOf(th[t]) = "none"
    BY <2>1 DEF StageOf, HoldOf, BaseOf, FlushPlaces, WriterPlaces, LatchedPlaces
  <2>3. th[t].op \notin {"flushall", "clean"} /\ (th[t].pc \notin Dropping => th[t].op # "drop")
    BY ZenonT(40), <2>1 DEF Shape, FlushPlaces
  <2> QED
    BY ZenonT(40), <1>2, <2>1, <2>2, <2>3, Resumes DEF IsLoadingTag, frameVars, tableVars, Searching, Dropping
<1>3. ASSUME WaitForLoad(t) PROVE Follows
  <2>1. th[t].pc = "waitload"
    BY <1>3 DEF WaitForLoad, At
  <2>2. StageOf(th[t]) = "none" /\ HoldOf(th[t]) = "none"
    BY <2>1 DEF StageOf, HoldOf, BaseOf, FlushPlaces, WriterPlaces, LatchedPlaces
  <2>3. th[t].op \notin {"flushall", "clean"} /\ (th[t].pc \notin Dropping => th[t].op # "drop")
    BY ZenonT(40), <2>1 DEF Shape, FlushPlaces
  <2> QED
    BY ZenonT(40), <1>3, <2>1, <2>2, <2>3, Resumes DEF WaitForLoad, frameVars, tableVars, Searching, Dropping
<1>4. ASSUME PeekState(t) PROVE Follows
  <2>1. th[t].pc = "peekstate"
    BY <1>4 DEF PeekState, At
  <2>2. StageOf(th[t]) = "none" /\ HoldOf(th[t]) = "none"
    BY <2>1 DEF StageOf, HoldOf, BaseOf, FlushPlaces, WriterPlaces, LatchedPlaces
  <2>3. th[t].op \notin {"flushall", "clean"} /\ (th[t].pc \notin Dropping => th[t].op # "drop")
    BY ZenonT(40), <2>1 DEF Shape, FlushPlaces
  <2> QED
    BY ZenonT(40), <1>4, <2>1, <2>2, <2>3, Resumes DEF PeekState, frameVars, tableVars, Searching, Dropping, Peeked
<1>5. ASSUME PeekTag(t) PROVE Follows
  <2>1. th[t].pc = "peektag"
    BY <1>5 DEF PeekTag, At
  <2>2. StageOf(th[t]) = "none" /\ HoldOf(th[t]) = "none"
    BY <2>1 DEF StageOf, HoldOf, BaseOf, FlushPlaces, WriterPlaces, LatchedPlaces
  <2>3. th[t].op \notin {"flushall", "clean"} /\ (th[t].pc \notin Dropping => th[t].op # "drop")
    BY ZenonT(40), <2>1 DEF Shape, FlushPlaces
  <2> QED
    BY ZenonT(40), <1>5, <2>1, <2>2, <2>3, Resumes DEF PeekTag, frameVars, tableVars, Searching, Dropping, Peeked
<1>6. ASSUME NoVictim(t) PROVE Follows
  <2>1. th[t].pc \in {"miss", "acquire"}
    BY ZenonT(40), <1>6 DEF NoVictim, At
  <2>2. StageOf(th[t]) = "none" /\ HoldOf(th[t]) = "none"
    BY <2>1 DEF StageOf, HoldOf, BaseOf, FlushPlaces, WriterPlaces, LatchedPlaces
  <2>3. th[t].op \notin {"flushall", "clean"} /\ (th[t].pc \notin Dropping => th[t].op # "drop")
    BY <2>1 DEF Shape, FlushPlaces
  <2> QED
    BY ZenonT(40), <1>6, <2>1, <2>2, <2>3, Resumes DEF NoVictim, frameVars, tableVars, Searching, Dropping
<1>7. ASSUME DropScanTag(t) PROVE Follows
  <2>1. th[t].pc = "dscan"
    BY <1>7 DEF DropScanTag, At
  <2>2. StageOf(th[t]) = "none" /\ HoldOf(th[t]) = "none"
    BY ZenonT(40), <2>1 DEF StageOf, HoldOf, BaseOf, FlushPlaces, WriterPlaces, LatchedPlaces
  <2>3. th[t].op \notin {"flushall", "clean"} /\ (th[t].pc \notin Dropping => th[t].op # "drop")
    BY <2>1 DEF Shape, FlushPlaces
  <2> QED
    BY ZenonT(40), <1>7, <2>1, <2>2, <2>3, Resumes DEF DropScanTag, frameVars, tableVars, Searching, Dropping
<1>8. ASSUME DropScanState(t) PROVE Follows
  <2>1. th[t].pc = "dscanstate"
    BY ZenonT(40), <1>8 DEF DropScanState, At
  <2>2. StageOf(th[t]) = "none" /\ HoldOf(th[t]) = "none"
    BY ZenonT(40), <2>1 DEF StageOf, HoldOf, BaseOf, FlushPlaces, WriterPlaces, LatchedPlaces
  <2>3. th[t].op \notin {"flushall", "clean"} /\ (th[t].pc \notin Dropping => th[t].op # "drop")
    BY ZenonT(40), <2>1 DEF Shape, FlushPlaces
  <2> QED
    BY ZenonT(40), <1>8, <2>1, <2>2, <2>3, Resumes DEF DropScanState, frameVars, tableVars, Searching, Dropping, Word, States
<1> QED
  BY ZenonT(40), <1>1, <1>2, <1>3, <1>4, <1>5, <1>6, <1>7, <1>8

\* The record of a call that starts is well formed.
LEMMA StartRecord ==
  ASSUME NEW l \in Places, NEW o \in AllOps
  PROVE  /\ \A k \in Tags : [IdleThread EXCEPT !.pc = l, !.op = o, !.want = k] \in Thread
         /\ \A f \in Frames, m \in {"try", "clean"} :
              [IdleThread EXCEPT !.pc = l, !.op = o, !.frame = f, !.mode = m] \in Thread
         /\ \A f \in Frames, k \in Tags :
              [IdleThread EXCEPT !.pc = l, !.op = o, !.frame = f, !.want = k] \in Thread
  BY ZenonT(40), IdleRecord DEF Thread

\* A call starts.
LEMMA StartSteps ==
  ASSUME PoolInv, NEW t \in Threads
  PROVE  Start(t) => Follows
<1> USE CallFacts
<1>1. SUFFICES ASSUME NEW s \in Thread, th' = [th EXCEPT ![t] = s], At(t, "idle"),
                      s.pc \in {"lookup", "peek", "flush", "dscan"},
                      s.pc \in {"flush", "dscan"} => s.frame \in Frames,
                      s.pc = "flush" => s.op \in {"flushall", "clean"} /\ s.mode \in {"try", "clean"},
                      s.pc # "flush" => s.op \notin {"none", "flushall", "clean"} /\ s.want \in Tags,
                      s.pc # "flush" => s.mode = "none" /\ (s.op = "drop" => s.pc = "dscan"),
                      s.ret = "idle", UNCHANGED <<control, tag, key, free>>
               PROVE  Follows
  <2>1. "lookup" \in Places /\ "peek" \in Places /\ "flush" \in Places /\ "dscan" \in Places
    BY DEF Places
  <2>2. ASSUME NEW o \in Ops, NEW k \in Tags, StartPage(t, o, k) PROVE Follows
    <3> DEFINE p == IF o = "prefetch" THEN "peek" ELSE "lookup"
               s == [IdleThread EXCEPT !.pc = p, !.op = o, !.want = k]
    <3>0. o \in AllOps /\ p \in Places
      BY <2>1, PoolConstants
    <3>1. s \in Thread
      BY ZenonT(40), <3>0, StartRecord
    <3>2. /\ s.pc \in {"lookup", "peek"} /\ s.op = o /\ s.want = k /\ s.mode = "none" /\ s.ret = "idle"
          /\ o \in {"read", "write", "zero", "prefetch", "flush"}
          /\ th' = [th EXCEPT ![t] = s] /\ At(t, "idle") /\ UNCHANGED <<control, tag, key, free>>
      BY <2>2 DEF StartPage, IdleThread, frameVars, tableVars
    <3> HIDE DEF s
    <3> QED
      BY ZenonT(40), <1>1, <3>1, <3>2
  <2>3. ASSUME NEW o \in Ops, NEW f \in Frames, StartSweep(t, o, f) PROVE Follows
    <3> DEFINE m == IF o = "clean" THEN "clean" ELSE "try"
               s == [IdleThread EXCEPT !.pc = "flush", !.op = o, !.frame = f, !.mode = m]
    <3>0. /\ o \in AllOps
          /\ m \in {"try", "clean"}
      BY PoolConstants
    <3>1. s \in Thread
      BY ZenonT(40), <2>1, <3>0, StartRecord
    <3>2. /\ s.pc = "flush" /\ s.op = o /\ s.frame = f /\ s.mode \in {"try", "clean"} /\ s.ret = "idle"
          /\ o \in {"flushall", "clean"}
          /\ th' = [th EXCEPT ![t] = s] /\ At(t, "idle") /\ UNCHANGED <<control, tag, key, free>>
      BY ZenonT(40), <2>3 DEF StartSweep, IdleThread, frameVars, tableVars
    <3> HIDE DEF s
    <3> QED
      BY ZenonT(40), <1>1, <3>1, <3>2
  <2>4. ASSUME NEW f \in Frames, NEW k \in Tags, StartDrop(t, f, k) PROVE Follows
    <3> DEFINE s == [IdleThread EXCEPT !.pc = "dscan", !.op = "drop", !.frame = f, !.want = k]
    <3>0. "drop" \in AllOps
      BY DEF AllOps
    <3>1. s \in Thread
      BY ZenonT(40), <2>1, <3>0, StartRecord
    <3>2. /\ s.pc = "dscan" /\ s.op = "drop" /\ s.frame = f /\ s.want = k /\ s.mode = "none" /\ s.ret = "idle"
          /\ th' = [th EXCEPT ![t] = s] /\ At(t, "idle") /\ UNCHANGED <<control, tag, key, free>>
      BY <2>4 DEF StartDrop, IdleThread, frameVars, tableVars
    <3> HIDE DEF s
    <3> QED
      BY ZenonT(40), <1>1, <3>1, <3>2
  <2> QED
    BY <2>2, <2>3, <2>4 DEF Start
<1>2. Becomes(t, s.pc, s.op, s.want, s.frame, s.from, s.mode, s.ret)
  BY ZenonT(40), <1>1, Replaced
<1>3. Shape(th'[t])
  BY ZenonT(40), <1>1, <1>2 DEF Becomes, Shape, Returns, Searching, Dropping, FlushPlaces
<1>4. KeepsClaim(t) /\ KeepsLatch(t)
  BY <1>1, <1>2 DEF Becomes, KeepsClaim, KeepsLatch, StageOf, HoldOf, BaseOf, FlushPlaces, WriterPlaces, LatchedPlaces, At
<1> QED
  BY <1>1, <1>2, <1>3, <1>4, BecomesMoves, CallMoves

\* A search finds a frame to pin, to look at or to reserve.
LEMMA FoundFrame ==
  ASSUME PoolInv, NEW t \in Threads, NEW f \in Frames,
         NEW l \in {"pin", "peekstate"}, NEW c \in {"ring", "victim"},
         th[t].pc \in {"lookup", "peek", "miss", "acquire"},
         Candidate(t, f, c) \/ th' = [th EXCEPT ![t].pc = l, ![t].frame = f],
         UNCHANGED <<control, tag, key, free>>
  PROVE  Follows
<1>1. l \in Places /\ c \in {"none", "ring", "free", "victim", "flushed"}
  BY DEF Places
<1>2. th \in [Threads -> Thread] /\ Shape(th[t])
  BY ZenonT(40), CallFacts
<1>3. /\ th[t].op \notin {"flushall", "clean", "drop"} /\ th[t].want \in Tags /\ th[t].ret = "idle"
  BY <1>2 DEF Shape, Returns, Dropping, FlushPlaces
<1>4. \/ Becomes(t, "reserve", th[t].op, th[t].want, f, c, th[t].mode, th[t].ret)
      \/ Becomes(t, l, th[t].op, th[t].want, f, th[t].from, th[t].mode, th[t].ret)
  <2>1. CASE Candidate(t, f, c)
    BY ZenonT(40), <1>1, <1>2, <2>1, CandidateFields
  <2>2. CASE th' = [th EXCEPT ![t].pc = l, ![t].frame = f]
    BY ZenonT(40), <1>1, <1>2, <2>2, FieldsSet
  <2> QED
    BY ZenonT(40), <2>1, <2>2
<1>5. Shape(th'[t])
  BY ZenonT(40), <1>3, <1>4 DEF Becomes, Shape, Returns, FlushPlaces
<1>6. KeepsClaim(t) /\ KeepsLatch(t)
  BY ZenonT(40), <1>4 DEF Becomes, KeepsClaim, KeepsLatch, StageOf, HoldOf, BaseOf, FlushPlaces, WriterPlaces, LatchedPlaces
<1> QED
  BY ZenonT(40), <1>4, <1>5, <1>6, BecomesMoves, CallMoves

\* The steps of a search that may find a frame, and its end without one.
LEMMA SearchSteps ==
  ASSUME PoolInv, NEW t \in Threads
  PROVE  /\ Lookup(t) => Follows
         /\ PeekLookup(t) => Follows
         /\ TryReserveRingFrame(t) => Follows
         /\ Victim(t) => Follows
         /\ HasTransientFrame(t) => Follows
         /\ Exhausted(t) => Follows
<1> USE CallFacts
<1>0. ASSUME th[t].pc \in {"lookup", "peek", "miss", "acquire", "scan"}
      PROVE  /\ StageOf(th[t]) = "none" /\ HoldOf(th[t]) = "none"
             /\ th[t].op \notin {"flushall", "clean", "drop"}
  BY ZenonT(40), <1>0 DEF StageOf, HoldOf, BaseOf, FlushPlaces, WriterPlaces, LatchedPlaces, Shape, Dropping
<1>1. ASSUME Lookup(t) PROVE Follows
  BY ZenonT(40), <1>0, <1>1, FoundFrame, Resumes DEF Lookup, LookupFrameId, Linked, At, frameVars, tableVars, Searching
<1>2. ASSUME PeekLookup(t) PROVE Follows
  BY ZenonT(40), <1>0, <1>2, FoundFrame, Resumes DEF PeekLookup, LookupFrameId, Linked, At, frameVars, tableVars, Searching, Peeked
<1>3. ASSUME TryReserveRingFrame(t) PROVE Follows
  BY ZenonT(40), <1>3, FoundFrame DEF TryReserveRingFrame, At, frameVars, tableVars
<1>4. ASSUME Victim(t) PROVE Follows
  BY ZenonT(40), <1>4, FoundFrame DEF Victim, frameVars, tableVars
<1>5. ASSUME HasTransientFrame(t) PROVE Follows
  <2>1. th[t].pc = "scan"
    BY <1>5 DEF HasTransientFrame, At
  <2>2. UNCHANGED <<control, tag, key, free>>
    BY ZenonT(40), <1>5 DEF HasTransientFrame, frameVars, tableVars
  <2>3. CASE Continue(t, "acquire")
    BY ZenonT(40), <1>0, <2>1, <2>2, <2>3, Resumes DEF Searching
  <2>4. ASSUME NEW f \in Frames, th' = [th EXCEPT ![t].scanned = @ \cup {f}] PROVE Follows
    <3>1. [th[t] EXCEPT !.scanned = @ \cup {f}] \in Thread
      BY DEF Thread
    <3>2. Becomes(t, "scan", th[t].op, th[t].want, th[t].frame, th[t].from, th[t].mode, th[t].ret)
      BY ZenonT(40), <2>1, <2>4, <3>1 DEF Becomes, Thread
    <3>3. Shape(th'[t])
      <4>1. /\ th'[t].pc = th[t].pc /\ th'[t].op = th[t].op /\ th'[t].want = th[t].want /\ th'[t].frame = th[t].frame
            /\ th'[t].from = th[t].from /\ th'[t].mode = th[t].mode /\ th'[t].ret = th[t].ret
        BY ZenonT(40), <2>1, <3>2 DEF Becomes
      <4>2. Shape(th[t])
        BY ZenonT(40) DEF PoolInv, CallShape
      <4>3. Returns(th'[t]) = Returns(th[t])
        BY ZenonT(40), <4>1 DEF Returns
      <4> QED
        BY ZenonT(40), <4>1, <4>2, <4>3 DEF Shape
    <3>4. KeepsClaim(t) /\ KeepsLatch(t)
      BY ZenonT(40), <2>1, <3>2 DEF Becomes, KeepsClaim, KeepsLatch, StageOf, HoldOf, BaseOf, FlushPlaces, WriterPlaces, LatchedPlaces
    <3> QED
      BY ZenonT(40), <2>2, <3>2, <3>3, <3>4, BecomesMoves, CallMoves
  <2> QED
    BY <1>5, <2>3, <2>4 DEF HasTransientFrame
<1>6. ASSUME Exhausted(t) PROVE Follows
  <2> DEFINE s == [Continued(th[t], "lookup") EXCEPT !.pc = "peek"]
  <2>1. "peek" \in Places
    BY ZenonT(40) DEF Places
  <2>2. /\ s \in Thread /\ s.pc = "peek" /\ s.op = th[t].op /\ s.want = th[t].want /\ s.frame = NoFrame
        /\ s.from = "none" /\ s.mode = "none" /\ s.ret = "idle"
    BY ZenonT(40), <2>1, IdleRecord DEF Continued, Thread
  <2>3. th[t].pc = "scan" /\ th' = [th EXCEPT ![t] = s] /\ UNCHANGED <<control, tag, key, free>>
    BY <1>6 DEF Exhausted, At, frameVars, tableVars
  <2> HIDE DEF s
  <2>4. Becomes(t, "peek", th[t].op, th[t].want, NoFrame, "none", "none", "idle")
    BY ZenonT(40), <2>2, <2>3, Replaced
  <2>5. Shape(th'[t])
    BY <2>3, <2>4 DEF Becomes, Shape, Returns, Searching, Dropping, FlushPlaces
  <2>6. KeepsClaim(t) /\ KeepsLatch(t)
    BY ZenonT(40), <2>3, <2>4 DEF Becomes, KeepsClaim, KeepsLatch, StageOf, HoldOf, BaseOf, FlushPlaces, WriterPlaces, LatchedPlaces
  <2> QED
    BY ZenonT(40), <2>3, <2>4, <2>5, <2>6, BecomesMoves, CallMoves
<1> QED
  BY <1>1, <1>2, <1>3, <1>4, <1>5, <1>6

\* Loading, writing and counting leave claims, latches and words alone.
LEMMA DataSteps ==
  ASSUME PoolInv, NEW t \in Threads
  PROVE  /\ ReadReservedPage(t) => Follows
         /\ ZeroFill(t) => Follows
         /\ CountDirty(t) => Follows
         /\ WritePage(t) => Follows
         /\ DropUncount(t) => Follows
         /\ MarkHandleDirty(t) => Follows
<1>0. {"publish", "abort", "zerolatch", "marked", "written", "count", "dropremove"} \subseteq Places
  BY DEF Places
<1>1. ASSUME ReadReservedPage(t) PROVE Follows
  <2>1. \E l \in {"publish", "abort"} : Goto(t, l) /\ QuietGoto(th[t], l)
    BY <1>1 DEF ReadReservedPage, At, QuietGoto
  <2> QED
    BY ZenonT(40), <1>0, <1>1, <2>1, QuietSteps, QuietFollows DEF ReadReservedPage, frameVars, tableVars
<1>2. ASSUME ZeroFill(t) PROVE Follows
  <2>1. Goto(t, "zerolatch") /\ QuietGoto(th[t], "zerolatch")
    BY <1>2 DEF ZeroFill, At, QuietGoto
  <2> QED
    BY ZenonT(40), <1>0, <1>2, <2>1, QuietSteps, QuietFollows DEF ZeroFill, frameVars, tableVars
<1>3. ASSUME CountDirty(t) PROVE Follows
  <2>1. Goto(t, "marked") /\ QuietGoto(th[t], "marked")
    BY ZenonT(40), <1>3 DEF CountDirty, At, QuietGoto, WriterPlaces
  <2> QED
    BY <1>0, <1>3, <2>1, QuietSteps, QuietFollows DEF CountDirty, frameVars, tableVars
<1>4. ASSUME WritePage(t) PROVE Follows
  <2>1. Goto(t, "written") /\ QuietGoto(th[t], "written")
    BY <1>4 DEF WritePage, QuietGoto, WriterPlaces
  <2> QED
    BY ZenonT(40), <1>0, <1>4, <2>1, QuietSteps, QuietFollows DEF WritePage, frameVars, tableVars
<1>5. ASSUME DropUncount(t) PROVE Follows
  <2>1. Goto(t, "dropremove") /\ QuietGoto(th[t], "dropremove")
    BY <1>5 DEF DropUncount, At, QuietGoto
  <2> QED
    BY ZenonT(40), <1>0, <1>5, <2>1, QuietSteps, QuietFollows DEF DropUncount, frameVars, tableVars
<1>6. ASSUME MarkHandleDirty(t) PROVE Follows
  <2>1. \E l \in {"count", "marked"} : Goto(t, l) /\ QuietGoto(th[t], l)
    BY ZenonT(40), <1>6 DEF MarkHandleDirty, At, QuietGoto, WriterPlaces
  <2>2. th[t].frame \in Frames /\ W(t) \in Word
    BY ZenonT(40), <1>6, CallFacts DEF MarkHandleDirty, At, Searching
  <2>3. MarkedDirty(W(t)) \in Word /\ SameWord(MarkedDirty(W(t)), W(t))
    BY ZenonT(40), <2>2, QuietWords
  <2> QED
    BY ZenonT(40), <1>0, <1>6, <2>1, <2>2, <2>3, QuietSteps, QuietFollows DEF MarkHandleDirty, frameVars, tableVars
<1> QED
  BY ZenonT(40), <1>1, <1>2, <1>3, <1>4, <1>5, <1>6

\* How PrepareFlushTask leaves without a task, from a place where the flush
\* took no latch.
LEMMA PreparedQuiet ==
  ASSUME PoolInv, NEW t \in Threads, NEW l \in {"unlatch_clean", "unlatch_fail"},
         th[t].pc \in {"queue", "wberror"}, Prepared(t, l)
  PROVE  Quiet(t)
<1>0. l \in Places /\ th[t].pc \in FlushPlaces /\ th[t].op # "drop"
  BY CallFacts DEF Places, FlushPlaces, Shape, Dropping
<1>1. CASE TakesLatch(t)
  <2>1. Goto(t, l) /\ QuietGoto(th[t], l)
    BY ZenonT(40), <1>0, <1>1 DEF Prepared, QuietGoto, TakesLatch, FlushPlaces, LatchedPlaces
  <2> QED
    BY <1>0, <2>1, QuietSteps
<1>2. CASE ~TakesLatch(t)
  <2>1. Continue(t, th[t].ret) \/ FlushFails(t)
    BY ZenonT(40), <1>2 DEF Prepared, AfterPrepare
  <2> QED
    BY ZenonT(40), <1>0, <1>2, <2>1, FlushReturns DEF TakesLatch
<1> QED
  BY ZenonT(40), <1>1, <1>2

\* The steps of a flush, apart from the latch it takes and releases.
LEMMA FlushSteps ==
  ASSUME PoolInv, NEW t \in Threads
  PROVE  /\ TryQueueWriteback(t) => Follows
         /\ WaitForPendingFlush(t) => Follows
         /\ ReadWritebackError(t) => Follows
         /\ CaptureFlushSnapshot(t) => Follows
         /\ RollBackFlushTask(t) => Follows
         /\ BeginFlushTask(t) => Follows
         /\ WriteTask(t) => Follows
         /\ FinalizeFlushTask(t) => Follows
         /\ UncountDirty(t) => Follows
         /\ FlushHandle(t) => Follows
<1>0. {"snapshot", "unlatch_busy", "waitwb", "wberror", "queue", "unlatch_task", "begin", "write",
       "complete", "completefail", "uncount"} \subseteq Places
  BY DEF Places
<1>a. th \in [Threads -> Thread] /\ th[t] \in Thread /\ Shape(th[t])
  BY CallFacts
<1>b. ASSUME th[t].pc \in FlushPlaces
      PROVE  th[t].frame \in Frames /\ W(t) \in Word
  BY ZenonT(40), <1>b, CallFacts DEF FlushPlaces, Searching
<1>1. ASSUME TryQueueWriteback(t) PROVE Follows
  <2>0. th[t].pc = "queue" /\ th[t].pc \in FlushPlaces /\ th[t].op # "drop"
    BY ZenonT(40), <1>1, <1>a DEF TryQueueWriteback, At, Shape, Dropping, FlushPlaces
  <2>1. CASE Goto(t, "snapshot") /\ SetControl(t, QueuedWriteback(W(t)))
    <3>1. QuietGoto(th[t], "snapshot")
      BY ZenonT(40), <2>0 DEF QuietGoto, FlushPlaces, LatchedPlaces
    <3>2. QueuedWriteback(W(t)) \in Word /\ SameWord(QueuedWriteback(W(t)), W(t))
      BY ZenonT(40), <1>b, <2>0, QuietWords
    <3> QED
      BY ZenonT(40), <1>0, <1>1, <1>b, <2>0, <2>1, <3>1, <3>2, QuietSteps, QuietFollows DEF TryQueueWriteback, tableVars
  <2>2. CASE Prepared(t, "unlatch_clean") /\ UNCHANGED control
    BY ZenonT(40), <1>1, <2>0, <2>2, PreparedQuiet, QuietFollows DEF TryQueueWriteback, tableVars
  <2>3. CASE Goto(t, "unlatch_busy") /\ Opportunistic(t) /\ UNCHANGED control
    <3>1. QuietGoto(th[t], "unlatch_busy")
      BY ZenonT(40), <2>0, <2>3 DEF QuietGoto, FlushPlaces, LatchedPlaces, Opportunistic
    <3> QED
      BY ZenonT(40), <1>0, <1>1, <2>3, <3>1, QuietSteps, QuietFollows DEF TryQueueWriteback, tableVars
  <2>4. CASE Goto(t, "waitwb") /\ UNCHANGED control
    <3>1. QuietGoto(th[t], "waitwb")
      BY <2>0 DEF QuietGoto, FlushPlaces, LatchedPlaces
    <3> QED
      BY ZenonT(40), <1>0, <1>1, <2>4, <3>1, QuietSteps, QuietFollows DEF TryQueueWriteback, tableVars
  <2> QED
    BY ZenonT(40), <1>1, <2>1, <2>2, <2>3, <2>4 DEF TryQueueWriteback
<1>2. ASSUME WaitForPendingFlush(t) PROVE Follows
  <2>0. th[t].pc = "waitwb" /\ UNCHANGED <<control, tag, key, free>>
    BY ZenonT(40), <1>2 DEF WaitForPendingFlush, At, frameVars, tableVars
  <2>1. CASE th[t].op = "drop"
    <3>1. StageOf(th[t]) = "none" /\ HoldOf(th[t]) = "none" /\ th[t].frame \in Frames
      BY ZenonT(40), <1>a, <1>b, <2>0, <2>1 DEF Shape, Returns, StageOf, HoldOf, BaseOf, FlushPlaces, WriterPlaces, LatchedPlaces
    <3> QED
      BY ZenonT(40), <1>2, <2>0, <2>1, <3>1, Resumes DEF WaitForPendingFlush, Dropping
  <2>2. CASE th[t].op # "drop"
    <3>1. QuietGoto(th[t], "wberror") /\ Goto(t, "wberror")
      BY ZenonT(40), <1>2, <2>0, <2>2 DEF WaitForPendingFlush, QuietGoto, FlushPlaces, LatchedPlaces
    <3> QED
      BY ZenonT(40), <1>0, <2>0, <3>1, QuietSteps, QuietFollows
  <2> QED
    BY ZenonT(40), <2>1, <2>2
<1>3. ASSUME ReadWritebackError(t) PROVE Follows
  <2>0. th[t].pc = "wberror" /\ th[t].op # "drop" /\ UNCHANGED <<control, tag, key, free>>
    BY ZenonT(40), <1>3, <1>a DEF ReadWritebackError, At, frameVars, tableVars, Shape, Dropping
  <2>1. QuietGoto(th[t], "queue")
    BY ZenonT(40), <2>0 DEF QuietGoto, FlushPlaces, LatchedPlaces
  <2> QED
    BY ZenonT(40), <1>0, <1>3, <2>0, <2>1, QuietSteps, PreparedQuiet, QuietFollows DEF ReadWritebackError
<1>5. ASSUME RollBackFlushTask(t) PROVE Follows
  <2>0. th[t].pc = "begin" /\ th[t].op # "drop" /\ UNCHANGED <<tag, key, free>>
    BY ZenonT(40), <1>5, <1>a DEF RollBackFlushTask, At, tableVars, Shape, Dropping
  <2>1. th[t].pc \in FlushPlaces \ LatchedPlaces
    BY <2>0 DEF FlushPlaces, LatchedPlaces
  <2>2. CancelledWriteback(W(t)) \in Word /\ SameWord(CancelledWriteback(W(t)), W(t))
    BY ZenonT(40), <1>b, <2>1, QuietWords
  <2> QED
    BY ZenonT(40), <1>5, <1>b, <2>0, <2>1, <2>2, FlushReturns, QuietFollows DEF RollBackFlushTask
<1>6. ASSUME BeginFlushTask(t) PROVE Follows
  <2>0. th[t].pc = "begin" /\ th[t].op # "drop" /\ UNCHANGED <<tag, key, free>>
    BY ZenonT(40), <1>6, <1>a DEF BeginFlushTask, At, tableVars, Shape, Dropping
  <2>1. QuietGoto(th[t], "write") /\ th[t].pc \in FlushPlaces
    BY <2>0 DEF QuietGoto, FlushPlaces, LatchedPlaces
  <2>2. BegunWriteback(W(t)) \in Word /\ SameWord(BegunWriteback(W(t)), W(t))
    BY ZenonT(40), <1>b, <2>1, QuietWords
  <2> QED
    BY ZenonT(40), <1>0, <1>6, <1>b, <2>0, <2>1, <2>2, QuietSteps, QuietFollows DEF BeginFlushTask
<1>7. ASSUME WriteTask(t) PROVE Follows
  <2>0. th[t].pc = "write" /\ th[t].op # "drop" /\ UNCHANGED <<control, tag, key, free>>
    BY <1>7, <1>a DEF WriteTask, At, frameVars, tableVars, Shape, Dropping
  <2>1. QuietGoto(th[t], "complete") /\ QuietGoto(th[t], "completefail")
    BY ZenonT(40), <2>0 DEF QuietGoto, FlushPlaces, LatchedPlaces
  <2> QED
    BY ZenonT(40), <1>0, <1>7, <2>0, <2>1, QuietSteps, QuietFollows DEF WriteTask
<1>8. ASSUME FinalizeFlushTask(t) PROVE Follows
  <2>0. th[t].pc \in {"complete", "completefail"} /\ th[t].op # "drop" /\ UNCHANGED <<tag, key, free>>
    BY ZenonT(40), <1>8, <1>a DEF FinalizeFlushTask, tableVars, Shape, Dropping
  <2>1. QuietGoto(th[t], "uncount") /\ th[t].pc \in FlushPlaces \ LatchedPlaces
    BY ZenonT(40), <2>0 DEF QuietGoto, FlushPlaces, LatchedPlaces
  <2>2. Quiet(t)
    BY ZenonT(40), <1>0, <1>8, <2>0, <2>1, QuietSteps, RoundEnds, FlushReturns DEF FinalizeFlushTask
  <2>3. PICK ok \in BOOLEAN : SetControl(t, CompletedWriteback(W(t), ok))
    BY ZenonT(40), <1>8 DEF FinalizeFlushTask, At
  <2>4. CompletedWriteback(W(t), ok) \in Word /\ SameWord(CompletedWriteback(W(t), ok), W(t))
    BY ZenonT(40), <1>b, <2>1, QuietWords
  <2> QED
    BY ZenonT(40), <1>b, <2>0, <2>1, <2>2, <2>3, <2>4, QuietFollows
<1>9. ASSUME UncountDirty(t) PROVE Follows
  BY ZenonT(40), <1>9, RoundEnds, QuietFollows DEF UncountDirty, At, frameVars, tableVars
<1>4. ASSUME CaptureFlushSnapshot(t) PROVE Follows
  <2>0. th[t].pc = "snapshot" /\ th[t].op # "drop" /\ UNCHANGED <<control, tag, key, free>>
    BY ZenonT(40), <1>4, <1>a DEF CaptureFlushSnapshot, At, frameVars, tableVars, Shape, Dropping
  <2>1. [tag |-> tag[F(t)], data |-> data[F(t)]] \in [tag : Tags \cup {NoTag}, data : Content]
    <3>1. F(t) \in Frames
      BY ZenonT(40), <1>b, <2>0 DEF F, FlushPlaces
    <3>2. tag[F(t)] \in Tags /\ data[F(t)] \in Content
      BY ZenonT(40), <3>1 DEF PoolInv, LifeInv, LifeType, DataTypes
    <3> QED
      BY ZenonT(40), <3>2
  <2>2. PICK l \in {"unlatch_task", "begin"} :
          /\ l = IF TakesLatch(t) THEN "unlatch_task" ELSE "begin"
          /\ th' = [th EXCEPT ![t].pc = l, ![t].task = [tag |-> tag[F(t)], data |-> data[F(t)]]]
    BY ZenonT(40), <1>4 DEF CaptureFlushSnapshot
  <2>3. QuietGoto(th[t], l) /\ l \in Places
    BY SMTT(30), ZenonT(40), <1>0, <2>0, <2>2 DEF QuietGoto, FlushPlaces, LatchedPlaces, TakesLatch
  <2>4. Becomes(t, l, th[t].op, th[t].want, th[t].frame, th[t].from, th[t].mode, th[t].ret)
    BY ZenonT(40), <1>a, <2>1, <2>2, <2>3, FieldsSet
  <2> QED
    BY SMTT(30), ZenonT(40), <2>0, <2>3, <2>4, QuietPlaces, QuietFollows
<1>10. ASSUME FlushHandle(t) PROVE Follows
  <2> DEFINE m == IF th[t].pc = "reading" THEN "stable" ELSE "once"
             s == [th[t] EXCEPT !.pc = "queue", !.ret = th[t].pc, !.mode = m]
  <2>0. /\ th[t].pc \in {"reading", "writing", "marked", "written"} /\ UNCHANGED <<control, tag, key, free>>
        /\ th' = [th EXCEPT ![t] = s]
    BY ZenonT(40), <1>10 DEF FlushHandle, frameVars, tableVars
  <2>1. m \in {"none", "block", "stable", "once", "try", "clean"} /\ "queue" \in Places /\ th[t].pc \in Places
    BY <1>0, <1>a DEF Thread
  <2>2. /\ s \in Thread /\ s.pc = "queue" /\ s.op = th[t].op /\ s.want = th[t].want
        /\ s.frame = th[t].frame /\ s.from = th[t].from /\ s.mode = m /\ s.ret = th[t].pc
    <3> HIDE DEF m
    <3> QED
      BY ZenonT(40), <1>a, <2>1 DEF Thread
  <2> HIDE DEF s
  <2>3. Becomes(t, "queue", th[t].op, th[t].want, th[t].frame, th[t].from, m, th[t].pc)
    BY ZenonT(40), <1>a, <2>0, <2>2, Replaced
  <2>4. Shape(th'[t])
    BY ZenonT(40), <1>a, <2>0, <2>3 DEF Becomes, Shape, Returns, Searching, Dropping, FlushPlaces
  <2>5. KeepsClaim(t) /\ KeepsLatch(t)
    BY ZenonT(40), <2>0, <2>3 DEF Becomes, KeepsClaim, KeepsLatch, StageOf, HoldOf, BaseOf, FlushPlaces, WriterPlaces, LatchedPlaces
  <2> QED
    BY ZenonT(40), <2>0, <2>3, <2>4, <2>5, BecomesMoves, CallMoves
<1> QED
  BY ZenonT(40), <1>1, <1>2, <1>3, <1>4, <1>5, <1>6, <1>7, <1>8, <1>9, <1>10

-----------------------------------------------------------------------------
(* Steps in which a call owns a frame, from reservation to release.        *)

\* A frame is popped, and a candidate is claimed, flushed first or given up.
LEMMA ReserveSteps ==
  ASSUME PoolInv, NEW t \in Threads
  PROVE  /\ PopFree(t) => Follows
         /\ TryReserve(t) => Follows
<1>a. th \in [Threads -> Thread] /\ th[t] \in Thread /\ Shape(th[t])
  BY ZenonT(40), CallFacts
<1>1. ASSUME PopFree(t) PROVE Follows
  <2>0. th[t].pc \in {"miss", "acquire"} /\ UNCHANGED <<control, tag, key>>
    BY <1>1 DEF PopFree, frameVars, tableVars
  <2>1. PICK f \in free : free' = free \ {f} /\ Candidate(t, f, "free")
    BY <1>1 DEF PopFree
  <2>2. f \in Frames
    BY ZenonT(40) DEF PoolInv, LifeInv, LifeType
  <2>3. /\ StageOf(th[t]) = "none" /\ HoldOf(th[t]) = "none" /\ th[t].want \in Tags /\ th[t].ret = "idle"
        /\ th[t].op \notin {"flushall", "clean", "drop"}
    BY ZenonT(40), <1>a, <2>0 DEF StageOf, HoldOf, BaseOf, FlushPlaces, WriterPlaces, LatchedPlaces, Shape, Returns, Dropping
  <2>4. Becomes(t, "reserve", th[t].op, th[t].want, f, "free", th[t].mode, th[t].ret)
    BY ZenonT(40), <1>a, <2>1, <2>2, CandidateFields
  <2>5. Shape(th'[t])
    BY ZenonT(40), <2>2, <2>3, <2>4 DEF Becomes, Shape, Returns, FlushPlaces
  <2>6. /\ StageOf(th'[t]) = "popped" /\ th'[t].frame = f /\ th'[t].want = th[t].want
        /\ KeepsLatch(t)
    BY ZenonT(40), <2>3, <2>4 DEF Becomes, KeepsLatch, StageOf, HoldOf, BaseOf, FlushPlaces, WriterPlaces, LatchedPlaces
  <2>7. ASSUME UNCHANGED <<stateOf, pinsOf>> PROVE [LifeNext]_lifeVars
    <3>1. TakeFree(t, f, th[t].want)
      BY ZenonT(40), <2>0, <2>1, <2>3, <2>4, <2>6, <2>7, BecomesMoves, ClaimChanges DEF TakeFree
    <3> QED
      BY ZenonT(40), <2>2, <2>3, <3>1 DEF LifeNext
  <2> QED
    BY ZenonT(40), <2>0, <2>4, <2>5, <2>6, <2>7, BecomesMoves, ClaimFollows
<1>2. ASSUME TryReserve(t) PROVE Follows
  <2>0. th[t].pc = "reserve" /\ UNCHANGED <<tag, key, free>>
    BY ZenonT(40), <1>2 DEF TryReserve, At, tableVars
  <2>1. PICK f \in Frames : f = th[t].frame /\ W(t) \in Word
    BY ZenonT(40), <2>0, CallFacts DEF Searching
  <2>2. /\ StageOf(th[t]) = (IF th[t].from = "free" THEN "popped" ELSE "none") /\ HoldOf(th[t]) = "none"
        /\ th[t].want \in Tags /\ th[t].ret = "idle" /\ th[t].op \notin {"flushall", "clean", "drop"}
    BY ZenonT(40), <1>a, <2>0 DEF StageOf, HoldOf, BaseOf, FlushPlaces, WriterPlaces, LatchedPlaces, Shape, Returns, Dropping
  <2>3. ASSUME ReserveOutcome(W(t), th[t].from = "free") = "Reserved", SetControl(t, ReservedWord),
               th' = [th EXCEPT ![t].pc = "storetag",
                                ![t].evicted = IF IsResident(W(t)) THEN tag[F(t)] ELSE NoTag]
        PROVE  Follows
    <3>1. "storetag" \in Places /\ (IF IsResident(W(t)) THEN tag[F(t)] ELSE NoTag) \in Tags \cup {NoTag}
      <4>1. tag[f] \in Tags
        BY ZenonT(40) DEF PoolInv, LifeInv, LifeType
      <4> QED
        BY <2>1, <4>1 DEF Places, F
    <3>2. Becomes(t, "storetag", th[t].op, th[t].want, th[t].frame, th[t].from, th[t].mode, th[t].ret)
      BY ZenonT(40), <1>a, <2>3, <3>1, FieldsSet
    <3>3. Shape(th'[t])
      BY ZenonT(40), <1>a, <2>0, <2>2, <3>2 DEF Becomes, Shape, Returns, Searching, Dropping, FlushPlaces
    <3>4. /\ StageOf(th'[t]) = "reserved" /\ th'[t].frame = f /\ th'[t].want = th[t].want /\ KeepsLatch(t)
      BY ZenonT(40), <2>1, <2>2, <3>2 DEF Becomes, KeepsLatch, StageOf, HoldOf, BaseOf, FlushPlaces, WriterPlaces, LatchedPlaces
    <3>5. /\ ReservedWord \in Word /\ ReservedWord.state = "Loading" /\ ReservedWord.pins = 1
          /\ ReservedWord.shared = 0 /\ ReservedWord.exclusive = FALSE
      BY ZenonT(40), <2>1, OwnerWords
    <3>6. /\ stateOf' = [stateOf EXCEPT ![f] = "Loading"] /\ pinsOf' = [pinsOf EXCEPT ![f] = 1]
          /\ stateOf[f] = W(t).state /\ pinsOf[f] = W(t).pins
          /\ sharedOf[f] = W(t).shared /\ exclusiveOf[f] = W(t).exclusive
      BY <2>1, <2>3, <3>5, WordSet
    <3>7. W(t).shared \in Nat /\ W(t).exclusive \in BOOLEAN /\ W(t).state \in States
      <4>1. sharedOf[f] \in 0 .. MaxShared /\ exclusiveOf[f] \in BOOLEAN
        BY DEF PoolInv, LatchInv, LatchType
      <4> QED
        BY <2>1, <3>6, <4>1, FrameControlBounds DEF Word
    <3>8. /\ W(t).pins = 0 /\ W(t).shared = 0 /\ W(t).exclusive = FALSE
          /\ th[t].from # "free" => W(t).state = "Resident"
      BY <2>3, <3>7 DEF ReserveOutcome, Latched, States
    <3>9. ClaimFrame(t, f, th[t].want)
      <4>1. /\ Claims(t, StageOf(th[t])) /\ Claim(t, "reserved", f, th[t].want)
            /\ StageOf(th[t]) # "none" => heldOf[t] = f /\ wantOf[t] = th[t].want
        BY ZenonT(40), <2>1, <3>2, <3>4, BecomesMoves, ClaimChanges
      <4> QED
        BY ZenonT(40), <2>0, <2>2, <3>6, <3>8, <4>1 DEF ClaimFrame
    <3>10. [LifeNext]_lifeVars
      BY ZenonT(40), <2>2, <3>9 DEF LifeNext
    <3> QED
      BY ZenonT(40), <2>1, <2>3, <3>2, <3>3, <3>4, <3>5, <3>8, <3>10, BecomesMoves, ClaimWordFollows
  <2>4. ASSUME th[t].from = "victim", UNCHANGED control,
               th' = [th EXCEPT ![t].pc = "flush", ![t].mode = "block", ![t].ret = "reserve", ![t].from = "flushed"]
        PROVE  Follows
    <3> DEFINE s == [th[t] EXCEPT !.pc = "flush", !.mode = "block", !.ret = "reserve", !.from = "flushed"]
    <3>1. "flush" \in Places /\ "reserve" \in Places
      BY DEF Places
    <3>2. /\ s \in Thread /\ s.pc = "flush" /\ s.op = th[t].op /\ s.want = th[t].want
          /\ s.frame = th[t].frame /\ s.from = "flushed" /\ s.mode = "block" /\ s.ret = "reserve"
      BY ZenonT(40), <1>a, <3>1 DEF Thread
    <3>3. th' = [th EXCEPT ![t] = s]
      BY ZenonT(40), <2>4
    <3> HIDE DEF s
    <3>4. Becomes(t, "flush", th[t].op, th[t].want, th[t].frame, "flushed", "block", "reserve")
      BY ZenonT(40), <1>a, <3>2, <3>3, Replaced
    <3>5. Shape(th'[t])
      BY ZenonT(40), <2>1, <2>2, <3>4 DEF Becomes, Shape, Returns, Searching, Dropping, FlushPlaces
    <3>6. KeepsClaim(t) /\ KeepsLatch(t)
      BY ZenonT(40), <2>2, <2>4, <3>4 DEF Becomes, KeepsClaim, KeepsLatch, StageOf, HoldOf, BaseOf, FlushPlaces, WriterPlaces, LatchedPlaces
    <3> QED
      BY ZenonT(40), <2>0, <2>4, <3>4, <3>5, <3>6, BecomesMoves, CallMoves
  <2>5. ASSUME th[t].from = "free", UNCHANGED control, th' = [th EXCEPT ![t].pc = "push", ![t].ret = "acquire"]
        PROVE  Follows
    <3>1. "push" \in Places /\ "acquire" \in Places
      BY DEF Places
    <3>2. Becomes(t, "push", th[t].op, th[t].want, th[t].frame, th[t].from, th[t].mode, "acquire")
      BY ZenonT(40), <1>a, <2>5, <3>1, FieldsSet
    <3>3. Shape(th'[t])
      BY ZenonT(40), <1>a, <2>1, <2>2, <3>2 DEF Becomes, Shape, Returns, Searching, Dropping, FlushPlaces
    <3>4. KeepsClaim(t) /\ KeepsLatch(t)
      BY ZenonT(40), <2>2, <2>5, <3>2 DEF Becomes, KeepsClaim, KeepsLatch, StageOf, HoldOf, BaseOf, FlushPlaces, WriterPlaces, LatchedPlaces
    <3> QED
      BY ZenonT(40), <2>0, <2>5, <3>2, <3>3, <3>4, BecomesMoves, CallMoves
  <2>6. ASSUME UNCHANGED control, Continue(t, "acquire"),
               th[t].from # "free" \/ ReserveOutcome(W(t), th[t].from = "free") = "NeedsFlush"
        PROVE  Follows
    <3>1. th[t].from # "free"
      BY ZenonT(40), <2>1, <2>2, <2>6, ClaimKnows DEF ReserveOutcome, IsResident
    <3> QED
      BY ZenonT(40), <2>0, <2>2, <2>6, <3>1, Resumes DEF Searching
  <2> QED
    BY ZenonT(40), <1>2, <2>3, <2>4, <2>5, <2>6 DEF TryReserve
<1> QED
  BY ZenonT(40), <1>1, <1>2

\* Goto along a claim, from a place that is not a flush.
LEMMA ClaimGoto ==
  ASSUME PoolInv, NEW t \in Threads, Goto(t, th'[t].pc),
         \/ th[t].pc = "storetag" /\ th'[t].pc = "install"
         \/ th[t].pc = "install" /\ th'[t].pc = "load"
         \/ th[t].pc = "abort" /\ th'[t].pc = "cleartag"
         \/ th[t].pc = "cleartag" /\ th'[t].pc = "release"
         \/ th[t].pc = "release" /\ th'[t].pc = "push"
         \/ th[t].pc = "dropremove" /\ th'[t].pc = "droptag"
         \/ th[t].pc = "droptag" /\ th'[t].pc = "push"
         \/ th[t].pc = "discard" /\ th'[t].pc \in {"dropcount", "dropremove", "waitlatch", "unpin"}
  PROVE  /\ Moves(t) /\ Shape(th'[t]) /\ KeepsLatch(t)
         /\ th[t].frame \in Frames /\ th'[t].frame = th[t].frame /\ th'[t].want = th[t].want
         /\ BaseOf(th[t]) = th[t].pc /\ BaseOf(th'[t]) = th'[t].pc
<1>1. /\ th \in [Threads -> Thread] /\ th[t] \in Thread /\ Shape(th[t])
      /\ th[t].frame \in Frames
  BY ZenonT(40), CallFacts DEF Searching
<1>2. PICK l \in {"install", "load", "cleartag", "release", "push", "droptag", "dropcount", "dropremove", "waitlatch", "unpin"} :
        l = th'[t].pc
  OBVIOUS
<1>3. l \in Places
  BY DEF Places
<1>4. Becomes(t, l, th[t].op, th[t].want, th[t].frame, th[t].from, th[t].mode, th[t].ret)
  BY ZenonT(40), <1>1, <1>2, <1>3, GotoFields
<1>5. Shape(th'[t])
  BY ZenonT(40), <1>1, <1>2, <1>4 DEF Becomes, Shape, Returns, Searching, Dropping, FlushPlaces
<1>6. KeepsLatch(t) /\ BaseOf(th[t]) = th[t].pc /\ BaseOf(th'[t]) = th'[t].pc
  BY ZenonT(40), <1>2, <1>4 DEF Becomes, KeepsLatch, HoldOf, BaseOf, FlushPlaces, WriterPlaces, LatchedPlaces
<1> QED
  BY ZenonT(40), <1>1, <1>4, <1>5, <1>6, BecomesMoves DEF Becomes

\* A reserved frame is tagged, mapped, and given up when that fails.
LEMMA LoadSteps ==
  ASSUME PoolInv, NEW t \in Threads
  PROVE  /\ StoreTag(t) => Follows
         /\ Install(t) => Follows
         /\ AbortRemove(t) => Follows
         /\ ClearTag(t) => Follows
         /\ ReleaseToFree(t) => Follows
         /\ PushFree(t) => Follows
<1>a. th \in [Threads -> Thread] /\ th[t] \in Thread /\ Shape(th[t])
  BY ZenonT(40), CallFacts
<1>b. key \in [Frames -> Tags \cup {NoTag}] /\ tag \in [Frames -> Tags]
  BY ZenonT(40) DEF PoolInv, LifeInv, LifeType
<1>g. ASSUME NEW l \in Places, Goto(t, l) PROVE th'[t].pc = l /\ Goto(t, th'[t].pc)
  BY ZenonT(40), <1>a, <1>g, GotoFields DEF Becomes
<1>1. ASSUME StoreTag(t) PROVE Follows
  <2>0. /\ th[t].pc = "storetag" /\ UNCHANGED <<control, key, free>> /\ Goto(t, "install")
        /\ tag' = [tag EXCEPT ![th[t].frame] = th[t].want]
    BY ZenonT(40), <1>1 DEF StoreTag, At, F, tableVars
  <2>1. th'[t].pc = "install" /\ Goto(t, th'[t].pc)
    BY ZenonT(40), <1>g, <2>0 DEF Places
  <2>2. /\ Moves(t) /\ Shape(th'[t]) /\ KeepsLatch(t)
        /\ th'[t].frame = th[t].frame /\ th'[t].want = th[t].want
        /\ StageOf(th[t]) = "reserved" /\ StageOf(th'[t]) = "tagged"
    BY ZenonT(40), <2>0, <2>1, ClaimGoto DEF StageOf, WriterPlaces
  <2>3. ASSUME UNCHANGED <<stateOf, pinsOf>> PROVE [LifeNext]_lifeVars
    <3>1. TagFrame(t)
      BY ZenonT(40), <2>0, <2>2, <2>3, ClaimChanges DEF TagFrame
    <3> QED
      BY ZenonT(40), <3>1 DEF LifeNext
  <2> QED
    BY ZenonT(40), <2>0, <2>2, <2>3, ClaimFollows
<1>2. ASSUME Install(t) PROVE Follows
  <2>0. th[t].pc = "install" /\ UNCHANGED <<control, tag, free>>
    BY ZenonT(40), <1>2 DEF Install, At, frameVars
  <2>1. PICK f \in Frames : f = th[t].frame
    BY ZenonT(40), <2>0, CallFacts DEF Searching
  <2>2. StageOf(th[t]) = "tagged" /\ HoldOf(th[t]) = "none" /\ th[t].ret = "idle" /\ th[t].want \in Tags
    BY ZenonT(40), <1>a, <2>0 DEF StageOf, HoldOf, BaseOf, FlushPlaces, WriterPlaces, LatchedPlaces, Shape, Returns
  <2>3. ASSUME Unlink(f), NEW p \in {"idle", "lookup"}, th' = [th EXCEPT ![t].pc = "cleartag", ![t].ret = p]
        PROVE  Follows
    <3>1. "cleartag" \in Places /\ p \in Places
      BY DEF Places
    <3>2. Becomes(t, "cleartag", th[t].op, th[t].want, th[t].frame, th[t].from, th[t].mode, p)
      BY ZenonT(40), <1>a, <2>3, <3>1, FieldsSet
    <3>3. Shape(th'[t])
      BY ZenonT(40), <1>a, <2>0, <3>2 DEF Becomes, Shape, Returns, Searching, Dropping, FlushPlaces
    <3>4. /\ StageOf(th'[t]) = "unmapped" /\ KeepsLatch(t)
          /\ th'[t].frame = th[t].frame /\ th'[t].want = th[t].want
      BY ZenonT(40), <2>2, <3>2 DEF Becomes, KeepsLatch, StageOf, HoldOf, BaseOf, FlushPlaces, WriterPlaces, LatchedPlaces
    <3>5. ASSUME UNCHANGED <<stateOf, pinsOf>> PROVE [LifeNext]_lifeVars
      <4>1. UnmapFrame(t)
        BY ZenonT(40), <2>0, <2>1, <2>2, <2>3, <3>2, <3>4, <3>5, BecomesMoves, ClaimChanges DEF UnmapFrame, Unlink
      <4> QED
        BY ZenonT(40), <4>1 DEF LifeNext
    <3> QED
      BY ZenonT(40), <2>0, <3>2, <3>3, <3>4, <3>5, BecomesMoves, ClaimFollows
  <2>4. ASSUME {g \in Linked(th[t].want) \ {f} : IsLiveFor(g, th[t].want)} = {}, Goto(t, "load"),
               IF key[f] = th[t].want /\ th[t].evicted # th[t].want THEN UNCHANGED tableVars
                                                                  ELSE Relink(f, th[t].want)
        PROVE  Follows
    <3>1. th'[t].pc = "load" /\ Goto(t, th'[t].pc)
      BY ZenonT(40), <1>g, <2>4 DEF Places
    <3>2. /\ Moves(t) /\ Shape(th'[t]) /\ KeepsLatch(t)
          /\ th'[t].frame = th[t].frame /\ th'[t].want = th[t].want /\ StageOf(th'[t]) = "installed"
      BY ZenonT(40), <2>0, <3>1, ClaimGoto DEF StageOf, WriterPlaces
    <3>3. key' = [key EXCEPT ![f] = th[t].want]
      BY ZenonT(40), <1>b, <2>4 DEF Relink, tableVars
    <3>4. \A g \in Frames \ {f} : key[g] = th[t].want /\ tag[g] = th[t].want => stateOf[g] = "Free"
      BY ZenonT(40), <2>4 DEF Linked, IsLiveFor, stateOf
    <3>5. ASSUME UNCHANGED <<stateOf, pinsOf>> PROVE [LifeNext]_lifeVars
      <4>1. MapFrame(t)
        BY ZenonT(40), <2>0, <2>1, <2>2, <3>2, <3>3, <3>4, <3>5, ClaimChanges DEF MapFrame
      <4> QED
        BY ZenonT(40), <4>1 DEF LifeNext
    <3> QED
      BY ZenonT(40), <2>0, <3>2, <3>5, ClaimFollows
  <2> QED
    BY ZenonT(40), <1>2, <2>1, <2>3, <2>4 DEF Install, F
<1>3. ASSUME AbortRemove(t) PROVE Follows
  <2>0. th[t].pc = "abort" /\ UNCHANGED <<control, tag, free>> /\ Goto(t, "cleartag")
    BY ZenonT(40), <1>3 DEF AbortRemove, At, frameVars
  <2>1. th'[t].pc = "cleartag" /\ Goto(t, th'[t].pc)
    BY ZenonT(40), <1>g, <2>0 DEF Places
  <2>2. PICK f \in Frames : f = th[t].frame
    BY ZenonT(40), <2>0, CallFacts DEF Searching
  <2>3. /\ Moves(t) /\ Shape(th'[t]) /\ KeepsLatch(t)
        /\ th'[t].frame = th[t].frame /\ th'[t].want = th[t].want
        /\ StageOf(th[t]) = "installed" /\ StageOf(th'[t]) = "unmapped"
    BY ZenonT(40), <2>0, <2>1, ClaimGoto DEF StageOf, WriterPlaces
  <2>4. key' = [key EXCEPT ![f] = NoTag]
    BY ZenonT(40), <1>3, <2>2, <2>3, ClaimKnows DEF AbortRemove, Unlink, F
  <2>5. ASSUME UNCHANGED <<stateOf, pinsOf>> PROVE [LifeNext]_lifeVars
    <3>1. UnmapFrame(t)
      BY ZenonT(40), <2>0, <2>2, <2>3, <2>4, <2>5, ClaimChanges DEF UnmapFrame
    <3> QED
      BY ZenonT(40), <3>1 DEF LifeNext
  <2> QED
    BY <2>0, <2>3, <2>5, ClaimFollows
<1>4. ASSUME ClearTag(t) PROVE Follows
  <2>0. /\ th[t].pc = "cleartag" /\ UNCHANGED <<control, key, free>> /\ Goto(t, "release")
        /\ tag' = [tag EXCEPT ![th[t].frame] = DefaultTag]
    BY ZenonT(40), <1>4 DEF ClearTag, At, F, tableVars
  <2>1. th'[t].pc = "release" /\ Goto(t, th'[t].pc)
    BY ZenonT(40), <1>g, <2>0 DEF Places
  <2>2. /\ Moves(t) /\ Shape(th'[t]) /\ KeepsLatch(t)
        /\ th'[t].frame = th[t].frame /\ th'[t].want = th[t].want
        /\ StageOf(th[t]) = "unmapped" /\ StageOf(th'[t]) = "unmapped"
    BY ZenonT(40), <2>0, <2>1, ClaimGoto DEF StageOf, WriterPlaces
  <2>3. ASSUME UNCHANGED <<stateOf, pinsOf>> PROVE [LifeNext]_lifeVars
    <3>1. Claims(t, "unmapped") /\ heldOf[t] = th[t].frame /\ UNCHANGED <<stageOf, heldOf, wantOf>>
      BY ZenonT(40), <2>2, ClaimChanges, ClaimsMoved DEF KeepsClaim
    <3>2. UntagFrame(t)
      BY ZenonT(40), <2>0, <2>3, <3>1 DEF UntagFrame, claimVars
    <3> QED
      BY ZenonT(40), <3>2 DEF LifeNext
  <2> QED
    BY ZenonT(40), <2>0, <2>2, <2>3, ClaimFollows
<1>5. ASSUME ReleaseToFree(t) PROVE Follows
  <2>0. /\ th[t].pc = "release" /\ UNCHANGED <<tag, key, free>> /\ Goto(t, "push")
        /\ SetControl(t, ReleasedToFree(W(t)))
    BY ZenonT(40), <1>5 DEF ReleaseToFree, At, tableVars
  <2>1. th'[t].pc = "push" /\ Goto(t, th'[t].pc)
    BY ZenonT(40), <1>g, <2>0 DEF Places
  <2>2. PICK f \in Frames : f = th[t].frame /\ W(t) \in Word
    BY ZenonT(40), <2>0, CallFacts DEF Searching
  <2>3. /\ Moves(t) /\ Shape(th'[t]) /\ KeepsLatch(t)
        /\ th'[t].frame = th[t].frame /\ th'[t].want = th[t].want
        /\ StageOf(th[t]) = "unmapped" /\ StageOf(th'[t]) = "popped"
    BY ZenonT(40), <2>0, <2>1, ClaimGoto DEF StageOf, WriterPlaces
  <2>4. /\ ReleasedToFree(W(t)) \in Word /\ ReleasedToFree(W(t)).state = "Free" /\ ReleasedToFree(W(t)).pins = 0
        /\ ReleasedToFree(W(t)).shared = W(t).shared /\ ReleasedToFree(W(t)).exclusive = W(t).exclusive
    BY ZenonT(40), <2>2, OwnerWords
  <2>5. stateOf' = [stateOf EXCEPT ![f] = "Free"] /\ pinsOf' = [pinsOf EXCEPT ![f] = 0]
    BY <2>0, <2>2, <2>4, WordSet
  <2>6. FreeFrame(t)
    BY ZenonT(40), <2>0, <2>2, <2>3, <2>5, ClaimChanges DEF FreeFrame
  <2>7. [LifeNext]_lifeVars
    BY ZenonT(40), <2>6 DEF LifeNext
  <2> QED
    BY ZenonT(40), <2>0, <2>2, <2>3, <2>4, <2>7, ClaimWordFollows
<1>6. ASSUME PushFree(t) PROVE Follows
  <2>0. /\ th[t].pc = "push" /\ UNCHANGED <<control, tag, key>> /\ Continue(t, th[t].ret)
        /\ free' = free \cup {th[t].frame}
    BY <1>6 DEF PushFree, At, F, frameVars, tableVars
  <2>1. /\ StageOf(th[t]) = "popped" /\ HoldOf(th[t]) = "none" /\ th[t].ret \in {"idle", "lookup", "acquire"}
        /\ th[t].op = "drop" => th[t].ret = "idle"
    BY ZenonT(40), <1>a, <2>0 DEF StageOf, HoldOf, BaseOf, FlushPlaces, WriterPlaces, LatchedPlaces, Shape, Returns
  <2>2. th[t].ret \in Places
    BY ZenonT(40), <1>a DEF Thread
  <2>3. \/ th[t].ret = "idle" /\ Becomes(t, "idle", "none", NoTag, NoFrame, "none", "none", "idle")
        \/ /\ th[t].ret # "idle"
           /\ Becomes(t, th[t].ret, th[t].op, th[t].want, NoFrame, "none", "none", "idle")
    BY ZenonT(40), <1>a, <2>0, <2>1, <2>2, ContinueFields
  <2>4. Shape(th'[t])
    BY ZenonT(40), <1>a, <2>0, <2>1, <2>3 DEF Becomes, Shape, Returns, Searching, Dropping, FlushPlaces
  <2>5. StageOf(th'[t]) = "none" /\ KeepsLatch(t)
    BY ZenonT(40), <2>1, <2>3 DEF Becomes, KeepsLatch, StageOf, HoldOf, BaseOf, FlushPlaces, WriterPlaces, LatchedPlaces
  <2>6. ASSUME UNCHANGED <<stateOf, pinsOf>> PROVE [LifeNext]_lifeVars
    <3>1. GiveFree(t)
      BY ZenonT(40), <2>0, <2>1, <2>3, <2>5, <2>6, BecomesMoves, ClaimChanges DEF GiveFree
    <3> QED
      BY ZenonT(40), <3>1 DEF LifeNext
  <2> QED
    BY ZenonT(40), <2>0, <2>3, <2>4, <2>5, <2>6, BecomesMoves, ClaimFollows
<1> QED
  BY ZenonT(40), <1>1, <1>2, <1>3, <1>4, <1>5, <1>6

=============================================================================
