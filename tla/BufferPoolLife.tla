--------------------------- MODULE BufferPoolLife ---------------------------
(***************************************************************************)
(* The calls of BufferPool seen as the claims of FrameLife and as the      *)
(* holders of ContentLatch: what a call has of a frame is read off its     *)
(* place, and off the place it goes back to while it runs a flush.         *)
(***************************************************************************)
EXTENDS BufferPool

StageOf(r) ==
  CASE BaseOf(r) \in {"check", "unpin"} -> "pinned"
    [] BaseOf(r) \in {"latch", "reading", "discard", "waitlatch"} \cup WriterPlaces -> "verified"
    [] r.pc = "storetag" -> "reserved"
    [] r.pc = "install" -> "tagged"
    [] r.pc \in {"load", "zerolatch", "publish", "abort"} -> "installed"
    [] r.pc \in {"cleartag", "release"} -> "unmapped"
    [] r.pc \in {"dropcount", "dropremove"} -> "dropping"
    [] r.pc \in {"droptag", "push"} -> "popped"
    [] r.pc = "reserve" /\ r.from = "free" -> "popped"
    [] OTHER -> "none"

HoldOf(r) ==
  CASE BaseOf(r) \in WriterPlaces -> "exclusive"
    [] r.pc = "publish" /\ r.op = "zero" -> "exclusive"
    [] BaseOf(r) = "reading" -> "shared"
    [] r.pc \in LatchedPlaces /\ r.mode \in {"block", "try", "clean"} -> "shared"
    [] OTHER -> "none"

stateOf == [f \in Frames |-> control[f].state]
pinsOf == [f \in Frames |-> control[f].pins]
sharedOf == [f \in Frames |-> control[f].shared]
exclusiveOf == [f \in Frames |-> control[f].exclusive]

stageOf == [t \in Threads |-> StageOf(th[t])]
heldOf == [t \in Threads |-> IF StageOf(th[t]) = "none" THEN NoFrame ELSE th[t].frame]
wantOf == [t \in Threads |-> IF StageOf(th[t]) = "none" THEN NoTag ELSE th[t].want]
holdOf == [t \in Threads |-> HoldOf(th[t])]
latchedOf == [t \in Threads |-> IF HoldOf(th[t]) = "none" THEN NoFrame ELSE th[t].frame]

INSTANCE FrameLife WITH
  state <- stateOf, pins <- pinsOf, stage <- stageOf, held <- heldOf, want <- wantOf

INSTANCE ContentLatch WITH
  shared <- sharedOf, exclusive <- exclusiveOf, hold <- holdOf, latched <- latchedOf

\* The two specifications that follow are LifeSpec and LatchSpec; TLC looks at
\* the step that changes nothing, the most frequent one, first.

\* The calls of the pool, with all their retries, races and failures, treat a
\* frame as FrameLife allows: its owner alone loads, maps, frees or retags it,
\* and nobody reserves or drops a frame that another call pins.
KeepsFrameLife == LifeInit /\ [][UNCHANGED lifeVars \/ LifeNext]_lifeVars

\* The latch bits of the control words, which reservation, release and drop
\* rewrite together with the rest of the word, stay a readers-writer latch.
KeepsContentLatch == LatchInit /\ [][UNCHANGED latchVars \/ LatchNext]_latchVars

=============================================================================
