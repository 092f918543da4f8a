---------------------------- MODULE ContentLatch ----------------------------
(***************************************************************************)
(* What the latch bits of the control words promise: a latch for readers   *)
(* or one writer on each frame, with a limited number of readers.          *)
(* hold[t] is the latch that thread t has, on the frame latched[t].        *)
(***************************************************************************)
EXTENDS Naturals, FiniteSets

CONSTANTS Threads, Frames, NoFrame, MaxShared

VARIABLES shared, exclusive, hold, latched

latchVars == <<shared, exclusive, hold, latched>>

LatchInit ==
  /\ shared = [f \in Frames |-> 0]
  /\ exclusive = [f \in Frames |-> FALSE]
  /\ hold = [t \in Threads |-> "none"]
  /\ latched = [t \in Threads |-> NoFrame]

Hold(t, h, f) ==
  /\ hold' = [hold EXCEPT ![t] = h]
  /\ latched' = [latched EXCEPT ![t] = f]

TakeShared(t, f) ==
  /\ hold[t] = "none" /\ ~exclusive[f] /\ shared[f] < MaxShared
  /\ shared' = [shared EXCEPT ![f] = @ + 1]
  /\ Hold(t, "shared", f)
  /\ UNCHANGED exclusive

DropShared(t) ==
  /\ hold[t] = "shared"
  /\ shared' = [shared EXCEPT ![latched[t]] = @ - 1]
  /\ Hold(t, "none", NoFrame)
  /\ UNCHANGED exclusive

TakeExclusive(t, f) ==
  /\ hold[t] = "none" /\ ~exclusive[f] /\ shared[f] = 0
  /\ exclusive' = [exclusive EXCEPT ![f] = TRUE]
  /\ Hold(t, "exclusive", f)
  /\ UNCHANGED shared

DropExclusive(t) ==
  /\ hold[t] = "exclusive"
  /\ exclusive' = [exclusive EXCEPT ![latched[t]] = FALSE]
  /\ Hold(t, "none", NoFrame)
  /\ UNCHANGED shared

LatchNext ==
  \E t \in Threads :
    \/ \E f \in Frames : TakeShared(t, f) \/ TakeExclusive(t, f)
    \/ DropShared(t) \/ DropExclusive(t)

LatchSpec == LatchInit /\ [][LatchNext]_latchVars

-----------------------------------------------------------------------------
(* The inductive invariant.                                                *)

Readers(f) == {t \in Threads : hold[t] = "shared" /\ latched[t] = f}
Writers(f) == {t \in Threads : hold[t] = "exclusive" /\ latched[t] = f}

LatchType ==
  /\ shared \in [Frames -> 0 .. MaxShared]
  /\ exclusive \in [Frames -> BOOLEAN]
  /\ hold \in [Threads -> {"none", "shared", "exclusive"}]
  /\ latched \in [Threads -> Frames \cup {NoFrame}]
  /\ \A t \in Threads : hold[t] # "none" => latched[t] \in Frames

ReaderInv == \A f \in Frames : shared[f] = Cardinality(Readers(f))

WriterInv ==
  \A f \in Frames :
    /\ exclusive[f] <=> Writers(f) # {}
    /\ \A t, u \in Writers(f) : t = u
    /\ exclusive[f] => Readers(f) = {}

LatchInv == LatchType /\ ReaderInv /\ WriterInv

=============================================================================
