--------------------------- MODULE BufferPoolCalls --------------------------
(***************************************************************************)
(* Lemmas on the control words and on the records of the calls of          *)
(* BufferPool that the proofs about frames and about contents share.       *)
(***************************************************************************)
EXTENDS BufferPool, TLAPS

-----------------------------------------------------------------------------
(* Control words.                                                          *)

\* A control word whose counts are not yet known to stay in range.
Word ==
  [state : States, dirty : BOOLEAN, queued : BOOLEAN, active : BOOLEAN,
   redirtied : BOOLEAN, exclusive : BOOLEAN, shared : Int, pins : Int]

\* w differs from v in neither state, pins nor latches.
SameWord(v, w) ==
  v.state = w.state /\ v.pins = w.pins /\ v.shared = w.shared /\ v.exclusive = w.exclusive

\* The transitions of dirtiness and writeback leave state, pins and latches.
LEMMA QuietWords ==
  ASSUME NEW w \in Word, NEW b \in BOOLEAN
  PROVE  /\ MarkedDirty(w) \in Word /\ SameWord(MarkedDirty(w), w)
         /\ QueuedWriteback(w) \in Word /\ SameWord(QueuedWriteback(w), w)
         /\ BegunWriteback(w) \in Word /\ SameWord(BegunWriteback(w), w)
         /\ CancelledWriteback(w) \in Word /\ SameWord(CancelledWriteback(w), w)
         /\ CompletedWriteback(w, b) \in Word /\ SameWord(CompletedWriteback(w, b), w)
<1>1. MarkedDirty(w) \in Word /\ SameWord(MarkedDirty(w), w)
  BY ZenonT(40) DEF MarkedDirty, Word, SameWord, IsResident, HasWriteback
<1>2. QueuedWriteback(w) \in Word /\ SameWord(QueuedWriteback(w), w)
  BY ZenonT(40) DEF QueuedWriteback, Word, SameWord
<1>3. BegunWriteback(w) \in Word /\ SameWord(BegunWriteback(w), w)
  BY ZenonT(40) DEF BegunWriteback, Word, SameWord
<1>4. CancelledWriteback(w) \in Word /\ SameWord(CancelledWriteback(w), w)
  BY ZenonT(40) DEF CancelledWriteback, Word, SameWord
<1>5. CompletedWriteback(w, b) \in Word /\ SameWord(CompletedWriteback(w, b), w)
  BY ZenonT(40) DEF CompletedWriteback, ClearsDirty, Word, SameWord, IsResident
<1> QED
  BY <1>1, <1>2, <1>3, <1>4, <1>5

\* The transitions of the latch leave state and pins.
LEMMA LatchWords ==
  ASSUME NEW w \in Word
  PROVE  /\ AcquiredShared(w) \in Word /\ AcquiredShared(w).shared = w.shared + 1
         /\ AcquiredShared(w).state = w.state /\ AcquiredShared(w).pins = w.pins
         /\ AcquiredShared(w).exclusive = w.exclusive
         /\ ReleasedShared(w) \in Word /\ ReleasedShared(w).shared = w.shared - 1
         /\ ReleasedShared(w).state = w.state /\ ReleasedShared(w).pins = w.pins
         /\ ReleasedShared(w).exclusive = w.exclusive
         /\ AcquiredExclusive(w) \in Word /\ AcquiredExclusive(w).exclusive = TRUE
         /\ AcquiredExclusive(w).state = w.state /\ AcquiredExclusive(w).pins = w.pins
         /\ AcquiredExclusive(w).shared = w.shared
         /\ ReleasedExclusive(w) \in Word /\ ReleasedExclusive(w).exclusive = FALSE
         /\ ReleasedExclusive(w).state = w.state /\ ReleasedExclusive(w).pins = w.pins
         /\ ReleasedExclusive(w).shared = w.shared
<1>1. AcquiredShared(w) \in Word /\ ReleasedShared(w) \in Word
  BY DEF AcquiredShared, ReleasedShared, Word
<1>2. AcquiredExclusive(w) \in Word
  BY ZenonT(40) DEF AcquiredExclusive, Word
<1>3. ReleasedExclusive(w) \in Word
  BY ZenonT(40) DEF ReleasedExclusive, HasWriteback, Word
<1> QED
  BY <1>1, <1>2, <1>3 DEF AcquiredShared, ReleasedShared, AcquiredExclusive, ReleasedExclusive, HasWriteback, Word

\* The transitions of pins, reservation and release leave the latch bits, or
\* clear them.
LEMMA OwnerWords ==
  ASSUME NEW w \in Word, NEW b \in BOOLEAN
  PROVE  /\ Pinned(w) \in Word /\ Pinned(w).pins = w.pins + 1 /\ Pinned(w).state = w.state
         /\ Pinned(w).shared = w.shared /\ Pinned(w).exclusive = w.exclusive
         /\ w.pins # 0 => /\ Unpinned(w) \in Word /\ Unpinned(w).pins = w.pins - 1
                          /\ Unpinned(w).state = w.state
                          /\ Unpinned(w).shared = w.shared /\ Unpinned(w).exclusive = w.exclusive
         /\ ReservedWord \in Word /\ ReservedWord.state = "Loading" /\ ReservedWord.pins = 1
         /\ ReservedWord.shared = 0 /\ ReservedWord.exclusive = FALSE
         /\ FreeWord \in Word /\ FreeWord.state = "Free" /\ FreeWord.pins = 0
         /\ FreeWord.shared = 0 /\ FreeWord.exclusive = FALSE
         /\ PublishedResident(w, b) \in Word /\ PublishedResident(w, b).state = "Resident"
         /\ PublishedResident(w, b).pins = IF b THEN w.pins - 1 ELSE w.pins
         /\ PublishedResident(w, b).shared = w.shared /\ PublishedResident(w, b).exclusive = w.exclusive
         /\ ReleasedToFree(w) \in Word /\ ReleasedToFree(w).state = "Free" /\ ReleasedToFree(w).pins = 0
         /\ ReleasedToFree(w).shared = w.shared /\ ReleasedToFree(w).exclusive = w.exclusive
<1>1. /\ Pinned(w) \in Word /\ Pinned(w).pins = w.pins + 1 /\ Pinned(w).state = w.state
      /\ Pinned(w).shared = w.shared /\ Pinned(w).exclusive = w.exclusive
  BY DEF Pinned, Word
<1>2. w.pins # 0 => /\ Unpinned(w) \in Word /\ Unpinned(w).pins = w.pins - 1
                    /\ Unpinned(w).state = w.state
                    /\ Unpinned(w).shared = w.shared /\ Unpinned(w).exclusive = w.exclusive
  BY DEF Unpinned, Word
<1>3. /\ FreeWord \in Word /\ FreeWord.state = "Free" /\ FreeWord.pins = 0
      /\ FreeWord.shared = 0 /\ FreeWord.exclusive = FALSE
  BY DEF FreeWord, Word, States
<1>4. /\ ReservedWord \in Word /\ ReservedWord.state = "Loading" /\ ReservedWord.pins = 1
      /\ ReservedWord.shared = 0 /\ ReservedWord.exclusive = FALSE
  <2>1. "Loading" \in States /\ 1 \in Int
    BY DEF States
  <2> QED
    BY ZenonT(40), <1>3, <2>1 DEF ReservedWord, Word
<1>5. /\ PublishedResident(w, b) \in Word /\ PublishedResident(w, b).state = "Resident"
      /\ PublishedResident(w, b).pins = IF b THEN w.pins - 1 ELSE w.pins
      /\ PublishedResident(w, b).shared = w.shared /\ PublishedResident(w, b).exclusive = w.exclusive
  <2>1. "Resident" \in States /\ w.pins \in Int /\ w.pins - 1 \in Int
    BY DEF States, Word
  <2>2. PublishedResident(w, b) \in Word
    BY ZenonT(40), <2>1 DEF PublishedResident, Word
  <2> QED
    BY <2>2 DEF PublishedResident, Word
<1>6. /\ ReleasedToFree(w) \in Word /\ ReleasedToFree(w).state = "Free" /\ ReleasedToFree(w).pins = 0
      /\ ReleasedToFree(w).shared = w.shared /\ ReleasedToFree(w).exclusive = w.exclusive
  <2>1. w.shared \in Int /\ w.exclusive \in BOOLEAN
    BY DEF Word
  <2> QED
    BY ZenonT(40), <1>3, <2>1 DEF ReleasedToFree, Word
<1> QED
  BY <1>1, <1>2, <1>3, <1>4, <1>5, <1>6

-----------------------------------------------------------------------------
(* Call records.                                                           *)

\* Only the call of t changes; the fields that the proofs look at become these.
Becomes(t, l, o, k, f, fr, m, rt) ==
  /\ th' \in [Threads -> Thread]
  /\ \A u \in Threads \ {t} : th'[u] = th[u]
  /\ th'[t].pc = l /\ th'[t].op = o /\ th'[t].want = k /\ th'[t].frame = f
  /\ th'[t].from = fr /\ th'[t].mode = m /\ th'[t].ret = rt

\* The record of a call is replaced by another one.
LEMMA Replaced ==
  ASSUME th \in [Threads -> Thread], NEW t \in Threads, NEW s \in Thread,
         th' = [th EXCEPT ![t] = s]
  PROVE  Becomes(t, s.pc, s.op, s.want, s.frame, s.from, s.mode, s.ret)
<1> QED
  BY DEF Becomes

\* The records that a call starts and ends with are well formed.
LEMMA IdleRecord ==
  /\ NoTask \in [tag : Tags \cup {NoTag}, data : Content]
  /\ IdleThread \in Thread
  /\ IdleThread.pc = "idle" /\ IdleThread.op = "none" /\ IdleThread.want = NoTag
  /\ IdleThread.frame = NoFrame /\ IdleThread.from = "none" /\ IdleThread.mode = "none"
  /\ IdleThread.ret = "idle"
<1>1. NoTask \in [tag : Tags \cup {NoTag}, data : Content]
  BY DEF NoTask, Content
<1>2. "idle" \in Places
  BY DEF Places
<1> QED
  BY <1>1, <1>2 DEF IdleThread, Thread

\* Goto changes the place alone.
LEMMA GotoFields ==
  ASSUME th \in [Threads -> Thread], NEW t \in Threads, NEW l \in Places, Goto(t, l)
  PROVE  Becomes(t, l, th[t].op, th[t].want, th[t].frame, th[t].from, th[t].mode, th[t].ret)
<1> DEFINE s == [th[t] EXCEPT !.pc = l]
<1>1. th[t] \in Thread
  OBVIOUS
<1>2. s \in Thread
  BY <1>1 DEF Thread
<1> QED
  BY <1>1, <1>2 DEF Goto, Becomes, Thread

\* Continue forgets the attempt, or the flush, that the call leaves.
LEMMA ContinueFields ==
  ASSUME th \in [Threads -> Thread], NEW t \in Threads, NEW l \in Places, Continue(t, l)
  PROVE  /\ l = "idle" => Becomes(t, l, "none", NoTag, NoFrame, "none", "none", "idle")
         /\ l \in {"lookup", "miss", "acquire"} =>
              Becomes(t, l, th[t].op, th[t].want, NoFrame, "none", "none", "idle")
         /\ l \notin {"idle", "lookup", "miss", "acquire"} =>
              Becomes(t, l, th[t].op, th[t].want, th[t].frame, th[t].from, "none", "idle")
<1> DEFINE r == th[t]
<1>1. r \in Thread
  OBVIOUS
<1>2. "idle" \in Places
  BY DEF Places
<1>3. CASE l = "idle"
  <2>1. th' = [th EXCEPT ![t] = IdleThread]
    BY <1>3 DEF Continue, Continued
  <2> QED
    BY <1>3, <2>1, IdleRecord DEF Becomes
<1>4. CASE l \in {"lookup", "miss", "acquire"}
  <2> DEFINE s == [IdleThread EXCEPT !.pc = l, !.op = r.op, !.want = r.want]
  <2>1. th' = [th EXCEPT ![t] = s]
    BY <1>4 DEF Continue, Continued
  <2>2. s \in Thread
    <3>1. r.op \in AllOps \cup {"none"} /\ r.want \in Tags \cup {NoTag}
      BY <1>1 DEF Thread
    <3>2. IdleThread \in Thread
      BY ZenonT(40), IdleRecord
    <3> HIDE DEF r
    <3> QED
      BY ZenonT(40), <3>1, <3>2 DEF Thread
  <2>3. s.pc = l /\ s.op = r.op /\ s.want = r.want /\ s.frame = NoFrame
        /\ s.from = "none" /\ s.mode = "none" /\ s.ret = "idle"
    BY DEF IdleThread
  <2> HIDE DEF s
  <2> QED
    BY <1>4, <2>1, <2>2, <2>3 DEF Becomes
<1>5. CASE l \notin {"idle", "lookup", "miss", "acquire"}
  <2> DEFINE s == [r EXCEPT !.pc = l, !.ret = "idle", !.mode = "none", !.task = NoTask]
  <2>1. th' = [th EXCEPT ![t] = s]
    BY ZenonT(40), <1>5 DEF Continue, Continued
  <2>2. NoTask \in [tag : Tags \cup {NoTag}, data : Content]
    BY IdleRecord
  <2>4. s \in Thread
    BY ZenonT(40), <1>1, <1>2, <2>2 DEF Thread
  <2>3. s.pc = l /\ s.op = r.op /\ s.want = r.want /\ s.frame = r.frame
        /\ s.from = r.from /\ s.mode = "none" /\ s.ret = "idle"
    BY <1>1 DEF Thread
  <2> HIDE DEF s
  <2> QED
    BY <1>5, <2>1, <2>3, <2>4 DEF Becomes
<1> QED
  BY <1>3, <1>4, <1>5

\* A call turns to a frame that it may reserve.
LEMMA CandidateFields ==
  ASSUME th \in [Threads -> Thread], NEW t \in Threads, NEW f \in Frames,
         NEW c \in {"none", "ring", "free", "victim", "flushed"}, Candidate(t, f, c)
  PROVE  Becomes(t, "reserve", th[t].op, th[t].want, f, c, th[t].mode, th[t].ret)
<1>0. th[t] \in Thread /\ "reserve" \in Places
  BY DEF Places
<1>1. [th[t] EXCEPT !.pc = "reserve", !.frame = f, !.from = c] \in Thread
  BY ZenonT(60), <1>0 DEF Thread
<1> QED
  BY <1>0, <1>1 DEF Candidate, Becomes, Thread

\* A place and one or two other fields change.
LEMMA FieldsSet ==
  ASSUME th \in [Threads -> Thread], NEW t \in Threads, NEW l \in Places
  PROVE  /\ \A f \in Frames :
              th' = [th EXCEPT ![t].pc = l, ![t].frame = f] =>
                Becomes(t, l, th[t].op, th[t].want, f, th[t].from, th[t].mode, th[t].ret)
         /\ \A p \in Places :
              th' = [th EXCEPT ![t].pc = l, ![t].ret = p] =>
                Becomes(t, l, th[t].op, th[t].want, th[t].frame, th[t].from, th[t].mode, p)
         /\ \A k \in Tags \cup {NoTag} :
              th' = [th EXCEPT ![t].pc = l, ![t].evicted = k] =>
                Becomes(t, l, th[t].op, th[t].want, th[t].frame, th[t].from, th[t].mode, th[t].ret)
         /\ \A d \in [tag : Tags \cup {NoTag}, data : Content] :
              th' = [th EXCEPT ![t].pc = l, ![t].task = d] =>
                Becomes(t, l, th[t].op, th[t].want, th[t].frame, th[t].from, th[t].mode, th[t].ret)
<1>0. th[t] \in Thread
  OBVIOUS
<1>2. ASSUME NEW f \in Frames, th' = [th EXCEPT ![t].pc = l, ![t].frame = f]
      PROVE  Becomes(t, l, th[t].op, th[t].want, f, th[t].from, th[t].mode, th[t].ret)
  <2>1. [th[t] EXCEPT !.pc = l, !.frame = f] \in Thread
    BY ZenonT(40), <1>0 DEF Thread
  <2> QED
    BY <1>0, <1>2, <2>1 DEF Becomes, Thread
<1>3. ASSUME NEW p \in Places, th' = [th EXCEPT ![t].pc = l, ![t].ret = p]
      PROVE  Becomes(t, l, th[t].op, th[t].want, th[t].frame, th[t].from, th[t].mode, p)
  <2>1. [th[t] EXCEPT !.pc = l, !.ret = p] \in Thread
    BY ZenonT(40), <1>0 DEF Thread
  <2> QED
    BY <1>0, <1>3, <2>1 DEF Becomes, Thread
<1>4. ASSUME NEW k \in Tags \cup {NoTag}, th' = [th EXCEPT ![t].pc = l, ![t].evicted = k]
      PROVE  Becomes(t, l, th[t].op, th[t].want, th[t].frame, th[t].from, th[t].mode, th[t].ret)
  <2>1. [th[t] EXCEPT !.pc = l, !.evicted = k] \in Thread
    BY ZenonT(40), <1>0 DEF Thread
  <2> QED
    BY <1>0, <1>4, <2>1 DEF Becomes, Thread
<1>5. ASSUME NEW d \in [tag : Tags \cup {NoTag}, data : Content],
             th' = [th EXCEPT ![t].pc = l, ![t].task = d]
      PROVE  Becomes(t, l, th[t].op, th[t].want, th[t].frame, th[t].from, th[t].mode, th[t].ret)
  <2>1. [th[t] EXCEPT !.pc = l, !.task = d] \in Thread
    BY ZenonT(40), <1>0 DEF Thread
  <2> QED
    BY <1>0, <1>5, <2>1 DEF Becomes, Thread
<1> QED
  BY ZenonT(40), <1>2, <1>3, <1>4, <1>5

\* The call of t alone moves.
Moves(t) == th' \in [Threads -> Thread] /\ \A u \in Threads \ {t} : th'[u] = th[u]

\* A move that is known field by field is a move.
LEMMA BecomesMoves ==
  ASSUME NEW t, NEW l, NEW o, NEW k, NEW f, NEW fr, NEW m, NEW rt,
         Becomes(t, l, o, k, f, fr, m, rt)
  PROVE  Moves(t)
BY DEF Becomes, Moves

\* The types of the variables that no claim and no latch is about.
DataTypes ==
  /\ wbError \in [Frames -> BOOLEAN]
  /\ behind \in [Frames -> SUBSET Frames]
  /\ data \in [Frames -> Content]
  /\ disk \in [Tags -> Content]
  /\ dirtyCount \in Int
  /\ latest \in [Tags -> Content]

-----------------------------------------------------------------------------
(* The shape of a call: what its place says about the rest of its record.  *)

\* Places of a call that has no frame in hand, and of one that drops a page.
Searching == {"idle", "lookup", "peek", "miss", "acquire", "scan"}
Dropping ==
  {"dscan", "dscanstate", "waitload", "pin", "check", "unpin", "discard", "waitlatch",
   "waitwb", "dropcount", "dropremove", "droptag", "push"}

\* Where a call goes from the place it is at, if that place is a subroutine.
Returns(r) ==
  CASE r.pc = "unpin" -> {"idle", "isloading", "dscan", "waitwb"}
    [] r.pc = "push" -> {"idle", "lookup", "acquire"}
    [] r.pc \in {"cleartag", "release"} -> {"idle", "lookup"}
    [] r.pc \in FlushPlaces /\ r.mode = "block" -> {"idle", "unpin", "reserve"}
    [] r.pc \in FlushPlaces /\ r.mode = "stable" -> {"reading"}
    [] r.pc \in FlushPlaces /\ r.mode = "once" -> {"writing", "marked", "written"}
    [] OTHER -> {"idle"}

Shape(r) ==
  /\ r.pc \notin Searching => r.frame \in Frames
  /\ r.op \in {"flushall", "clean"} => r.pc \in FlushPlaces /\ r.ret = "idle"
  /\ r.pc # "idle" /\ r.op \notin {"flushall", "clean"} => r.want \in Tags
  /\ r.op = "drop" =>
       r.pc \in Dropping /\ r.mode = "none" /\ r.ret \in {"idle", "dscan", "waitwb"}
  /\ r.ret \in Returns(r)
  /\ r.ret = "reserve" => r.from = "flushed"
  /\ r.pc \in {"flush", "unlatch_task", "unlatch_clean", "unlatch_fail", "unlatch_busy"} =>
       r.mode \in {"block", "try", "clean"}
  /\ r.pc = "unlatch_busy" => r.mode # "block"
  /\ r.pc = "zerolatch" => r.op = "zero"

CallShape == \A t \in Threads : Shape(th[t])

=============================================================================
