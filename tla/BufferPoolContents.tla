--------------------------- MODULE BufferPoolContents --------------------------
(***************************************************************************)
(* What the pool does to the contents of pages, for any finite set of      *)
(* threads, any set of frames and pages and any limits: a reader sees the  *)
(* last write, an evicted page is on the disk as last written, and the     *)
(* transfers of a page never overlap.                                      *)
(***************************************************************************)
EXTENDS BufferPoolCalls

-----------------------------------------------------------------------------
(* The inductive invariant, beside PoolFacts.                              *)

\* Places of a call whose writeback is queued, or has begun, and of one that
\* carries a snapshot it still has to put on the disk.
QueuedPlaces == {"snapshot", "unlatch_task", "begin"}
ActivePlaces == {"write", "complete", "completefail"}
TaskPlaces == {"unlatch_task", "begin", "write", "complete"}

\* A call that runs a writeback, one that has marked its page dirty, and one
\* that still has to write the zero-filled page it published.
Runs(r) == r.pc \in QueuedPlaces \cup ActivePlaces
Dirties(r) == BaseOf(r) \in {"count", "marked", "written"}
Zeroes(r) == r.op = "zero" /\ BaseOf(r) \in {"writing", "count", "marked"}

\* Only a resident page is dirty, and a page is dirty while it is written back.
WordInv ==
  \A f \in Frames :
    /\ control[f].state # "Resident" => ~control[f].dirty
    /\ HasWriteback(control[f]) => control[f].dirty

\* A frame has one writeback at a time, and its bits say how far it is.
RunInv ==
  /\ \A t \in Threads : th[t].pc \in QueuedPlaces => W(t).queued /\ ~W(t).active
  /\ \A t \in Threads : th[t].pc \in ActivePlaces => W(t).active /\ ~W(t).queued
  /\ \A t, u \in Threads : Runs(th[t]) /\ Runs(th[u]) /\ F(t) = F(u) => t = u

\* A snapshot is of the page its frame holds and is the last write to it, or
\* the frame remembers that a writer came after it.
TaskInv ==
  /\ \A t \in Threads : th[t].pc \in TaskPlaces =>
       /\ th[t].task.tag = tag[F(t)]
       /\ W(t).redirtied \/ W(t).exclusive \/ th[t].task.data = latest[tag[F(t)]]
  /\ \A t \in Threads : At(t, "complete") => disk[tag[F(t)]] = th[t].task.data

\* A resident frame has the last write, unless its writer is yet to give the
\* zero-filled page its first contents.
CopyCurrent ==
  \A f \in Frames : IsResident(control[f]) =>
    data[f] = latest[tag[f]] \/ \E t \in Threads : F(t) = f /\ Zeroes(th[t])

\* A writer's page stays dirty, and a loaded page is what the disk still has.
CallInv ==
  /\ \A t \in Threads : Dirties(th[t]) => W(t).dirty
  /\ \A t \in Threads : At(t, "publish") /\ th[t].op # "zero" => data[F(t)] = disk[th[t].want]

ContentInv == WordInv /\ RunInv /\ TaskInv /\ CopyCurrent /\ CallInv /\ NothingLost

-----------------------------------------------------------------------------
(* What the proofs about frames know of the frame of a call.               *)

PoolTypes ==
  /\ th \in [Threads -> Thread] /\ control \in [Frames -> Word] /\ DataTypes /\ CallShape
  /\ tag \in [Frames -> Tags] /\ free \subseteq Frames

\* The frame of a writer is resident, holds its page and is latched by it alone.
WriterHolds(t) ==
  /\ F(t) \in Frames /\ IsResident(W(t)) /\ W(t).exclusive
  /\ tag[F(t)] = th[t].want /\ th[t].want \in Tags
  /\ \A u \in Threads : Base(u) \in WriterPlaces /\ F(u) = F(t) => u = t

\* The frame of a load is its own, and no resident frame holds its page.
LoaderHolds(t) ==
  /\ F(t) \in Frames /\ W(t).state = "Loading"
  /\ tag[F(t)] = th[t].want /\ th[t].want \in Tags
  /\ \A g \in Frames : IsResident(control[g]) => tag[g] # th[t].want
  /\ \A u \in Threads : F(u) = F(t) /\ th[u].pc \in {"load", "zerolatch", "publish", "abort"} => u = t

\* A frame that is being loaded or dropped is not resident, and nobody else is
\* about to publish it.
OwnerHolds(t) == ~IsResident(W(t)) /\ \A u \in Threads \ {t} : At(u, "publish") => F(u) # F(t)

\* A frame that is read or discarded holds the page; nobody writes what is read.
PinnerHolds(t) ==
  /\ F(t) \in Frames /\ IsResident(W(t)) /\ tag[F(t)] = th[t].want
  /\ Base(t) = "reading" => ~W(t).exclusive

FramesHeld ==
  \A t \in Threads :
    /\ Base(t) \in WriterPlaces => WriterHolds(t)
    /\ th[t].pc \in {"load", "zerolatch", "publish", "abort"} => LoaderHolds(t)
    /\ th[t].pc \in LoadPlaces \cup DropPlaces => OwnerHolds(t)
    /\ Base(t) \in {"reading", "discard"} => PinnerHolds(t)

\* PoolInv implies this (BufferPoolSafety).
PoolFacts == PoolTypes /\ SingleCopy /\ FramesHeld

\* The types, apart from the rest.
LEMMA Typed == PoolFacts => PoolTypes /\ SingleCopy
BY DEF PoolFacts

\* What a step may use of the call it moves.
LEMMA CallRecord ==
  ASSUME PoolFacts, NEW t \in Threads
  PROVE  /\ th \in [Threads -> Thread] /\ th[t] \in Thread /\ Shape(th[t])
         /\ th[t].pc \notin Searching =>
              th[t].frame \in Frames /\ W(t) \in Word /\ W(t) = control[th[t].frame]
BY Typed DEF PoolTypes, CallShape, Shape, W

\* The frame of a writer.
LEMMA WriterFrame ==
  ASSUME PoolFacts, NEW t \in Threads, Base(t) \in WriterPlaces
  PROVE  /\ F(t) \in Frames /\ IsResident(W(t)) /\ W(t).exclusive
         /\ tag[F(t)] = th[t].want /\ th[t].want \in Tags
         /\ \A u \in Threads : Base(u) \in WriterPlaces /\ F(u) = F(t) => u = t
BY DEF PoolFacts, FramesHeld, WriterHolds

\* The frame of a load.
LEMMA LoaderFrame ==
  ASSUME PoolFacts, NEW t \in Threads, th[t].pc \in {"load", "zerolatch", "publish", "abort"}
  PROVE  /\ F(t) \in Frames /\ W(t).state = "Loading"
         /\ tag[F(t)] = th[t].want /\ th[t].want \in Tags
         /\ \A g \in Frames : IsResident(control[g]) => tag[g] # th[t].want
         /\ \A u \in Threads : F(u) = F(t) /\ th[u].pc \in {"load", "zerolatch", "publish", "abort"} => u = t
BY DEF PoolFacts, FramesHeld, LoaderHolds

\* The frame of a writeback is resident and dirty.
LEMMA RunnerFrame ==
  ASSUME PoolFacts, ContentInv, NEW t \in Threads, Runs(th[t])
  PROVE  /\ F(t) \in Frames /\ W(t) = control[F(t)] /\ W(t) \in Word
         /\ IsResident(W(t)) /\ W(t).dirty /\ HasWriteback(W(t)) /\ tag[F(t)] \in Tags
<1>1. F(t) \in Frames /\ W(t) = control[F(t)] /\ W(t) \in Word
  BY CallRecord DEF Runs, QueuedPlaces, ActivePlaces, Searching, F
<1>2. HasWriteback(W(t))
  BY DEF ContentInv, RunInv, Runs, HasWriteback
<1>3. W(t).dirty /\ IsResident(W(t))
  BY <1>1, <1>2 DEF ContentInv, WordInv, IsResident
<1>4. tag[F(t)] \in Tags
  BY <1>1, Typed DEF PoolTypes
<1> QED
  BY <1>1, <1>2, <1>3, <1>4

\* A call that dirties or zeroes a page is its writer.
LEMMA MarkersWrite ==
  ASSUME NEW t, Dirties(th[t]) \/ Zeroes(th[t])
  PROVE  Base(t) \in WriterPlaces
BY DEF Dirties, Zeroes, Base, WriterPlaces

-----------------------------------------------------------------------------
(* Steps that leave pages alone.                                           *)

\* A control word goes from w to v and neither becomes clean nor forgets, while
\* it is written back, that it has a writer or had one.
Grows(v, w) ==
  /\ v.state = w.state /\ v.queued = w.queued /\ v.active = w.active
  /\ w.dirty => v.dirty
  /\ v.dirty => w.dirty \/ IsResident(w)
  /\ HasWriteback(w) /\ (w.redirtied \/ w.exclusive) => v.redirtied \/ v.exclusive

WordsKept == \A f \in Frames : Grows(control'[f], control[f])

\* The call of t moves.  A page that it is about to publish is loaded, one that
\* it has marked is or was dirty, and it does not leave a page it has to write.
KeepsMarks(t) ==
  /\ Moves(t)
  /\ th'[t].pc = "publish" /\ th'[t].op # "zero" => data'[th'[t].frame] = disk'[th'[t].want]
  /\ Dirties(th'[t]) => \/ th'[t].frame \in Frames /\ control'[th'[t].frame].dirty
                        \/ Dirties(th[t]) /\ th'[t].frame = th[t].frame
  /\ Zeroes(th[t]) => Zeroes(th'[t]) /\ th'[t].frame = th[t].frame

\* It also runs no writeback, or no longer.
Turns(t) == KeepsMarks(t) /\ ~Runs(th'[t])

\* Such a step may change the tag and the memory of a frame that is not
\* resident, if nobody is about to publish that frame.
LEMMA Turned ==
  ASSUME PoolFacts, ContentInv, NEW t \in Threads, Turns(t), WordsKept,
         \A f \in Frames : IsResident(control[f]) => tag'[f] = tag[f] /\ data'[f] = data[f],
         \A u \in Threads \ {t} : At(u, "publish") => data'[F(u)] = data[F(u)],
         UNCHANGED <<disk, latest>>
  PROVE  ContentInv'
<1>1. \A u \in Threads \ {t} : th'[u] = th[u]
  BY DEF Turns, KeepsMarks, Moves
<1>2. WordInv'
  BY DEF ContentInv, WordInv, WordsKept, Grows, HasWriteback, IsResident
<1>3. \A u \in Threads : Runs(th'[u]) =>
        u # t /\ Runs(th[u]) /\ F(u) \in Frames /\ Grows(W(u)', W(u)) /\ F(u)' = F(u) /\ th'[u] = th[u]
  <2> SUFFICES ASSUME NEW u \in Threads, Runs(th'[u])
               PROVE  u # t /\ Runs(th[u]) /\ F(u) \in Frames /\ Grows(W(u)', W(u)) /\ F(u)' = F(u) /\ th'[u] = th[u]
    OBVIOUS
  <2>1. u # t /\ th'[u] = th[u]
    BY <1>1 DEF Turns
  <2> QED
    BY <2>1, RunnerFrame DEF WordsKept, W, F
<1>4. RunInv'
  BY <1>3 DEF ContentInv, RunInv, Runs, Grows
<1>5. TaskInv'
  <2>1. \A u \in Threads : th'[u].pc \in TaskPlaces => Runs(th'[u])
    BY DEF TaskPlaces, Runs, QueuedPlaces, ActivePlaces
  <2>2. \A u \in Threads : Runs(th'[u]) => tag'[F(u)] = tag[F(u)]
    BY <1>3, RunnerFrame
  <2>3. \A u \in Threads : At(u, "complete")' => th'[u].pc \in TaskPlaces
    BY DEF At, TaskPlaces
  <2>4. \A u \in Threads : Runs(th'[u]) => HasWriteback(W(u))
    BY <1>3, RunnerFrame
  <2> QED
    BY <1>3, <2>1, <2>2, <2>3, <2>4 DEF ContentInv, TaskInv, Grows, At
<1>6. CopyCurrent'
  <2> SUFFICES ASSUME NEW f \in Frames, IsResident(control'[f])
               PROVE  data'[f] = latest'[tag'[f]] \/ \E u \in Threads : F(u)' = f /\ Zeroes(th'[u])
    BY DEF CopyCurrent
  <2>1. IsResident(control[f])
    BY DEF WordsKept, Grows, IsResident
  <2>2. \A u \in Threads : Zeroes(th[u]) => Zeroes(th'[u]) /\ F(u)' = F(u)
    BY <1>1 DEF Turns, KeepsMarks, F
  <2> QED
    BY <2>1, <2>2 DEF ContentInv, CopyCurrent
<1>7. CallInv'
  <2>1. ASSUME NEW u \in Threads, Dirties(th'[u]) PROVE W(u)'.dirty
    <3>1. CASE Dirties(th[u]) /\ th'[u].frame = th[u].frame
      <4>1. F(u) \in Frames /\ W(u).dirty
        BY <3>1, MarkersWrite, WriterFrame DEF ContentInv, CallInv
      <4> QED
        BY <3>1, <4>1 DEF WordsKept, Grows, W, F
    <3> QED
      BY ZenonT(40), <1>1, <2>1, <3>1 DEF Turns, KeepsMarks, W
  <2>2. ASSUME NEW u \in Threads, At(u, "publish")', th'[u].op # "zero"
        PROVE  data'[F(u)'] = disk'[th'[u].want]
    <3>1. CASE u # t
      BY <1>1, <2>2, <3>1 DEF ContentInv, CallInv, At, F
    <3> QED
      BY <2>2, <3>1 DEF Turns, KeepsMarks, At, F
  <2> QED
    BY <2>1, <2>2 DEF CallInv
<1>8. NothingLost'
  BY DEF ContentInv, NothingLost, WordsKept, Grows, IsResident
<1> QED
  BY <1>2, <1>4, <1>5, <1>6, <1>7, <1>8 DEF ContentInv

-----------------------------------------------------------------------------
(* Steps that take a frame from its page, and steps of a writeback.        *)

\* A frame that nobody writes or writes back is reserved, released or dropped.
\* It was clean, or its page is what the disk has from now on.
LEMMA Vacated ==
  ASSUME PoolFacts, ContentInv, NEW t \in Threads, Turns(t), NEW f \in Frames, NEW w,
         control' = [control EXCEPT ![f] = w], ~IsResident(w), ~w.dirty, ~HasWriteback(w),
         ~HasWriteback(control[f]), \A u \in Threads : F(u) = f => Base(u) \notin WriterPlaces,
         UNCHANGED <<tag, data, disk>>,
         \/ UNCHANGED latest /\ ~control[f].dirty
         \/ IsResident(control[f]) /\ latest' = [latest EXCEPT ![tag[f]] = disk[tag[f]]]
  PROVE  ContentInv'
<1>1. \A u \in Threads \ {t} : th'[u] = th[u]
  BY DEF Turns, KeepsMarks, Moves
<1>2. control \in [Frames -> Word] /\ tag \in [Frames -> Tags] /\ latest \in [Tags -> Content]
  BY Typed DEF PoolTypes, DataTypes
<1>3. control'[f] = w /\ \A g \in Frames \ {f} : control'[g] = control[g]
  BY <1>2
<1>4. \A g \in Frames \ {f} : IsResident(control[g]) => latest'[tag[g]] = latest[tag[g]]
  BY ZenonT(40), <1>2, Typed DEF SingleCopy
<1>5. WordInv'
  BY ZenonT(40), <1>3 DEF ContentInv, WordInv
<1>6. \A u \in Threads : Runs(th'[u]) =>
        /\ u # t /\ Runs(th[u]) /\ F(u) \in Frames \ {f} /\ F(u)' = F(u) /\ th'[u] = th[u]
        /\ W(u)' = W(u) /\ latest'[tag[F(u)]] = latest[tag[F(u)]]
  <2> SUFFICES ASSUME NEW u \in Threads, Runs(th'[u])
               PROVE  /\ u # t /\ Runs(th[u]) /\ F(u) \in Frames \ {f} /\ F(u)' = F(u) /\ th'[u] = th[u]
                      /\ W(u)' = W(u) /\ latest'[tag[F(u)]] = latest[tag[F(u)]]
    OBVIOUS
  <2>1. u # t /\ th'[u] = th[u]
    BY <1>1 DEF Turns
  <2>2. F(u) \in Frames \ {f} /\ W(u) = control[F(u)] /\ IsResident(control[F(u)])
    BY ZenonT(40), <2>1, RunnerFrame
  <2> QED
    BY ZenonT(40), <1>3, <1>4, <2>1, <2>2 DEF W, F
<1>7. RunInv'
  BY <1>6 DEF ContentInv, RunInv, Runs
<1>8. TaskInv'
  <2>1. \A u \in Threads : th'[u].pc \in TaskPlaces \/ At(u, "complete")' => Runs(th'[u])
    BY ZenonT(40) DEF At, TaskPlaces, Runs, QueuedPlaces, ActivePlaces
  <2> QED
    BY <1>6, <2>1 DEF ContentInv, TaskInv, At
<1>9. CopyCurrent'
  <2> SUFFICES ASSUME NEW g \in Frames, IsResident(control'[g])
               PROVE  data'[g] = latest'[tag'[g]] \/ \E u \in Threads : F(u)' = g /\ Zeroes(th'[u])
    BY DEF CopyCurrent
  <2>1. IsResident(control[g]) /\ latest'[tag[g]] = latest[tag[g]]
    BY ZenonT(40), <1>3, <1>4
  <2>2. \A u \in Threads : Zeroes(th[u]) => Zeroes(th'[u]) /\ F(u)' = F(u)
    BY ZenonT(40), <1>1 DEF Turns, KeepsMarks, F
  <2> QED
    BY ZenonT(40), <2>1, <2>2 DEF ContentInv, CopyCurrent
<1>10. CallInv'
  <2>1. ASSUME NEW u \in Threads, Dirties(th'[u]) PROVE W(u)'.dirty
    <3>1. CASE Dirties(th[u]) /\ th'[u].frame = th[u].frame
      <4>1. F(u) \in Frames \ {f} /\ W(u).dirty
        BY ZenonT(40), <3>1, MarkersWrite, WriterFrame DEF ContentInv, CallInv
      <4> QED
        BY ZenonT(40), <1>3, <3>1, <4>1 DEF W, F
    <3> QED
      BY ZenonT(40), <1>1, <2>1, <3>1 DEF Turns, KeepsMarks, W
  <2>2. ASSUME NEW u \in Threads, At(u, "publish")', th'[u].op # "zero"
        PROVE  data'[F(u)'] = disk'[th'[u].want]
    <3>1. CASE u # t
      BY ZenonT(40), <1>1, <2>2, <3>1 DEF ContentInv, CallInv, At, F
    <3> QED
      BY ZenonT(40), <2>2, <3>1 DEF Turns, KeepsMarks, At, F
  <2> QED
    BY ZenonT(40), <2>1, <2>2 DEF CallInv
<1>11. NothingLost'
  <2> SUFFICES ASSUME NEW k \in Tags, disk'[k] # latest'[k]
               PROVE  \E g \in Frames : IsResident(control'[g]) /\ control'[g].dirty /\ tag'[g] = k
    BY DEF NothingLost
  <2>1. disk[k] # latest[k] /\ (k = tag[f] => ~IsResident(control[f]) \/ ~control[f].dirty)
    BY ZenonT(40), <1>2
  <2> QED
    BY <1>3, <2>1 DEF ContentInv, NothingLost
<1> QED
  BY ZenonT(40), <1>5, <1>7, <1>8, <1>9, <1>10, <1>11 DEF ContentInv

\* The call of t takes a step of a writeback of its resident frame, which
\* nobody else writes back: it queues or begins it, moves the page or ends it.
\* The page stays dirty unless the disk now has the last write, which no writer
\* is about to change, and while it is dirty the disk may have anything.
LEMMA WritesBack ==
  ASSUME PoolFacts, ContentInv, NEW t \in Threads, KeepsMarks(t), NEW f \in Frames, f = F(t), NEW w,
         control' = [control EXCEPT ![f] = w], IsResident(control[f]), IsResident(w),
         HasWriteback(w) => w.dirty, w.exclusive = control[f].exclusive,
         control[f].dirty => \/ w.dirty
                             \/ ~w.exclusive /\ disk'[tag[f]] = latest[tag[f]],
         \A u \in Threads \ {t} : Runs(th[u]) => F(u) # f,
         UNCHANGED <<tag, data, latest>>,
         \A k \in Tags : disk'[k] = disk[k] \/ k = tag[f],
         disk'[tag[f]] = disk[tag[f]] \/ w.dirty,
         Runs(th'[t]) => F(t)' = f,
         th'[t].pc \in QueuedPlaces => w.queued /\ ~w.active,
         th'[t].pc \in ActivePlaces => w.active /\ ~w.queued,
         th'[t].pc \in TaskPlaces =>
           /\ th'[t].task.tag = tag[f]
           /\ w.redirtied \/ w.exclusive \/ th'[t].task.data = latest[tag[f]],
         At(t, "complete")' => disk'[tag[f]] = th'[t].task.data
  PROVE  ContentInv'
<1>1. \A u \in Threads \ {t} : th'[u] = th[u]
  BY ZenonT(40) DEF KeepsMarks, Moves
<1>2. control \in [Frames -> Word] /\ tag \in [Frames -> Tags]
  BY ZenonT(40), Typed DEF PoolTypes
<1>3. control'[f] = w /\ \A g \in Frames \ {f} : control'[g] = control[g]
  BY ZenonT(40), <1>2
<1>4. WordInv'
  BY ZenonT(40), <1>3 DEF ContentInv, WordInv, IsResident
<1>5. \A u \in Threads \ {t} : Runs(th'[u]) =>
        /\ Runs(th[u]) /\ F(u) \in Frames \ {f} /\ F(u)' = F(u) /\ th'[u] = th[u]
        /\ W(u)' = W(u) /\ disk'[tag[F(u)]] = disk[tag[F(u)]]
  <2> SUFFICES ASSUME NEW u \in Threads \ {t}, Runs(th'[u])
               PROVE  /\ Runs(th[u]) /\ F(u) \in Frames \ {f} /\ F(u)' = F(u) /\ th'[u] = th[u]
                      /\ W(u)' = W(u) /\ disk'[tag[F(u)]] = disk[tag[F(u)]]
    OBVIOUS
  <2>1. th'[u] = th[u]
    BY ZenonT(40), <1>1
  <2>2. F(u) \in Frames \ {f} /\ W(u) = control[F(u)] /\ IsResident(control[F(u)])
    BY ZenonT(40), <2>1, RunnerFrame
  <2>3. tag[F(u)] # tag[f] /\ tag[F(u)] \in Tags
    BY ZenonT(40), <1>2, <2>2, Typed DEF SingleCopy
  <2> QED
    BY ZenonT(40), <1>3, <2>1, <2>2, <2>3 DEF W, F
<1>6. Runs(th'[t]) => F(t)' = f /\ W(t)' = w
  BY ZenonT(40), <1>3 DEF W, F
<1>7. RunInv'
  <2>1. \A u \in Threads : th'[u].pc \in QueuedPlaces \/ th'[u].pc \in ActivePlaces <=> Runs(th'[u])
    BY ZenonT(40) DEF Runs
  <2>2. \A u \in Threads : th'[u].pc \in QueuedPlaces => W(u)'.queued /\ ~W(u)'.active
    <3>1. ASSUME NEW u \in Threads \ {t}, th'[u].pc \in QueuedPlaces PROVE W(u)'.queued /\ ~W(u)'.active
      <4>1. th'[u] = th[u] /\ W(u)' = W(u)
        BY ZenonT(40), <1>5, <2>1, <3>1
      <4>2. W(u).queued /\ ~W(u).active
        BY ZenonT(40), <3>1, <4>1 DEF ContentInv, RunInv
      <4> QED
        BY ZenonT(40), <4>1, <4>2
    <3> QED
      BY ZenonT(40), <1>6, <2>1, <3>1
  <2>3. \A u \in Threads : th'[u].pc \in ActivePlaces => W(u)'.active /\ ~W(u)'.queued
    <3>1. ASSUME NEW u \in Threads \ {t}, th'[u].pc \in ActivePlaces PROVE W(u)'.active /\ ~W(u)'.queued
      <4>1. th'[u] = th[u] /\ W(u)' = W(u)
        BY ZenonT(40), <1>5, <2>1, <3>1
      <4>2. W(u).active /\ ~W(u).queued
        BY ZenonT(40), <3>1, <4>1 DEF ContentInv, RunInv
      <4> QED
        BY ZenonT(40), <4>1, <4>2
    <3> QED
      BY ZenonT(40), <1>6, <2>1, <3>1
  <2>4. \A u, v \in Threads : Runs(th'[u]) /\ Runs(th'[v]) /\ F(u)' = F(v)' => u = v
    <3>1. \A u \in Threads \ {t} : Runs(th'[u]) => Runs(th[u]) /\ F(u)' = F(u) /\ F(u) # f
      BY ZenonT(40), <1>5
    <3>2. \A u, v \in Threads \ {t} : Runs(th'[u]) /\ Runs(th'[v]) /\ F(u)' = F(v)' => u = v
      <4> SUFFICES ASSUME NEW u \in Threads \ {t}, NEW v \in Threads \ {t}, Runs(th'[u]), Runs(th'[v]), F(u)' = F(v)'
                   PROVE  u = v
        BY ZenonT(40)
      <4>1. Runs(th[u]) /\ Runs(th[v]) /\ F(u) = F(v)
        BY ZenonT(40), <3>1
      <4> QED
        BY ZenonT(40), <4>1 DEF ContentInv, RunInv
    <3>3. \A u \in Threads \ {t} : Runs(th'[u]) /\ Runs(th'[t]) => F(u)' # F(t)'
      BY ZenonT(40), <1>6, <3>1
    <3> QED
      BY ZenonT(40), <3>2, <3>3
  <2> QED
    BY ZenonT(40), <2>2, <2>3, <2>4 DEF RunInv
<1>8. TaskInv'
  <2>1. \A u \in Threads : th'[u].pc \in TaskPlaces \/ At(u, "complete")' => Runs(th'[u])
    BY ZenonT(40) DEF At, TaskPlaces, Runs, QueuedPlaces, ActivePlaces
  <2>2. \A u \in Threads : th'[u].pc \in TaskPlaces =>
          /\ th'[u].task.tag = tag'[F(u)']
          /\ W(u)'.redirtied \/ W(u)'.exclusive \/ th'[u].task.data = latest'[tag'[F(u)']]
    <3>1. ASSUME NEW u \in Threads \ {t}, th'[u].pc \in TaskPlaces
          PROVE  /\ th'[u].task.tag = tag'[F(u)']
                 /\ W(u)'.redirtied \/ W(u)'.exclusive \/ th'[u].task.data = latest'[tag'[F(u)']]
      <4>1. F(u)' = F(u) /\ th'[u] = th[u] /\ W(u)' = W(u)
        BY ZenonT(40), <1>5, <2>1, <3>1
      <4>2. th[u].task.tag = tag[F(u)] /\ (W(u).redirtied \/ W(u).exclusive \/ th[u].task.data = latest[tag[F(u)]])
        BY ZenonT(40), <3>1, <4>1 DEF ContentInv, TaskInv
      <4> QED
        BY ZenonT(40), <4>1, <4>2
    <3>2. ASSUME th'[t].pc \in TaskPlaces
          PROVE  /\ th'[t].task.tag = tag'[F(t)']
                 /\ W(t)'.redirtied \/ W(t)'.exclusive \/ th'[t].task.data = latest'[tag'[F(t)']]
      BY ZenonT(40), <1>6, <2>1, <3>2
    <3> QED
      BY ZenonT(40), <3>1, <3>2
  <2>3. \A u \in Threads : At(u, "complete")' => disk'[tag'[F(u)']] = th'[u].task.data
    <3>1. ASSUME NEW u \in Threads \ {t}, At(u, "complete")' PROVE disk'[tag'[F(u)']] = th'[u].task.data
      <4>1. F(u)' = F(u) /\ th'[u] = th[u] /\ disk'[tag[F(u)]] = disk[tag[F(u)]]
        BY ZenonT(40), <1>5, <2>1, <3>1
      <4>2. disk[tag[F(u)]] = th[u].task.data
        BY ZenonT(40), <3>1, <4>1 DEF ContentInv, TaskInv, At
      <4> QED
        BY ZenonT(40), <4>1, <4>2
    <3>2. ASSUME At(t, "complete")' PROVE disk'[tag'[F(t)']] = th'[t].task.data
      BY ZenonT(40), <1>6, <2>1, <3>2
    <3> QED
      BY ZenonT(40), <3>1, <3>2
  <2> QED
    BY ZenonT(40), <2>2, <2>3 DEF TaskInv
<1>9. CopyCurrent'
  <2>1. \A g \in Frames : IsResident(control'[g]) => IsResident(control[g])
    BY ZenonT(40), <1>3
  <2>2. \A u \in Threads : Zeroes(th[u]) => Zeroes(th'[u]) /\ F(u)' = F(u)
    BY ZenonT(40), <1>1 DEF KeepsMarks, F
  <2> QED
    BY ZenonT(40), <2>1, <2>2 DEF ContentInv, CopyCurrent
<1>10. CallInv'
  <2>1. ASSUME NEW u \in Threads, Dirties(th'[u]) PROVE W(u)'.dirty
    <3>1. CASE Dirties(th[u]) /\ th'[u].frame = th[u].frame
      <4>1. F(u) \in Frames /\ W(u).dirty /\ W(u).exclusive
        BY ZenonT(40), <3>1, MarkersWrite, WriterFrame DEF ContentInv, CallInv
      <4>2. CASE F(u) = f
        <5>1. W(u) = control[f] /\ W(u)' = w
          BY ZenonT(40), <1>3, <3>1, <4>2 DEF W, F
        <5> QED
          BY ZenonT(40), <4>1, <5>1
      <4>3. CASE F(u) # f
        <5>0. control'[F(u)] = control[F(u)]
          BY ZenonT(40), <1>3, <4>1, <4>3
        <5>1. W(u)' = W(u)
          BY ZenonT(40), <3>1, <5>0 DEF W, F
        <5> QED
          BY ZenonT(40), <4>1, <5>1
      <4> QED
        BY ZenonT(40), <4>2, <4>3
    <3> QED
      BY ZenonT(40), <1>1, <2>1, <3>1 DEF KeepsMarks, W
  <2>2. ASSUME NEW u \in Threads, At(u, "publish")', th'[u].op # "zero"
        PROVE  data'[F(u)'] = disk'[th'[u].want]
    <3>1. CASE u # t
      <4>1. th'[u] = th[u]
        BY ZenonT(40), <1>1, <3>1
      <4>2. th[u].want \in Tags /\ th[u].want # tag[f]
        BY ZenonT(40), <2>2, <4>1, LoaderFrame DEF At
      <4>3. At(u, "publish") /\ th[u].op # "zero" /\ F(u)' = F(u)
        BY ZenonT(40), <2>2, <4>1 DEF At, F
      <4> QED
        BY SMTT(30), ZenonT(40), <2>2, <4>1, <4>2, <4>3 DEF ContentInv, CallInv
    <3> QED
      BY ZenonT(40), <2>2, <3>1 DEF KeepsMarks, At, F
  <2> QED
    BY ZenonT(40), <2>1, <2>2 DEF CallInv
<1>11. NothingLost'
  <2> SUFFICES ASSUME NEW k \in Tags, disk'[k] # latest'[k]
               PROVE  \E g \in Frames : IsResident(control'[g]) /\ control'[g].dirty /\ tag'[g] = k
    BY ZenonT(40) DEF NothingLost
  <2>1. CASE k = tag[f] /\ w.dirty
    BY ZenonT(40), <1>3, <2>1
  <2>2. CASE k # tag[f] \/ ~w.dirty
    <3>1. disk[k] # latest[k]
      BY ZenonT(40), <2>2
    <3>2. PICK g \in Frames : IsResident(control[g]) /\ control[g].dirty /\ tag[g] = k
      BY ZenonT(40), <3>1 DEF ContentInv, NothingLost
    <3> QED
      BY ZenonT(40), <1>3, <2>2, <3>2
  <2> QED
    BY ZenonT(40), <2>1, <2>2
<1> QED
  BY ZenonT(40), <1>4, <1>7, <1>8, <1>9, <1>10, <1>11 DEF ContentInv

-----------------------------------------------------------------------------
(* A loaded page is published, and a client writes a page.                 *)

\* The frame was not resident, so that nobody writes it or writes it back; what
\* was loaded is the last write, since no frame held the page dirty.
LEMMA Published ==
  ASSUME PoolFacts, ContentInv, NEW t \in Threads, Turns(t), At(t, "publish"), NEW f \in Frames, f = F(t),
         NEW w, control' = [control EXCEPT ![f] = w], IsResident(w), w.dirty = control[f].dirty,
         w.queued = control[f].queued, w.active = control[f].active,
         th[t].op = "zero" => Zeroes(th'[t]) /\ F(t)' = f,
         UNCHANGED <<tag, data, disk, latest>>
  PROVE  ContentInv'
<1>1. \A u \in Threads \ {t} : th'[u] = th[u]
  BY DEF Turns, KeepsMarks, Moves
<1>2. control \in [Frames -> Word] /\ tag \in [Frames -> Tags]
  BY ZenonT(40), Typed DEF PoolTypes
<1>3. control'[f] = w /\ \A g \in Frames \ {f} : control'[g] = control[g]
  BY ZenonT(40), <1>2
<1>4. ~IsResident(control[f]) /\ tag[f] = th[t].want /\ tag[f] \in Tags
  BY ZenonT(40), LoaderFrame DEF At, IsResident, W, F
<1>5. ~HasWriteback(control[f])
  BY ZenonT(40), <1>4 DEF ContentInv, WordInv, IsResident
<1>6. WordInv'
  BY ZenonT(40), <1>3, <1>5 DEF ContentInv, WordInv, IsResident, HasWriteback
<1>7. \A u \in Threads : Runs(th'[u]) =>
        /\ u # t /\ Runs(th[u]) /\ F(u) \in Frames \ {f} /\ F(u)' = F(u) /\ th'[u] = th[u] /\ W(u)' = W(u)
  <2> SUFFICES ASSUME NEW u \in Threads, Runs(th'[u])
               PROVE  /\ u # t /\ Runs(th[u]) /\ F(u) \in Frames \ {f} /\ F(u)' = F(u) /\ th'[u] = th[u]
                      /\ W(u)' = W(u)
    BY ZenonT(40)
  <2>1. u # t /\ th'[u] = th[u]
    BY ZenonT(40), <1>1 DEF Turns
  <2>2. F(u) \in Frames \ {f} /\ W(u) = control[F(u)]
    BY ZenonT(40), <1>4, <2>1, RunnerFrame
  <2> QED
    BY ZenonT(40), <1>3, <2>1, <2>2 DEF W, F
<1>8. RunInv'
  <2>1. \A u \in Threads : th'[u].pc \in QueuedPlaces \/ th'[u].pc \in ActivePlaces <=> Runs(th'[u])
    BY ZenonT(40) DEF Runs
  <2>2. \A u \in Threads : th'[u].pc \in QueuedPlaces => W(u)'.queued /\ ~W(u)'.active
    BY ZenonT(40), <1>7, <2>1 DEF ContentInv, RunInv
  <2>3. \A u \in Threads : th'[u].pc \in ActivePlaces => W(u)'.active /\ ~W(u)'.queued
    BY ZenonT(40), <1>7, <2>1 DEF ContentInv, RunInv
  <2>4. \A u, v \in Threads : Runs(th'[u]) /\ Runs(th'[v]) /\ F(u)' = F(v)' => u = v
    BY ZenonT(40), <1>7 DEF ContentInv, RunInv
  <2> QED
    BY ZenonT(40), <2>2, <2>3, <2>4 DEF RunInv
<1>9. TaskInv'
  <2>1. \A u \in Threads : th'[u].pc \in TaskPlaces \/ At(u, "complete")' => Runs(th'[u])
    BY ZenonT(40) DEF At, TaskPlaces, Runs, QueuedPlaces, ActivePlaces
  <2>2. \A u \in Threads : th'[u].pc \in TaskPlaces =>
          /\ th'[u].task.tag = tag'[F(u)']
          /\ W(u)'.redirtied \/ W(u)'.exclusive \/ th'[u].task.data = latest'[tag'[F(u)']]
    <3> SUFFICES ASSUME NEW u \in Threads, th'[u].pc \in TaskPlaces
                 PROVE  /\ th'[u].task.tag = tag'[F(u)']
                        /\ W(u)'.redirtied \/ W(u)'.exclusive \/ th'[u].task.data = latest'[tag'[F(u)']]
      BY ZenonT(40)
    <3>1. F(u)' = F(u) /\ th'[u] = th[u] /\ W(u)' = W(u)
      BY ZenonT(40), <1>7, <2>1
    <3>2. th[u].task.tag = tag[F(u)] /\ (W(u).redirtied \/ W(u).exclusive \/ th[u].task.data = latest[tag[F(u)]])
      BY ZenonT(40), <3>1 DEF ContentInv, TaskInv
    <3> QED
      BY ZenonT(40), <3>1, <3>2
  <2>3. \A u \in Threads : At(u, "complete")' => disk'[tag'[F(u)']] = th'[u].task.data
    BY ZenonT(40), <1>7, <2>1 DEF ContentInv, TaskInv, At
  <2> QED
    BY ZenonT(40), <2>2, <2>3 DEF TaskInv
<1>10. CopyCurrent'
  <2>1. \A u \in Threads : Zeroes(th[u]) => Zeroes(th'[u]) /\ F(u)' = F(u)
    BY ZenonT(40), <1>1 DEF Turns, KeepsMarks, F
  <2>2. \A g \in Frames \ {f} : IsResident(control'[g]) =>
          data'[g] = latest'[tag'[g]] \/ \E u \in Threads : F(u)' = g /\ Zeroes(th'[u])
    <3>1. \A g \in Frames \ {f} : IsResident(control'[g]) =>
            data[g] = latest[tag[g]] \/ \E u \in Threads : F(u) = g /\ Zeroes(th[u])
      BY ZenonT(40), <1>3 DEF ContentInv, CopyCurrent
    <3> QED
      BY ZenonT(40), <2>1, <3>1
  <2>3. th[t].op # "zero" => data[f] = latest[tag[f]]
    <3>1. th[t].op # "zero" => data[f] = disk[tag[f]]
      BY ZenonT(40), <1>4 DEF ContentInv, CallInv
    <3>2. \A g \in Frames : IsResident(control[g]) => tag[g] # tag[f]
      BY ZenonT(40), <1>4, LoaderFrame DEF At
    <3>3. disk[tag[f]] = latest[tag[f]]
      BY ZenonT(40), <1>4, <3>2 DEF ContentInv, NothingLost
    <3> QED
      BY ZenonT(40), <3>1, <3>3
  <2> QED
    BY ZenonT(40), <2>2, <2>3 DEF CopyCurrent
<1>11. CallInv'
  <2>1. ASSUME NEW u \in Threads, Dirties(th'[u]) PROVE W(u)'.dirty
    <3>1. CASE Dirties(th[u]) /\ th'[u].frame = th[u].frame
      <4>1. F(u) \in Frames \ {f} /\ W(u).dirty
        BY ZenonT(40), <1>4, <3>1, MarkersWrite, WriterFrame DEF ContentInv, CallInv, W, F
      <4> QED
        BY ZenonT(40), <1>3, <3>1, <4>1 DEF W, F
    <3> QED
      BY ZenonT(40), <1>1, <2>1, <3>1 DEF Turns, KeepsMarks, W
  <2>2. ASSUME NEW u \in Threads, At(u, "publish")', th'[u].op # "zero"
        PROVE  data'[F(u)'] = disk'[th'[u].want]
    <3>1. CASE u # t
      <4>1. th'[u] = th[u] /\ At(u, "publish")
        BY ZenonT(40), <1>1, <2>2, <3>1 DEF At
      <4>2. data[F(u)] = disk[th[u].want]
        BY ZenonT(40), <2>2, <4>1 DEF ContentInv, CallInv
      <4> QED
        BY ZenonT(40), <4>1, <4>2 DEF F
    <3> QED
      BY ZenonT(40), <2>2, <3>1 DEF Turns, KeepsMarks, At, F
  <2> QED
    BY ZenonT(40), <2>1, <2>2 DEF CallInv
<1>12. NothingLost'
  BY <1>3, <1>4 DEF ContentInv, NothingLost
<1> QED
  BY ZenonT(40), <1>6, <1>8, <1>9, <1>10, <1>11, <1>12 DEF ContentInv


\* A writer has the only frame of its page, marked dirty, under its latch: no
\* snapshot of the frame counts as the last write, and no other frame has it.
LEMMA Wrote ==
  ASSUME PoolFacts, ContentInv, NEW t \in Threads, WritePage(t)
  PROVE  ContentInv'
<1> DEFINE f == F(t)
           k == th[t].want
<1>1. PICK v \in Contents : data' = [data EXCEPT ![f] = v] /\ latest' = [latest EXCEPT ![k] = v]
  BY ZenonT(40) DEF WritePage
<1>2. /\ th[t].pc \in {"marked", "written"} /\ th'[t].pc = "written" /\ F(t)' = f
      /\ \A u \in Threads \ {t} : th'[u] = th[u]
      /\ UNCHANGED <<control, tag, disk>>
  <2>1. Becomes(t, "written", th[t].op, th[t].want, th[t].frame, th[t].from, th[t].mode, th[t].ret)
    <3>1. "written" \in Places
      BY DEF Places
    <3> QED
      BY <3>1, GotoFields, Typed DEF WritePage, PoolTypes
  <2> QED
    BY ZenonT(40), <2>1 DEF WritePage, Becomes, frameVars, F
<1>3. Base(t) \in WriterPlaces /\ Dirties(th[t]) /\ Base(t)' = "written"
  BY <1>2 DEF Base, BaseOf, WriterPlaces, FlushPlaces, Dirties
<1>4. /\ f \in Frames /\ IsResident(control[f]) /\ control[f].exclusive /\ control[f].dirty
      /\ tag[f] = k /\ k \in Tags
  BY ZenonT(40), <1>3, WriterFrame DEF ContentInv, CallInv, W, F
<1>5. \A g \in Frames \ {f} : IsResident(control[g]) => tag[g] # k
  BY ZenonT(40), <1>4, Typed DEF SingleCopy, IsResident
<1>6. data'[f] = v /\ latest'[k] = v
  BY <1>1, <1>4, Typed DEF PoolTypes, DataTypes
<1>7. \A g \in Frames \ {f} : data'[g] = data[g]
  BY <1>1
<1>8. \A j \in Tags \ {k} : latest'[j] = latest[j]
  BY <1>1
<1>9. ~Runs(th'[t]) /\ ~Runs(th[t]) /\ \A u \in Threads : Runs(th'[u]) => u # t /\ th'[u] = th[u]
  BY ZenonT(40), <1>2 DEF Runs, QueuedPlaces, ActivePlaces
<1>10. WordInv'
  BY ZenonT(40), <1>2 DEF ContentInv, WordInv
<1>11. RunInv'
  BY ZenonT(40), <1>2, <1>9 DEF ContentInv, RunInv, Runs, W, F
<1>12. TaskInv'
  <2> SUFFICES ASSUME NEW u \in Threads, th'[u].pc \in TaskPlaces
               PROVE  /\ th'[u].task.tag = tag'[F(u)']
                      /\ W(u)'.redirtied \/ W(u)'.exclusive \/ th'[u].task.data = latest'[tag'[F(u)']]
                      /\ At(u, "complete")' => disk'[tag'[F(u)']] = th'[u].task.data
    BY DEF TaskInv, TaskPlaces, At
  <2>1. u # t /\ th'[u] = th[u] /\ Runs(th[u])
    BY <1>9 DEF Runs, TaskPlaces, QueuedPlaces, ActivePlaces
  <2>2. F(u) \in Frames /\ W(u) = control[F(u)] /\ IsResident(W(u)) /\ tag[F(u)] \in Tags
    BY <2>1, RunnerFrame
  <2>3. F(u) = f \/ latest'[tag[F(u)]] = latest[tag[F(u)]]
    BY ZenonT(40), <1>5, <1>8, <2>2
  <2>4. F(u)' = F(u) /\ W(u)' = W(u) /\ tag'[F(u)'] = tag[F(u)] /\ disk' = disk
    BY ZenonT(40), <1>2, <2>1 DEF W, F
  <2>5. /\ th[u].task.tag = tag[F(u)]
        /\ W(u).redirtied \/ W(u).exclusive \/ th[u].task.data = latest[tag[F(u)]]
        /\ At(u, "complete") => disk[tag[F(u)]] = th[u].task.data
    BY ZenonT(40), <2>1 DEF ContentInv, TaskInv
  <2>6. F(u) = f => W(u).exclusive
    BY ZenonT(40), <1>4, <2>2
  <2> QED
    BY ZenonT(40), <2>1, <2>3, <2>4, <2>5, <2>6 DEF At
<1>13. CopyCurrent'
  <2> SUFFICES ASSUME NEW g \in Frames, g # f, IsResident(control[g])
               PROVE  data'[g] = latest'[tag[g]] \/ \E u \in Threads : F(u)' = g /\ Zeroes(th'[u])
    BY ZenonT(40), <1>2, <1>4, <1>6 DEF CopyCurrent
  <2>1. tag[g] \in Tags /\ tag[g] # k
    BY ZenonT(40), <1>5, Typed DEF PoolTypes
  <2>2. \A u \in Threads : F(u) = g => u # t /\ F(u)' = g /\ th'[u] = th[u]
    BY ZenonT(40), <1>2 DEF F
  <2> QED
    BY ZenonT(40), <1>7, <1>8, <2>1, <2>2 DEF ContentInv, CopyCurrent
<1>14. CallInv'
  <2>1. ASSUME NEW u \in Threads, Dirties(th'[u]) PROVE W(u)'.dirty
    <3>1. CASE u = t
      BY ZenonT(40), <1>2, <1>4, <3>1 DEF W, F
    <3> QED
      BY ZenonT(40), <1>2, <2>1, <3>1 DEF ContentInv, CallInv, W
  <2>2. ASSUME NEW u \in Threads, At(u, "publish")', th'[u].op # "zero"
        PROVE  data'[F(u)'] = disk'[th'[u].want]
    <3>1. u # t /\ th'[u] = th[u] /\ At(u, "publish")
      BY ZenonT(40), <1>2, <2>2 DEF At
    <3>2. F(u) \in Frames \ {f}
      BY ZenonT(40), <1>4, <3>1, LoaderFrame DEF At, W, F, IsResident
    <3>3. data[F(u)] = disk[th[u].want]
      BY ZenonT(40), <2>2, <3>1 DEF ContentInv, CallInv
    <3> QED
      BY ZenonT(40), <1>2, <1>7, <3>1, <3>2, <3>3 DEF F
  <2> QED
    BY ZenonT(40), <2>1, <2>2 DEF CallInv
<1>15. NothingLost'
  BY ZenonT(40), <1>2, <1>4, <1>8 DEF ContentInv, NothingLost
<1> QED
  BY ZenonT(40), <1>10, <1>11, <1>12, <1>13, <1>14, <1>15 DEF ContentInv


-----------------------------------------------------------------------------
(* The moves of a call that leave pages alone.                             *)

\* Places that a call turns to without a writeback, a write or a publication.
CalmPlaces == Places \ (WriterPlaces \cup QueuedPlaces \cup ActivePlaces \cup {"publish"})

\* A call that is no writer, and one that stays the writer it is, turn.
LEMMA Calms ==
  ASSUME NEW t, Moves(t), th'[t].pc # "publish", ~Runs(th'[t]),
         \/ Base(t) \notin WriterPlaces /\ BaseOf(th'[t]) \notin WriterPlaces
         \/ BaseOf(th'[t]) = Base(t) /\ th'[t].frame = th[t].frame /\ th'[t].op = th[t].op
  PROVE  Turns(t)
  BY DEF Turns, KeepsMarks, Dirties, Zeroes, Base, WriterPlaces

\* A call that is no writer goes on at a calm place.
LEMMA GoesOn ==
  ASSUME PoolFacts, NEW t \in Threads, NEW l \in CalmPlaces, Base(t) \notin WriterPlaces,
         \/ Continue(t, l)
         \/ Goto(t, l) /\ (l \in FlushPlaces => th[t].pc \in FlushPlaces)
         \/ l \notin FlushPlaces /\ \E f \in Frames : th' = [th EXCEPT ![t].pc = l, ![t].frame = f]
         \/ l \notin FlushPlaces /\ \E p \in Places : th' = [th EXCEPT ![t].pc = l, ![t].ret = p]
         \/ l \notin FlushPlaces /\ \E k \in Tags \cup {NoTag} : th' = [th EXCEPT ![t].pc = l, ![t].evicted = k]
         \/ l = "reserve" /\ \E f \in Frames : Candidate(t, f, "ring") \/ Candidate(t, f, "free") \/ Candidate(t, f, "victim")
  PROVE  Turns(t)
<1>1. th \in [Threads -> Thread] /\ l \in Places /\ "idle" \notin WriterPlaces /\ l \notin WriterPlaces
  BY CallRecord DEF CalmPlaces, WriterPlaces
<1>2. ASSUME NEW o, NEW k, NEW f, NEW fr, NEW m, NEW rt, Becomes(t, l, o, k, f, fr, m, rt),
             l \in FlushPlaces => rt \notin WriterPlaces
      PROVE  Turns(t)
  <2>1. BaseOf(th'[t]) \notin WriterPlaces /\ ~Runs(th'[t]) /\ th'[t].pc # "publish"
    BY <1>1, <1>2 DEF Becomes, BaseOf, Runs, CalmPlaces
  <2> QED
    BY <1>2, <2>1, Calms, BecomesMoves
<1>3. CASE Continue(t, l)
  BY <1>1, <1>2, <1>3, ContinueFields
<1>4. CASE Goto(t, l) /\ (l \in FlushPlaces => th[t].pc \in FlushPlaces)
  BY ZenonT(40), <1>1, <1>2, <1>4, GotoFields DEF Base, BaseOf
<1>5. CASE l \notin FlushPlaces /\ \E f \in Frames : th' = [th EXCEPT ![t].pc = l, ![t].frame = f]
  BY ZenonT(40), <1>1, <1>2, <1>5, FieldsSet
<1>6. CASE l \notin FlushPlaces /\ \E p \in Places : th' = [th EXCEPT ![t].pc = l, ![t].ret = p]
  BY ZenonT(40), <1>1, <1>2, <1>6, FieldsSet
<1>7. CASE l \notin FlushPlaces /\ \E k \in Tags \cup {NoTag} : th' = [th EXCEPT ![t].pc = l, ![t].evicted = k]
  BY ZenonT(40), <1>1, <1>2, <1>7, FieldsSet
<1>8. ASSUME NEW f \in Frames, NEW c \in {"none", "ring", "free", "victim", "flushed"},
             Candidate(t, f, c), l = "reserve"
      PROVE  Turns(t)
  BY <1>1, <1>2, <1>8, CandidateFields DEF FlushPlaces
<1> QED
  BY ZenonT(40), <1>3, <1>4, <1>5, <1>6, <1>7, <1>8

\* A flush goes on without a writeback of its own, or returns to its caller.
LEMMA FlushGoesOn ==
  ASSUME PoolFacts, NEW t \in Threads, th[t].pc \in FlushPlaces,
         \/ \E l \in FlushPlaces \ (QueuedPlaces \cup ActivePlaces) :
              Goto(t, l) \/ th' = [th EXCEPT ![t].pc = l, ![t].task = NoTask]
         \/ Continue(t, th[t].ret)
         \/ FlushFails(t)
  PROVE  Turns(t)
<1>1. /\ th \in [Threads -> Thread] /\ FlushPlaces \subseteq Places
      /\ NoTask \in [tag : Tags \cup {NoTag}, data : Content]
  BY ZenonT(40), CallRecord, IdleRecord DEF FlushPlaces, Places
<1>2. th[t].ret \in {"idle", "unpin", "reserve", "reading", "writing", "marked", "written", "dscan", "waitwb"}
  BY ZenonT(40), CallRecord DEF Shape, Returns, FlushPlaces
<1>3. CASE \E l \in FlushPlaces \ (QueuedPlaces \cup ActivePlaces) :
             Goto(t, l) \/ th' = [th EXCEPT ![t].pc = l, ![t].task = NoTask]
  <2>1. PICK l \in FlushPlaces \ (QueuedPlaces \cup ActivePlaces) :
               Goto(t, l) \/ th' = [th EXCEPT ![t].pc = l, ![t].task = NoTask]
    BY ZenonT(40), <1>3
  <2>2. Becomes(t, l, th[t].op, th[t].want, th[t].frame, th[t].from, th[t].mode, th[t].ret)
    BY ZenonT(40), <1>1, <2>1, GotoFields, FieldsSet
  <2>3. /\ BaseOf(th'[t]) = Base(t) /\ th'[t].frame = th[t].frame /\ th'[t].op = th[t].op
        /\ ~Runs(th'[t]) /\ th'[t].pc # "publish"
    BY <2>1, <2>2 DEF Becomes, Base, BaseOf, Runs, FlushPlaces
  <2> QED
    BY <2>2, <2>3, Calms, BecomesMoves
<1>4. CASE Continue(t, th[t].ret) \/ FlushFails(t)
  <2>1. PICK l \in {"idle", "unpin", "reserve", "reading", "writing", "marked", "written", "dscan", "waitwb"} :
          Continue(t, l) /\ (l = th[t].ret \/ (l = "idle" /\ th[t].ret = "reserve"))
    BY <1>2, <1>4 DEF FlushFails
  <2>2. l \in Places
    BY DEF Places
  <2>3. Base(t) = th[t].ret
    BY DEF Base, BaseOf
  <2>4. CASE l \in WriterPlaces
    <3>1. Becomes(t, l, th[t].op, th[t].want, th[t].frame, th[t].from, "none", "idle")
      BY ZenonT(40), <1>1, <2>1, <2>2, <2>4, ContinueFields DEF WriterPlaces
    <3>2. /\ BaseOf(th'[t]) = Base(t) /\ th'[t].frame = th[t].frame /\ th'[t].op = th[t].op
          /\ ~Runs(th'[t]) /\ th'[t].pc # "publish"
      BY <2>1, <2>3, <2>4, <3>1 DEF Becomes, BaseOf, Runs, QueuedPlaces, ActivePlaces, FlushPlaces, WriterPlaces
    <3> QED
      BY <3>1, <3>2, Calms, BecomesMoves
  <2>5. CASE l \notin WriterPlaces
    <3>1. l \in CalmPlaces /\ Base(t) \notin WriterPlaces
      BY <2>1, <2>2, <2>3, <2>5 DEF CalmPlaces, QueuedPlaces, ActivePlaces, WriterPlaces
    <3> QED
      BY ZenonT(40), <2>1, <3>1, GoesOn
  <2> QED
    BY <2>4, <2>5
<1> QED
  BY <1>3, <1>4

\* The words that a step may install without forgetting a write.
LEMMA GrownWords ==
  ASSUME NEW w \in Word
  PROVE  /\ Grows(w, w) /\ Grows(Pinned(w), w) /\ Grows(Unpinned(w), w)
         /\ Grows(AcquiredShared(w), w) /\ Grows(ReleasedShared(w), w)
         /\ Grows(AcquiredExclusive(w), w) /\ Grows(ReleasedExclusive(w), w)
         /\ Grows(MarkedDirty(w), w) /\ (IsResident(w) => MarkedDirty(w).dirty)
<1>1. Grows(w, w) /\ Grows(Pinned(w), w) /\ Grows(Unpinned(w), w)
  BY DEF Grows, Pinned, Unpinned, Word
<1>2. Grows(AcquiredShared(w), w) /\ Grows(ReleasedShared(w), w)
  BY DEF Grows, AcquiredShared, ReleasedShared, Word
<1>3. Grows(AcquiredExclusive(w), w) /\ Grows(ReleasedExclusive(w), w)
  BY DEF Grows, AcquiredExclusive, ReleasedExclusive, Word, HasWriteback
<1>4. Grows(MarkedDirty(w), w) /\ (IsResident(w) => MarkedDirty(w).dirty)
  BY DEF Grows, MarkedDirty, Word, HasWriteback, IsResident
<1> QED
  BY <1>1, <1>2, <1>3, <1>4

\* A step that installs such a word, or none, keeps the words.
LEMMA WordGrows ==
  ASSUME PoolFacts, NEW t \in Threads
  PROVE  /\ UNCHANGED control => WordsKept
         /\ \A w : th[t].pc \notin Searching /\ SetControl(t, w) /\ Grows(w, W(t)) => WordsKept
<1>1. \A f \in Frames : Grows(control[f], control[f])
  BY GrownWords, Typed DEF PoolTypes
<1> QED
  BY <1>1, CallRecord, Typed DEF WordsKept, SetControl, F, PoolTypes


\* Such a step keeps the contents right, whether or not it installs a word.
LEMMA Still ==
  ASSUME PoolFacts, ContentInv, NEW t \in Threads, Turns(t), UNCHANGED <<tag, contentVars>>
  PROVE  /\ UNCHANGED control => ContentInv'
         /\ \A w : th[t].pc \notin Searching /\ SetControl(t, w) /\ Grows(w, W(t)) => ContentInv'
<1>1. WordsKept => ContentInv'
  BY Turned DEF contentVars
<1> QED
  BY ZenonT(40), <1>1, WordGrows

-----------------------------------------------------------------------------
(* The actions, in the order of BufferPool.                                *)

\* A call starts.
LEMMA StartContents ==
  ASSUME PoolFacts, ContentInv, th' \in [Threads -> Thread], NEW t \in Threads, Start(t)
  PROVE  ContentInv'
<1>1. At(t, "idle") /\ UNCHANGED <<control, tag, contentVars>>
  BY ZenonT(40) DEF Start, StartPage, StartSweep, StartDrop, frameVars
<1>2. th' \in [Threads -> Thread]
  BY ZenonT(40)
<1>3. /\ \A u \in Threads \ {t} : th'[u] = th[u]
      /\ th'[t].pc \in {"lookup", "peek", "flush", "dscan"} /\ th'[t].ret = "idle"
  <2>1. CASE \E o \in Ops, k \in Tags : StartPage(t, o, k)
    BY <2>1, CallRecord DEF StartPage, IdleThread
  <2>2. CASE \E o \in Ops, f \in Frames : StartSweep(t, o, f)
    BY <2>2, CallRecord DEF StartSweep, IdleThread
  <2>3. CASE \E f \in Frames, k \in Tags : StartDrop(t, f, k)
    BY <2>3, CallRecord DEF StartDrop, IdleThread
  <2> QED
    BY <2>1, <2>2, <2>3 DEF Start
<1>4. Turns(t)
  <2>1. Base(t) \notin WriterPlaces /\ BaseOf(th'[t]) \notin WriterPlaces
    BY <1>1, <1>3 DEF At, Base, BaseOf, FlushPlaces, WriterPlaces
  <2>2. Moves(t) /\ th'[t].pc # "publish" /\ ~Runs(th'[t])
    BY <1>2, <1>3 DEF Moves, Runs, QueuedPlaces, ActivePlaces
  <2> QED
    BY ZenonT(40), <2>1, <2>2, Calms
<1> QED
  BY <1>1, <1>4, Still

\* A search reads the page table, words and tags.
LEMMA SearchContents ==
  ASSUME PoolFacts, ContentInv, th' \in [Threads -> Thread], NEW t \in Threads,
         \/ Lookup(t) \/ IsLoadingState(t) \/ IsLoadingTag(t) \/ WaitForLoad(t)
         \/ PeekLookup(t) \/ PeekState(t) \/ PeekTag(t)
         \/ TryReserveRingFrame(t) \/ PopFree(t) \/ Victim(t) \/ NoVictim(t)
         \/ HasTransientFrame(t) \/ Exhausted(t) \/ DropScanTag(t) \/ DropScanState(t)
  PROVE  ContentInv'
<1> DEFINE from == {"lookup", "isloading", "isloadingtag", "waitload", "peek", "peekstate", "peektag",
                    "miss", "acquire", "scan", "dscan", "dscanstate"}
           to == {"idle", "lookup", "pin", "miss", "isloadingtag", "waitload", "peekstate", "peektag",
                  "acquire", "scan", "reserve", "dscan", "dscanstate"}
<1>1. th[t].pc \in from /\ UNCHANGED <<control, tag, contentVars>>
  BY ZenonT(40) DEF Lookup, IsLoadingState, IsLoadingTag, WaitForLoad, PeekLookup, PeekState, PeekTag,
         TryReserveRingFrame, PopFree, Victim, NoVictim, HasTransientFrame, Exhausted, DropScanTag,
         DropScanState, At, frameVars
<1>2. Base(t) \notin WriterPlaces
  BY <1>1 DEF Base, BaseOf, FlushPlaces, WriterPlaces
<1>3. to \subseteq CalmPlaces \ FlushPlaces
  BY DEF CalmPlaces, Places, QueuedPlaces, ActivePlaces, WriterPlaces, FlushPlaces
<1>4. SUFFICES Turns(t)
  BY <1>1, Still
<1>5. CASE \/ IsLoadingState(t) \/ IsLoadingTag(t) \/ WaitForLoad(t) \/ PeekState(t) \/ PeekTag(t)
           \/ NoVictim(t) \/ DropScanTag(t) \/ DropScanState(t)
  <2>1. th[t].pc = "dscanstate" => W(t).state \in States
    BY ZenonT(40), CallRecord DEF Searching, Word
  <2>2. \E l \in to : Continue(t, l)
    BY ZenonT(40), <1>5, <2>1 DEF IsLoadingState, IsLoadingTag, WaitForLoad, PeekState, PeekTag, NoVictim,
                      DropScanTag, DropScanState, Peeked, At, States
  <2> QED
    BY ZenonT(40), <1>2, <1>3, <2>2, GoesOn
<1>6. CASE Lookup(t) \/ PeekLookup(t)
  <2>1. \E l \in to : \/ Continue(t, l)
                      \/ \E f \in Frames : th' = [th EXCEPT ![t].pc = l, ![t].frame = f]
    BY ZenonT(40), <1>6 DEF Lookup, PeekLookup, Peeked, LookupFrameId, Linked
  <2> QED
    BY ZenonT(40), <1>2, <1>3, <2>1, GoesOn
<1>7. CASE TryReserveRingFrame(t) \/ PopFree(t) \/ Victim(t)
  <2>1. free \subseteq Frames
    BY ZenonT(40), Typed DEF PoolTypes
  <2>2. \E f \in Frames : Candidate(t, f, "ring") \/ Candidate(t, f, "free") \/ Candidate(t, f, "victim")
    BY <1>7, <2>1 DEF TryReserveRingFrame, PopFree, Victim
  <2> QED
    BY ZenonT(40), <1>2, <1>3, <2>2, GoesOn
<1>8. CASE HasTransientFrame(t)
  <2>1. CASE Continue(t, "acquire")
    BY ZenonT(40), <1>2, <1>3, <2>1, GoesOn
  <2>2. ASSUME NEW f \in Frames, th' = [th EXCEPT ![t].scanned = @ \cup {f}] PROVE Turns(t)
    <3>1. th' \in [Threads -> Thread]
      OBVIOUS
    <3>2. /\ \A u \in Threads \ {t} : th'[u] = th[u]
          /\ th'[t].pc = th[t].pc /\ th'[t].ret = th[t].ret
      BY <2>2, CallRecord DEF Thread
    <3>3. Base(t)' = Base(t) /\ th'[t].pc # "publish" /\ ~Runs(th'[t])
      BY ZenonT(40), <1>1, <3>2 DEF Base, BaseOf, Runs, QueuedPlaces, ActivePlaces
    <3> QED
      BY <1>2, <3>1, <3>2, <3>3, Calms DEF Moves, Base
  <2> QED
    BY <1>8, <2>1, <2>2 DEF HasTransientFrame
<1>9. CASE Exhausted(t)
  <2>1. th' \in [Threads -> Thread]
    OBVIOUS
  <2>2. (\A u \in Threads \ {t} : th'[u] = th[u]) /\ th'[t].pc = "peek"
    BY ZenonT(40), <1>9, CallRecord DEF Exhausted, Continued, IdleThread
  <2>3. BaseOf(th'[t]) \notin WriterPlaces /\ th'[t].pc # "publish" /\ ~Runs(th'[t])
    BY <2>2 DEF BaseOf, FlushPlaces, WriterPlaces, Runs, QueuedPlaces, ActivePlaces
  <2> QED
    BY <1>2, <2>1, <2>2, <2>3, Calms DEF Moves
<1> QED
  BY ZenonT(40), <1>5, <1>6, <1>7, <1>8, <1>9


\* Pins come and go; a pinned frame that holds the page is latched, flushed or
\* discarded next.
LEMMA PinContents ==
  ASSUME PoolFacts, ContentInv, th' \in [Threads -> Thread], NEW t \in Threads,
         TryPinResident(t) \/ CheckPinnedTag(t) \/ Unpin(t)
  PROVE  ContentInv'
<1>1. th[t].pc \in {"pin", "check", "unpin"} /\ UNCHANGED <<tag, contentVars>>
  BY DEF TryPinResident, CheckPinnedTag, Unpin, At, frameVars
<1>2. Base(t) \notin WriterPlaces /\ th[t].pc \notin Searching
  BY <1>1 DEF Base, BaseOf, FlushPlaces, WriterPlaces, Searching
<1>3. W(t) \in Word
  BY ZenonT(40), <1>2, CallRecord
<1>4. CASE TryPinResident(t)
  <2>1. {"check", "idle", "dscan", "isloading"} \subseteq CalmPlaces \ FlushPlaces
    BY DEF CalmPlaces, Places, QueuedPlaces, ActivePlaces, WriterPlaces, FlushPlaces
  <2>2. \E l \in {"check", "idle", "dscan", "isloading"} : Goto(t, l) \/ Continue(t, l)
    BY <1>4 DEF TryPinResident, NotPinned
  <2>3. Turns(t)
    BY ZenonT(40), <1>2, <2>1, <2>2, GoesOn
  <2> QED
    BY ZenonT(40), <1>1, <1>2, <1>3, <1>4, <2>3, Still, GrownWords DEF TryPinResident
<1>5. CASE CheckPinnedTag(t)
  <2>1. th' \in [Threads -> Thread]
    OBVIOUS
  <2>2. /\ \A u \in Threads \ {t} : th'[u] = th[u]
        /\ th'[t].pc \in {"unpin", "flush", "discard", "latch"}
        /\ th'[t].pc = "flush" => th'[t].ret = "unpin"
    BY <1>5, CallRecord DEF CheckPinnedTag, Thread
  <2>3. BaseOf(th'[t]) \notin WriterPlaces /\ th'[t].pc # "publish" /\ ~Runs(th'[t])
    BY <2>2 DEF BaseOf, FlushPlaces, WriterPlaces, Runs, QueuedPlaces, ActivePlaces
  <2>4. Turns(t)
    BY ZenonT(40), <1>2, <2>1, <2>2, <2>3, Calms DEF Moves
  <2> QED
    BY ZenonT(40), <1>1, <1>5, <2>4, Still DEF CheckPinnedTag, frameVars
<1>6. CASE Unpin(t)
  <2>1. th[t].ret \in {"idle", "isloading", "dscan", "waitwb"}
    <3>1. th[t].pc = "unpin" /\ th[t].ret \in Returns(th[t])
      BY ZenonT(40), <1>6, CallRecord DEF Unpin, At, Shape
    <3> QED
      BY ZenonT(40), <3>1 DEF Returns, FlushPlaces
  <2>2. {"idle", "isloading", "dscan", "waitwb"} \subseteq CalmPlaces
    BY DEF CalmPlaces, Places, QueuedPlaces, ActivePlaces, WriterPlaces
  <2>3. Turns(t)
    BY ZenonT(40), <1>2, <1>6, <2>1, <2>2, GoesOn DEF Unpin
  <2> QED
    BY ZenonT(40), <1>1, <1>2, <1>3, <1>6, <2>3, Still, GrownWords DEF Unpin
<1> QED
  BY <1>4, <1>5, <1>6

\* A frame is claimed only clean, without latch and without writeback.
LEMMA ReserveContents ==
  ASSUME PoolFacts, ContentInv, th' \in [Threads -> Thread], NEW t \in Threads, TryReserve(t)
  PROVE  ContentInv'
<1>1. th[t].pc = "reserve" /\ UNCHANGED <<tag, contentVars>>
  BY DEF TryReserve, At
<1>2. Base(t) \notin WriterPlaces /\ th[t].pc \notin Searching
  BY ZenonT(40), <1>1 DEF Base, BaseOf, FlushPlaces, WriterPlaces, Searching
<1>3. F(t) \in Frames /\ W(t) \in Word /\ W(t) = control[F(t)]
  BY <1>2, CallRecord DEF F
<1>4. {"acquire", "push", "storetag"} \subseteq CalmPlaces \ FlushPlaces /\ "acquire" \in Places
  BY DEF CalmPlaces, Places, QueuedPlaces, ActivePlaces, WriterPlaces, FlushPlaces
<1>5. CASE ReserveOutcome(W(t), th[t].from = "free") = "Reserved"
  <2>1. /\ SetControl(t, ReservedWord)
        /\ \E k \in Tags \cup {NoTag} : th' = [th EXCEPT ![t].pc = "storetag", ![t].evicted = k]
    <3>1. tag[F(t)] \in Tags
      BY <1>3, Typed DEF PoolTypes
    <3> QED
      BY <1>5, <3>1 DEF TryReserve
  <2>2. Turns(t)
    BY ZenonT(40), <1>2, <1>4, <2>1, GoesOn
  <2>3. ~HasWriteback(W(t)) /\ ~W(t).exclusive /\ ~W(t).dirty
    <3>1. ~HasWriteback(W(t)) /\ ~W(t).exclusive /\ (IsResident(W(t)) => ~W(t).dirty)
      BY ZenonT(40), <1>5 DEF ReserveOutcome, Latched
    <3> QED
      BY <1>3, <3>1 DEF ContentInv, WordInv, IsResident
  <2>4. \A u \in Threads : F(u) = F(t) => Base(u) \notin WriterPlaces
    BY ZenonT(40), <1>3, <2>3, WriterFrame DEF W, F
  <2>5. ~IsResident(ReservedWord) /\ ~ReservedWord.dirty /\ ~HasWriteback(ReservedWord)
    BY DEF ReservedWord, FreeWord, IsResident, HasWriteback
  <2> QED
    BY ZenonT(40), <1>1, <1>3, <2>1, <2>2, <2>3, <2>4, <2>5, Vacated DEF SetControl, contentVars
<1>6. CASE ReserveOutcome(W(t), th[t].from = "free") # "Reserved"
  <2>1. UNCHANGED control
    BY <1>6 DEF TryReserve
  <2>2. CASE th[t].from = "victim" /\ ReserveOutcome(W(t), th[t].from = "free") = "NeedsFlush"
    <3>1. th' \in [Threads -> Thread]
      OBVIOUS
    <3>2. /\ \A u \in Threads \ {t} : th'[u] = th[u]
          /\ th'[t].pc = "flush" /\ th'[t].ret = "reserve"
      BY <2>2, CallRecord DEF TryReserve, Thread
    <3>3. BaseOf(th'[t]) \notin WriterPlaces /\ th'[t].pc # "publish" /\ ~Runs(th'[t])
      BY <3>2 DEF BaseOf, FlushPlaces, WriterPlaces, Runs, QueuedPlaces, ActivePlaces
    <3>4. Turns(t)
      BY ZenonT(40), <1>2, <3>1, <3>2, <3>3, Calms DEF Moves
    <3> QED
      BY ZenonT(40), <1>1, <2>1, <3>4, Still
  <2>3. CASE ~(th[t].from = "victim" /\ ReserveOutcome(W(t), th[t].from = "free") = "NeedsFlush")
    <3>1. Continue(t, "acquire") \/ th' = [th EXCEPT ![t].pc = "push", ![t].ret = "acquire"]
      BY <1>6, <2>3 DEF TryReserve
    <3>2. Turns(t)
      BY ZenonT(40), <1>2, <1>4, <3>1, GoesOn
    <3> QED
      BY ZenonT(40), <1>1, <2>1, <3>2, Still
  <2> QED
    BY ZenonT(40), <2>2, <2>3
<1> QED
  BY <1>5, <1>6


\* A frame that is being loaded is not resident and is nobody else's to load.
LEMMA LoadFrame ==
  ASSUME PoolFacts, NEW t \in Threads, th[t].pc \in LoadPlaces \cup DropPlaces
  PROVE  /\ F(t) \in Frames /\ W(t) \in Word /\ W(t) = control[F(t)] /\ ~IsResident(W(t))
         /\ Base(t) \notin WriterPlaces /\ th[t].pc \notin Searching
         /\ \A u \in Threads : Base(u) \in WriterPlaces => F(u) # F(t)
         /\ \A u \in Threads \ {t} : At(u, "publish") => F(u) # F(t)
<1>1. th[t].pc \notin Searching /\ Base(t) \notin WriterPlaces
  BY DEF LoadPlaces, DropPlaces, Searching, FlushPlaces, Base, BaseOf, WriterPlaces
<1>2. F(t) \in Frames /\ W(t) \in Word /\ W(t) = control[F(t)]
  BY ZenonT(40), <1>1, CallRecord DEF F
<1>3. ~IsResident(W(t)) /\ \A u \in Threads \ {t} : At(u, "publish") => F(u) # F(t)
  BY DEF PoolFacts, FramesHeld, OwnerHolds
<1>4. \A u \in Threads : Base(u) \in WriterPlaces => F(u) # F(t)
  BY ZenonT(40), <1>3, WriterFrame DEF W, F
<1> QED
  BY ZenonT(40), <1>1, <1>2, <1>3, <1>4

\* A load stores the tag of its frame, links it, fills it or gives it up.
LEMMA LoadContents ==
  ASSUME PoolFacts, ContentInv, NEW t \in Threads,
         \/ StoreTag(t) \/ Install(t) \/ ZeroFill(t) \/ AbortRemove(t) \/ ClearTag(t)
         \/ ReadReservedPage(t) \/ DropUncount(t) \/ DropRemove(t) \/ DropClearTag(t)
  PROVE  ContentInv'
<1>1. th[t].pc \in LoadPlaces \cup DropPlaces /\ UNCHANGED <<control, disk, latest>>
  BY DEF StoreTag, Install, ZeroFill, AbortRemove, ClearTag, ReadReservedPage, DropUncount, DropRemove,
         DropClearTag, At, LoadPlaces, DropPlaces, frameVars, contentVars
<1>2. \A g \in Frames \ {F(t)} : tag'[g] = tag[g] /\ data'[g] = data[g]
  <2>1. \/ UNCHANGED tag \/ \E k : tag' = [tag EXCEPT ![F(t)] = k]
    BY ZenonT(40) DEF StoreTag, Install, ZeroFill, AbortRemove, ClearTag, ReadReservedPage, DropUncount, DropRemove,
           DropClearTag, frameVars
  <2>2. \/ UNCHANGED data \/ \E v : data' = [data EXCEPT ![F(t)] = v]
    BY DEF StoreTag, Install, ZeroFill, AbortRemove, ClearTag, ReadReservedPage, DropUncount, DropRemove,
           DropClearTag, contentVars
  <2>3. tag \in [Frames -> Tags] /\ data \in [Frames -> Content]
    BY ZenonT(40), Typed DEF PoolTypes, DataTypes
  <2> QED
    BY ZenonT(40), <2>1, <2>2, <2>3
<1>3. \A g \in Frames : IsResident(control[g]) => tag'[g] = tag[g] /\ data'[g] = data[g]
  BY ZenonT(40), <1>1, <1>2, LoadFrame
<1>4. \A u \in Threads \ {t} : At(u, "publish") => data'[F(u)] = data[F(u)]
  BY ZenonT(40), <1>1, <1>2, LoadFrame, LoaderFrame DEF At
<1>5. Turns(t)
  <2>1. Base(t) \notin WriterPlaces
    BY ZenonT(40), <1>1, LoadFrame
  <2>2. CASE ReadReservedPage(t) /\ Goto(t, "publish") /\ data' = [data EXCEPT ![F(t)] = disk[th[t].want]]
    <3>1. Becomes(t, "publish", th[t].op, th[t].want, th[t].frame, th[t].from, th[t].mode, th[t].ret)
      <4>1. "publish" \in Places
        BY DEF Places
      <4> QED
        BY ZenonT(40), <2>2, <4>1, GotoFields, Typed DEF PoolTypes
    <3>2. data'[F(t)] = disk'[th[t].want]
      BY ZenonT(40), <1>1, <2>2, LoadFrame, Typed DEF PoolTypes, DataTypes
    <3>3. BaseOf(th'[t]) = "publish" /\ ~Runs(th'[t])
      BY ZenonT(40), <3>1 DEF Becomes, BaseOf, FlushPlaces, Runs, QueuedPlaces, ActivePlaces
    <3>4. Moves(t)
      BY <3>1, BecomesMoves
    <3> QED
      BY ZenonT(40), <2>1, <3>1, <3>2, <3>3, <3>4 DEF Turns, KeepsMarks, Becomes, Dirties, Zeroes, Base, WriterPlaces, F
  <2>3. CASE ~(ReadReservedPage(t) /\ Goto(t, "publish") /\ data' = [data EXCEPT ![F(t)] = disk[th[t].want]])
    <3> DEFINE to == {"install", "cleartag", "load", "zerolatch", "abort", "release", "dropremove", "droptag", "push"}
    <3>1. to \subseteq CalmPlaces \ FlushPlaces /\ "lookup" \in Places /\ "idle" \in Places
      BY DEF CalmPlaces, Places, QueuedPlaces, ActivePlaces, WriterPlaces, FlushPlaces
    <3>2. \E l \in to : Goto(t, l) \/ \E p \in Places : th' = [th EXCEPT ![t].pc = l, ![t].ret = p]
      BY ZenonT(40), <2>3, <3>1 DEF StoreTag, Install, ZeroFill, AbortRemove, ClearTag, ReadReservedPage, DropUncount,
                        DropRemove, DropClearTag
    <3> QED
      BY ZenonT(40), <2>1, <3>1, <3>2, GoesOn
  <2> QED
    BY <2>2, <2>3
<1>6. WordsKept
  BY <1>1, WordGrows
<1> QED
  BY ZenonT(40), <1>1, <1>3, <1>4, <1>5, <1>6, Turned


\* A loaded frame is published, or released and pushed.
LEMMA PublishContents ==
  ASSUME PoolFacts, ContentInv, th' \in [Threads -> Thread], NEW t \in Threads,
         ZeroLatch(t) \/ PublishLoadedFrame(t) \/ ReleaseToFree(t) \/ PushFree(t)
  PROVE  ContentInv'
<1>1. CASE ZeroLatch(t)
  <2>1. th[t].pc = "zerolatch" /\ th[t].op = "zero" /\ UNCHANGED <<tag, contentVars>>
    BY ZenonT(40), <1>1, CallRecord DEF ZeroLatch, At, Shape
  <2>2. Base(t) \notin WriterPlaces /\ th[t].pc \notin Searching /\ W(t) \in Word
    BY ZenonT(40), <2>1, LoadFrame DEF LoadPlaces
  <2>3. Becomes(t, "publish", th[t].op, th[t].want, th[t].frame, th[t].from, th[t].mode, th[t].ret)
    <3>1. "publish" \in Places
      BY ZenonT(40) DEF Places
    <3> QED
      BY ZenonT(40), <1>1, <3>1, GotoFields, Typed DEF ZeroLatch, PoolTypes
  <2>4. BaseOf(th'[t]) = "publish" /\ ~Runs(th'[t])
    BY <2>3 DEF Becomes, BaseOf, FlushPlaces, Runs, QueuedPlaces, ActivePlaces
  <2>5. Moves(t)
    BY ZenonT(40), <2>3, BecomesMoves
  <2>6. Turns(t)
    BY ZenonT(40), <2>1, <2>2, <2>3, <2>4, <2>5 DEF Turns, KeepsMarks, Becomes, Dirties, Zeroes, Base, WriterPlaces
  <2> QED
    BY ZenonT(40), <1>1, <2>1, <2>2, <2>6, Still, GrownWords DEF ZeroLatch
<1>2. CASE PublishLoadedFrame(t)
  <2>1. th[t].pc = "publish" /\ UNCHANGED <<tag, contentVars>>
    BY ZenonT(40), <1>2 DEF PublishLoadedFrame, At
  <2>2. Base(t) \notin WriterPlaces /\ F(t) \in Frames /\ W(t) \in Word /\ W(t) = control[F(t)]
    BY <2>1, LoadFrame DEF LoadPlaces
  <2>3. th' \in [Threads -> Thread]
    OBVIOUS
  <2>4. /\ \A u \in Threads \ {t} : th'[u] = th[u]
        /\ th'[t].pc \in {"idle", "latch", "writing"}
        /\ th[t].op = "zero" => /\ th'[t].pc = "writing" /\ th'[t].op = "zero"
                                /\ th'[t].frame = th[t].frame
    BY <1>2, CallRecord DEF PublishLoadedFrame, IdleThread, Thread
  <2>5. BaseOf(th'[t]) = th'[t].pc /\ ~Runs(th'[t])
    BY ZenonT(40), <2>4 DEF BaseOf, FlushPlaces, Runs, QueuedPlaces, ActivePlaces
  <2>6. Turns(t)
    BY ZenonT(40), <2>2, <2>3, <2>4, <2>5 DEF Turns, KeepsMarks, Moves, Dirties, Zeroes, Base, WriterPlaces
  <2>7. th[t].op = "zero" => Zeroes(th'[t]) /\ F(t)' = F(t)
    BY ZenonT(40), <2>4, <2>5 DEF Zeroes, F
  <2> DEFINE w == PublishedResident(W(t), th[t].op = "prefetch")
  <2>8. /\ IsResident(w) /\ w.dirty = W(t).dirty /\ w.queued = W(t).queued /\ w.active = W(t).active
        /\ control' = [control EXCEPT ![F(t)] = w]
    BY <1>2, <2>2 DEF PublishLoadedFrame, SetControl, PublishedResident, IsResident, Word
  <2> HIDE DEF w
  <2> QED
    BY ZenonT(40), <2>1, <2>2, <2>6, <2>7, <2>8, Published DEF At, contentVars
<1>3. CASE ReleaseToFree(t)
  <2>1. th[t].pc = "release" /\ UNCHANGED <<tag, contentVars>>
    BY ZenonT(40), <1>3 DEF ReleaseToFree, At
  <2>2. /\ Base(t) \notin WriterPlaces /\ F(t) \in Frames /\ W(t) \in Word /\ W(t) = control[F(t)]
        /\ ~IsResident(W(t)) /\ \A u \in Threads : F(u) = F(t) => Base(u) \notin WriterPlaces
    BY ZenonT(40), <2>1, LoadFrame DEF LoadPlaces
  <2>3. ~HasWriteback(W(t)) /\ ~W(t).dirty
    BY <2>2 DEF ContentInv, WordInv, IsResident
  <2>4. Turns(t)
    <3>1. "push" \in CalmPlaces \ FlushPlaces
      BY DEF CalmPlaces, Places, QueuedPlaces, ActivePlaces, WriterPlaces, FlushPlaces
    <3> QED
      BY ZenonT(40), <1>3, <2>2, <3>1, GoesOn DEF ReleaseToFree
  <2> DEFINE w == ReleasedToFree(W(t))
  <2>5. /\ ~IsResident(w) /\ ~w.dirty /\ ~HasWriteback(w) /\ control' = [control EXCEPT ![F(t)] = w]
    BY ZenonT(40), <1>3 DEF ReleaseToFree, SetControl, ReleasedToFree, FreeWord, IsResident, HasWriteback
  <2> HIDE DEF w
  <2> QED
    BY ZenonT(40), <2>1, <2>2, <2>3, <2>4, <2>5, Vacated DEF contentVars
<1>4. CASE PushFree(t)
  <2>1. th[t].pc = "push" /\ UNCHANGED <<control, tag, contentVars>>
    BY <1>4 DEF PushFree, At, frameVars
  <2>2. th[t].ret \in {"idle", "lookup", "acquire"}
    <3>1. th[t].ret \in Returns(th[t])
      BY CallRecord DEF Shape
    <3> QED
      BY ZenonT(40), <2>1, <3>1 DEF Returns, FlushPlaces
  <2>3. {"idle", "lookup", "acquire"} \subseteq CalmPlaces
    BY ZenonT(40) DEF CalmPlaces, Places, QueuedPlaces, ActivePlaces, WriterPlaces
  <2>4. Base(t) \notin WriterPlaces
    BY <2>1 DEF Base, BaseOf, FlushPlaces, WriterPlaces
  <2>5. Turns(t)
    BY ZenonT(40), <1>4, <2>2, <2>3, <2>4, GoesOn DEF PushFree
  <2> QED
    BY ZenonT(40), <2>1, <2>5, Still
<1> QED
  BY ZenonT(40), <1>1, <1>2, <1>3, <1>4

\* A handle is latched, its page marked dirty and counted, and let go of; a
\* client of the zero mode does not let go of it unwritten.
LEMMA HandleContents ==
  ASSUME PoolFacts, ContentInv, NEW t \in Threads,
         AcquireLatch(t) \/ MarkHandleDirty(t) \/ CountDirty(t) \/ ReleaseHandle(t)
  PROVE  ContentInv'
<1>1. /\ th[t].pc \in {"latch", "reading"} \cup WriterPlaces /\ UNCHANGED <<tag, contentVars>>
      /\ \E l \in {"reading", "unpin"} \cup WriterPlaces : Goto(t, l)
  BY ZenonT(40) DEF AcquireLatch, MarkHandleDirty, CountDirty, ReleaseHandle, At, frameVars, WriterPlaces
<1>2. /\ Base(t) = th[t].pc /\ th[t].pc \notin Searching
  BY ZenonT(40), <1>1 DEF Base, BaseOf, FlushPlaces, WriterPlaces, Searching
<1>3. F(t) \in Frames /\ W(t) \in Word /\ W(t) = control[F(t)]
  BY ZenonT(40), <1>2, CallRecord DEF F
<1>4. PICK l \in {"reading", "unpin"} \cup WriterPlaces :
        Goto(t, l) /\ Becomes(t, l, th[t].op, th[t].want, th[t].frame, th[t].from, th[t].mode, th[t].ret)
  <2>1. {"reading", "unpin"} \cup WriterPlaces \subseteq Places
    BY DEF Places, WriterPlaces
  <2> QED
    BY <1>1, <2>1, GotoFields, Typed DEF PoolTypes
<1>5. BaseOf(th'[t]) = l /\ ~Runs(th'[t]) /\ Moves(t) /\ th'[t].pc # "publish"
  BY ZenonT(40), <1>4, BecomesMoves DEF Becomes, BaseOf, FlushPlaces, WriterPlaces, Runs, QueuedPlaces, ActivePlaces
<1>6. /\ Dirties(th'[t]) => Dirties(th[t]) \/ control'[F(t)].dirty
      /\ Zeroes(th[t]) => l \in {"writing", "count", "marked"}
  <2>1. th'[t].pc = l
    BY ZenonT(40), <1>4 DEF Becomes
  <2>2. CASE AcquireLatch(t)
    <3>1. th[t].pc = "latch" /\ l \in {"reading", "writing"}
      BY <2>1, <2>2, CallRecord DEF AcquireLatch, Goto, At, Thread
    <3> QED
      BY ZenonT(40), <1>2, <1>5, <3>1 DEF Dirties, Zeroes, Base
  <2>3. CASE MarkHandleDirty(t)
    <3>1. Base(t) \in WriterPlaces /\ th[t].pc = "writing"
      BY ZenonT(40), <1>2, <2>3 DEF MarkHandleDirty, At, WriterPlaces
    <3>2. IsResident(W(t))
      BY ZenonT(40), <3>1, WriterFrame
    <3>3. control'[F(t)] = MarkedDirty(W(t))
      BY <1>3, <2>3, Typed DEF MarkHandleDirty, SetControl, PoolTypes
    <3>4. l \in {"count", "marked"}
      BY <2>1, <2>3, CallRecord DEF MarkHandleDirty, Goto
    <3> QED
      BY ZenonT(40), <1>3, <3>2, <3>3, <3>4, GrownWords
  <2>4. CASE CountDirty(t)
    <3>1. th[t].pc = "count" /\ l = "marked"
      BY <2>1, <2>4, CallRecord DEF CountDirty, Goto, At
    <3> QED
      BY <1>2, <3>1 DEF Dirties, Base
  <2>5. CASE ReleaseHandle(t)
    <3>1. l = "unpin"
      BY <2>1, <2>5, CallRecord DEF ReleaseHandle, Goto
    <3>2. th[t].pc \in {"reading", "written"} \/ th[t].op # "zero"
      BY ZenonT(40), <2>5 DEF ReleaseHandle, At
    <3> QED
      BY ZenonT(40), <1>2, <1>5, <3>1, <3>2 DEF Dirties, Zeroes, Base
  <2> QED
    BY ZenonT(40), <2>2, <2>3, <2>4, <2>5
<1>7. Turns(t)
  BY ZenonT(40), <1>3, <1>4, <1>5, <1>6 DEF Turns, KeepsMarks, Becomes, Zeroes, F
<1>8. UNCHANGED control \/ \E w : SetControl(t, w) /\ Grows(w, W(t))
  BY ZenonT(40), <1>3, GrownWords DEF AcquireLatch, MarkHandleDirty, CountDirty, ReleaseHandle, frameVars
<1> QED
  BY ZenonT(40), <1>1, <1>2, <1>7, <1>8, Still


\* A frame is dropped only unlatched and without writeback; the page becomes
\* what the disk has.
LEMMA DiscardContents ==
  ASSUME PoolFacts, ContentInv, NEW t \in Threads, TryDiscardPinned(t) \/ DropWaitLatch(t)
  PROVE  ContentInv'
<1>1. th[t].pc \in {"discard", "waitlatch"} /\ UNCHANGED <<tag, data, disk>>
  BY ZenonT(40) DEF TryDiscardPinned, DropWaitLatch, At, frameVars, contentVars
<1>2. Base(t) = th[t].pc /\ Base(t) \notin WriterPlaces /\ th[t].pc \notin Searching
  BY ZenonT(40), <1>1 DEF Base, BaseOf, FlushPlaces, WriterPlaces, Searching
<1>3. F(t) \in Frames /\ W(t) \in Word /\ W(t) = control[F(t)]
  BY <1>2, CallRecord DEF F
<1>4. {"unpin", "waitlatch", "dropcount", "dropremove"} \subseteq CalmPlaces \ FlushPlaces
      /\ {"waitwb", "dscan"} \subseteq Places
  BY DEF CalmPlaces, Places, QueuedPlaces, ActivePlaces, WriterPlaces, FlushPlaces
<1>5. Turns(t)
  <2>1. \E l \in {"unpin", "waitlatch", "dropcount", "dropremove"} :
          Goto(t, l) \/ \E p \in Places : th' = [th EXCEPT ![t].pc = l, ![t].ret = p]
    BY ZenonT(40), <1>4 DEF TryDiscardPinned, DropWaitLatch
  <2> QED
    BY ZenonT(40), <1>2, <1>4, <2>1, GoesOn
<1>6. CASE UNCHANGED <<control, latest>>
  BY <1>1, <1>5, <1>6, Still DEF contentVars
<1>7. CASE TryDiscardPinned(t) /\ DiscardOutcome(W(t)) = "Discarded"
  <2>1. /\ control' = [control EXCEPT ![F(t)] = FreeWord]
        /\ latest' = [latest EXCEPT ![th[t].want] = disk[th[t].want]] /\ th[t].pc = "discard"
    BY <1>7 DEF TryDiscardPinned, SetControl, At
  <2>2. ~HasWriteback(W(t)) /\ ~W(t).exclusive /\ IsResident(W(t))
    BY ZenonT(40), <1>7 DEF DiscardOutcome, Latched
  <2>3. tag[F(t)] = th[t].want
    BY ZenonT(40), <1>2, <2>1 DEF PoolFacts, FramesHeld, PinnerHolds
  <2>4. \A u \in Threads : F(u) = F(t) => Base(u) \notin WriterPlaces
    BY ZenonT(40), <1>3, <2>2, WriterFrame DEF W, F
  <2>5. ~IsResident(FreeWord) /\ ~FreeWord.dirty /\ ~HasWriteback(FreeWord)
    BY ZenonT(40) DEF FreeWord, IsResident, HasWriteback
  <2> QED
    BY ZenonT(40), <1>1, <1>3, <1>5, <2>1, <2>2, <2>3, <2>4, <2>5, Vacated
<1> QED
  BY ZenonT(40), <1>6, <1>7 DEF TryDiscardPinned, DropWaitLatch, frameVars, contentVars

\* A flush that does not write back: it starts, waits, finds the page clean or
\* busy, or counts the page that it has cleaned.
LEMMA FlushContents ==
  ASSUME PoolFacts, ContentInv, th' \in [Threads -> Thread], NEW t \in Threads,
         \/ FlushHandle(t) \/ PrepareLatch(t) \/ WaitForPendingFlush(t) \/ ReadWritebackError(t)
         \/ UncountDirty(t)
         \/ TryQueueWriteback(t) /\ QueueOutcome(W(t), th[t].mode = "clean") # "Queued"
         \/ PrepareUnlatch(t) /\ th[t].pc # "unlatch_task"
  PROVE  ContentInv'
<1> DEFINE calm == FlushPlaces \ (QueuedPlaces \cup ActivePlaces)
<1>1. UNCHANGED <<tag, contentVars>>
  BY DEF FlushHandle, PrepareLatch, WaitForPendingFlush, ReadWritebackError, UncountDirty,
         TryQueueWriteback, PrepareUnlatch, frameVars
<1>2. CASE FlushHandle(t)
  <2>1. th' \in [Threads -> Thread]
    BY ZenonT(40)
  <2>2. /\ \A u \in Threads \ {t} : th'[u] = th[u]
        /\ th[t].pc \in {"reading", "writing", "marked", "written"} /\ th'[t].pc = "queue"
        /\ th'[t].ret = th[t].pc /\ th'[t].frame = th[t].frame /\ th'[t].op = th[t].op
    BY <1>2, CallRecord DEF FlushHandle, Thread
  <2>3. BaseOf(th'[t]) = Base(t) /\ th'[t].pc # "publish" /\ ~Runs(th'[t])
    BY ZenonT(40), <2>2 DEF BaseOf, Base, FlushPlaces, Runs, QueuedPlaces, ActivePlaces
  <2>4. Turns(t)
    BY ZenonT(40), <2>1, <2>2, <2>3, Calms DEF Moves
  <2> QED
    BY ZenonT(40), <1>1, <1>2, <2>4, Still DEF FlushHandle, frameVars
<1>3. CASE ~FlushHandle(t)
  <2>1. th[t].pc \in {"flush", "waitwb", "wberror", "uncount", "queue", "unlatch_clean", "unlatch_fail", "unlatch_busy"}
    BY ZenonT(40), <1>3 DEF PrepareLatch, WaitForPendingFlush, ReadWritebackError, UncountDirty, TryQueueWriteback,
                PrepareUnlatch, At
  <2>2. th[t].pc \in FlushPlaces /\ th[t].pc \notin Searching
    BY ZenonT(40), <2>1 DEF FlushPlaces, Searching
  <2>3. W(t) \in Word
    BY ZenonT(40), <2>2, CallRecord
  <2>4. UNCHANGED control \/ \E w : SetControl(t, w) /\ Grows(w, W(t))
    BY ZenonT(40), <1>3, <2>3, GrownWords DEF PrepareLatch, WaitForPendingFlush, ReadWritebackError, UncountDirty,
                                  TryQueueWriteback, PrepareUnlatch, frameVars
  <2>5. SUFFICES Turns(t)
    BY ZenonT(40), <1>1, <2>2, <2>4, Still
  <2>6. {"flush", "queue", "waitwb", "wberror", "unlatch_clean", "unlatch_fail", "unlatch_busy"} \subseteq calm
    BY ZenonT(40) DEF FlushPlaces, QueuedPlaces, ActivePlaces
  <2>7. CASE Busy(t) /\ Opportunistic(t)
    <3>1. Base(t) = th[t].ret /\ th[t].ret = "idle"
      <4>1. th[t].ret \in Returns(th[t])
        BY ZenonT(40), CallRecord DEF Shape
      <4> QED
        BY ZenonT(40), <2>2, <2>7, <4>1 DEF Base, BaseOf, Returns, FlushPlaces, Opportunistic
    <3>2. /\ \A u \in Threads \ {t} : th'[u] = th[u]
          /\ th'[t].ret = "idle" /\ th'[t].pc \in {"flush", "idle"}
      BY <2>7, <3>1, CallRecord, IdleRecord DEF Busy, Thread
    <3>3. th' \in [Threads -> Thread]
      <4>1. "flush" \in Places
        BY ZenonT(40) DEF Places
      <4>2. [th[t] EXCEPT !.pc = "flush", !.mode = "block"] \in Thread
        <5>1. th[t] \in Thread
          BY ZenonT(40), CallRecord
        <5> QED
          BY ZenonT(40), <4>1, <5>1 DEF Thread
      <4> QED
        BY ZenonT(40), <2>7, <4>2, CallRecord, IdleRecord DEF Busy
    <3>4. BaseOf(th'[t]) = "idle" /\ th'[t].pc # "publish" /\ ~Runs(th'[t])
      BY ZenonT(40), <3>2 DEF BaseOf, FlushPlaces, Runs, QueuedPlaces, ActivePlaces
    <3> QED
      BY ZenonT(40), <3>1, <3>2, <3>3, <3>4, Calms DEF Moves, WriterPlaces
  <2>8. CASE WaitForPendingFlush(t) /\ th[t].op = "drop"
    <3>1. Continue(t, "dscan") /\ "dscan" \in CalmPlaces
      BY ZenonT(40), <2>8 DEF WaitForPendingFlush, CalmPlaces, Places, QueuedPlaces, ActivePlaces, WriterPlaces
    <3>2. Base(t) \notin WriterPlaces
      BY ZenonT(40), <2>2, <2>8, CallRecord DEF Shape, Base, BaseOf, WriterPlaces
    <3> QED
      BY ZenonT(40), <3>1, <3>2, GoesOn
  <2>9. \/ \E l \in calm : Goto(t, l) \/ th' = [th EXCEPT ![t].pc = l, ![t].task = NoTask]
        \/ Continue(t, th[t].ret) \/ FlushFails(t)
        \/ Busy(t) /\ Opportunistic(t)
        \/ WaitForPendingFlush(t) /\ th[t].op = "drop"
    <3>1. PrepareLatch(t) => Goto(t, "queue") \/ (Busy(t) /\ Opportunistic(t))
      BY ZenonT(40) DEF PrepareLatch
    <3>2. WaitForPendingFlush(t) => th[t].op = "drop" \/ Goto(t, "wberror")
      BY ZenonT(40) DEF WaitForPendingFlush
    <3>3. ReadWritebackError(t) => Goto(t, "unlatch_fail") \/ FlushFails(t) \/ Goto(t, "queue")
      BY DEF ReadWritebackError, Prepared, AfterPrepare
    <3>4. UncountDirty(t) => \/ \E l \in {"flush", "queue"} : th' = [th EXCEPT ![t].pc = l, ![t].task = NoTask]
                             \/ Continue(t, th[t].ret)
      BY DEF UncountDirty, RoundDone
    <3>5. TryQueueWriteback(t) /\ QueueOutcome(W(t), th[t].mode = "clean") # "Queued" =>
            \/ Goto(t, "unlatch_clean") \/ Continue(t, th[t].ret) \/ Goto(t, "unlatch_busy") \/ Goto(t, "waitwb")
      BY DEF TryQueueWriteback, Prepared, AfterPrepare
    <3>6. PrepareUnlatch(t) /\ th[t].pc # "unlatch_task" =>
            Continue(t, th[t].ret) \/ FlushFails(t) \/ (Busy(t) /\ Opportunistic(t))
      <4>1. th[t].pc = "unlatch_busy" => Opportunistic(t)
        BY ZenonT(40), CallRecord DEF Shape, Opportunistic
      <4> QED
        BY ZenonT(40), <4>1 DEF PrepareUnlatch, AfterPrepare
    <3> QED
      BY ZenonT(40), <1>3, <2>6, <3>1, <3>2, <3>3, <3>4, <3>5, <3>6
  <2> QED
    BY ZenonT(40), <2>2, <2>7, <2>8, <2>9, FlushGoesOn
<1> QED
  BY ZenonT(40), <1>2, <1>3


\* A flush that goes on, with a writeback or without, keeps its task.
LEMMA FlushKeeps ==
  ASSUME PoolFacts, NEW t \in Threads, th[t].pc \in FlushPlaces, NEW l \in FlushPlaces, Goto(t, l)
  PROVE  KeepsMarks(t) /\ th'[t].pc = l /\ th'[t].frame = th[t].frame /\ th'[t].task = th[t].task
<1>1. th[t] \in Thread /\ th \in [Threads -> Thread] /\ l \in Places
  BY CallRecord DEF FlushPlaces, Places
<1>2. Becomes(t, l, th[t].op, th[t].want, th[t].frame, th[t].from, th[t].mode, th[t].ret)
  BY <1>1, GotoFields
<1>3. th'[t].task = th[t].task
  BY ZenonT(40), <1>1 DEF Goto, Thread
<1>4. BaseOf(th'[t]) = BaseOf(th[t]) /\ th'[t].op = th[t].op /\ th'[t].frame = th[t].frame /\ th'[t].pc = l
  BY ZenonT(40), <1>2 DEF Becomes, BaseOf
<1>5. l # "publish"
  BY DEF FlushPlaces
<1>6. Moves(t)
  BY <1>2, BecomesMoves
<1> QED
  BY ZenonT(40), <1>3, <1>4, <1>5, <1>6 DEF KeepsMarks, Dirties, Zeroes

\* A dirty page without a writeback is queued.
LEMMA QueueContents ==
  ASSUME PoolFacts, ContentInv, NEW t \in Threads, TryQueueWriteback(t),
         QueueOutcome(W(t), th[t].mode = "clean") = "Queued"
  PROVE  ContentInv'
<1> DEFINE f == F(t)
           w == QueuedWriteback(W(t))
<1>1. /\ th[t].pc = "queue" /\ Goto(t, "snapshot") /\ control' = [control EXCEPT ![f] = w]
      /\ UNCHANGED <<tag, data, disk, latest>>
  BY ZenonT(40) DEF TryQueueWriteback, At, SetControl, contentVars
<1>2. th[t].pc \in FlushPlaces /\ "snapshot" \in FlushPlaces /\ th[t].pc \notin Searching
  BY ZenonT(40), <1>1 DEF FlushPlaces, Searching
<1>3. f \in Frames /\ W(t) \in Word /\ W(t) = control[f]
  BY ZenonT(40), <1>2, CallRecord DEF F
<1>4. ~HasWriteback(W(t)) /\ IsResident(W(t)) /\ W(t).dirty
  BY DEF QueueOutcome
<1>5. /\ IsResident(w) /\ w.dirty /\ w.queued /\ ~w.active /\ w.exclusive = W(t).exclusive
  BY ZenonT(40), <1>3, <1>4 DEF QueuedWriteback, Word, IsResident, HasWriteback
<1>6. KeepsMarks(t) /\ th'[t].pc = "snapshot" /\ th'[t].frame = th[t].frame
  BY ZenonT(40), <1>1, <1>2, FlushKeeps
<1>7. \A u \in Threads : Runs(th[u]) => F(u) # f
  BY ZenonT(40), <1>3, <1>4, RunnerFrame
<1>8. th'[t].pc \notin ActivePlaces /\ th'[t].pc \notin TaskPlaces /\ ~At(t, "complete")'
  BY ZenonT(40), <1>6 DEF ActivePlaces, TaskPlaces, At
<1>9. F(t)' = f
  BY ZenonT(40), <1>6 DEF F
<1> HIDE DEF f, w
<1> QED
  BY ZenonT(40), <1>1, <1>3, <1>4, <1>5, <1>6, <1>7, <1>8, <1>9, WritesBack DEF f

\* The writeback that a frame has goes on: what its own call knows.
LEMMA RunnerAlone ==
  ASSUME PoolFacts, ContentInv, NEW t \in Threads, Runs(th[t])
  PROVE  /\ th[t].pc \in FlushPlaces
         /\ \A u \in Threads \ {t} : Runs(th[u]) => F(u) # F(t)
         /\ th[t].pc \in QueuedPlaces => W(t).queued /\ ~W(t).active
         /\ th[t].pc \in ActivePlaces => W(t).active /\ ~W(t).queued
         /\ control = [control EXCEPT ![F(t)] = W(t)]
<1>1. th[t].pc \in FlushPlaces
  BY ZenonT(40) DEF Runs, QueuedPlaces, ActivePlaces, FlushPlaces
<1>2. control = [control EXCEPT ![F(t)] = W(t)]
  BY ZenonT(40), RunnerFrame, Typed DEF PoolTypes
<1> QED
  BY <1>1, <1>2 DEF ContentInv, RunInv

\* The snapshot is the page as last written, unless its writer holds the latch.
LEMMA SnapshotContents ==
  ASSUME PoolFacts, ContentInv, th' \in [Threads -> Thread], NEW t \in Threads, CaptureFlushSnapshot(t)
  PROVE  ContentInv'
<1> DEFINE f == F(t)
<1>1. /\ th[t].pc = "snapshot" /\ UNCHANGED <<control, tag, data, disk, latest>>
  BY DEF CaptureFlushSnapshot, At, frameVars, contentVars
<1>2. Runs(th[t]) /\ th[t].pc \in QueuedPlaces
  BY ZenonT(40), <1>1 DEF Runs, QueuedPlaces
<1>3. /\ f \in Frames /\ W(t) = control[f] /\ IsResident(W(t)) /\ W(t).dirty
  BY ZenonT(40), <1>2, RunnerFrame
<1>4. th' \in [Threads -> Thread]
  OBVIOUS
<1>5. /\ \A u \in Threads \ {t} : th'[u] = th[u]
      /\ th'[t].pc \in {"unlatch_task", "begin"} /\ th'[t].ret = th[t].ret
      /\ th'[t].frame = th[t].frame /\ th'[t].op = th[t].op
      /\ th'[t].task = [tag |-> tag[f], data |-> data[f]]
  <2>1. th \in [Threads -> Thread] /\ th[t] \in Thread
    BY ZenonT(40), CallRecord
  <2>2. PICK p \in {"unlatch_task", "begin"} :
          th' = [th EXCEPT ![t].pc = p, ![t].task = [tag |-> tag[f], data |-> data[f]]]
    BY ZenonT(40) DEF CaptureFlushSnapshot
  <2>3. \A u \in Threads \ {t} : th'[u] = th[u]
    BY <2>1, <2>2
  <2>4. th'[t] = [th[t] EXCEPT !.pc = p, !.task = [tag |-> tag[f], data |-> data[f]]]
    BY <2>1, <2>2
  <2> HIDE DEF f
  <2>5. /\ th'[t].pc = p /\ th'[t].task = [tag |-> tag[f], data |-> data[f]]
        /\ th'[t].ret = th[t].ret /\ th'[t].frame = th[t].frame /\ th'[t].op = th[t].op
    BY <2>1, <2>4 DEF Thread
  <2> QED
    BY ZenonT(40), <2>3, <2>5
<1>6. KeepsMarks(t)
  <2>1. BaseOf(th'[t]) = BaseOf(th[t]) /\ th'[t].pc # "publish"
    BY ZenonT(40), <1>1, <1>5 DEF BaseOf, FlushPlaces
  <2> QED
    BY ZenonT(40), <1>4, <1>5, <2>1 DEF KeepsMarks, Moves, Dirties, Zeroes
<1>7. W(t).exclusive \/ data[f] = latest[tag[f]]
  <2>1. ASSUME NEW u \in Threads, F(u) = f, Zeroes(th[u]) PROVE W(t).exclusive
    BY ZenonT(40), <2>1, MarkersWrite, WriterFrame DEF W, F
  <2> QED
    BY ZenonT(40), <1>3, <2>1 DEF ContentInv, CopyCurrent
<1>8. th'[t].pc \in QueuedPlaces /\ th'[t].pc \notin ActivePlaces /\ ~At(t, "complete")' /\ F(t)' = f
  BY ZenonT(40), <1>5 DEF QueuedPlaces, ActivePlaces, At, F
<1>9. th'[t].task.tag = tag[f] /\ th'[t].task.data = data[f]
  <2>1. th'[t].task = [tag |-> tag[f], data |-> data[f]]
    BY ZenonT(40), <1>5
  <2>2. [tag |-> tag[f], data |-> data[f]].tag = tag[f] /\ [tag |-> tag[f], data |-> data[f]].data = data[f]
    BY ZenonT(40)
  <2> QED
    BY ZenonT(40), <2>1, <2>2
<1>10. /\ \A u \in Threads \ {t} : Runs(th[u]) => F(u) # f
       /\ W(t).queued /\ ~W(t).active /\ control = [control EXCEPT ![f] = W(t)]
  BY <1>2, RunnerAlone
<1>11. f = F(t) /\ UNCHANGED <<tag, data, latest>> /\ control' = [control EXCEPT ![f] = W(t)] /\ disk' = disk
  BY ZenonT(40), <1>1, <1>10
<1> DEFINE w == W(t)
<1>12. /\ IsResident(control[f]) /\ IsResident(w) /\ (HasWriteback(w) => w.dirty) /\ w.exclusive = control[f].exclusive
       /\ (control[f].dirty => \/ w.dirty
                               \/ ~w.exclusive /\ disk'[tag[f]] = latest[tag[f]])
       /\ \A k \in Tags : disk'[k] = disk[k] \/ k = tag[f]
       /\ disk'[tag[f]] = disk[tag[f]] \/ w.dirty
       /\ Runs(th'[t]) => F(t)' = f
       /\ th'[t].pc \in QueuedPlaces => w.queued /\ ~w.active
       /\ th'[t].pc \in ActivePlaces => w.active /\ ~w.queued
       /\ th'[t].pc \in TaskPlaces =>
            /\ th'[t].task.tag = tag[f]
            /\ w.redirtied \/ w.exclusive \/ th'[t].task.data = latest[tag[f]]
       /\ At(t, "complete")' => disk'[tag[f]] = th'[t].task.data
  BY ZenonT(40), <1>3, <1>7, <1>8, <1>9, <1>10, <1>11
<1> HIDE DEF f, w
<1>13. control' = [control EXCEPT ![f] = w]
  BY <1>11 DEF w
<1> QED
  BY ZenonT(60), <1>3, <1>6, <1>10, <1>11, <1>12, <1>13, WritesBack

\* A writeback ends: the page stays dirty, or the disk has its last write.
LEMMA WritebackEnds ==
  ASSUME PoolFacts, ContentInv, NEW t \in Threads, Runs(th[t]), Turns(t), NEW w,
         control' = [control EXCEPT ![F(t)] = w], IsResident(w), HasWriteback(w) => w.dirty,
         w.exclusive = W(t).exclusive,
         w.dirty \/ (~w.exclusive /\ disk[tag[F(t)]] = latest[tag[F(t)]]),
         UNCHANGED <<tag, data, disk, latest>>
  PROVE  ContentInv'
<1>1. F(t) \in Frames /\ W(t) = control[F(t)] /\ IsResident(control[F(t)])
  BY ZenonT(40), RunnerFrame
<1>2. \A u \in Threads \ {t} : Runs(th[u]) => F(u) # F(t)
  BY ZenonT(40), RunnerAlone
<1>3. /\ KeepsMarks(t) /\ ~Runs(th'[t]) /\ th'[t].pc \notin QueuedPlaces /\ th'[t].pc \notin ActivePlaces
      /\ th'[t].pc \notin TaskPlaces /\ ~At(t, "complete")'
  BY ZenonT(40) DEF Turns, Runs, QueuedPlaces, ActivePlaces, TaskPlaces, At
<1>4. w.exclusive = control[F(t)].exclusive
  BY ZenonT(40), <1>1
<1>5. control[F(t)].dirty => w.dirty \/ (~w.exclusive /\ disk'[tag[F(t)]] = latest[tag[F(t)]])
  BY ZenonT(40)
<1>6. (\A k \in Tags : disk'[k] = disk[k] \/ k = tag[F(t)]) /\ disk'[tag[F(t)]] = disk[tag[F(t)]]
  BY ZenonT(40)
<1> QED
  BY ZenonT(40), <1>1, <1>2, <1>3, <1>4, <1>5, <1>6, WritesBack

\* The other steps of a writeback.
LEMMA WritebackContents ==
  ASSUME PoolFacts, ContentInv, NEW t \in Threads,
         \/ PrepareUnlatch(t) /\ At(t, "unlatch_task")
         \/ RollBackFlushTask(t) \/ BeginFlushTask(t) \/ WriteTask(t) \/ FinalizeFlushTask(t)
  PROVE  ContentInv'
<1> DEFINE f == F(t)
<1>1. th[t].pc \in {"unlatch_task", "begin", "write", "complete", "completefail"} /\ UNCHANGED <<tag, data, latest>>
  BY ZenonT(40) DEF PrepareUnlatch, RollBackFlushTask, BeginFlushTask, WriteTask, FinalizeFlushTask, At, frameVars, contentVars
<1>2. Runs(th[t]) /\ th[t].pc \in FlushPlaces
  BY ZenonT(40), <1>1 DEF Runs, QueuedPlaces, ActivePlaces, FlushPlaces
<1>3. /\ f \in Frames /\ W(t) = control[f] /\ W(t) \in Word /\ IsResident(W(t)) /\ W(t).dirty
      /\ tag[f] \in Tags
  BY ZenonT(40), <1>2, RunnerFrame
<1>a. \A u \in Threads \ {t} : Runs(th[u]) => F(u) # f
  BY ZenonT(40), <1>2, RunnerAlone
<1>4. /\ th[t].pc \in {"unlatch_task", "begin"} => W(t).queued /\ ~W(t).active
      /\ th[t].pc \in {"write", "complete", "completefail"} => W(t).active /\ ~W(t).queued
  BY ZenonT(40), <1>2, RunnerAlone DEF QueuedPlaces, ActivePlaces
<1>5. /\ th[t].pc # "completefail" =>
           /\ th[t].task.tag = tag[f]
           /\ W(t).redirtied \/ W(t).exclusive \/ th[t].task.data = latest[tag[f]]
      /\ th[t].pc = "complete" => disk[tag[f]] = th[t].task.data
  BY ZenonT(40), <1>1 DEF ContentInv, TaskInv, TaskPlaces, At
<1>6. CASE PrepareUnlatch(t) /\ At(t, "unlatch_task")
  <2> DEFINE w == ReleasedShared(W(t))
  <2>1. /\ Goto(t, "begin") /\ control' = [control EXCEPT ![f] = w] /\ UNCHANGED disk /\ "begin" \in FlushPlaces
        /\ th[t].pc = "unlatch_task"
    BY <1>6 DEF PrepareUnlatch, AfterPrepare, SetControl, At, contentVars, FlushPlaces
  <2>2. KeepsMarks(t) /\ th'[t].pc = "begin" /\ th'[t].frame = th[t].frame /\ th'[t].task = th[t].task
    BY ZenonT(40), <1>2, <2>1, FlushKeeps
  <2>3. /\ IsResident(w) /\ w.dirty /\ w.queued /\ ~w.active /\ w.exclusive = W(t).exclusive
        /\ w.redirtied = W(t).redirtied
    BY ZenonT(40), <1>3, <1>4, <2>1 DEF ReleasedShared, Word, IsResident
  <2>4. th'[t].pc \notin ActivePlaces /\ ~At(t, "complete")' /\ F(t)' = f
    BY ZenonT(40), <2>2 DEF ActivePlaces, At, F
  <2>5. th'[t].task.tag = tag[f] /\ (w.redirtied \/ w.exclusive \/ th'[t].task.data = latest[tag[f]])
    BY ZenonT(40), <1>5, <2>1, <2>2, <2>3
  <2> HIDE DEF f, w
  <2> QED
    BY ZenonT(40), <1>1, <1>3, <1>a, <2>1, <2>2, <2>3, <2>4, <2>5, WritesBack DEF f
<1>7. CASE RollBackFlushTask(t)
  <2> DEFINE w == CancelledWriteback(W(t))
  <2>1. FlushFails(t) /\ control' = [control EXCEPT ![f] = w] /\ UNCHANGED disk
    BY <1>7 DEF RollBackFlushTask, SetControl, contentVars
  <2>2. Turns(t)
    BY ZenonT(40), <1>2, <2>1, FlushGoesOn
  <2>3. IsResident(w) /\ w.dirty /\ w.exclusive = W(t).exclusive
    BY <1>3 DEF CancelledWriteback, Word, IsResident
  <2> HIDE DEF w
  <2> QED
    BY ZenonT(40), <1>1, <1>2, <2>1, <2>2, <2>3, WritebackEnds
<1>8. CASE BeginFlushTask(t)
  <2> DEFINE w == BegunWriteback(W(t))
  <2>1. /\ Goto(t, "write") /\ control' = [control EXCEPT ![f] = w] /\ UNCHANGED disk /\ "write" \in FlushPlaces
        /\ th[t].pc = "begin"
    BY ZenonT(40), <1>8 DEF BeginFlushTask, SetControl, At, contentVars, FlushPlaces
  <2>2. KeepsMarks(t) /\ th'[t].pc = "write" /\ th'[t].frame = th[t].frame /\ th'[t].task = th[t].task
    BY ZenonT(40), <1>2, <2>1, FlushKeeps
  <2>3. /\ IsResident(w) /\ w.dirty /\ ~w.queued /\ w.active /\ w.exclusive = W(t).exclusive
        /\ w.redirtied = W(t).redirtied
    BY ZenonT(40), <1>3 DEF BegunWriteback, Word, IsResident
  <2>4. th'[t].pc \notin QueuedPlaces /\ ~At(t, "complete")' /\ F(t)' = f
    BY <2>2 DEF QueuedPlaces, At, F
  <2>5. th'[t].task.tag = tag[f] /\ (w.redirtied \/ w.exclusive \/ th'[t].task.data = latest[tag[f]])
    BY ZenonT(40), <1>5, <2>1, <2>2, <2>3
  <2> HIDE DEF f, w
  <2> QED
    BY ZenonT(40), <1>1, <1>3, <1>a, <2>1, <2>2, <2>3, <2>4, <2>5, WritesBack DEF f
<1>9. CASE WriteTask(t)
  <2>1. /\ th[t].pc = "write" /\ control' = [control EXCEPT ![f] = W(t)]
        /\ {"complete", "completefail"} \subseteq FlushPlaces
    BY ZenonT(40), <1>2, <1>9, RunnerAlone DEF WriteTask, At, frameVars, FlushPlaces
  <2>2. PICK l \in {"complete", "completefail"} :
          /\ Goto(t, l) /\ \A k \in Tags : disk'[k] = disk[k] \/ k = tag[f]
          /\ l = "complete" => disk'[tag[f]] = th[t].task.data
    BY ZenonT(40), <1>3, <1>5, <1>9, <2>1, Typed DEF WriteTask, PoolTypes, DataTypes
  <2>3. KeepsMarks(t) /\ th'[t].pc = l /\ th'[t].frame = th[t].frame /\ th'[t].task = th[t].task
    BY ZenonT(40), <1>2, <2>1, <2>2, FlushKeeps
  <2>4. /\ th'[t].pc \notin QueuedPlaces /\ (th'[t].pc \in TaskPlaces => l = "complete") /\ F(t)' = f
        /\ At(t, "complete")' => disk'[tag[f]] = th'[t].task.data
    BY ZenonT(40), <2>2, <2>3 DEF QueuedPlaces, TaskPlaces, At, F
  <2>5. W(t).active /\ ~W(t).queued
    BY ZenonT(40), <1>4, <2>1
  <2>6. th'[t].pc \in TaskPlaces =>
          th'[t].task.tag = tag[f] /\ (W(t).redirtied \/ W(t).exclusive \/ th'[t].task.data = latest[tag[f]])
    BY ZenonT(40), <1>5, <2>1, <2>3
  <2> HIDE DEF f
  <2> QED
    BY ZenonT(40), <1>1, <1>3, <1>a, <2>1, <2>2, <2>3, <2>4, <2>5, <2>6, WritesBack DEF f
<1>10. CASE FinalizeFlushTask(t)
  <2> DEFINE ok == At(t, "complete")
             w == CompletedWriteback(W(t), ok)
  <2>1. /\ control' = [control EXCEPT ![f] = w] /\ UNCHANGED disk /\ th[t].pc \in {"complete", "completefail"}
        /\ Goto(t, "uncount") \/ RoundDone(t) \/ FlushFails(t)
    BY ZenonT(40), <1>10 DEF FinalizeFlushTask, SetControl, contentVars
  <2>2. Turns(t)
    <3>1. {"uncount", "flush", "queue"} \subseteq FlushPlaces \ (QueuedPlaces \cup ActivePlaces)
      BY DEF FlushPlaces, QueuedPlaces, ActivePlaces
    <3>2. RoundDone(t) => \/ \E l \in {"flush", "queue"} : th' = [th EXCEPT ![t].pc = l, ![t].task = NoTask]
                          \/ Continue(t, th[t].ret)
      BY DEF RoundDone
    <3> QED
      BY ZenonT(40), <1>2, <2>1, <3>1, <3>2, FlushGoesOn
  <2>3. /\ IsResident(w) /\ ~HasWriteback(w) /\ w.exclusive = W(t).exclusive
        /\ w.dirty \/ ClearsDirty(W(t), ok)
    BY <1>3 DEF CompletedWriteback, Word, IsResident, HasWriteback
  <2>4. ClearsDirty(W(t), ok) => ~W(t).exclusive /\ disk[tag[f]] = latest[tag[f]]
    BY ZenonT(40), <1>5, <2>1 DEF ClearsDirty, At
  <2> HIDE DEF w, ok
  <2> QED
    BY ZenonT(40), <1>1, <1>2, <2>1, <2>2, <2>3, <2>4, WritebackEnds
<1> QED
  BY ZenonT(40), <1>6, <1>7, <1>8, <1>9, <1>10


-----------------------------------------------------------------------------
(* The invariant holds initially and is kept.                              *)

\* Every step keeps the contents right.
LEMMA ContentStep ==
  PoolFacts /\ ContentInv /\ th' \in [Threads -> Thread] /\ [Next]_vars => ContentInv'
<1> SUFFICES ASSUME PoolFacts, ContentInv, th' \in [Threads -> Thread], [Next]_vars PROVE ContentInv'
  OBVIOUS
<1>1. ASSUME NEW t \in Threads, Start(t) \/ ClientChoice(t) \/ Progress(t) PROVE ContentInv'
  <2>1. CASE Start(t) \/ ClientChoice(t)
    BY ZenonT(40), <2>1, StartContents, Wrote, FlushContents DEF ClientChoice
  <2>2. CASE Progress(t)
    BY ZenonT(40), <2>2, SearchContents, PinContents, ReserveContents, LoadContents, PublishContents, HandleContents,
       DiscardContents, FlushContents, QueueContents, SnapshotContents, WritebackContents DEF Progress, At
  <2> QED
    BY ZenonT(40), <1>1, <2>1, <2>2
<1>2. CASE UNCHANGED vars
  BY ZenonT(40), <1>2 DEF vars, ContentInv, WordInv, RunInv, TaskInv, CopyCurrent, CallInv, NothingLost, At, W, F
<1> QED
  BY <1>1, <1>2 DEF Next

\* The disk has every page at first, and nothing runs.
LEMMA ContentInitially == Init => ContentInv
<1> SUFFICES ASSUME Init PROVE ContentInv
  OBVIOUS
<1>1. /\ \A t \in Threads : th[t].pc = "idle" /\ Base(t) = "idle"
      /\ \A f \in Frames : control[f] = FreeWord
  BY ZenonT(40), IdleRecord DEF Init, Base, BaseOf, FlushPlaces
<1>2. WordInv
  <2>1. ~FreeWord.dirty /\ ~HasWriteback(FreeWord)
    BY ZenonT(40) DEF FreeWord, HasWriteback
  <2> QED
    BY ZenonT(40), <1>1, <2>1 DEF WordInv
<1>3. RunInv /\ TaskInv
  BY ZenonT(40), <1>1 DEF RunInv, TaskInv, Runs, QueuedPlaces, ActivePlaces, TaskPlaces, At
<1>4. CopyCurrent
  <2>1. ~IsResident(FreeWord)
    BY ZenonT(40) DEF FreeWord, IsResident
  <2> QED
    BY ZenonT(40), <1>1, <2>1 DEF CopyCurrent
<1>5. CallInv
  BY ZenonT(40), <1>1 DEF CallInv, Dirties, Base, At
<1>6. NothingLost
  BY DEF Init, NothingLost
<1> QED
  BY <1>2, <1>3, <1>4, <1>5, <1>6 DEF ContentInv

-----------------------------------------------------------------------------
(* The count of dirty pages: what a step does to the dirty bits, to the    *)
(* updates that calls owe dirty_page_count_, and to the count itself.      *)

TallyPlaces == {"count", "uncount", "dropcount"}

SameBits == \A f \in Frames : control'[f].dirty = control[f].dirty

\* The frame f is the one whose dirty bit turns.
BitTurns(f) ==
  /\ f \in Frames /\ control'[f].dirty # control[f].dirty
  /\ \A g \in Frames \ {f} : control'[g].dirty = control[g].dirty

\* The call of t takes a step that leaves the count and the dirty bits, or turns
\* one bit and owes the count an update, or makes the update that it owes.
Tallies(t) ==
  /\ Moves(t)
  /\ \/ /\ th[t].pc \notin TallyPlaces /\ th'[t].pc \notin TallyPlaces
        /\ SameBits /\ dirtyCount' = dirtyCount
     \/ /\ th[t].pc \notin TallyPlaces /\ th'[t].pc = "count"
        /\ \E f \in Frames : BitTurns(f) /\ control'[f].dirty = TRUE /\ control[f].dirty = FALSE
        /\ dirtyCount' = dirtyCount
     \/ /\ th[t].pc \notin TallyPlaces /\ th'[t].pc \in {"uncount", "dropcount"}
        /\ \E f \in Frames : BitTurns(f) /\ control'[f].dirty = FALSE /\ control[f].dirty = TRUE
        /\ dirtyCount' = dirtyCount
     \/ /\ th[t].pc = "count" /\ th'[t].pc \notin TallyPlaces
        /\ SameBits /\ dirtyCount' = dirtyCount + 1
     \/ /\ th[t].pc \in {"uncount", "dropcount"} /\ th'[t].pc \notin TallyPlaces
        /\ SameBits /\ dirtyCount' = dirtyCount - 1

\* The call of t goes to place l.
GoesTo(t, l) == Moves(t) /\ th'[t].pc = l

\* However a call leaves its place, the place it goes to is the one it names.
LEMMA Going ==
  ASSUME PoolFacts, th' \in [Threads -> Thread], NEW t \in Threads, NEW l,
         \/ Goto(t, l) \/ Continue(t, l)
         \/ \E x : th' = [th EXCEPT ![t].pc = l, ![t].frame = x]
         \/ \E x : th' = [th EXCEPT ![t].pc = l, ![t].ret = x]
         \/ \E x : th' = [th EXCEPT ![t].pc = l, ![t].evicted = x]
         \/ \E x : th' = [th EXCEPT ![t].pc = l, ![t].task = x]
  PROVE  GoesTo(t, l)
<1>1. th[t] \in Thread /\ th \in [Threads -> Thread]
  BY ZenonT(40), CallRecord
<1>2. PICK s : th' = [th EXCEPT ![t] = s]
  BY ZenonT(40) DEF Goto, Continue
<1>3. th'[t].pc = l
  <2>1. CASE Continue(t, l)
    <3>1. th'[t] = Continued(th[t], l)
      BY ZenonT(40), <1>1, <2>1 DEF Continue
    <3> QED
      BY <1>1, <3>1 DEF Continued, IdleThread, Thread
  <2>2. CASE ~Continue(t, l)
    BY <1>1, <2>2 DEF Goto, Thread
  <2> QED
    BY ZenonT(40), <2>1, <2>2
<1>4. \A u \in Threads \ {t} : th'[u] = th[u]
  BY ZenonT(40), <1>1, <1>2
<1> QED
  BY ZenonT(40), <1>3, <1>4 DEF GoesTo, Moves

\* Most transitions of a control word leave its dirty bit.
LEMMA DirtyKept ==
  ASSUME NEW w \in Word, NEW b
  PROVE  /\ Pinned(w).dirty = w.dirty /\ Unpinned(w).dirty = w.dirty
         /\ PublishedResident(w, b).dirty = w.dirty
         /\ AcquiredShared(w).dirty = w.dirty /\ ReleasedShared(w).dirty = w.dirty
         /\ AcquiredExclusive(w).dirty = w.dirty /\ ReleasedExclusive(w).dirty = w.dirty
         /\ QueuedWriteback(w).dirty = w.dirty /\ BegunWriteback(w).dirty = w.dirty
         /\ CancelledWriteback(w).dirty = w.dirty
<1>1. Pinned(w).dirty = w.dirty /\ Unpinned(w).dirty = w.dirty /\ PublishedResident(w, b).dirty = w.dirty
  BY ZenonT(40) DEF Pinned, Unpinned, PublishedResident, Word
<1>2. /\ AcquiredShared(w).dirty = w.dirty /\ ReleasedShared(w).dirty = w.dirty
      /\ AcquiredExclusive(w).dirty = w.dirty /\ ReleasedExclusive(w).dirty = w.dirty
  BY ZenonT(40) DEF AcquiredShared, ReleasedShared, AcquiredExclusive, ReleasedExclusive, Word
<1>3. /\ QueuedWriteback(w).dirty = w.dirty /\ BegunWriteback(w).dirty = w.dirty
      /\ CancelledWriteback(w).dirty = w.dirty
  BY ZenonT(40) DEF QueuedWriteback, BegunWriteback, CancelledWriteback, Word
<1> QED
  BY ZenonT(40), <1>1, <1>2, <1>3

\* A step that sets the word of its call's frame, or none, with the same dirty bit.
LEMMA BitsKept ==
  ASSUME PoolFacts, NEW t \in Threads, th[t].pc \notin Searching,
         UNCHANGED control \/ \E w : SetControl(t, w) /\ w.dirty = W(t).dirty
  PROVE  SameBits
<1>1. F(t) \in Frames /\ W(t) = control[F(t)] /\ control \in [Frames -> Word]
  BY ZenonT(40), CallRecord, Typed DEF PoolTypes, F
<1>2. CASE \E w : SetControl(t, w) /\ w.dirty = W(t).dirty
  <2>1. PICK w : SetControl(t, w) /\ w.dirty = W(t).dirty
    BY <1>2
  <2>2. control'[F(t)] = w /\ \A f \in Frames \ {F(t)} : control'[f] = control[f]
    BY ZenonT(40), <1>1, <2>1 DEF SetControl
  <2> QED
    BY ZenonT(40), <1>1, <2>1, <2>2 DEF SameBits
<1> QED
  BY ZenonT(40), <1>2 DEF SameBits

\* A step that sets that word and turns its dirty bit.
LEMMA BitTurned ==
  ASSUME PoolFacts, NEW t \in Threads, th[t].pc \notin Searching, NEW w \in Word,
         SetControl(t, w), w.dirty # W(t).dirty
  PROVE  /\ F(t) \in Frames /\ BitTurns(F(t))
         /\ control'[F(t)].dirty = w.dirty /\ control[F(t)].dirty = W(t).dirty
         /\ w.dirty \in BOOLEAN /\ W(t).dirty \in BOOLEAN
<1>1. F(t) \in Frames /\ W(t) = control[F(t)] /\ control \in [Frames -> Word] /\ W(t) \in Word
  BY ZenonT(40), CallRecord, Typed DEF PoolTypes, F
<1>2. control'[F(t)] = w /\ \A f \in Frames \ {F(t)} : control'[f] = control[f]
  BY ZenonT(40), <1>1 DEF SetControl
<1>3. w.dirty \in BOOLEAN /\ W(t).dirty \in BOOLEAN
  BY <1>1 DEF Word
<1> QED
  BY ZenonT(40), <1>1, <1>2, <1>3 DEF BitTurns

\* A step between places that owe nothing.
LEMMA Plain ==
  ASSUME NEW t \in Threads, th[t].pc \notin TallyPlaces, NEW l, l \notin TallyPlaces, GoesTo(t, l),
         SameBits, dirtyCount' = dirtyCount
  PROVE  Tallies(t)
BY ZenonT(40) DEF GoesTo, Tallies

\* A call starts.
LEMMA StartTally ==
  ASSUME PoolFacts, th' \in [Threads -> Thread], NEW t \in Threads, Start(t)
  PROVE  Tallies(t)
<1>1. th[t].pc = "idle" /\ UNCHANGED <<control, dirtyCount>>
  BY ZenonT(40) DEF Start, StartPage, StartSweep, StartDrop, frameVars, At
<1>2. /\ \A u \in Threads \ {t} : th'[u] = th[u]
      /\ th'[t].pc \in {"lookup", "peek", "flush", "dscan"}
  <2>1. CASE \E o \in Ops, k \in Tags : StartPage(t, o, k)
    BY <2>1, CallRecord DEF StartPage, IdleThread
  <2>2. CASE \E o \in Ops, f \in Frames : StartSweep(t, o, f)
    BY <2>2, CallRecord DEF StartSweep, IdleThread
  <2>3. CASE \E f \in Frames, k \in Tags : StartDrop(t, f, k)
    BY <2>3, CallRecord DEF StartDrop, IdleThread
  <2> QED
    BY ZenonT(40), <2>1, <2>2, <2>3 DEF Start
<1>3. th[t].pc \notin TallyPlaces /\ th'[t].pc \notin TallyPlaces
  BY <1>1, <1>2 DEF TallyPlaces
<1> QED
  BY ZenonT(40), <1>1, <1>2, <1>3 DEF Tallies, Moves, SameBits

\* A search reads the page table, words and tags.
LEMMA SearchTally ==
  ASSUME PoolFacts, th' \in [Threads -> Thread], NEW t \in Threads,
         \/ Lookup(t) \/ IsLoadingState(t) \/ IsLoadingTag(t) \/ WaitForLoad(t)
         \/ PeekLookup(t) \/ PeekState(t) \/ PeekTag(t)
         \/ TryReserveRingFrame(t) \/ PopFree(t) \/ Victim(t) \/ NoVictim(t)
         \/ HasTransientFrame(t) \/ Exhausted(t) \/ DropScanTag(t) \/ DropScanState(t)
  PROVE  Tallies(t)
<1> DEFINE from == {"lookup", "isloading", "isloadingtag", "waitload", "peek", "peekstate", "peektag",
                    "miss", "acquire", "scan", "dscan", "dscanstate"}
           to == {"idle", "lookup", "pin", "miss", "isloadingtag", "waitload", "peek", "peekstate",
                  "peektag", "acquire", "scan", "reserve", "dscan", "dscanstate"}
<1>1. th[t].pc \in from /\ UNCHANGED <<control, dirtyCount>>
  BY ZenonT(40) DEF Lookup, IsLoadingState, IsLoadingTag, WaitForLoad, PeekLookup, PeekState, PeekTag,
         TryReserveRingFrame, PopFree, Victim, NoVictim, HasTransientFrame, Exhausted, DropScanTag,
         DropScanState, At, frameVars
<1>2. th[t].pc \notin TallyPlaces /\ to \cap TallyPlaces = {} /\ SameBits
  BY ZenonT(40), <1>1 DEF TallyPlaces, SameBits
<1>3. SUFFICES \E l \in to : GoesTo(t, l)
  BY ZenonT(40), <1>1, <1>2, Plain
<1>4. CASE \/ IsLoadingState(t) \/ IsLoadingTag(t) \/ WaitForLoad(t) \/ PeekState(t) \/ PeekTag(t)
           \/ NoVictim(t) \/ DropScanTag(t) \/ DropScanState(t)
  <2>1. th[t].pc = "dscanstate" => W(t).state \in States
    BY ZenonT(40), CallRecord DEF Searching, Word
  <2>2. \E l \in to : Continue(t, l)
    BY ZenonT(40), <1>4, <2>1 DEF IsLoadingState, IsLoadingTag, WaitForLoad, PeekState, PeekTag, NoVictim,
                      DropScanTag, DropScanState, Peeked, At, States
  <2> QED
    BY ZenonT(40), <2>2, Going
<1>5. CASE Lookup(t) \/ PeekLookup(t)
  <2>1. \E l \in to : \/ Continue(t, l)
                      \/ \E f \in Frames : th' = [th EXCEPT ![t].pc = l, ![t].frame = f]
    BY ZenonT(40), <1>5 DEF Lookup, PeekLookup, Peeked, LookupFrameId, Linked
  <2> QED
    BY ZenonT(40), <2>1, Going
<1>6. CASE TryReserveRingFrame(t) \/ PopFree(t) \/ Victim(t)
  <2>1. PICK f, c : Candidate(t, f, c)
    BY ZenonT(40), <1>6 DEF TryReserveRingFrame, PopFree, Victim
  <2>2. th[t] \in Thread /\ th \in [Threads -> Thread]
    BY ZenonT(40), CallRecord
  <2>3. th'[t].pc = "reserve" /\ \A u \in Threads \ {t} : th'[u] = th[u]
    BY <2>1, <2>2 DEF Candidate, Thread
  <2> QED
    BY ZenonT(40), <2>3 DEF GoesTo, Moves
<1>7. CASE HasTransientFrame(t)
  <2>1. CASE Continue(t, "acquire")
    BY ZenonT(40), <2>1, Going
  <2>2. ASSUME NEW f \in Frames, th' = [th EXCEPT ![t].scanned = @ \cup {f}] PROVE GoesTo(t, "scan")
    <3>1. th'[t].pc = th[t].pc /\ \A u \in Threads \ {t} : th'[u] = th[u]
      BY <2>2, CallRecord DEF Thread
    <3> QED
      BY ZenonT(40), <1>7, <3>1 DEF HasTransientFrame, At, GoesTo, Moves
  <2> QED
    BY ZenonT(40), <1>7, <2>1, <2>2 DEF HasTransientFrame
<1>8. CASE Exhausted(t)
  <2>1. (\A u \in Threads \ {t} : th'[u] = th[u]) /\ th'[t].pc = "peek"
    BY <1>8, CallRecord DEF Exhausted, Continued, IdleThread
  <2> QED
    BY ZenonT(40), <2>1 DEF GoesTo, Moves
<1> QED
  BY ZenonT(40), <1>4, <1>5, <1>6, <1>7, <1>8

\* Pins leave the dirty bit.
LEMMA PinTally ==
  ASSUME PoolFacts, th' \in [Threads -> Thread], NEW t \in Threads,
         TryPinResident(t) \/ CheckPinnedTag(t) \/ Unpin(t)
  PROVE  Tallies(t)
<1>1. th[t].pc \in {"pin", "check", "unpin"} /\ dirtyCount' = dirtyCount
  BY ZenonT(40) DEF TryPinResident, CheckPinnedTag, Unpin, At
<1>2. th[t].pc \notin Searching /\ th[t].pc \notin TallyPlaces
  BY ZenonT(40), <1>1 DEF TallyPlaces, Searching
<1>3. W(t) \in Word
  BY ZenonT(40), <1>2, CallRecord
<1>4. UNCHANGED control \/ \E w : SetControl(t, w) /\ w.dirty = W(t).dirty
  BY ZenonT(40), <1>3, DirtyKept DEF TryPinResident, CheckPinnedTag, Unpin, frameVars
<1>5. SameBits
  BY ZenonT(40), <1>2, <1>4, BitsKept
<1>6. \E l : l \notin TallyPlaces /\ GoesTo(t, l)
  <2>1. CASE TryPinResident(t)
    <3>1. \E l \in {"check", "idle", "dscan", "isloading"} : Goto(t, l) \/ Continue(t, l)
      BY ZenonT(40), <2>1 DEF TryPinResident, NotPinned
    <3>2. \E l \in {"check", "idle", "dscan", "isloading"} : GoesTo(t, l)
      BY ZenonT(40), <3>1, Going
    <3> QED
      BY ZenonT(40), <3>2 DEF TallyPlaces
  <2>2. CASE CheckPinnedTag(t)
    <3>1. /\ \A u \in Threads \ {t} : th'[u] = th[u]
          /\ th'[t].pc \in {"unpin", "flush", "discard", "latch"}
      BY <2>2, CallRecord DEF CheckPinnedTag, Thread
    <3> QED
      BY ZenonT(40), <3>1 DEF TallyPlaces, GoesTo, Moves
  <2>3. CASE Unpin(t)
    <3>1. th[t].pc = "unpin" /\ th[t].ret \in Returns(th[t])
      BY ZenonT(40), <2>3, CallRecord DEF Unpin, At, Shape
    <3>2. th[t].ret \in {"idle", "isloading", "dscan", "waitwb"}
      BY ZenonT(40), <3>1 DEF Returns, FlushPlaces
    <3>3. GoesTo(t, th[t].ret)
      BY ZenonT(40), <2>3, Going DEF Unpin
    <3> QED
      BY ZenonT(40), <3>2, <3>3 DEF TallyPlaces
  <2> QED
    BY ZenonT(40), <2>1, <2>2, <2>3
<1> QED
  BY ZenonT(40), <1>1, <1>2, <1>5, <1>6, Plain

\* A frame is reserved clean.
LEMMA ReserveTally ==
  ASSUME PoolFacts, ContentInv, th' \in [Threads -> Thread], NEW t \in Threads, TryReserve(t)
  PROVE  Tallies(t)
<1>1. th[t].pc = "reserve" /\ dirtyCount' = dirtyCount
  BY ZenonT(40) DEF TryReserve, At
<1>2. th[t].pc \notin Searching /\ th[t].pc \notin TallyPlaces
  BY ZenonT(40), <1>1 DEF TallyPlaces, Searching
<1>3. F(t) \in Frames /\ W(t) \in Word /\ W(t) = control[F(t)]
  BY ZenonT(40), <1>2, CallRecord DEF F
<1>4. CASE ReserveOutcome(W(t), th[t].from = "free") = "Reserved"
  <2>1. /\ SetControl(t, ReservedWord)
        /\ \E k : th' = [th EXCEPT ![t].pc = "storetag", ![t].evicted = k]
    BY <1>4 DEF TryReserve
  <2>2. ReservedWord.dirty = FALSE
    BY ZenonT(40) DEF ReservedWord, FreeWord
  <2>3. W(t).dirty = FALSE
    <3>1. IsResident(W(t)) => ~W(t).dirty
      BY ZenonT(40), <1>4 DEF ReserveOutcome
    <3>2. ~W(t).dirty
      BY ZenonT(40), <1>3, <3>1 DEF ContentInv, WordInv, IsResident
    <3> QED
      BY ZenonT(40), <1>3, <3>2 DEF Word
  <2>4. SameBits
    BY ZenonT(40), <1>2, <2>1, <2>2, <2>3, BitsKept
  <2>5. GoesTo(t, "storetag")
    BY ZenonT(40), <2>1, Going
  <2> QED
    BY ZenonT(40), <1>1, <1>2, <2>4, <2>5, Plain DEF TallyPlaces
<1>5. CASE ReserveOutcome(W(t), th[t].from = "free") # "Reserved"
  <2>1. UNCHANGED control
    BY ZenonT(40), <1>5 DEF TryReserve
  <2>2. CASE th[t].from = "victim" /\ ReserveOutcome(W(t), th[t].from = "free") = "NeedsFlush"
    <3>1. (\A u \in Threads \ {t} : th'[u] = th[u]) /\ th'[t].pc = "flush"
      BY <2>2, CallRecord DEF TryReserve, Thread
    <3> QED
      BY ZenonT(40), <1>1, <1>2, <2>1, <3>1 DEF Tallies, TallyPlaces, Moves, SameBits
  <2>3. CASE ~(th[t].from = "victim" /\ ReserveOutcome(W(t), th[t].from = "free") = "NeedsFlush")
    <3>1. Continue(t, "acquire") \/ th' = [th EXCEPT ![t].pc = "push", ![t].ret = "acquire"]
      BY <1>5, <2>3 DEF TryReserve
    <3>2. GoesTo(t, "acquire") \/ GoesTo(t, "push")
      BY ZenonT(40), <3>1, Going
    <3> QED
      BY ZenonT(40), <1>1, <1>2, <2>1, <3>2, Plain DEF SameBits, TallyPlaces
  <2> QED
    BY ZenonT(40), <2>2, <2>3
<1> QED
  BY ZenonT(40), <1>4, <1>5

\* A load or a drop works on its frame outside the control word.
LEMMA LoadTally ==
  ASSUME PoolFacts, th' \in [Threads -> Thread], NEW t \in Threads,
         \/ StoreTag(t) \/ Install(t) \/ ZeroFill(t) \/ AbortRemove(t) \/ ClearTag(t)
         \/ ReadReservedPage(t) \/ DropRemove(t) \/ DropClearTag(t)
  PROVE  Tallies(t)
<1> DEFINE to == {"install", "cleartag", "load", "zerolatch", "publish", "abort", "release", "droptag", "push"}
<1>1. /\ th[t].pc \in {"storetag", "install", "load", "abort", "cleartag", "dropremove", "droptag"}
      /\ UNCHANGED <<control, dirtyCount>>
  BY ZenonT(40) DEF StoreTag, Install, ZeroFill, AbortRemove, ClearTag, ReadReservedPage, DropRemove,
         DropClearTag, At, frameVars
<1>2. th[t].pc \notin TallyPlaces /\ to \cap TallyPlaces = {} /\ SameBits
  BY ZenonT(40), <1>1 DEF TallyPlaces, SameBits
<1>3. \E l \in to : Goto(t, l) \/ \E p : th' = [th EXCEPT ![t].pc = l, ![t].ret = p]
  BY ZenonT(40) DEF StoreTag, Install, ZeroFill, AbortRemove, ClearTag, ReadReservedPage, DropRemove, DropClearTag
<1>4. \E l \in to : GoesTo(t, l)
  BY ZenonT(40), <1>3, Going
<1> QED
  BY ZenonT(40), <1>1, <1>2, <1>4, Plain

\* A loaded frame is published clean, or released clean and pushed.
LEMMA PublishTally ==
  ASSUME PoolFacts, ContentInv, th' \in [Threads -> Thread], NEW t \in Threads,
         ZeroLatch(t) \/ PublishLoadedFrame(t) \/ ReleaseToFree(t) \/ PushFree(t)
  PROVE  Tallies(t)
<1>1. th[t].pc \in {"zerolatch", "publish", "release", "push"} /\ dirtyCount' = dirtyCount
  BY ZenonT(40) DEF ZeroLatch, PublishLoadedFrame, ReleaseToFree, PushFree, At
<1>2. th[t].pc \notin Searching /\ th[t].pc \notin TallyPlaces
  BY ZenonT(40), <1>1 DEF TallyPlaces, Searching
<1>3. F(t) \in Frames /\ W(t) \in Word /\ W(t) = control[F(t)]
  BY ZenonT(40), <1>2, CallRecord DEF F
<1>4. UNCHANGED control \/ \E w : SetControl(t, w) /\ w.dirty = W(t).dirty
  <2>1. CASE ReleaseToFree(t)
    <3>1. th[t].pc \in LoadPlaces \cup DropPlaces
      BY ZenonT(40), <2>1 DEF ReleaseToFree, At, LoadPlaces
    <3>2. ~IsResident(W(t))
      BY ZenonT(40), <3>1 DEF PoolFacts, FramesHeld, OwnerHolds
    <3>3. ~W(t).dirty
      BY ZenonT(40), <1>3, <3>2 DEF ContentInv, WordInv, IsResident
    <3>4. W(t).dirty = FALSE
      BY ZenonT(40), <1>3, <3>3 DEF Word
    <3>5. ReleasedToFree(W(t)).dirty = FALSE
      BY ZenonT(40) DEF ReleasedToFree, FreeWord
    <3> QED
      BY ZenonT(40), <2>1, <3>4, <3>5 DEF ReleaseToFree
  <2>2. CASE ZeroLatch(t) \/ PublishLoadedFrame(t)
    <3>1. /\ AcquiredExclusive(W(t)).dirty = W(t).dirty
          /\ PublishedResident(W(t), th[t].op = "prefetch").dirty = W(t).dirty
      BY ZenonT(40), <1>3, DirtyKept
    <3> QED
      BY ZenonT(40), <2>2, <3>1 DEF ZeroLatch, PublishLoadedFrame
  <2>3. CASE PushFree(t)
    BY ZenonT(40), <2>3 DEF PushFree, frameVars
  <2> QED
    BY ZenonT(40), <2>1, <2>2, <2>3
<1>5. SameBits
  BY ZenonT(40), <1>2, <1>4, BitsKept
<1>6. \E l : l \notin TallyPlaces /\ GoesTo(t, l)
  <2>1. CASE ZeroLatch(t) \/ ReleaseToFree(t)
    <3>1. GoesTo(t, "publish") \/ GoesTo(t, "push")
      BY ZenonT(40), <2>1, Going DEF ZeroLatch, ReleaseToFree
    <3> QED
      BY ZenonT(40), <3>1 DEF TallyPlaces
  <2>2. CASE PublishLoadedFrame(t)
    <3>1. /\ \A u \in Threads \ {t} : th'[u] = th[u]
          /\ th'[t].pc \in {"idle", "latch", "writing"}
      BY <2>2, CallRecord DEF PublishLoadedFrame, IdleThread, Thread
    <3> QED
      BY ZenonT(40), <3>1 DEF TallyPlaces, GoesTo, Moves
  <2>3. CASE PushFree(t)
    <3>1. th[t].pc = "push" /\ th[t].ret \in Returns(th[t])
      BY ZenonT(40), <2>3, CallRecord DEF PushFree, At, Shape
    <3>2. th[t].ret \in {"idle", "lookup", "acquire"}
      BY ZenonT(40), <3>1 DEF Returns, FlushPlaces
    <3>3. GoesTo(t, th[t].ret)
      BY ZenonT(40), <2>3, Going DEF PushFree
    <3> QED
      BY ZenonT(40), <3>2, <3>3 DEF TallyPlaces
  <2> QED
    BY ZenonT(40), <2>1, <2>2, <2>3
<1> QED
  BY ZenonT(40), <1>1, <1>2, <1>5, <1>6, Plain

\* A handle is latched, written through, flushed or let go of.
LEMMA HandleTally ==
  ASSUME PoolFacts, th' \in [Threads -> Thread], NEW t \in Threads,
         AcquireLatch(t) \/ WritePage(t) \/ FlushHandle(t) \/ ReleaseHandle(t) \/ DropWaitLatch(t)
  PROVE  Tallies(t)
<1>1. /\ th[t].pc \in {"latch", "reading", "writing", "marked", "written", "waitlatch"}
      /\ dirtyCount' = dirtyCount
  BY ZenonT(40) DEF AcquireLatch, WritePage, FlushHandle, ReleaseHandle, DropWaitLatch, At
<1>2. th[t].pc \notin Searching /\ th[t].pc \notin TallyPlaces
  BY ZenonT(40), <1>1 DEF TallyPlaces, Searching
<1>3. W(t) \in Word
  BY ZenonT(40), <1>2, CallRecord
<1>4. UNCHANGED control \/ \E w : SetControl(t, w) /\ w.dirty = W(t).dirty
  BY ZenonT(40), <1>3, DirtyKept DEF AcquireLatch, WritePage, FlushHandle, ReleaseHandle, DropWaitLatch, frameVars
<1>5. SameBits
  BY ZenonT(40), <1>2, <1>4, BitsKept
<1>6. \E l \in {"reading", "writing", "written", "unpin", "queue"} : GoesTo(t, l)
  <2>1. CASE FlushHandle(t)
    <3>1. (\A u \in Threads \ {t} : th'[u] = th[u]) /\ th'[t].pc = "queue"
      BY <2>1, CallRecord DEF FlushHandle, Thread
    <3> QED
      BY ZenonT(40), <3>1 DEF GoesTo, Moves
  <2>2. CASE ~FlushHandle(t)
    BY ZenonT(40), <2>2, Going DEF AcquireLatch, WritePage, ReleaseHandle, DropWaitLatch
  <2> QED
    BY ZenonT(40), <2>1, <2>2
<1> QED
  BY ZenonT(40), <1>1, <1>2, <1>5, <1>6, Plain DEF TallyPlaces

\* A flush never returns to a place that owes the count an update.
LEMMA FlushReturn ==
  ASSUME PoolFacts, NEW t \in Threads, th[t].pc \in FlushPlaces
  PROVE  th[t].ret \notin TallyPlaces
<1>1. th[t].ret \in Returns(th[t])
  BY ZenonT(40), CallRecord DEF Shape
<1>2. th[t].pc \notin {"unpin", "push", "cleartag", "release"}
  BY ZenonT(40) DEF FlushPlaces
<1>3. th[t].ret \in {"idle", "unpin", "reserve", "reading", "writing", "marked", "written"}
  BY <1>1, <1>2 DEF Returns
<1> QED
  BY ZenonT(40), <1>3 DEF TallyPlaces

\* A flush takes and lets go of the latch, waits, or takes a step of a writeback
\* before its end.
LEMMA FlushTally ==
  ASSUME PoolFacts, th' \in [Threads -> Thread], NEW t \in Threads,
         \/ PrepareLatch(t) \/ TryQueueWriteback(t) \/ WaitForPendingFlush(t) \/ ReadWritebackError(t)
         \/ CaptureFlushSnapshot(t) \/ PrepareUnlatch(t) \/ RollBackFlushTask(t) \/ BeginFlushTask(t)
         \/ WriteTask(t)
  PROVE  Tallies(t)
<1>1. /\ th[t].pc \in FlushPlaces \ {"complete", "completefail", "uncount"}
      /\ dirtyCount' = dirtyCount
  BY ZenonT(40) DEF PrepareLatch, TryQueueWriteback, WaitForPendingFlush, ReadWritebackError, CaptureFlushSnapshot,
         PrepareUnlatch, RollBackFlushTask, BeginFlushTask, WriteTask, At, FlushPlaces
<1>2. th[t].pc \notin Searching /\ th[t].pc \notin TallyPlaces
  BY ZenonT(40), <1>1 DEF TallyPlaces, Searching, FlushPlaces
<1>3. W(t) \in Word
  BY ZenonT(40), <1>2, CallRecord
<1>4. SameBits
  <2>1. UNCHANGED control \/ \E w : SetControl(t, w) /\ w.dirty = W(t).dirty
    BY ZenonT(40), <1>3, DirtyKept DEF PrepareLatch, TryQueueWriteback, WaitForPendingFlush, ReadWritebackError,
           CaptureFlushSnapshot, PrepareUnlatch, RollBackFlushTask, BeginFlushTask, WriteTask, frameVars
  <2> QED
    BY ZenonT(40), <1>2, <2>1, BitsKept
<1>5. th[t].ret \notin TallyPlaces
  BY ZenonT(40), <1>1, FlushReturn
<1>6. \E l : l \notin TallyPlaces /\ GoesTo(t, l)
  <2>1. ASSUME NEW l, l \notin TallyPlaces, Goto(t, l) \/ Continue(t, l)
        PROVE  \E m : m \notin TallyPlaces /\ GoesTo(t, m)
    BY ZenonT(40), <2>1, Going
  <2>2. FlushFails(t) => \E l : l \notin TallyPlaces /\ Continue(t, l)
    BY ZenonT(40), <1>5 DEF FlushFails, TallyPlaces
  <2>3. ASSUME Busy(t) PROVE \E l : l \notin TallyPlaces /\ GoesTo(t, l)
    <3>1. (\A u \in Threads \ {t} : th'[u] = th[u]) /\ th'[t].pc \in {"flush", "idle"}
      BY <2>3, CallRecord, IdleRecord DEF Busy, Thread
    <3> QED
      BY ZenonT(40), <3>1 DEF TallyPlaces, GoesTo, Moves
  <2>4. CASE PrepareLatch(t)
    <3>1. Goto(t, "queue") \/ Busy(t)
      BY ZenonT(40), <2>4 DEF PrepareLatch
    <3> QED
      BY ZenonT(40), <2>1, <2>3, <3>1 DEF TallyPlaces
  <2>5. CASE TryQueueWriteback(t)
    <3>1. \/ Goto(t, "snapshot") \/ Goto(t, "unlatch_clean") \/ Continue(t, th[t].ret)
          \/ Goto(t, "unlatch_busy") \/ Goto(t, "waitwb")
      BY <2>5 DEF TryQueueWriteback, Prepared, AfterPrepare
    <3> QED
      BY ZenonT(40), <1>5, <2>1, <3>1 DEF TallyPlaces
  <2>6. CASE WaitForPendingFlush(t) \/ BeginFlushTask(t) \/ WriteTask(t)
    <3>1. \E l \in {"dscan", "wberror", "write", "complete", "completefail"} : Goto(t, l) \/ Continue(t, l)
      BY ZenonT(40), <2>6 DEF WaitForPendingFlush, BeginFlushTask, WriteTask
    <3> QED
      BY ZenonT(40), <2>1, <3>1 DEF TallyPlaces
  <2>7. CASE ReadWritebackError(t) \/ RollBackFlushTask(t)
    <3>1. Goto(t, "unlatch_fail") \/ FlushFails(t) \/ Goto(t, "queue")
      BY <2>7 DEF ReadWritebackError, RollBackFlushTask, Prepared, AfterPrepare
    <3> QED
      BY ZenonT(40), <2>1, <2>2, <3>1 DEF TallyPlaces
  <2>8. CASE CaptureFlushSnapshot(t)
    <3>1. \E l \in {"unlatch_task", "begin"} : \E d : th' = [th EXCEPT ![t].pc = l, ![t].task = d]
      BY ZenonT(40), <2>8 DEF CaptureFlushSnapshot
    <3>2. \E l \in {"unlatch_task", "begin"} : GoesTo(t, l)
      BY ZenonT(40), <3>1, Going
    <3> QED
      BY ZenonT(40), <3>2 DEF TallyPlaces
  <2>9. CASE PrepareUnlatch(t)
    <3>1. Goto(t, "begin") \/ Continue(t, th[t].ret) \/ FlushFails(t) \/ Busy(t)
      BY ZenonT(40), <2>9 DEF PrepareUnlatch, AfterPrepare
    <3> QED
      BY ZenonT(40), <1>5, <2>1, <2>2, <2>3, <3>1 DEF TallyPlaces
  <2> QED
    BY ZenonT(40), <2>4, <2>5, <2>6, <2>7, <2>8, <2>9
<1> QED
  BY ZenonT(40), <1>1, <1>2, <1>4, <1>6, Plain

\* A clean page that is marked dirty is to be counted; one that was dirty is not.
LEMMA MarkTally ==
  ASSUME PoolFacts, th' \in [Threads -> Thread], NEW t \in Threads, MarkHandleDirty(t) \/ CountDirty(t)
  PROVE  Tallies(t)
<1>1. CASE MarkHandleDirty(t)
  <2>1. /\ th[t].pc = "writing" /\ dirtyCount' = dirtyCount /\ SetControl(t, MarkedDirty(W(t)))
        /\ Goto(t, IF IsResident(W(t)) /\ ~W(t).dirty THEN "count" ELSE "marked")
    BY ZenonT(40), <1>1 DEF MarkHandleDirty, At
  <2>2. th[t].pc \notin Searching /\ th[t].pc \notin TallyPlaces /\ "marked" \notin TallyPlaces
    BY ZenonT(40), <2>1 DEF TallyPlaces, Searching
  <2>3. W(t) \in Word
    BY ZenonT(40), <2>2, CallRecord
  <2>4. CASE IsResident(W(t)) /\ ~W(t).dirty
    <3>1. MarkedDirty(W(t)) \in Word /\ MarkedDirty(W(t)).dirty = TRUE /\ W(t).dirty = FALSE
      BY ZenonT(40), <2>3, <2>4, QuietWords DEF MarkedDirty, Word
    <3>2. GoesTo(t, "count")
      BY ZenonT(40), <2>1, <2>4, Going
    <3>3. /\ F(t) \in Frames /\ BitTurns(F(t)) /\ control'[F(t)].dirty = TRUE /\ control[F(t)].dirty = FALSE
      BY ZenonT(40), <2>1, <2>2, <3>1, BitTurned
    <3>4. th'[t].pc = "count" /\ Moves(t)
      BY ZenonT(40), <3>2 DEF GoesTo
    <3> QED
      BY ZenonT(40), <2>1, <2>2, <3>3, <3>4 DEF Tallies
  <2>5. CASE ~(IsResident(W(t)) /\ ~W(t).dirty)
    <3>1. MarkedDirty(W(t)).dirty = W(t).dirty
      BY ZenonT(40), <2>3, <2>5 DEF MarkedDirty, Word
    <3>2. GoesTo(t, "marked")
      BY ZenonT(40), <2>1, <2>5, Going
    <3>3. SameBits
      BY ZenonT(40), <2>1, <2>2, <3>1, BitsKept
    <3> QED
      BY ZenonT(40), <2>1, <2>2, <3>2, <3>3, Plain
  <2> QED
    BY ZenonT(40), <2>4, <2>5
<1>2. CASE CountDirty(t)
  <2>1. th[t].pc = "count" /\ dirtyCount' = dirtyCount + 1 /\ UNCHANGED control /\ Goto(t, "marked")
    BY ZenonT(40), <1>2 DEF CountDirty, At, frameVars
  <2>2. GoesTo(t, "marked")
    BY ZenonT(40), <2>1, Going
  <2> QED
    BY ZenonT(40), <2>1, <2>2 DEF Tallies, TallyPlaces, GoesTo, SameBits
<1> QED
  BY ZenonT(40), <1>1, <1>2

\* A writeback that cleans its page is to be counted; then it is.
LEMMA CompleteTally ==
  ASSUME PoolFacts, th' \in [Threads -> Thread], NEW t \in Threads, FinalizeFlushTask(t) \/ UncountDirty(t)
  PROVE  Tallies(t)
<1>1. th[t].pc \in FlushPlaces /\ th[t].pc \notin Searching
  BY ZenonT(40) DEF FinalizeFlushTask, UncountDirty, At, FlushPlaces, Searching
<1>2. ASSUME RoundDone(t) \/ FlushFails(t) PROVE \E l : l \notin TallyPlaces /\ GoesTo(t, l)
  <2>1. th[t].ret \notin TallyPlaces
    BY ZenonT(40), <1>1, FlushReturn
  <2>2. \/ \E l \in {"flush", "queue"} : th' = [th EXCEPT ![t].pc = l, ![t].task = NoTask]
        \/ Continue(t, th[t].ret) \/ Continue(t, "idle")
    BY ZenonT(40), <1>2 DEF RoundDone, FlushFails
  <2>3. GoesTo(t, "flush") \/ GoesTo(t, "queue") \/ GoesTo(t, th[t].ret) \/ GoesTo(t, "idle")
    BY ZenonT(40), <2>2, Going
  <2> QED
    BY ZenonT(40), <2>1, <2>3 DEF TallyPlaces
<1>3. CASE FinalizeFlushTask(t)
  <2> DEFINE ok == At(t, "complete")
             w == CompletedWriteback(W(t), ok)
  <2>1. /\ th[t].pc \in {"complete", "completefail"} /\ dirtyCount' = dirtyCount /\ SetControl(t, w)
        /\ IF ClearsDirty(W(t), ok) THEN Goto(t, "uncount") ELSE RoundDone(t) \/ FlushFails(t)
    BY ZenonT(40), <1>3 DEF FinalizeFlushTask
  <2>2. th[t].pc \notin TallyPlaces
    BY ZenonT(40), <2>1 DEF TallyPlaces
  <2>3. W(t) \in Word
    BY ZenonT(40), <1>1, CallRecord
  <2>4. w \in Word /\ (w.dirty <=> W(t).dirty /\ ~ClearsDirty(W(t), ok)) /\ w.dirty \in BOOLEAN
        /\ W(t).dirty \in BOOLEAN
    <3>1. ok \in BOOLEAN
      BY DEF At
    <3> HIDE DEF ok
    <3>2. w \in Word
      BY ZenonT(40), <2>3, <3>1, QuietWords
    <3>3. w.dirty = (W(t).dirty /\ ~ClearsDirty(W(t), ok))
      BY ZenonT(40), <2>3 DEF CompletedWriteback, Word
    <3>4. W(t).dirty \in BOOLEAN /\ w.dirty \in BOOLEAN
      BY ZenonT(40), <2>3, <3>2 DEF Word
    <3> QED
      BY ZenonT(40), <3>2, <3>3, <3>4
  <2> HIDE DEF w, ok
  <2>5. CASE ClearsDirty(W(t), ok)
    <3>1. w.dirty = FALSE /\ W(t).dirty = TRUE
      BY <2>4, <2>5 DEF ClearsDirty
    <3>2. /\ F(t) \in Frames /\ BitTurns(F(t)) /\ control'[F(t)].dirty = FALSE /\ control[F(t)].dirty = TRUE
      BY ZenonT(40), <1>1, <2>1, <2>4, <3>1, BitTurned
    <3>3. GoesTo(t, "uncount")
      BY ZenonT(40), <2>1, <2>5, Going
    <3> QED
      BY ZenonT(40), <2>1, <2>2, <3>2, <3>3 DEF Tallies, GoesTo
  <2>6. CASE ~ClearsDirty(W(t), ok)
    <3>1. w.dirty = W(t).dirty
      BY <2>4, <2>6
    <3>2. SameBits
      BY ZenonT(40), <1>1, <2>1, <3>1, BitsKept
    <3> QED
      BY ZenonT(40), <1>2, <2>1, <2>2, <2>6, <3>2, Plain
  <2> QED
    BY ZenonT(40), <2>5, <2>6
<1>4. CASE UncountDirty(t)
  <2>1. th[t].pc = "uncount" /\ dirtyCount' = dirtyCount - 1 /\ UNCHANGED control /\ RoundDone(t)
    BY ZenonT(40), <1>4 DEF UncountDirty, At, frameVars
  <2> QED
    BY ZenonT(40), <1>2, <2>1 DEF Tallies, GoesTo, SameBits
<1> QED
  BY ZenonT(40), <1>3, <1>4

\* A dirty page that is dropped is to be counted; then it is.
LEMMA DropTally ==
  ASSUME PoolFacts, th' \in [Threads -> Thread], NEW t \in Threads, TryDiscardPinned(t) \/ DropUncount(t)
  PROVE  Tallies(t)
<1>1. CASE TryDiscardPinned(t)
  <2>1. th[t].pc = "discard" /\ dirtyCount' = dirtyCount
    BY ZenonT(40), <1>1 DEF TryDiscardPinned, At
  <2>2. th[t].pc \notin Searching /\ th[t].pc \notin TallyPlaces
    BY ZenonT(40), <2>1 DEF TallyPlaces, Searching
  <2>3. W(t) \in Word
    BY ZenonT(40), <2>2, CallRecord
  <2>4. CASE DiscardOutcome(W(t)) = "Discarded"
    <3>1. SetControl(t, FreeWord) /\ Goto(t, IF W(t).dirty THEN "dropcount" ELSE "dropremove")
      BY ZenonT(40), <1>1, <2>4 DEF TryDiscardPinned
    <3>2. FreeWord \in Word /\ FreeWord.dirty = FALSE
      BY ZenonT(40), OwnerWords, <2>3 DEF FreeWord
    <3>3. CASE W(t).dirty
      <4>1. W(t).dirty = TRUE
        BY <2>3, <3>3 DEF Word
      <4>2. /\ F(t) \in Frames /\ BitTurns(F(t)) /\ control'[F(t)].dirty = FALSE /\ control[F(t)].dirty = TRUE
        BY ZenonT(40), <2>2, <3>1, <3>2, <4>1, BitTurned
      <4>3. GoesTo(t, "dropcount")
        BY ZenonT(40), <3>1, <3>3, Going
      <4> QED
        BY ZenonT(40), <2>1, <2>2, <4>2, <4>3 DEF Tallies, GoesTo
    <3>4. CASE ~W(t).dirty
      <4>1. W(t).dirty = FALSE
        BY <2>3, <3>4 DEF Word
      <4>2. SameBits
        BY ZenonT(40), <2>2, <3>1, <3>2, <4>1, BitsKept
      <4>3. GoesTo(t, "dropremove")
        BY ZenonT(40), <3>1, <3>4, Going
      <4> QED
        BY ZenonT(40), <2>1, <2>2, <4>2, <4>3, Plain DEF TallyPlaces
    <3> QED
      BY ZenonT(40), <3>3, <3>4
  <2>5. CASE DiscardOutcome(W(t)) # "Discarded"
    <3>1. /\ UNCHANGED control
          /\ \E l \in {"unpin", "waitlatch"} : Goto(t, l) \/ \E p : th' = [th EXCEPT ![t].pc = l, ![t].ret = p]
      BY ZenonT(40), <1>1, <2>5 DEF TryDiscardPinned
    <3>2. \E l \in {"unpin", "waitlatch"} : GoesTo(t, l)
      BY ZenonT(40), <3>1, Going
    <3> QED
      BY ZenonT(40), <2>1, <2>2, <3>1, <3>2, Plain DEF TallyPlaces, SameBits
  <2> QED
    BY ZenonT(40), <2>4, <2>5
<1>2. CASE DropUncount(t)
  <2>1. th[t].pc = "dropcount" /\ dirtyCount' = dirtyCount - 1 /\ UNCHANGED control /\ Goto(t, "dropremove")
    BY ZenonT(40), <1>2 DEF DropUncount, At, frameVars
  <2>2. GoesTo(t, "dropremove")
    BY ZenonT(40), <2>1, Going
  <2> QED
    BY ZenonT(40), <2>1, <2>2 DEF Tallies, TallyPlaces, GoesTo, SameBits
<1> QED
  BY ZenonT(40), <1>1, <1>2

\* Every step of a call tallies.
LEMMA TallyStep ==
  ASSUME PoolFacts, ContentInv, th' \in [Threads -> Thread], NEW t \in Threads,
         Start(t) \/ ClientChoice(t) \/ Progress(t)
  PROVE  Tallies(t)
<1>1. CASE Start(t)
  BY ZenonT(40), <1>1, StartTally
<1>2. CASE ClientChoice(t)
  BY ZenonT(40), <1>2, HandleTally DEF ClientChoice
<1>3. CASE Progress(t)
  BY ZenonT(40), <1>3, SearchTally, PinTally, ReserveTally, LoadTally, PublishTally, HandleTally, FlushTally,
     MarkTally, CompleteTally, DropTally DEF Progress
<1> QED
  BY ZenonT(40), <1>1, <1>2, <1>3

=============================================================================
