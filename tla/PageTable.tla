----------------------------- MODULE PageTable ------------------------------
(***************************************************************************)
(* The page table (lib/buffer/page_table.h and page_table.cc): chains of   *)
(* frames in hash buckets, written under stripe locks and read without any *)
(* lock.  A writer makes the sequence of its stripes odd while it changes  *)
(* them; a lookup walks a chain load by load and starts again unless the   *)
(* sequence is the even one it saw before.                                 *)
(*                                                                         *)
(* The writers are the operations of BufferPool on a frame they own: at    *)
(* most one of them at a time works on a frame.                            *)
(***************************************************************************)
EXTENDS Integers, FiniteSets, SequencesExt

CONSTANTS
  Writers, Readers,
  Frames, kNone,
  FileIds, BlockIds,         \* the two halves of a tag, numbered from 0
  BucketFor(_),          \* MixTag, the hash of a tag, reduced to a bucket
  Buckets,               \* numbered from 0
  StripeCount,
  MaxSequence            \* no write starts once a sequence is this large

VARIABLES heads, next, bucketOf, keyFile, keyBlock, locked, sequence, job, look

chainVars == <<heads, next, bucketOf, keyFile, keyBlock>>
tableVars == <<chainVars, locked, sequence, job, look>>

Tags == [file : FileIds, block : BlockIds]
Stripes == 0 .. StripeCount - 1
StripeFor(b) == b % StripeCount
Key(f) == [file |-> keyFile[f], block |-> keyBlock[f]]
MapsTo(f, tag) == Key(f) = tag

\* A writer between two operations.  locks: its stripes in the order in which
\* it locks them; old: the page the frame had; links: Link follows Unlink.
NoJob == [at |-> "idle", frame |-> kNone, tag |-> kNone, old |-> kNone, op |-> "replace",
          locks |-> <<>>, held |-> {}, links |-> FALSE]
NoLook == [at |-> "idle", tag |-> kNone, before |-> 0, frame |-> kNone, steps |-> 0, found |-> kNone]

Init ==
  /\ heads = [b \in Buckets |-> kNone]
  /\ next = [f \in Frames |-> kNone] /\ bucketOf = [f \in Frames |-> kNone]
  /\ keyFile = [f \in Frames |-> 0] /\ keyBlock = [f \in Frames |-> 0]
  /\ locked = {} /\ sequence = [s \in Stripes |-> 0]
  /\ job = [w \in Writers |-> NoJob] /\ look = [r \in Readers |-> NoLook]

TypeOK ==
  /\ heads \in [Buckets -> Frames \cup {kNone}] /\ next \in [Frames -> Frames \cup {kNone}]
  /\ bucketOf \in [Frames -> Buckets \cup {kNone}]
  /\ keyFile \in [Frames -> FileIds] /\ keyBlock \in [Frames -> BlockIds]
  /\ locked \subseteq Stripes /\ sequence \in [Stripes -> Nat]

Owned(f) == \E w \in Writers : job[w].frame = f

\* The chain of a bucket from the head, as far as it can be walked.
ChainFrom(f) ==
  LET step[n \in 0 .. Cardinality(Frames)] ==
        IF n = 0 THEN f ELSE IF step[n - 1] = kNone THEN kNone ELSE next[step[n - 1]]
  IN SelectSeq([n \in 1 .. Cardinality(Frames) |-> step[n - 1]], LAMBDA g : g # kNone)
Chain(b) == ChainFrom(heads[b])

-----------------------------------------------------------------------------
(* Writers.                                                                *)

WAt(w, l) == job[w].at = l
Move(w, l) == job' = [job EXCEPT ![w].at = l]

\* StripeWriter locks a stripe once and two stripes in the order of their address.
StripeOrder(first, second) ==
  IF first = second THEN <<first>> ELSE IF second < first THEN <<second, first>> ELSE <<first, second>>

\* ReplaceUnlessLive and Remove read the bucket of the frame before they lock.
StartReplace(w, f, tag) ==
  LET new == StripeFor(BucketFor(tag)) IN
  /\ WAt(w, "idle") /\ ~Owned(f)
  /\ \A s \in Stripes : sequence[s] < MaxSequence
  /\ job' = [job EXCEPT ![w] =
       [NoJob EXCEPT !.at = "lock", !.frame = f, !.tag = tag,
          !.old = IF bucketOf[f] = kNone THEN kNone ELSE Key(f),
          !.locks = IF bucketOf[f] = kNone THEN <<new>> ELSE StripeOrder(new, StripeFor(bucketOf[f]))]]
  /\ UNCHANGED <<chainVars, locked, sequence, look>>

StartRemove(w, f) ==
  /\ WAt(w, "idle") /\ ~Owned(f) /\ bucketOf[f] # kNone
  /\ \A s \in Stripes : sequence[s] < MaxSequence
  /\ job' = [job EXCEPT ![w] =
       [NoJob EXCEPT !.at = "lock", !.frame = f, !.op = "remove",
          !.tag = Key(f), !.locks = <<StripeFor(bucketOf[f])>>]]
  /\ UNCHANGED <<chainVars, locked, sequence, look>>

\* Mutant of LockStripe: the sequence stays even while the stripe is changed.
LockQuietly(w) ==
  /\ WAt(w, "lock")
  /\ \E s \in {job[w].locks[Cardinality(job[w].held) + 1]} \ locked :
       /\ locked' = locked \cup {s}
       /\ job' = [job EXCEPT ![w].held = @ \cup {s},
                    ![w].at = IF Cardinality(job[w].held) + 1 < Len(job[w].locks) THEN "lock" ELSE "decide"]
  /\ UNCHANGED <<chainVars, sequence, look>>

\* The sequence belongs to the holder of the lock, so taking the lock and
\* making the sequence odd is one step; so is making it even and letting go.
LockStripe(w) ==
  /\ WAt(w, "lock")
  /\ \E s \in {job[w].locks[Cardinality(job[w].held) + 1]} \ locked :
       /\ locked' = locked \cup {s}
       /\ sequence' = [sequence EXCEPT ![s] = @ + 1]
       /\ job' = [job EXCEPT ![w].held = @ \cup {s},
                    ![w].at = IF Cardinality(job[w].held) + 1 < Len(job[w].locks) THEN "lock" ELSE "decide"]
  /\ UNCHANGED <<chainVars, look>>

\* IsLiveFor: the frame is not on its way to another tag.
Live(f, tag) == \A u \in Writers : job[u].frame = f => job[u].tag = tag

\* Mutant of Decide: the tag is taken although a live frame has it.
DecideBlindly(w) ==
  LET linked == bucketOf[job[w].frame] # kNone
      links == job[w].op = "replace"
  IN /\ WAt(w, "decide")
     /\ job' = [job EXCEPT ![w].links = links,
                  ![w].at = IF linked THEN "unlink" ELSE IF links THEN "file" ELSE "unlock"]
     /\ UNCHANGED <<chainVars, locked, sequence, look>>

\* Under the locks: whether the frame is unlinked, and whether it is linked.
Decide(w) ==
  LET f == job[w].frame
      tag == job[w].tag
      linked == bucketOf[f] # kNone
      existing == job[w].op = "replace" /\ \E g \in ToSet(Chain(BucketFor(tag))) \ {f} :
                    MapsTo(g, tag) /\ Live(g, tag)
      unlinks == linked /\ IF job[w].op = "remove" THEN MapsTo(f, tag)
                           ELSE MapsTo(f, job[w].old) \/ ~MapsTo(f, tag) \/ existing
      links == job[w].op = "replace" /\ ~existing /\ (~linked \/ unlinks)
  IN /\ WAt(w, "decide")
     /\ job' = [job EXCEPT ![w].links = links,
                  ![w].at = IF unlinks THEN "unlink" ELSE IF links THEN "file" ELSE "unlock"]
     /\ UNCHANGED <<chainVars, locked, sequence, look>>

\* Unlink: the link to the frame skips it, then the frame forgets its bucket.
Unlink(w) ==
  LET f == job[w].frame
      b == bucketOf[f]
  IN /\ WAt(w, "unlink")
     /\ IF heads[b] = f THEN heads' = [heads EXCEPT ![b] = next[f]] /\ UNCHANGED next
        ELSE /\ next' = [g \in Frames |-> IF g \in ToSet(Chain(b)) /\ next[g] = f THEN next[f] ELSE next[g]]
             /\ UNCHANGED heads
     /\ Move(w, "forget")
     /\ UNCHANGED <<bucketOf, keyFile, keyBlock, locked, sequence, look>>

Forget(w) ==
  LET f == job[w].frame IN
  /\ WAt(w, "forget")
  /\ next' = [next EXCEPT ![f] = kNone] /\ bucketOf' = [bucketOf EXCEPT ![f] = kNone]
  /\ Move(w, IF job[w].links THEN "file" ELSE "unlock")
  /\ UNCHANGED <<heads, keyFile, keyBlock, locked, sequence, look>>

\* Link: the two halves of the key, the link, then the head.
LinkFile(w) ==
  /\ WAt(w, "file")
  /\ keyFile' = [keyFile EXCEPT ![job[w].frame] = job[w].tag.file]
  /\ Move(w, "block")
  /\ UNCHANGED <<heads, next, bucketOf, keyBlock, locked, sequence, look>>

LinkBlock(w) ==
  /\ WAt(w, "block")
  /\ keyBlock' = [keyBlock EXCEPT ![job[w].frame] = job[w].tag.block]
  /\ Move(w, "next")
  /\ UNCHANGED <<heads, next, bucketOf, keyFile, locked, sequence, look>>

LinkNext(w) ==
  LET f == job[w].frame
      b == BucketFor(job[w].tag)
  IN /\ WAt(w, "next")
     /\ next' = [next EXCEPT ![f] = heads[b]] /\ bucketOf' = [bucketOf EXCEPT ![f] = b]
     /\ Move(w, "head")
     /\ UNCHANGED <<heads, keyFile, keyBlock, locked, sequence, look>>

LinkHead(w) ==
  /\ WAt(w, "head")
  /\ heads' = [heads EXCEPT ![BucketFor(job[w].tag)] = job[w].frame]
  /\ Move(w, "unlock")
  /\ UNCHANGED <<next, bucketOf, keyFile, keyBlock, locked, sequence, look>>

\* The destructor of StripeWriter lets go of the second stripe first.
UnlockStripe(w) ==
  LET s == job[w].locks[Cardinality(job[w].held)] IN
  /\ WAt(w, "unlock")
  /\ locked' = locked \ {s}
  /\ sequence' = [sequence EXCEPT ![s] = @ + 1]
  /\ job' = [job EXCEPT ![w] = IF @.held = {s} THEN NoJob ELSE [@ EXCEPT !.held = @ \ {s}]]
  /\ UNCHANGED <<chainVars, look>>

-----------------------------------------------------------------------------
(* LookupFrameId.                                                          *)

RAt(r, l) == look[r].at = l

\* An odd sequence is waited out.
LookBegin(r, tag) ==
  LET s == StripeFor(BucketFor(tag)) IN
  /\ RAt(r, "idle") /\ sequence[s] % 2 = 0
  /\ look' = [look EXCEPT ![r] = [NoLook EXCEPT !.at = "load", !.tag = tag, !.before = sequence[s]]]
  /\ UNCHANGED <<chainVars, locked, sequence, job>>

\* The head, or the link of the frame just compared; the walk gives up after
\* as many frames as the table has.
LookLoad(r) ==
  LET g == IF look[r].steps = 0 THEN heads[BucketFor(look[r].tag)] ELSE next[look[r].frame]
      ends == g = kNone \/ look[r].steps = Cardinality(Frames)
  IN /\ RAt(r, "load")
     /\ look' = [look EXCEPT ![r].at = IF ends THEN "check" ELSE "file",
                             ![r].frame = IF ends THEN kNone ELSE g, ![r].steps = @ + 1]
     /\ UNCHANGED <<chainVars, locked, sequence, job>>

LookFile(r) ==
  /\ RAt(r, "file")
  /\ look' = [look EXCEPT ![r].at = IF keyFile[look[r].frame] = look[r].tag.file THEN "block" ELSE "load"]
  /\ UNCHANGED <<chainVars, locked, sequence, job>>

LookBlock(r) ==
  LET hit == keyBlock[look[r].frame] = look[r].tag.block IN
  /\ RAt(r, "block")
  /\ look' = [look EXCEPT ![r].at = IF hit THEN "check" ELSE "load",
                          ![r].found = IF hit THEN look[r].frame ELSE kNone]
  /\ UNCHANGED <<chainVars, locked, sequence, job>>

\* A changed sequence starts the walk again: the caller, at LookBegin.
LookCheck(r) ==
  LET same == sequence[StripeFor(BucketFor(look[r].tag))] = look[r].before IN
  /\ RAt(r, "check")
  /\ look' = [look EXCEPT ![r] = IF same THEN [@ EXCEPT !.at = "done"] ELSE NoLook]
  /\ UNCHANGED <<chainVars, locked, sequence, job>>

LookReturn(r) ==
  /\ RAt(r, "done")
  /\ look' = [look EXCEPT ![r] = NoLook]
  /\ UNCHANGED <<chainVars, locked, sequence, job>>

Next ==
  \/ \E w \in Writers :
       \/ \E f \in Frames : StartRemove(w, f) \/ \E tag \in Tags : StartReplace(w, f, tag)
       \/ LockStripe(w) \/ Decide(w) \/ Unlink(w) \/ Forget(w)
       \/ LinkFile(w) \/ LinkBlock(w) \/ LinkNext(w) \/ LinkHead(w) \/ UnlockStripe(w)
  \/ \E r \in Readers :
       \/ \E tag \in Tags : LookBegin(r, tag)
       \/ LookLoad(r) \/ LookFile(r) \/ LookBlock(r) \/ LookCheck(r) \/ LookReturn(r)

Spec == Init /\ [][Next]_tableVars

-----------------------------------------------------------------------------
\* The chains of an unlocked stripe are exact: each ends, holds every frame of
\* its bucket once and no other frame, under keys that hash to the bucket.
ChainsExact ==
  \A b \in Buckets : StripeFor(b) \notin locked =>
    /\ IsInjective(Chain(b))
    /\ ToSet(Chain(b)) = {f \in Frames : bucketOf[f] = b}
    /\ \A f \in ToSet(Chain(b)) : BucketFor(Key(f)) = b

\* A tag has one page: no two frames that nobody works on are linked under it.
OneFramePerTag ==
  \A f, g \in Frames : f # g /\ ~Owned(f) /\ ~Owned(g) /\ bucketOf[f] # kNone /\ bucketOf[g] # kNone =>
    Key(f) # Key(g)

\* A lookup that passes its check is as good as one under the lock: what it
\* returns is what a walk of the chain finds at that moment, so it misses no
\* frame that is linked and never answers with a frame of another tag.
LookupCurrent ==
  \A r \in Readers : RAt(r, "check") =>
    LET tag == look[r].tag
        b == BucketFor(tag)
        hits == SelectSeq(Chain(b), LAMBDA f : MapsTo(f, tag))
    IN sequence[StripeFor(b)] = look[r].before =>
         look[r].found = IF hits = <<>> THEN kNone ELSE hits[1]

\* No two writers wait for each other: none waits for a stripe whose holder
\* waits for one of its own.
NoLockCycle ==
  \A v, w \in Writers : v # w /\ WAt(v, "lock") /\ WAt(w, "lock") =>
    ~ /\ job[v].locks[Cardinality(job[v].held) + 1] \in job[w].held
      /\ job[w].locks[Cardinality(job[w].held) + 1] \in job[v].held

=============================================================================
