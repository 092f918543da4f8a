--------------------------- MODULE SegmentProofs ---------------------------
(***************************************************************************)
(* What the processes that open, use and leave the segment of one name     *)
(* agree on, proved for any finite number of them: the count of its header *)
(* is theirs, they share one cache, and every slot in use has its owner.   *)
(***************************************************************************)
EXTENDS SharedSegment, FiniteSetTheorems, TLAPS

Before == {"out", "create", "open"}
CountedPlaces == {"claim", "fill", "user", "leave", "uncount"}

Process ==
  [at : Before \cup CountedPlaces \cup {"size", "await", "count", "seal", "unlink"},
   mode : Modes \cup {"any"}, seg : Segments \cup {NoSegment}, created : BOOLEAN,
   counted : BOOLEAN, slot : 0 .. SlotCount]

Header ==
  [used : BOOLEAN, ready : BOOLEAN, attached : Int,
   slots : [1 .. SlotCount -> Processes \cup {NoProcess}]]

\* What the place of a process says about it and about its segment, h being
\* the headers: only a creator goes on with a segment that is not ready, and
\* only a sealed segment or one that never got ready is unlinked.
PlaceInv(r, h) ==
  /\ r.at \in Before => ~r.created /\ r.seg = NoSegment
  /\ r.at \notin Before => r.seg \in Segments /\ h[r.seg].used
  /\ r.counted <=> r.at \in CountedPlaces
  /\ r.at \in {"size", "fill"} => r.created
  /\ r.at = "await" => ~r.created
  /\ r.at \in {"size", "count", "claim", "fill"} /\ r.created => ~h[r.seg].ready
  /\ r.at \notin Before \cup {"await"} /\ ~r.created => h[r.seg].ready
  /\ r.at = "user" => h[r.seg].ready
  /\ r.at = "unlink" => h[r.seg].attached = kRemoving \/ (r.created /\ ~h[r.seg].ready)
  /\ r.slot # 0 => r.at \in {"fill", "user", "leave"}
  /\ r.at \in {"fill", "user"} => r.slot # 0

\* A segment has one creator, and one process at most removes its name.
ProcsInv ==
  /\ names \in Segments \cup {NoSegment} /\ removed \in BOOLEAN
  /\ seg \in [Segments -> Header] /\ proc \in [Processes -> Process]
  /\ \A s \in Segments : (~seg[s].used => ~seg[s].ready) /\ (names = s => seg[s].used)
  /\ \A p \in Processes :
       /\ PlaceInv(proc[p], seg)
       /\ proc[p].slot # 0 => seg[proc[p].seg].slots[proc[p].slot] = p
  /\ \A p, q \in Processes :
       p # q /\ proc[p].seg = proc[q].seg =>
         ~(proc[p].created /\ proc[q].created) /\ ~(proc[p].at = "unlink" /\ proc[q].at = "unlink")

\* A segment that can still be used.
Live(s) ==
  /\ seg[s].attached # kRemoving
  /\ seg[s].ready \/ \E p \in Processes : proc[p].created /\ proc[p].seg = s

\* Unless it was removed by hand, the name denotes the segment that can still
\* be used, and the one that is about to lose it.
NameInv ==
  ~removed =>
    /\ \A s \in Segments : Live(s) => names = s
    /\ \A p \in Processes : proc[p].at \in {"size", "unlink"} => names = proc[p].seg

\* The inductive invariant behind OneCache, AttachedExact, UsersFindAPool and
\* SlotsOwned.
SegmentInv == ProcsInv /\ AttachedExact /\ NameInv

\* A step of one process on the headers h and hp, before and after: nothing is
\* unused, unready or unsealed again, and only the creator makes it ready.
Steady(p, h, hp) ==
  \A s \in Segments :
    /\ h[s].used => hp[s].used
    /\ h[s].ready => hp[s].ready
    /\ hp[s].ready /\ ~h[s].ready => s = proc[p].seg /\ proc[p].created
    /\ h[s].attached = kRemoving => hp[s].attached = kRemoving
    /\ \A i \in 1 .. SlotCount : hp[s].slots[i] # h[s].slots[i] => h[s].slots[i] \in {NoProcess, p}

\* What the other processes rely on is kept.
LEMMA OthersKept ==
  ASSUME SegmentConstants, ProcsInv, NEW p \in Processes, NEW r \in Process,
         proc' = [proc EXCEPT ![p] = r], seg' \in [Segments -> Header],
         names' \in Segments \cup {NoSegment}, removed' \in BOOLEAN, Steady(p, seg, seg'),
         \A s \in Segments : (~seg'[s].used => ~seg'[s].ready) /\ (names' = s => seg'[s].used),
         PlaceInv(r, seg'), r.slot # 0 => seg'[r.seg].slots[r.slot] = p,
         r.created => \/ proc[p].created /\ r.seg = proc[p].seg
                      \/ \A q \in Processes \ {p} : proc[q].seg # r.seg,
         r.at = "unlink" => \A q \in Processes \ {p} : proc[q].at = "unlink" => proc[q].seg # r.seg
  PROVE  ProcsInv'
<1>1. proc' \in [Processes -> Process] /\ \A q \in Processes : proc'[q] = IF q = p THEN r ELSE proc[q]
  BY DEF ProcsInv
<1>2. ASSUME NEW q \in Processes
      PROVE  /\ PlaceInv(proc'[q], seg')
             /\ proc'[q].slot # 0 => seg'[proc'[q].seg].slots[proc'[q].slot] = q
  <2>1. CASE q = p
    BY <1>1, <2>1
  <2>2. CASE q # p
    <3>1. proc'[q] = proc[q] /\ proc[q] \in Process /\ PlaceInv(proc[q], seg)
      BY <1>1, <2>2 DEF ProcsInv
    <3>2. proc[q].at \notin Before => proc[q].seg \in Segments
      BY <3>1 DEF PlaceInv
    <3>3. proc[q].created /\ proc[q].at \notin Before => seg'[proc[q].seg].ready = seg[proc[q].seg].ready
      <4>1. proc[q].created => ~(proc[p].created /\ proc[p].seg = proc[q].seg)
        BY <2>2 DEF ProcsInv
      <4>2. \A s \in Segments : seg[s].ready \in BOOLEAN /\ seg'[s].ready \in BOOLEAN
        BY DEF ProcsInv, Header
      <4>3. QED
        BY <3>2, <4>1, <4>2 DEF Steady
    <3>4. PlaceInv(proc[q], seg')
      BY <3>1, <3>2, <3>3 DEF PlaceInv, Steady, Before
    <3>5. proc[q].slot # 0 => seg'[proc[q].seg].slots[proc[q].slot] = q
      <4> SUFFICES ASSUME proc[q].slot # 0 PROVE seg'[proc[q].seg].slots[proc[q].slot] = q
        OBVIOUS
      <4>1. proc[q].slot \in 1 .. SlotCount
        BY <3>1 DEF SegmentConstants, Process
      <4>2. proc[q].seg \in Segments
        BY <3>1, <3>2 DEF PlaceInv, Before
      <4>3. seg[proc[q].seg].slots[proc[q].slot] = q
        BY DEF ProcsInv
      <4>4. q \notin {NoProcess, p}
        BY <2>2 DEF SegmentConstants
      <4>5. QED
        BY <4>1, <4>2, <4>3, <4>4 DEF Steady
    <3>6. QED
      BY <3>1, <3>4, <3>5
  <2>3. QED
    BY <2>1, <2>2
<1>3. ASSUME NEW q \in Processes, NEW u \in Processes, q # u, proc'[q].seg = proc'[u].seg
      PROVE  ~(proc'[q].created /\ proc'[u].created) /\ ~(proc'[q].at = "unlink" /\ proc'[u].at = "unlink")
  <2>1. CASE q # p /\ u # p
    BY <1>1, <1>3, <2>1 DEF ProcsInv
  <2>2. CASE q = p
    BY <1>1, <1>3, <2>2 DEF ProcsInv
  <2>3. CASE u = p
    BY <1>1, <1>3, <2>3 DEF ProcsInv
  <2>4. QED
    BY <2>1, <2>2, <2>3
<1>4. QED
  BY ZenonT(40), <1>1, <1>2, <1>3 DEF ProcsInv, PlaceInv

\* The processes that count themselves in a segment.
Users(s) == {p \in Processes : proc[p].seg = s /\ proc[p].counted}

\* The users are finitely many, and kRemoving is not their number.
LEMMA UsersCounted ==
  ASSUME SegmentConstants, NEW s \in Segments
  PROVE  /\ IsFiniteSet(Users(s)) /\ Cardinality(Users(s)) \in 0 .. Cardinality(Processes)
         /\ Users(s) = {} <=> Cardinality(Users(s)) = 0
<1>1. Users(s) \subseteq Processes /\ IsFiniteSet(Processes)
  BY DEF Users, SegmentConstants
<1>2. IsFiniteSet(Users(s)) /\ Cardinality(Users(s)) <= Cardinality(Processes)
  BY <1>1, FS_Subset
<1>3. Cardinality(Users(s)) \in Nat /\ Cardinality(Processes) \in Nat
  BY <1>1, <1>2, FS_CardinalityType
<1>4. Users(s) = {} <=> Cardinality(Users(s)) = 0
  BY <1>2, FS_EmptySet
<1>5. QED
  BY <1>2, <1>3, <1>4

\* A step that counts nobody in or out, and seals only what is not counted.
LEMMA CountsKept ==
  ASSUME SegmentConstants, ProcsInv, AttachedExact, NEW p \in Processes, NEW r \in Process,
         proc' = [proc EXCEPT ![p] = r], r.counted <=> proc[p].counted,
         r.counted => r.seg = proc[p].seg,
         \A s \in Segments : \/ seg'[s].attached = seg[s].attached
                             \/ seg[s].attached = 0 /\ seg'[s].attached = kRemoving
  PROVE  AttachedExact'
<1>1. \A q \in Processes : proc'[q] = IF q = p THEN r ELSE proc[q]
  BY DEF ProcsInv
<1>2. \A s \in Segments : {q \in Processes : proc'[q].seg = s /\ proc'[q].counted} = Users(s)
  BY <1>1 DEF Users
<1>3. ASSUME NEW s \in Segments
      PROVE  seg'[s].attached \in IF Users(s) = {} THEN {0, kRemoving} ELSE {Cardinality(Users(s))}
  <2>1. seg[s].attached \in IF Users(s) = {} THEN {0, kRemoving} ELSE {Cardinality(Users(s))}
    BY ZenonT(40) DEF AttachedExact, Users
  <2>2. seg[s].attached = 0 => Users(s) = {}
    BY <2>1, UsersCounted
  <2>3. QED
    BY <2>1, <2>2
<1>4. QED
  BY ZenonT(40), <1>2, <1>3 DEF AttachedExact

\* A process counts itself in a segment, or out of it.
LEMMA CountMoves ==
  ASSUME SegmentConstants, ProcsInv, AttachedExact, NEW p \in Processes, NEW r \in Process,
         proc' = [proc EXCEPT ![p] = r], NEW z \in Segments,
         \A s \in Segments \ {z} : seg'[s].attached = seg[s].attached,
         \/ /\ ~proc[p].counted /\ r.counted /\ r.seg = z
            /\ seg[z].attached # kRemoving /\ seg'[z].attached = seg[z].attached + 1
         \/ /\ proc[p].counted /\ proc[p].seg = z /\ ~r.counted
            /\ seg'[z].attached = seg[z].attached - 1
  PROVE  AttachedExact'
<1> DEFINE After(s) == {q \in Processes : proc'[q].seg = s /\ proc'[q].counted}
<1>1. \A q \in Processes : proc'[q] = IF q = p THEN r ELSE proc[q]
  BY DEF ProcsInv
<1>2. \A s \in Segments \ {z} : After(s) = Users(s)
  BY <1>1 DEF Users
<1>3. seg[z].attached \in IF Users(z) = {} THEN {0, kRemoving} ELSE {Cardinality(Users(z))}
  BY ZenonT(40) DEF AttachedExact, Users
<1>4. /\ IsFiniteSet(Users(z)) /\ Cardinality(Users(z)) \in Nat
      /\ Users(z) = {} <=> Cardinality(Users(z)) = 0
  BY UsersCounted
<1>5. seg'[z].attached \in IF After(z) = {} THEN {0, kRemoving} ELSE {Cardinality(After(z))}
  <2>1. CASE /\ ~proc[p].counted /\ r.counted /\ r.seg = z
             /\ seg[z].attached # kRemoving /\ seg'[z].attached = seg[z].attached + 1
    <3>1. After(z) = Users(z) \cup {p} /\ p \notin Users(z)
      BY <1>1, <2>1 DEF Users
    <3> HIDE DEF After
    <3>2. Cardinality(After(z)) = Cardinality(Users(z)) + 1
      <4>1. Cardinality(Users(z) \cup {p}) = IF p \in Users(z) THEN Cardinality(Users(z)) ELSE Cardinality(Users(z)) + 1
        BY ZenonT(40), <1>4, FS_AddElement
      <4>2. QED
        BY <3>1, <4>1
    <3>3. seg[z].attached = Cardinality(Users(z))
      BY <1>3, <1>4, <2>1
    <3>4. After(z) # {}
      BY <3>1
    <3>5. seg'[z].attached = Cardinality(After(z))
      BY <2>1, <3>2, <3>3
    <3>6. QED
      BY <3>4, <3>5
  <2>2. CASE /\ proc[p].counted /\ proc[p].seg = z /\ ~r.counted
             /\ seg'[z].attached = seg[z].attached - 1
    <3>1. After(z) = Users(z) \ {p} /\ p \in Users(z)
      BY <1>1, <2>2 DEF Users
    <3> HIDE DEF After
    <3>2. Cardinality(After(z)) = Cardinality(Users(z)) - 1 /\ IsFiniteSet(After(z))
      BY <1>4, <3>1, FS_RemoveElement
    <3>3. seg[z].attached = Cardinality(Users(z))
      BY <1>3, <3>1
    <3>4. After(z) = {} => Cardinality(After(z)) = 0
      BY ZenonT(40), <3>2, FS_EmptySet
    <3>5. seg'[z].attached = Cardinality(After(z))
      BY <2>2, <3>2, <3>3
    <3>6. QED
      BY <3>4, <3>5
  <2>3. QED
    BY <2>1, <2>2
<1>6. \A s \in Segments \ {z} : seg'[s].attached \in IF After(s) = {} THEN {0, kRemoving} ELSE {Cardinality(After(s))}
  BY ZenonT(40), <1>2 DEF AttachedExact, Users
<1>7. \A s \in Segments : seg'[s].attached \in IF After(s) = {} THEN {0, kRemoving} ELSE {Cardinality(After(s))}
  <2> HIDE DEF After
  <2>1. QED
    BY <1>5, <1>6
<1>8. QED
  BY ZenonT(40), <1>7 DEF AttachedExact

\* A step that leaves the name alone.
LEMMA NamesKept ==
  ASSUME ProcsInv, NameInv, NEW p \in Processes, NEW r \in Process,
         proc' = [proc EXCEPT ![p] = r], UNCHANGED <<names, removed>>, Steady(p, seg, seg'),
         r.created => proc[p].created /\ r.seg = proc[p].seg,
         r.at = "unlink" => r.seg \in Segments /\ Live(r.seg), r.at # "size"
  PROVE  NameInv'
<1>1. \A q \in Processes : proc'[q] = IF q = p THEN r ELSE proc[q]
  BY DEF ProcsInv
<1>2. ASSUME NEW s \in Segments, Live(s)' PROVE Live(s)
  <2>1. seg[s].attached # kRemoving
    BY <1>2 DEF Live, Steady
  <2>2. CASE seg'[s].ready
    BY <2>1, <2>2 DEF Live, Steady
  <2>3. CASE \E q \in Processes : proc'[q].created /\ proc'[q].seg = s
    BY <1>1, <2>1, <2>3 DEF Live
  <2>4. QED
    BY <1>2, <2>2, <2>3 DEF Live
<1>3. ASSUME ~removed, NEW q \in Processes, proc'[q].at \in {"size", "unlink"} PROVE names = proc'[q].seg
  BY <1>1, <1>3 DEF NameInv
<1>4. ASSUME ~removed, NEW s \in Segments, Live(s)' PROVE names = s
  BY <1>2, <1>4 DEF NameInv
<1>5. QED
  BY <1>3, <1>4 DEF NameInv

\* A process gives up the name of its segment, which is live no more.
LEMMA NameGone ==
  ASSUME SegmentConstants, ProcsInv, NameInv, NEW p \in Processes, NEW r \in Process,
         proc' = [proc EXCEPT ![p] = r], seg' = seg, removed' = removed, names' = NoSegment,
         proc[p].at \in {"size", "unlink"}, r.at \notin {"size", "unlink"}, ~r.created
  PROVE  NameInv'
<1>1. \A q \in Processes : proc'[q] = IF q = p THEN r ELSE proc[q]
  BY DEF ProcsInv
<1> SUFFICES ASSUME ~removed PROVE (\A s \in Segments : ~Live(s)') /\ \A q \in Processes : proc'[q].at \notin {"size", "unlink"}
  BY ZenonT(40) DEF NameInv
<1>2. names = proc[p].seg /\ proc[p].seg \in Segments /\ PlaceInv(proc[p], seg)
  BY ZenonT(40) DEF NameInv, ProcsInv, PlaceInv, Before
<1>3. ASSUME NEW s \in Segments, Live(s)' PROVE FALSE
  <2>1. Live(s)
    BY <1>1, <1>3 DEF Live
  <2>2. s = proc[p].seg
    BY <1>2, <2>1 DEF NameInv
  <2>3. proc[p].created /\ ~seg[s].ready
    <3>1. CASE proc[p].at = "size"
      BY <1>2, <2>2, <3>1 DEF PlaceInv
    <3>2. CASE proc[p].at = "unlink"
      BY <1>2, <2>1, <2>2, <3>2 DEF PlaceInv, Live
    <3>3. QED
      BY <3>1, <3>2
  <2>4. PICK q \in Processes : proc'[q].created /\ proc'[q].seg = s
    BY <1>3, <2>3 DEF Live
  <2>5. q # p /\ proc[q].created /\ proc[q].seg = proc[p].seg
    BY ZenonT(40), <1>1, <2>2, <2>4
  <2>6. QED
    BY <2>3, <2>5 DEF ProcsInv
<1>4. ASSUME NEW q \in Processes, proc'[q].at \in {"size", "unlink"} PROVE FALSE
  <2>1. q # p /\ proc[q].at \in {"size", "unlink"}
    BY <1>1, <1>4
  <2>2. proc[q].seg = proc[p].seg /\ PlaceInv(proc[q], seg)
    BY <1>2, <2>1 DEF NameInv, ProcsInv
  <2>3. ~(proc[p].created /\ proc[q].created) /\ ~(proc[p].at = "unlink" /\ proc[q].at = "unlink")
    BY <2>1, <2>2 DEF ProcsInv
  <2>4. QED
    BY <1>2, <2>1, <2>2, <2>3 DEF PlaceInv, Before
<1>5. QED
  BY <1>3, <1>4

\* A process at p's new place r, with the headers unchanged.
LEMMA Walks ==
  ASSUME SegmentConstants, SegmentInv, NEW p \in Processes, NEW r \in Process,
         proc' = [proc EXCEPT ![p] = r], UNCHANGED <<names, seg, removed>>,
         PlaceInv(r, seg), r.counted <=> proc[p].counted, r.counted => r.seg = proc[p].seg,
         r.slot # 0 => r.slot = proc[p].slot /\ r.seg = proc[p].seg,
         r.created => proc[p].created /\ r.seg = proc[p].seg, r.at \notin {"unlink", "size"}
  PROVE  SegmentInv'
<1>1. ProcsInv /\ AttachedExact /\ NameInv
  BY DEF SegmentInv
<1>2. Steady(p, seg, seg')
  BY DEF Steady
<1>3. r.slot # 0 => seg[r.seg].slots[r.slot] = p
  BY <1>1 DEF ProcsInv
<1>4. seg' \in [Segments -> Header] /\ \A s \in Segments : (~seg'[s].used => ~seg'[s].ready) /\ (names' = s => seg'[s].used)
  BY <1>1 DEF ProcsInv
<1>5. names' \in Segments \cup {NoSegment} /\ removed' \in BOOLEAN
  BY <1>1 DEF ProcsInv
<1>6. ProcsInv'
  BY ZenonT(40), <1>1, <1>2, <1>3, <1>4, <1>5, OthersKept
<1>7. AttachedExact'
  BY ZenonT(40), <1>1, CountsKept
<1>8. NameInv'
  BY ZenonT(40), <1>1, <1>2, NamesKept
<1>9. QED
  BY <1>6, <1>7, <1>8 DEF SegmentInv

\* A process that gives up, and one that starts an open.
LEMMA Outside ==
  ASSUME SegmentConstants
  PROVE  /\ Away \in Process /\ PlaceInv(Away, seg) /\ ~Away.counted /\ Away.slot = 0
         /\ ~Away.created /\ Away.at = "out" /\ Away.seg = NoSegment
         /\ \A m \in Modes \cup {"any"} :
              /\ Opening(m) \in Process /\ PlaceInv(Opening(m), seg) /\ ~Opening(m).counted
              /\ Opening(m).slot = 0 /\ ~Opening(m).created /\ Opening(m).at \in {"create", "open"}
              /\ Opening(m).mode = m /\ Opening(m).seg = NoSegment
<1>1. 0 \in 0 .. SlotCount
  BY DEF SegmentConstants
<1>2. /\ Away \in Process /\ ~Away.counted /\ Away.slot = 0
      /\ ~Away.created /\ Away.at = "out" /\ Away.seg = NoSegment
  BY <1>1 DEF Away, Process, Before
<1>3. ASSUME NEW m \in Modes \cup {"any"}
      PROVE  /\ Opening(m) \in Process /\ ~Opening(m).counted
             /\ Opening(m).slot = 0 /\ ~Opening(m).created /\ Opening(m).at \in {"create", "open"}
             /\ Opening(m).mode = m /\ Opening(m).seg = NoSegment
  BY ZenonT(40), <1>2 DEF Opening, Process, Before
<1>4. PlaceInv(Away, seg) /\ \A m \in Modes \cup {"any"} : PlaceInv(Opening(m), seg)
  BY <1>2, <1>3 DEF PlaceInv, Before, CountedPlaces
<1>5. QED
  BY <1>2, <1>3, <1>4

\* The open fails, or starts again.
LEMMA StartsAgain ==
  ASSUME SegmentConstants, SegmentInv, NEW p \in Processes, ~proc[p].counted,
         UNCHANGED <<names, seg, removed>>,
         \/ proc' = [proc EXCEPT ![p] = Away]
         \/ \E m \in Modes \cup {"any"} : proc' = [proc EXCEPT ![p] = Opening(m)]
  PROVE  SegmentInv'
<1>1. CASE proc' = [proc EXCEPT ![p] = Away]
  BY ZenonT(40), <1>1, Outside, Walks
<1>2. ASSUME NEW m \in Modes \cup {"any"}, proc' = [proc EXCEPT ![p] = Opening(m)] PROVE SegmentInv'
  BY ZenonT(40), <1>2, Outside, Walks
<1>3. QED
  BY <1>1, <1>2

\* A process goes on with what it has.
LEMMA GoesOn ==
  ASSUME SegmentConstants, SegmentInv, NEW p \in Processes, UNCHANGED <<names, seg, removed>>,
         NEW l \in {"open", "count", "leave"}, Goto(p, l),
         l = "open" => proc[p].at = "create",
         l = "count" => proc[p].at = "size" \/ (proc[p].at = "await" /\ seg[proc[p].seg].ready),
         l = "leave" => proc[p].at \in {"claim", "fill", "user"}
  PROVE  SegmentInv'
<1>1. proc \in [Processes -> Process] /\ proc[p] \in Process /\ PlaceInv(proc[p], seg)
  BY DEF SegmentInv, ProcsInv
<1> DEFINE r == [proc[p] EXCEPT !.at = l]
<1>2. /\ r \in Process /\ r.at = l /\ r.seg = proc[p].seg /\ r.created = proc[p].created
      /\ r.counted = proc[p].counted /\ r.slot = proc[p].slot
  BY <1>1 DEF Process, Before, CountedPlaces
<1>3. proc' = [proc EXCEPT ![p] = r]
  BY <1>1 DEF Goto
<1> HIDE DEF r
<1>4. PlaceInv(r, seg)
  <2>1. CASE l = "open"
    BY ZenonT(40), <1>1, <1>2, <2>1 DEF PlaceInv, Before, CountedPlaces
  <2>2. CASE l = "count"
    BY ZenonT(40), <1>1, <1>2, <2>2 DEF PlaceInv, Before, CountedPlaces
  <2>3. CASE l = "leave"
    BY <1>1, <1>2, <2>3 DEF PlaceInv, Before, CountedPlaces
  <2>4. QED
    BY ZenonT(40), <2>1, <2>2, <2>3
<1>5. QED
  BY ZenonT(40), <1>2, <1>3, <1>4, Walks

\* An open creates the name and with it a segment, or finds one.
LEMMA OpenSteps ==
  ASSUME SegmentConstants, SegmentInv, NEW p \in Processes,
         (\E mode \in Modes : Start(p, mode)) \/ CreateExclusive(p) \/ OpenExisting(p)
  PROVE  SegmentInv'
<1>1. /\ ProcsInv /\ AttachedExact /\ NameInv /\ proc \in [Processes -> Process] /\ proc[p] \in Process
      /\ PlaceInv(proc[p], seg) /\ seg \in [Segments -> Header]
      /\ names \in Segments \cup {NoSegment} /\ \A s \in Segments : names = s => seg[s].used
  BY DEF SegmentInv, ProcsInv
<1>2. /\ proc[p].at \in Before /\ ~proc[p].counted /\ ~proc[p].created /\ proc[p].slot = 0
      /\ proc[p].seg = NoSegment
  BY ZenonT(40), <1>1 DEF Start, CreateExclusive, OpenExisting, At, PlaceInv, CountedPlaces, Before
<1>3. ASSUME NEW mode \in Modes, Start(p, mode) PROVE SegmentInv'
  BY ZenonT(40), <1>2, <1>3, StartsAgain DEF Start
<1>4. ASSUME CreateExclusive(p), names # NoSegment PROVE SegmentInv'
  <2>1. UNCHANGED <<names, seg, removed>> /\ proc[p].at = "create"
    BY ZenonT(40), <1>4 DEF CreateExclusive, At
  <2>2. proc' = [proc EXCEPT ![p] = Away] \/ Goto(p, "open")
    BY ZenonT(40), <1>1, <1>4 DEF CreateExclusive, Goto
  <2>3. QED
    BY <1>2, <2>1, <2>2, StartsAgain, GoesOn
<1>5. ASSUME CreateExclusive(p), names = NoSegment PROVE SegmentInv'
  <2>1. PICK s \in Segments :
          /\ ~seg[s].used /\ names' = s /\ seg' = [seg EXCEPT ![s].used = TRUE]
          /\ proc' = [proc EXCEPT ![p].at = "size", ![p].seg = s, ![p].created = TRUE]
    BY ZenonT(40), <1>5 DEF CreateExclusive
  <2>2. removed' = removed /\ removed \in BOOLEAN
    BY ZenonT(40), <1>1, <1>5 DEF CreateExclusive, ProcsInv
  <2> DEFINE r == [proc[p] EXCEPT !.at = "size", !.seg = s, !.created = TRUE]
  <2>3. /\ r \in Process /\ r.at = "size" /\ r.seg = s /\ r.created /\ r.counted = proc[p].counted
        /\ r.slot = proc[p].slot
    BY ZenonT(40), <1>1 DEF Process
  <2>4. proc' = [proc EXCEPT ![p] = r]
    BY ZenonT(40), <1>1, <2>1
  <2> HIDE DEF r
  <2>5. /\ seg' \in [Segments -> Header] /\ seg'[s].used
        /\ \A z \in Segments : /\ seg'[z].ready = seg[z].ready /\ seg'[z].attached = seg[z].attached
                               /\ seg'[z].slots = seg[z].slots /\ (z # s => seg'[z].used = seg[z].used)
    BY ZenonT(40), <1>1, <2>1 DEF Header
  <2>6. Steady(p, seg, seg')
    BY <2>1, <2>5 DEF Steady
  <2>7. ~seg[s].ready /\ \A q \in Processes : proc[q].seg # s
    BY <1>1, <2>1 DEF ProcsInv, PlaceInv, SegmentConstants
  <2>8. PlaceInv(r, seg')
    BY <1>2, <2>3, <2>5, <2>7 DEF PlaceInv, Before, CountedPlaces
  <2>9. \A z \in Segments : (~seg'[z].used => ~seg'[z].ready) /\ (names' = z => seg'[z].used)
    BY <1>1, <2>1, <2>5 DEF ProcsInv
  <2>10. ProcsInv'
    BY ZenonT(40), <1>1, <1>2, <2>1, <2>2, <2>3, <2>4, <2>5, <2>6, <2>7, <2>8, <2>9, OthersKept
  <2>11. AttachedExact'
    BY ZenonT(40), <1>1, <1>2, <2>3, <2>4, <2>5, CountsKept
  <2>12. \A q \in Processes : proc'[q] = IF q = p THEN r ELSE proc[q]
    BY <1>1, <2>4
  <2>13. ASSUME ~removed, NEW z \in Segments, Live(z)' PROVE z = s
    <3>1. ~Live(z)
      BY <1>1, <1>5, <2>13 DEF NameInv, SegmentConstants
    <3>2. QED
      BY <2>3, <2>5, <2>12, <2>13, <3>1 DEF Live
  <2>14. ASSUME ~removed, NEW q \in Processes, proc'[q].at \in {"size", "unlink"} PROVE s = proc'[q].seg
    <3>1. CASE q = p
      BY <2>3, <2>12, <3>1
    <3>2. CASE q # p
      <4>1. proc[q].at \in {"size", "unlink"} /\ PlaceInv(proc[q], seg)
        BY ZenonT(40), <1>1, <2>12, <2>14, <3>2 DEF ProcsInv
      <4>2. names = proc[q].seg /\ proc[q].seg \in Segments
        BY ZenonT(40), <1>1, <2>14, <4>1 DEF NameInv, PlaceInv, Before
      <4>3. QED
        BY <1>5, <4>2 DEF SegmentConstants
    <3>3. QED
      BY <3>1, <3>2
  <2>15. NameInv'
    BY ZenonT(40), <2>1, <2>2, <2>13, <2>14 DEF NameInv
  <2>16. QED
    BY <2>10, <2>11, <2>15 DEF SegmentInv
<1>6. CASE OpenExisting(p)
  <2>1. UNCHANGED <<names, seg, removed>>
    BY <1>6 DEF OpenExisting
  <2>2. CASE names = NoSegment
    BY ZenonT(40), <1>2, <1>6, <2>1, <2>2, StartsAgain DEF OpenExisting
  <2>3. CASE names # NoSegment
    <3> DEFINE r == [proc[p] EXCEPT !.at = "await", !.seg = names]
    <3>1. /\ r \in Process /\ r.at = "await" /\ r.seg = names /\ r.created = proc[p].created
          /\ r.counted = proc[p].counted /\ r.slot = proc[p].slot
      BY ZenonT(40), <1>1 DEF Process
    <3>2. proc' = [proc EXCEPT ![p] = r]
      BY ZenonT(40), <1>6, <2>3 DEF OpenExisting
    <3> HIDE DEF r
    <3>3. PlaceInv(r, seg)
      BY <1>1, <1>2, <2>3, <3>1 DEF PlaceInv, Before, CountedPlaces
    <3>4. QED
      BY ZenonT(40), <1>2, <2>1, <3>1, <3>2, <3>3, Walks
  <2>4. QED
    BY <2>2, <2>3
<1>7. QED
  BY <1>3, <1>4, <1>5, <1>6

\* A process writes the header of its segment z: the counts are shown apart.
LEMMA Writes ==
  ASSUME SegmentConstants, SegmentInv, NEW p \in Processes, NEW r \in Process, NEW z \in Segments,
         proc' = [proc EXCEPT ![p] = r], UNCHANGED <<names, removed>>, NEW h \in Header,
         seg' = [seg EXCEPT ![z] = h], proc[p].seg = z, h.used = seg[z].used,
         seg[z].ready => h.ready, h.ready => seg[z].ready \/ proc[p].created,
         seg[z].attached = kRemoving => h.attached = kRemoving,
         \A i \in 1 .. SlotCount : h.slots[i] # seg[z].slots[i] => seg[z].slots[i] \in {NoProcess, p},
         proc[p].at \notin Before,
         PlaceInv(r, seg'), r.slot # 0 => r.seg = z /\ h.slots[r.slot] = p,
         r.created => proc[p].created /\ r.seg = z, r.at # "size",
         r.at = "unlink" => /\ r.seg = z /\ Live(z)
                            /\ \A q \in Processes \ {p} : proc[q].at = "unlink" => proc[q].seg # z,
         AttachedExact'
  PROVE  SegmentInv'
<1>1. ProcsInv /\ NameInv /\ seg \in [Segments -> Header]
  BY DEF SegmentInv, ProcsInv
<1>2. seg' \in [Segments -> Header] /\ \A s \in Segments : seg'[s] = IF s = z THEN h ELSE seg[s]
  BY ZenonT(40), <1>1
<1>3. Steady(p, seg, seg')
  BY ZenonT(40), <1>2 DEF Steady
<1>4. seg[z].used /\ names \in Segments \cup {NoSegment} /\ removed \in BOOLEAN
  BY ZenonT(40), <1>1 DEF ProcsInv, PlaceInv
<1>5. \A s \in Segments : (~seg'[s].used => ~seg'[s].ready) /\ (names' = s => seg'[s].used)
  BY ZenonT(40), <1>1, <1>2, <1>4 DEF ProcsInv
<1>6. r.slot # 0 => seg'[r.seg].slots[r.slot] = p
  BY ZenonT(40), <1>2
<1>7. /\ names' \in Segments \cup {NoSegment} /\ removed' \in BOOLEAN
      /\ r.created => proc[p].created /\ r.seg = proc[p].seg
      /\ r.at = "unlink" => \A q \in Processes \ {p} : proc[q].at = "unlink" => proc[q].seg # r.seg
  BY <1>4
<1>8. ProcsInv'
  BY ZenonT(40), <1>1, <1>2, <1>3, <1>5, <1>6, <1>7, OthersKept
<1>9. NameInv'
  BY ZenonT(40), <1>1, <1>3, NamesKept
<1>10. QED
  BY ZenonT(40), <1>8, <1>9 DEF SegmentInv

\* What a process past its open knows of its segment.
LEMMA Inside ==
  ASSUME SegmentConstants, SegmentInv, NEW p \in Processes, proc[p].at \notin Before
  PROVE  /\ proc \in [Processes -> Process] /\ proc[p] \in Process /\ PlaceInv(proc[p], seg)
         /\ proc[p].seg \in Segments /\ seg \in [Segments -> Header] /\ seg[proc[p].seg] \in Header
         /\ proc[p].counted => seg[proc[p].seg].attached \in Nat \ {0, kRemoving}
         /\ proc[p].at # "await" /\ seg[proc[p].seg].attached # kRemoving => Live(proc[p].seg)
<1>1. /\ proc \in [Processes -> Process] /\ proc[p] \in Process /\ PlaceInv(proc[p], seg)
      /\ seg \in [Segments -> Header] /\ AttachedExact
  BY DEF SegmentInv, ProcsInv
<1>2. proc[p].seg \in Segments
  BY <1>1 DEF PlaceInv
<1>3. proc[p].counted => seg[proc[p].seg].attached \in Nat \ {0, kRemoving}
  <2> DEFINE s == proc[p].seg
  <2> SUFFICES ASSUME proc[p].counted PROVE seg[s].attached \in Nat \ {0, kRemoving}
    OBVIOUS
  <2>1. p \in Users(s)
    BY DEF Users
  <2>2. seg[s].attached = Cardinality(Users(s))
    BY ZenonT(40), <1>1, <1>2, <2>1 DEF AttachedExact, Users
  <2>3. Cardinality(Users(s)) \in 0 .. Cardinality(Processes) /\ Cardinality(Users(s)) # 0
    BY <1>2, <2>1, UsersCounted
  <2>4. Cardinality(Processes) \in Nat
    BY FS_CardinalityType DEF SegmentConstants
  <2>5. QED
    BY <2>2, <2>3, <2>4 DEF SegmentConstants
<1>4. proc[p].at # "await" /\ seg[proc[p].seg].attached # kRemoving => Live(proc[p].seg)
  BY <1>1 DEF PlaceInv, Live
<1>5. QED
  BY <1>1, <1>2, <1>3, <1>4

\* The creator sizes the segment, an attacher waits for it, and both count
\* themselves.
LEMMA CountSteps ==
  ASSUME SegmentConstants, SegmentInv, NEW p \in Processes,
         SizeSegment(p) \/ AwaitReady(p) \/ Count(p)
  PROVE  SegmentInv'
<1> DEFINE z == proc[p].seg
<1>1. proc[p].at \in {"size", "await", "count"} /\ proc[p].at \notin Before
  BY DEF SizeSegment, AwaitReady, Count, At, Before
<1>2. /\ proc \in [Processes -> Process] /\ proc[p] \in Process /\ PlaceInv(proc[p], seg)
      /\ z \in Segments /\ seg \in [Segments -> Header] /\ seg[z] \in Header
      /\ ProcsInv /\ AttachedExact /\ NameInv /\ seg[z].attached \in Int
  BY <1>1, Inside DEF SegmentInv, Header
<1>3. ~proc[p].counted /\ proc[p].slot = 0
  BY <1>1, <1>2 DEF PlaceInv, CountedPlaces
<1> HIDE DEF z
<1>4. CASE SizeSegment(p)
  <2>1. seg' = seg /\ removed' = removed /\ proc[p].at = "size"
    BY <1>4 DEF SizeSegment, At
  <2>2. CASE Goto(p, "count") /\ UNCHANGED names
    BY <2>1, <2>2, GoesOn
  <2>3. CASE names' = NoSegment /\ proc' = [proc EXCEPT ![p] = Away]
    <3>1. Away \in Process /\ PlaceInv(Away, seg) /\ ~Away.counted /\ Away.slot = 0 /\ ~Away.created /\ Away.at = "out"
      BY Outside
    <3>2. Steady(p, seg, seg')
      BY <2>1 DEF Steady
    <3>3. seg' \in [Segments -> Header] /\ removed' \in BOOLEAN /\ names' \in Segments \cup {NoSegment}
      BY <1>2, <2>1, <2>3 DEF ProcsInv
    <3>4. \A s \in Segments : (~seg'[s].used => ~seg'[s].ready) /\ (names' = s => seg'[s].used)
      BY <1>2, <2>1, <2>3 DEF ProcsInv, SegmentConstants
    <3>5. ProcsInv'
      BY ZenonT(40), <1>2, <2>1, <2>3, <3>1, <3>2, <3>3, <3>4, OthersKept
    <3>6. AttachedExact'
      BY ZenonT(40), <1>2, <1>3, <2>1, <2>3, <3>1, CountsKept
    <3>7. NameInv'
      BY ZenonT(40), <1>2, <2>1, <2>3, <3>1, NameGone
    <3>8. QED
      BY <3>5, <3>6, <3>7 DEF SegmentInv
  <2>4. QED
    BY <1>4, <2>2, <2>3 DEF SizeSegment
<1>5. CASE AwaitReady(p)
  BY ZenonT(40), <1>3, <1>5, StartsAgain, GoesOn DEF AwaitReady, At, Seg
<1>6. CASE Count(p)
  <2>1. proc[p].at = "count" /\ UNCHANGED <<names, removed>>
    BY <1>6 DEF Count, At
  <2>2. CASE /\ seg[z].attached # kRemoving
             /\ seg' = [seg EXCEPT ![z].attached = @ + 1]
             /\ proc' = [proc EXCEPT ![p].at = "claim", ![p].counted = TRUE, ![p].mode = "any"]
    <3> DEFINE r == [proc[p] EXCEPT !.at = "claim", !.counted = TRUE, !.mode = "any"]
               h == [seg[z] EXCEPT !.attached = @ + 1]
    <3>1. /\ r \in Process /\ r.at = "claim" /\ r.seg = z /\ r.created = proc[p].created /\ r.counted
          /\ r.slot = proc[p].slot
      BY ZenonT(40), <1>2 DEF Process, CountedPlaces, z
    <3>2. /\ h \in Header /\ h.used = seg[z].used /\ h.ready = seg[z].ready /\ h.slots = seg[z].slots
          /\ h.attached = seg[z].attached + 1
      <4>1. seg[z].attached + 1 \in Int
        BY <1>2
      <4>2. QED
        BY <1>2, <4>1, ZenonT(30) DEF Header
    <3>3. proc' = [proc EXCEPT ![p] = r] /\ seg' = [seg EXCEPT ![z] = h]
      BY ZenonT(40), <1>2, <2>2
    <3> HIDE DEF r, h
    <3>4. seg'[z] = h /\ \A s \in Segments \ {z} : seg'[s] = seg[s]
      BY <1>2, <3>3
    <3>5. AttachedExact'
      <4>1. seg'[z].attached = seg[z].attached + 1 /\ \A s \in Segments \ {z} : seg'[s].attached = seg[s].attached
        BY <3>2, <3>4
      <4>2. QED
        BY ZenonT(60), <1>2, <1>3, <2>2, <3>1, <3>3, <4>1, CountMoves
    <3>6. PlaceInv(r, seg')
      BY ZenonT(40), <1>2, <1>3, <2>1, <3>1, <3>2, <3>4 DEF PlaceInv, Before, CountedPlaces, z
    <3>7. /\ proc[p].seg = z /\ (seg[z].ready => h.ready) /\ (h.ready => seg[z].ready)
          /\ \A i \in 1 .. SlotCount : h.slots[i] = seg[z].slots[i]
          /\ r.slot = 0 /\ r.at \notin {"size", "unlink"} /\ (r.created => proc[p].created /\ r.seg = z)
          /\ h.used = seg[z].used /\ seg[z].attached # kRemoving
      BY <1>3, <2>2, <3>1, <3>2 DEF z
    <3>8. h \in Header /\ r \in Process
      BY <3>1, <3>2
    <3>9. QED
      BY ZenonT(40), <1>1, <1>2, <2>1, <3>3, <3>5, <3>6, <3>7, <3>8, Writes
  <2>3. CASE /\ seg' = seg
             /\ proc' = [proc EXCEPT ![p] = Opening(proc[p].mode)] \/ proc' = [proc EXCEPT ![p] = Away]
    <3>1. proc[p].mode \in Modes \cup {"any"}
      BY <1>2 DEF Process
    <3>2. QED
      BY <1>3, <2>1, <2>3, <3>1, StartsAgain
  <2>4. QED
    BY <1>6, <2>2, <2>3 DEF Count, Seg, z
<1>7. QED
  BY <1>4, <1>5, <1>6

\* A process takes a slot, the creator builds the pool, the user leaves.
LEMMA UseSteps ==
  ASSUME SegmentConstants, SegmentInv, NEW p \in Processes,
         ClaimProcessSlot(p) \/ MarkReady(p) \/ Leave(p) \/ FreeSlot(p)
  PROVE  SegmentInv'
<1> DEFINE z == proc[p].seg
<1>1. proc[p].at \in {"claim", "fill", "user", "leave"} /\ proc[p].at \notin Before
  BY ZenonT(40) DEF ClaimProcessSlot, MarkReady, Leave, FreeSlot, At, Before
<1>2. /\ proc \in [Processes -> Process] /\ proc[p] \in Process /\ PlaceInv(proc[p], seg)
      /\ z \in Segments /\ seg \in [Segments -> Header] /\ seg[z] \in Header
      /\ ProcsInv /\ AttachedExact /\ NameInv
      /\ proc[p].slot # 0 => seg[z].slots[proc[p].slot] = p
  BY ZenonT(40), <1>1, Inside DEF SegmentInv, ProcsInv
<1>3. proc[p].counted /\ UNCHANGED <<names, removed>>
  BY <1>1, <1>2 DEF PlaceInv, CountedPlaces, ClaimProcessSlot, MarkReady, Leave, FreeSlot
<1>4. proc[p].seg = z
  OBVIOUS
<1> HIDE DEF z
<1>5. ASSUME NEW r \in Process, NEW h \in Header, proc' = [proc EXCEPT ![p] = r], seg' = [seg EXCEPT ![z] = h],
             r.seg = z, r.created = proc[p].created, r.counted = proc[p].counted,
             h.used = seg[z].used, h.attached = seg[z].attached,
             seg[z].ready => h.ready, h.ready => seg[z].ready \/ proc[p].created,
             \A i \in 1 .. SlotCount : h.slots[i] # seg[z].slots[i] => seg[z].slots[i] \in {NoProcess, p},
             r.slot # 0 => h.slots[r.slot] = p, r.at \in {"fill", "user", "uncount"},
             r.at = "fill" => r.created /\ ~h.ready, r.at = "user" => h.ready, ~r.created => h.ready,
             r.slot # 0 <=> r.at \in {"fill", "user"}
      PROVE  SegmentInv'
  <2>1. seg'[z] = h /\ \A s \in Segments \ {z} : seg'[s] = seg[s]
    BY <1>2, <1>5
  <2>2. \A s \in Segments : seg'[s].attached = seg[s].attached
    BY <1>5, <2>1
  <2>3. AttachedExact'
    BY ZenonT(40), <1>2, <1>4, <1>5, <2>2, CountsKept
  <2>4. PlaceInv(r, seg')
    BY ZenonT(40), <1>2, <1>3, <1>4, <1>5, <2>1, <1>1 DEF PlaceInv, Before, CountedPlaces
  <2>5. r.at \notin {"size", "unlink"} /\ (r.created => proc[p].created)
    BY <1>5
  <2>6. QED
    BY ZenonT(40), <1>1, <1>2, <1>3, <1>4, <1>5, <2>3, <2>4, <2>5, Writes
<1>6. ASSUME NEW i \in 1 .. SlotCount, seg[z].slots[i] = NoProcess, TakeSlot(p, i), proc[p].at = "claim"
      PROVE  SegmentInv'
  <2> DEFINE l == IF proc[p].created THEN "fill" ELSE "user"
             v == [seg[z].slots EXCEPT ![i] = p]
             r == [proc[p] EXCEPT !.at = l, !.slot = i]
             h == [seg[z] EXCEPT !.slots = v]
  <2>1. l \in {"fill", "user"} /\ (l = "fill" <=> proc[p].created)
    OBVIOUS
  <2>2. seg[z].slots \in [1 .. SlotCount -> Processes \cup {NoProcess}]
    BY <1>2 DEF Header
  <2>3. /\ v \in [1 .. SlotCount -> Processes \cup {NoProcess}] /\ v[i] = p
        /\ \A j \in 1 .. SlotCount : j # i => v[j] = seg[z].slots[j]
    BY ZenonT(40), <2>2
  <2>4. seg' = [seg EXCEPT ![z] = h] /\ proc' = [proc EXCEPT ![p] = r]
    BY ZenonT(40), <1>2, <1>6, <2>2 DEF TakeSlot, Seg, z, Header
  <2> HIDE DEF l, v
  <2>5. i \in 0 .. SlotCount /\ i # 0
    BY DEF SegmentConstants
  <2>6. /\ r \in Process /\ r.at = l /\ r.slot = i /\ r.seg = z /\ r.created = proc[p].created
        /\ r.counted = proc[p].counted
    BY ZenonT(40), <1>2, <2>1, <2>5 DEF Process, CountedPlaces, z
  <2>7. /\ h \in Header /\ h.used = seg[z].used /\ h.attached = seg[z].attached /\ h.ready = seg[z].ready
        /\ h.slots = v
    BY ZenonT(40), <1>2, <2>3 DEF Header
  <2> HIDE DEF r, h
  <2>8. (l = "fill" => ~seg[z].ready) /\ (l = "user" => seg[z].ready) /\ (~proc[p].created => seg[z].ready)
    BY <1>2, <1>4, <1>6, <2>1 DEF PlaceInv, Before
  <2>9. \A j \in 1 .. SlotCount : h.slots[j] # seg[z].slots[j] => seg[z].slots[j] \in {NoProcess, p}
    BY <1>6, <2>3, <2>7
  <2>10. QED
    BY ZenonT(40), <1>5, <2>1, <2>3, <2>4, <2>5, <2>6, <2>7, <2>8, <2>9
<1>7. CASE ClaimProcessSlot(p)
  <2>1. proc[p].at = "claim"
    BY <1>7 DEF ClaimProcessSlot, At
  <2>2. CASE Goto(p, "leave") /\ UNCHANGED seg
    BY <1>3, <2>1, <2>2, GoesOn
  <2>3. CASE \E i \in FreeSlots(p) : TakeSlot(p, i)
    BY <1>6, <2>1, <2>3 DEF FreeSlots, Seg, z
  <2>4. QED
    BY <1>7, <2>2, <2>3 DEF ClaimProcessSlot
<1>8. CASE MarkReady(p)
  <2>1. proc[p].at = "fill" /\ proc[p].created /\ proc[p].slot # 0
    BY <1>2, <1>8 DEF MarkReady, At, PlaceInv
  <2>2. CASE Goto(p, "leave") /\ UNCHANGED seg
    BY <1>3, <2>1, <2>2, GoesOn
  <2>3. CASE seg' = [seg EXCEPT ![z].ready = TRUE] /\ Goto(p, "user")
    <3> DEFINE r == [proc[p] EXCEPT !.at = "user"]
               h == [seg[z] EXCEPT !.ready = TRUE]
    <3>1. seg' = [seg EXCEPT ![z] = h] /\ proc' = [proc EXCEPT ![p] = r]
      BY <1>2, <2>3 DEF Goto
    <3>2. /\ r \in Process /\ r.at = "user" /\ r.slot = proc[p].slot /\ r.seg = z /\ r.created = proc[p].created
          /\ r.counted = proc[p].counted
      BY <1>2 DEF Process, CountedPlaces, z
    <3>3. /\ h \in Header /\ h.used = seg[z].used /\ h.attached = seg[z].attached /\ h.ready
          /\ h.slots = seg[z].slots
      BY ZenonT(40), <1>2 DEF Header
    <3> HIDE DEF r, h
    <3>4. QED
      BY ZenonT(40), <1>2, <1>5, <2>1, <3>1, <3>2, <3>3
  <2>4. QED
    BY <1>8, <2>2, <2>3 DEF MarkReady, Seg, z
<1>9. CASE Leave(p)
  BY <1>9, GoesOn DEF Leave, At
<1>10. CASE FreeSlot(p)
  <2> DEFINE v == [i \in 1 .. SlotCount |-> IF i = proc[p].slot THEN NoProcess ELSE seg[z].slots[i]]
             r == [proc[p] EXCEPT !.at = "uncount", !.slot = 0]
             h == [seg[z] EXCEPT !.slots = v]
  <2>1. proc[p].at = "leave"
    BY <1>10 DEF FreeSlot, At
  <2>2. seg[z].slots \in [1 .. SlotCount -> Processes \cup {NoProcess}]
    BY <1>2 DEF Header
  <2>3. /\ v \in [1 .. SlotCount -> Processes \cup {NoProcess}]
        /\ \A j \in 1 .. SlotCount : v[j] # seg[z].slots[j] => j = proc[p].slot
    BY ZenonT(40), <2>2
  <2>4. seg' = [seg EXCEPT ![z] = h] /\ proc' = [proc EXCEPT ![p] = r]
    BY ZenonT(40), <1>2, <1>10 DEF FreeSlot, Seg, z
  <2> HIDE DEF v
  <2>5. 0 \in 0 .. SlotCount /\ \A j \in 1 .. SlotCount : j # 0
    BY DEF SegmentConstants
  <2>6. /\ r \in Process /\ r.at = "uncount" /\ r.slot = 0 /\ r.seg = z /\ r.created = proc[p].created
        /\ r.counted = proc[p].counted
    BY ZenonT(40), <1>2, <2>5 DEF Process, CountedPlaces, z
  <2>7. /\ h \in Header /\ h.used = seg[z].used /\ h.attached = seg[z].attached /\ h.ready = seg[z].ready
        /\ h.slots = v
    BY <1>2, <2>3 DEF Header
  <2> HIDE DEF r, h
  <2>8. \A j \in 1 .. SlotCount : h.slots[j] # seg[z].slots[j] => seg[z].slots[j] \in {NoProcess, p}
    BY ZenonT(40), <1>2, <2>3, <2>5, <2>7
  <2>9. ~proc[p].created => seg[z].ready
    BY ZenonT(40), <1>2, <1>4, <2>1 DEF PlaceInv, Before
  <2>10. QED
    BY ZenonT(40), <1>5, <2>4, <2>6, <2>7, <2>8, <2>9
<1>11. QED
  BY <1>7, <1>8, <1>9, <1>10

\* The last user seals the segment and unlinks it, and so does a creator that
\* never got ready.
LEMMA LeaveSteps ==
  ASSUME SegmentConstants, SegmentInv, NEW p \in Processes, Uncount(p) \/ Seal(p) \/ Unlink(p)
  PROVE  SegmentInv'
<1> DEFINE z == proc[p].seg
<1>1. proc[p].at \in {"uncount", "seal", "unlink"} /\ proc[p].at \notin Before
  BY DEF Uncount, Seal, Unlink, At, Before
<1>2. /\ proc \in [Processes -> Process] /\ proc[p] \in Process /\ PlaceInv(proc[p], seg)
      /\ z \in Segments /\ seg \in [Segments -> Header] /\ seg[z] \in Header /\ seg[z].attached \in Int
      /\ ProcsInv /\ AttachedExact /\ NameInv
      /\ proc[p].counted => seg[z].attached # kRemoving
      /\ seg[z].attached # kRemoving => Live(z)
  BY ZenonT(40), <1>1, Inside DEF SegmentInv, Header
<1>3. proc[p].slot = 0 /\ proc[p].seg = z /\ (~proc[p].created => seg[z].ready)
  BY ZenonT(40), <1>1, <1>2 DEF PlaceInv, Before
<1>4. /\ Away \in Process /\ ~Away.counted /\ Away.slot = 0 /\ ~Away.created /\ Away.at = "out" /\ Away.seg = NoSegment
      /\ PlaceInv(Away, seg)
  BY Outside
<1> HIDE DEF z
<1>5. ASSUME NEW q \in Processes \ {p}, proc[q].at = "unlink", proc[q].seg = z, seg[z].attached # kRemoving
      PROVE  FALSE
  <2>1. proc[q].created /\ ~seg[z].ready
    BY ZenonT(40), <1>2, <1>5 DEF ProcsInv, PlaceInv
  <2>2. ~proc[p].created
    BY ZenonT(40), <1>2, <1>3, <1>5, <2>1 DEF ProcsInv
  <2>3. QED
    BY <1>3, <2>1, <2>2
<1>6. CASE Uncount(p)
  <2> DEFINE last == seg[z].attached = 1 /\ p \notin Keepers
             neverReady == proc[p].created /\ ~seg[z].ready
             l == IF last THEN "seal" ELSE "unlink"
             w == [proc[p] EXCEPT !.counted = FALSE, !.at = l]
             r == IF last \/ neverReady THEN w ELSE Away
             h == [seg[z] EXCEPT !.attached = @ - 1]
  <2>1. proc[p].at = "uncount" /\ proc[p].counted /\ UNCHANGED <<names, removed>>
    BY <1>2, <1>6 DEF Uncount, At, PlaceInv, CountedPlaces
  <2>2. proc' = [proc EXCEPT ![p] = r] /\ seg' = [seg EXCEPT ![z] = h]
    BY <1>2, <1>6 DEF Uncount, Seg, z
  <2>3. /\ h \in Header /\ h.used = seg[z].used /\ h.ready = seg[z].ready /\ h.slots = seg[z].slots
        /\ h.attached = seg[z].attached - 1
    <3>1. seg[z].attached - 1 \in Int
      BY <1>2
    <3>2. QED
      BY <1>2, <3>1, ZenonT(30) DEF Header
  <2>4. /\ l \in {"seal", "unlink"}
        /\ (last \/ neverReady) /\ l = "unlink" => neverReady
    OBVIOUS
  <2> HIDE DEF l
  <2>5. /\ w \in Process /\ w.at = l /\ w.seg = z /\ (w.created <=> proc[p].created) /\ ~w.counted /\ w.slot = 0
    <3>1. proc[p] \in Process /\ l \in {"seal", "unlink"}
      BY <1>2, <2>4
    <3>2. w \in Process
      BY ZenonT(40), <3>1 DEF Process
    <3>3. w.at = l /\ w.seg = proc[p].seg /\ w.slot = proc[p].slot /\ w.created = proc[p].created /\ w.counted = FALSE
      BY <3>1 DEF Process
    <3>4. QED
      BY <1>3, <3>2, <3>3
  <2> HIDE DEF w, last
  <2>6. /\ r \in Process /\ ~r.counted /\ r.slot = 0 /\ r.at \in {"out", "seal", "unlink"}
        /\ r.at = "out" => r = Away
        /\ r.at # "out" => r.seg = z /\ (r.created <=> proc[p].created)
        /\ r.created => r.seg = z /\ proc[p].created
        /\ r.at = "unlink" => proc[p].created /\ ~seg[z].ready
    <3>1. CASE last \/ neverReady
      <4>1. r = w
        BY <3>1
      <4> HIDE DEF r
      <4>2. l = "unlink" => proc[p].created /\ ~seg[z].ready
        BY <2>4, <3>1
      <4>3. QED
        BY <2>4, <2>5, <4>1, <4>2
    <3>2. CASE ~(last \/ neverReady)
      <4>1. r = Away
        BY <3>2
      <4> HIDE DEF r
      <4>2. QED
        BY <1>4, <4>1
    <3>3. QED
      BY ZenonT(40), <3>1, <3>2
  <2> HIDE DEF r, h
  <2>7. seg'[z] = h /\ \A s \in Segments \ {z} : seg'[s] = seg[s]
    BY <1>2, <2>2
  <2>8. AttachedExact'
    <3>1. seg'[z].attached = seg[z].attached - 1 /\ \A s \in Segments \ {z} : seg'[s].attached = seg[s].attached
      BY <2>3, <2>7
    <3>2. QED
      BY ZenonT(40), <1>2, <1>3, <2>1, <2>2, <2>6, <3>1, CountMoves
  <2>9. PlaceInv(r, seg')
    <3>1. CASE r.at = "out"
      BY ZenonT(40), <1>4, <2>6, <3>1 DEF PlaceInv, Before, CountedPlaces
    <3>2. CASE r.at # "out"
      <4>1. r.seg = z /\ seg'[r.seg] = h /\ h.used = seg[z].used /\ seg[z].used /\ h.ready = seg[z].ready
        BY ZenonT(40), <1>2, <1>3, <1>1, <2>3, <2>6, <2>7, <3>2 DEF PlaceInv
      <4>2. QED
        BY ZenonT(40), <1>2, <1>3, <2>6, <3>2, <4>1 DEF PlaceInv, Before, CountedPlaces
    <3>3. QED
      BY <3>1, <3>2
  <2>10. /\ (seg[z].ready => h.ready) /\ (h.ready => seg[z].ready) /\ seg[z].attached # kRemoving /\ Live(z)
         /\ \A i \in 1 .. SlotCount : h.slots[i] = seg[z].slots[i]
         /\ h \in Header /\ h.used = seg[z].used /\ r.at # "size"
         /\ \A q \in Processes \ {p} : proc[q].at = "unlink" => proc[q].seg # z
         /\ r.at = "unlink" => r.seg = z
    BY ZenonT(40), <1>2, <1>5, <2>1, <2>3, <2>6
  <2>11. QED
    BY ZenonT(60), <1>1, <1>2, <1>3, <2>1, <2>2, <2>6, <2>8, <2>9, <2>10, Writes
<1>7. CASE Seal(p)
  <2>1. proc[p].at = "seal" /\ ~proc[p].counted /\ UNCHANGED <<names, removed>>
    BY <1>2, <1>7 DEF Seal, At, PlaceInv, CountedPlaces
  <2>2. CASE seg[z].attached # 0
    BY <1>7, <2>1, <2>2, StartsAgain DEF Seal, Seg, z
  <2>3. CASE seg[z].attached = 0
    <3> DEFINE r == [proc[p] EXCEPT !.at = "unlink"]
               h == [seg[z] EXCEPT !.attached = kRemoving]
    <3>1. proc' = [proc EXCEPT ![p] = r] /\ seg' = [seg EXCEPT ![z] = h]
      BY <1>2, <1>7, <2>3 DEF Seal, Seg, Goto, z
    <3>2. /\ r \in Process /\ r.at = "unlink" /\ r.seg = z /\ r.created = proc[p].created
          /\ r.counted = proc[p].counted /\ r.slot = proc[p].slot
      BY <1>2 DEF Process, z
    <3>3. /\ h \in Header /\ h.used = seg[z].used /\ h.ready = seg[z].ready /\ h.slots = seg[z].slots
          /\ h.attached = kRemoving
      <4>1. kRemoving \in Int
        BY DEF SegmentConstants
      <4>2. QED
        BY <1>2, <4>1, ZenonT(30) DEF Header
    <3> HIDE DEF r, h
    <3>4. seg'[z] = h /\ \A s \in Segments \ {z} : seg'[s] = seg[s]
      BY <1>2, <3>1
    <3>5. AttachedExact'
      <4>1. \A s \in Segments : \/ seg'[s].attached = seg[s].attached
                                \/ seg[s].attached = 0 /\ seg'[s].attached = kRemoving
        BY <2>3, <3>3, <3>4
      <4>2. QED
        BY ZenonT(40), <1>2, <1>3, <2>1, <3>1, <3>2, <4>1, CountsKept
    <3>6. kRemoving # 0
      <4>1. Cardinality(Processes) \in Nat
        BY FS_CardinalityType DEF SegmentConstants
      <4>2. QED
        BY <4>1 DEF SegmentConstants
    <3>7. PlaceInv(r, seg')
      BY ZenonT(40), <1>2, <1>3, <2>1, <3>2, <3>3, <3>4 DEF PlaceInv, Before, CountedPlaces
    <3>8. /\ (seg[z].ready => h.ready) /\ (h.ready => seg[z].ready) /\ seg[z].attached # kRemoving /\ Live(z)
          /\ \A i \in 1 .. SlotCount : h.slots[i] = seg[z].slots[i]
          /\ h \in Header /\ h.used = seg[z].used /\ r.at # "size" /\ r.slot = 0
          /\ r.created => proc[p].created
          /\ \A q \in Processes \ {p} : proc[q].at = "unlink" => proc[q].seg # z
      BY ZenonT(40), <1>2, <1>3, <1>5, <2>3, <3>2, <3>3, <3>6
    <3>9. QED
      BY ZenonT(40), <1>1, <1>2, <1>3, <2>1, <3>1, <3>2, <3>5, <3>7, <3>8, Writes
  <2>4. QED
    BY <2>2, <2>3
<1>8. CASE Unlink(p)
  <2>1. /\ proc[p].at = "unlink" /\ ~proc[p].counted /\ seg' = seg /\ removed' = removed
        /\ names' = NoSegment /\ proc' = [proc EXCEPT ![p] = Away]
    BY ZenonT(40), <1>2, <1>8 DEF Unlink, At, PlaceInv, CountedPlaces
  <2>2. Steady(p, seg, seg')
    BY ZenonT(40), <2>1 DEF Steady
  <2>3. seg' \in [Segments -> Header] /\ removed' \in BOOLEAN /\ names' \in Segments \cup {NoSegment}
    BY ZenonT(40), <1>2, <2>1 DEF ProcsInv
  <2>4. \A s \in Segments : (~seg'[s].used => ~seg'[s].ready) /\ (names' = s => seg'[s].used)
    BY ZenonT(40), <1>2, <2>1 DEF ProcsInv, SegmentConstants
  <2>5. ProcsInv'
    BY ZenonT(40), <1>2, <1>4, <2>1, <2>2, <2>3, <2>4, OthersKept
  <2>6. AttachedExact'
    BY ZenonT(40), <1>2, <1>4, <2>1, CountsKept
  <2>7. NameInv'
    BY ZenonT(40), <1>2, <1>4, <2>1, NameGone
  <2>8. QED
    BY <2>5, <2>6, <2>7 DEF SegmentInv
<1>9. QED
  BY <1>6, <1>7, <1>8

\* Every step of the segment protocol keeps the inductive invariant.
LEMMA SegmentKept ==
  ASSUME SegmentConstants, SegmentInv, [Next]_segVars
  PROVE  SegmentInv'
<1>1. ASSUME NEW p \in Processes,
             \/ \E mode \in Modes : Start(p, mode)
             \/ CreateExclusive(p) \/ OpenExisting(p) \/ SizeSegment(p) \/ AwaitReady(p)
             \/ Count(p) \/ ClaimProcessSlot(p) \/ MarkReady(p)
             \/ Leave(p) \/ FreeSlot(p) \/ Uncount(p) \/ Seal(p) \/ Unlink(p)
      PROVE  SegmentInv'
  BY <1>1, OpenSteps, CountSteps, UseSteps, LeaveSteps
<1>2. CASE Remove
  <2>1. proc' = proc /\ seg' = seg /\ names' = NoSegment /\ removed' = TRUE
    BY <1>2 DEF Remove
  <2>2. ProcsInv'
    <3>1. ProcsInv /\ NoSegment \notin Segments
      BY DEF SegmentInv, SegmentConstants
    <3>2. \A r : PlaceInv(r, seg') <=> PlaceInv(r, seg)
      BY <2>1
    <3>3. QED
      BY ZenonT(40), <2>1, <3>1, <3>2 DEF ProcsInv
  <2>3. AttachedExact' /\ NameInv'
    BY <2>1 DEF SegmentInv, AttachedExact, NameInv
  <2>4. QED
    BY <2>2, <2>3 DEF SegmentInv
<1>3. CASE UNCHANGED segVars
  <2>1. proc' = proc /\ seg' = seg /\ names' = names /\ removed' = removed
    BY <1>3 DEF segVars
  <2>2. ProcsInv'
    <3>1. ProcsInv
      BY DEF SegmentInv
    <3>2. \A r : PlaceInv(r, seg') <=> PlaceInv(r, seg)
      BY <2>1
    <3>3. QED
      BY ZenonT(40), <2>1, <3>1, <3>2 DEF ProcsInv
  <2>3. AttachedExact' /\ NameInv'
    BY <2>1 DEF SegmentInv, AttachedExact, NameInv, Live
  <2>4. QED
    BY <2>2, <2>3 DEF SegmentInv
<1>4. QED
  BY <1>1, <1>2, <1>3 DEF Next

\* The inductive invariant holds of every reachable state.
LEMMA SegmentSafe ==
  ASSUME SegmentConstants
  PROVE  Spec => []SegmentInv
<1>1. ASSUME Init PROVE SegmentInv
  <2>1. /\ names = NoSegment /\ removed = FALSE
        /\ seg = [s \in Segments |-> Fresh] /\ proc = [p \in Processes |-> Away]
    BY <1>1 DEF Init
  <2>2. /\ Fresh \in Header /\ ~Fresh.used /\ ~Fresh.ready /\ Fresh.attached = 0
    <3>1. 0 \in Int /\ [i \in 1 .. SlotCount |-> NoProcess] \in [1 .. SlotCount -> Processes \cup {NoProcess}]
      OBVIOUS
    <3>2. QED
      BY <3>1, Zenon DEF Fresh, Header
  <2>3. /\ Away \in Process /\ ~Away.counted /\ Away.slot = 0 /\ ~Away.created /\ Away.at = "out" /\ Away.seg = NoSegment
        /\ PlaceInv(Away, seg)
    BY Outside
  <2>4. \A s \in Segments : seg[s] = Fresh
    BY <2>1
  <2>5. \A p \in Processes : proc[p] = Away
    BY <2>1
  <2>6. seg \in [Segments -> Header] /\ proc \in [Processes -> Process]
    BY <2>1, <2>2, <2>3
  <2>7. ProcsInv
    BY ZenonT(40), <2>1, <2>2, <2>3, <2>4, <2>5, <2>6 DEF ProcsInv, SegmentConstants
  <2>8. AttachedExact
    BY <2>2, <2>3, <2>4, <2>5 DEF AttachedExact
  <2>9. NameInv
    BY <2>2, <2>3, <2>4, <2>5 DEF NameInv, Live
  <2>10. QED
    BY <2>7, <2>8, <2>9 DEF SegmentInv
<1>2. ASSUME SegmentInv, [Next]_segVars PROVE SegmentInv'
  BY <1>2, SegmentKept
<1>3. QED
  BY <1>1, <1>2, PTL DEF Spec

\* AttachMapping, ReleaseSegment: the attached count of every segment is the
\* number of the processes that count themselves in, whatever the number of
\* processes, so it reads zero only when the last user has left.
THEOREM AttachedCounts ==
  ASSUME SegmentConstants
  PROVE  Spec => []AttachedExact
<1>1. SegmentInv => AttachedExact
  BY DEF SegmentInv
<1>2. QED
  BY <1>1, SegmentSafe, PTL

\* OpenOrCreateSharedSegment: unless the name is removed by hand, no open makes
\* a second cache beside the one that is in use, for any number of processes
\* that create, attach, seal and unlink at once.
THEOREM OneCacheOnly ==
  ASSUME SegmentConstants
  PROVE  Spec => []OneCache
<1>1. ASSUME SegmentInv, ~removed, NEW p \in Processes, At(p, "user")
      PROVE  names = Seg(p)
  <2>1. proc[p].at = "user" /\ proc[p].at \notin Before
    BY <1>1 DEF At, Before
  <2>2. /\ proc[p].seg \in Segments /\ PlaceInv(proc[p], seg)
        /\ proc[p].counted => seg[proc[p].seg].attached # kRemoving
        /\ seg[proc[p].seg].attached # kRemoving => Live(proc[p].seg)
    BY ZenonT(40), <1>1, <2>1, Inside
  <2>3. proc[p].counted
    BY <2>1, <2>2 DEF PlaceInv, CountedPlaces
  <2>4. QED
    BY <1>1, <2>2, <2>3 DEF SegmentInv, NameInv, Seg
<1>2. SegmentInv => OneCache
  BY <1>1 DEF OneCache
<1>3. QED
  BY <1>2, SegmentSafe, PTL

\* AttachMapping, ClaimProcessSlot: a process that uses a segment finds the
\* pool built, the segment not sealed, and its own id in the process slot that
\* it claimed there.
THEOREM UsersAtHome ==
  ASSUME SegmentConstants
  PROVE  Spec => [](UsersFindAPool /\ SlotsOwned)
<1>1. ASSUME SegmentInv, NEW p \in Processes, At(p, "user")
      PROVE  /\ seg[Seg(p)].ready /\ seg[Seg(p)].attached # kRemoving
             /\ seg[Seg(p)].slots[proc[p].slot] = p
  <2>1. proc[p].at = "user" /\ proc[p].at \notin Before
    BY <1>1 DEF At, Before
  <2>2. /\ proc[p].seg \in Segments /\ PlaceInv(proc[p], seg) /\ ProcsInv
        /\ proc[p].counted => seg[proc[p].seg].attached # kRemoving
    BY ZenonT(40), <1>1, <2>1, Inside DEF SegmentInv
  <2>3. proc[p].counted /\ seg[proc[p].seg].ready /\ proc[p].slot # 0
    BY <2>1, <2>2 DEF PlaceInv, CountedPlaces
  <2>4. QED
    BY <1>1, <2>2, <2>3 DEF ProcsInv, Seg
<1>2. SegmentInv => UsersFindAPool /\ SlotsOwned
  BY <1>1 DEF UsersFindAPool, SlotsOwned
<1>3. QED
  BY <1>2, SegmentSafe, PTL

=============================================================================
