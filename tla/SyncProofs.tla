----------------------------- MODULE SyncProofs -----------------------------
(***************************************************************************)
(* What threads agree on through words and lists they share, proved for    *)
(* any number of them: the lists of written files that a sync consumes,    *)
(* the futex mutex, and sleeping on a frame's control word.                *)
(***************************************************************************)
EXTENDS Durability, Integers, TLAPS

-----------------------------------------------------------------------------
(* What a sync makes durable.                                              *)

Versions == [Files -> Int]

RoundPlaces == {"write", "complete", "completefail"}
PagePlaces == {"queue", "wait", "record", "rounddone"}
HeldPlaces == {"takeshared", "erase", "eraseshared", "submit", "note"}

Caller ==
  [pc : {"idle", "sweep", "take", "syncing", "ok"} \cup RoundPlaces \cup PagePlaces \cup HeldPlaces,
   op : {"none", "flush", "flushall", "syncfile"}, todo : SUBSET Files, file : Files \cup {NoFile},
   loop : BOOLEAN, snap : Int, files : SUBSET Files, mark : Versions,
   ret : {"idle", "ok", "rounddone"},
   before : [page : Versions, os : Versions, acked : Versions]]

\* The writeback of a page belongs to one round, whose copy is no older than
\* what the backend has.
RoundInv(t) ==
  th[t].pc \in RoundPlaces =>
    /\ th[t].file \in Files
    /\ HasWriteback(control[th[t].file])
    /\ \A u \in Threads : u # t /\ th[u].pc \in RoundPlaces => th[u].file # th[t].file
    /\ os[th[t].file] <= th[t].snap
    /\ th[t].snap <= page[th[t].file]

\* A call with a page in hand is not a SyncFile.
PageInv(r) ==
  /\ r.pc \in PagePlaces => r.file \in Files
  /\ r.pc \in HeldPlaces \cup {"syncing"} /\ r.ret = "rounddone" => r.file \in Files
  /\ r.pc \in PagePlaces \cup RoundPlaces \cup {"take", "takeshared", "sweep"} => r.op # "syncfile"

WriteInv ==
  /\ page \in Versions /\ os \in Versions /\ durable \in Versions /\ acked \in Versions
  /\ local \in [Processes -> SUBSET Files] /\ shared \in SUBSET Files
  /\ control \in [Files -> ControlWord]
  /\ th \in [Threads -> Caller]
  /\ \A f \in Files : os[f] <= page[f]
  /\ \A t \in Threads : RoundInv(t) /\ PageInv(th[t])

\* A SyncFile has its file in hand until its sync, and what it found at its
\* start is in the sync that it waits for.  o and d are os and durable.
SyncInv(r, o, d) ==
  r.op = "syncfile" =>
    /\ r.file \in Files /\ r.ret = "ok"
    /\ r.before.os[r.file] <= o[r.file]
    /\ r.pc \in {"erase", "eraseshared", "submit", "syncing"} => r.files = {r.file}
    /\ r.pc = "syncing" => r.before.os[r.file] <= r.mark[r.file]
    /\ r.pc = "ok" => r.before.os[r.file] <= d[r.file]

\* A thread that will see to the file f.
Holds(r, f, o) ==
  \/ r.pc \in {"complete", "record"} /\ r.file = f
  \/ r.pc \in HeldPlaces /\ f \in r.files
  \/ r.pc = "syncing" /\ f \in r.files /\ r.mark[f] = o[f]

\* The inductive invariant behind NoWriteForgotten and SyncFileDurable.
DurableInv ==
  /\ WriteInv
  /\ \A t \in Threads : SyncInv(th[t], os, durable)
  /\ NoWriteForgotten

\* A step of one thread that touches no page and no version of the backend.
LEMMA PagesKept ==
  ASSUME WriteInv, NEW t \in Threads, NEW r \in Caller, th' = [th EXCEPT ![t] = r],
         r.pc \notin RoundPlaces, PageInv(r), UNCHANGED <<control, page, os>>,
         durable' \in Versions, acked' \in Versions,
         local' \in [Processes -> SUBSET Files], shared' \in SUBSET Files
  PROVE  WriteInv'
<1>1. th' \in [Threads -> Caller] /\ \A u \in Threads : th'[u] = IF u = t THEN r ELSE th[u]
  BY DEF WriteInv
<1>2. ASSUME NEW u \in Threads PROVE RoundInv(u)' /\ PageInv(th'[u])
  BY <1>1 DEF WriteInv, RoundInv
<1>3. QED
  BY <1>1, <1>2 DEF WriteInv, PageInv

\* What one thread does keeps every SyncFile sound when the backend and the
\* disk lose nothing.
LEMMA SyncsKept ==
  ASSUME \A u \in Threads : SyncInv(th[u], os, durable), WriteInv, WriteInv',
         NEW t \in Threads, NEW r \in Caller, th' = [th EXCEPT ![t] = r],
         \A f \in Files : os[f] <= os'[f] /\ durable[f] <= durable'[f],
         SyncInv(r, os', durable')
  PROVE  \A u \in Threads : SyncInv(th'[u], os', durable')
<1> SUFFICES ASSUME NEW u \in Threads PROVE SyncInv(th'[u], os', durable')
  OBVIOUS
<1>1. CASE u = t
  BY <1>1 DEF WriteInv
<1>2. CASE u # t
  <2>1. th'[u] = th[u] /\ th[u] \in Caller /\ SyncInv(th[u], os, durable)
    BY <1>2 DEF WriteInv
  <2>2. /\ os \in Versions /\ os' \in Versions /\ durable \in Versions /\ durable' \in Versions
        /\ th[u].before.os \in Versions
    BY <2>1 DEF WriteInv, Caller
  <2>3. QED
    BY <2>1, <2>2 DEF SyncInv, Versions
<1>3. QED
  BY <1>1, <1>2

\* A file that was seen to is seen to after a step of t, when t sees to it now,
\* or it is on a list, or nothing about it changed and t did not hold it.
LEMMA StillSeenTo ==
  ASSUME NoWriteForgotten, WriteInv, WriteInv', NEW t \in Threads, NEW r \in Caller,
         th' = [th EXCEPT ![t] = r],
         \A f \in Files : os'[f] > durable'[f] =>
           \/ f \in shared' \/ \E p \in Processes : f \in local'[p]
           \/ Holds(r, f, os')
           \/ /\ os'[f] = os[f] /\ durable'[f] >= durable[f] /\ ~Holds(th[t], f, os)
              /\ f \in shared => f \in shared'
              /\ \A p \in Processes : f \in local[p] => f \in local'[p]
  PROVE  NoWriteForgotten'
<1> DEFINE Seen(f) == f \in shared \/ (\E p \in Processes : f \in local[p]) \/ (\E u \in Threads : Holds(th[u], f, os))
<1>1. NoWriteForgotten = \A f \in Files : os[f] > durable[f] => Seen(f)
  BY DEF NoWriteForgotten, Holds, HeldPlaces, At
<1>2. NoWriteForgotten' = \A f \in Files : os'[f] > durable'[f] =>
          \/ f \in shared' \/ (\E p \in Processes : f \in local'[p])
          \/ \E u \in Threads : Holds(th'[u], f, os')
  BY DEF NoWriteForgotten, Holds, HeldPlaces, At
<1>3. SUFFICES ASSUME NEW f \in Files, os'[f] > durable'[f], f \notin shared', \A p \in Processes : f \notin local'[p]
               PROVE  \E u \in Threads : Holds(th'[u], f, os')
  BY <1>2
<1>4. \A u \in Threads : th'[u] = IF u = t THEN r ELSE th[u]
  BY DEF WriteInv
<1>5. CASE Holds(r, f, os')
  BY <1>4, <1>5
<1>6. CASE ~Holds(r, f, os')
  <2>1. /\ os'[f] = os[f] /\ durable'[f] >= durable[f] /\ ~Holds(th[t], f, os)
        /\ f \notin shared /\ \A p \in Processes : f \notin local[p]
    BY <1>3, <1>6
  <2>2. os[f] \in Int /\ durable[f] \in Int /\ durable'[f] \in Int
    BY DEF WriteInv, Versions
  <2>3. os[f] > durable[f]
    BY <1>3, <2>1, <2>2
  <2>4. PICK u \in Threads : Holds(th[u], f, os)
    BY ZenonT(40), <1>1, <2>1, <2>3
  <2>5. u # t /\ Holds(th[u], f, os')
    BY <2>1, <2>4 DEF Holds
  <2>6. QED
    BY <1>4, <2>5
<1>7. QED
  BY <1>5, <1>6

\* The files that t may stop seeing to: those on a list, and those it did not
\* hold, when the lists keep them.
SeenTo(t, r, f) ==
  \/ f \in shared' \/ \E p \in Processes : f \in local'[p]
  \/ Holds(r, f, os)
  \/ /\ ~Holds(th[t], f, os)
     /\ f \in shared => f \in shared'
     /\ \A p \in Processes : f \in local[p] => f \in local'[p]

\* A step of one thread that touches no page and no version of the backend.
LEMMA Steady ==
  ASSUME DurableInv, NEW t \in Threads, NEW r \in Caller, th' = [th EXCEPT ![t] = r],
         r.pc \notin RoundPlaces, PageInv(r), UNCHANGED <<control, page, os>>,
         durable' \in Versions, \A f \in Files : durable[f] <= durable'[f], acked' \in Versions,
         local' \in [Processes -> SUBSET Files], shared' \in SUBSET Files,
         SyncInv(r, os, durable'),
         \A f \in Files : os[f] > durable'[f] => SeenTo(t, r, f)
  PROVE  DurableInv'
<1>1. WriteInv /\ (\A u \in Threads : SyncInv(th[u], os, durable)) /\ NoWriteForgotten
  BY DEF DurableInv
<1>2. WriteInv'
  BY ZenonT(40), <1>1, PagesKept
<1>3. \A f \in Files : os[f] <= os'[f]
  BY <1>1 DEF WriteInv, Versions
<1>4. \A u \in Threads : SyncInv(th'[u], os', durable')
  BY ZenonT(40), <1>1, <1>2, <1>3, SyncsKept
<1>5. \A f \in Files : durable'[f] >= durable[f]
  BY <1>1 DEF WriteInv, Versions
<1>6. NoWriteForgotten'
  BY ZenonT(40), <1>1, <1>2, <1>5, StillSeenTo DEF SeenTo
<1>7. (\A u \in Threads : SyncInv(th[u], os, durable))'
  BY <1>4 DEF SyncInv
<1>8. QED
  BY <1>2, <1>6, <1>7 DEF DurableInv

\* The same, when only the thread itself changes.
LEMMA Inward ==
  ASSUME DurableInv, NEW t \in Threads, NEW r \in Caller, th' = [th EXCEPT ![t] = r],
         r.pc \notin RoundPlaces, PageInv(r), UNCHANGED <<control, page, os, durable, local, shared>>,
         acked' \in Versions, SyncInv(r, os, durable),
         \A f \in Files : Holds(th[t], f, os) => Holds(r, f, os)
  PROVE  DurableInv'
<1>1. /\ durable \in Versions /\ local \in [Processes -> SUBSET Files] /\ shared \in SUBSET Files
  BY DEF DurableInv, WriteInv
<1>2. \A f \in Files : durable[f] <= durable'[f]
  BY <1>1 DEF Versions
<1>3. \A f \in Files : SeenTo(t, r, f)
  BY DEF SeenTo
<1>4. QED
  BY ZenonT(40), <1>1, <1>2, <1>3, Steady

\* Where Goto takes a thread.
Gone(r, l) ==
  CASE l = "idle" -> IdleThread
    [] l = "sweep" -> [r EXCEPT !.pc = l, !.file = NoFile, !.snap = 0, !.loop = FALSE]
    [] OTHER -> [r EXCEPT !.pc = l]

\* A thread that goes on keeps what its call remembers.
LEMMA GoesOn ==
  ASSUME WriteInv, NEW t \in Threads,
         NEW l \in {"idle", "sweep", "take", "syncing", "ok"} \cup RoundPlaces \cup PagePlaces \cup HeldPlaces,
         Goto(t, l)
  PROVE  /\ th' = [th EXCEPT ![t] = Gone(th[t], l)]
         /\ Gone(th[t], l) \in Caller /\ Gone(th[t], l).pc = l
         /\ l = "idle" => Gone(th[t], l).op = "none"
         /\ l # "idle" => LET r == Gone(th[t], l) IN
              /\ r.op = th[t].op /\ r.files = th[t].files /\ r.mark = th[t].mark
              /\ r.ret = th[t].ret /\ r.before = th[t].before
              /\ l # "sweep" => r.file = th[t].file /\ r.snap = th[t].snap
<1>1. th[t] \in Caller
  BY DEF WriteInv
<1>2. th' = [th EXCEPT ![t] = Gone(th[t], l)]
  BY DEF Goto, Gone, WriteInv
<1>3. IdleThread \in Caller /\ IdleThread.op = "none" /\ IdleThread.pc = "idle"
  BY DEF IdleThread, Caller, Versions, ZeroVersions
<1>4. CASE l = "idle"
  BY <1>2, <1>3, <1>4 DEF Gone
<1>5. CASE l = "sweep"
  <2>1. Gone(th[t], l) = [th[t] EXCEPT !.pc = l, !.file = NoFile, !.snap = 0, !.loop = FALSE]
    BY <1>5 DEF Gone
  <2>2. 0 \in Int
    OBVIOUS
  <2>3. Gone(th[t], l) \in Caller
    BY <1>1, <1>5, <2>1, <2>2, ZenonT(30) DEF Caller
  <2>4. QED
    BY ZenonT(40), <1>1, <1>2, <1>5, <2>1, <2>3 DEF Caller
<1>6. CASE l # "idle" /\ l # "sweep"
  <2>1. Gone(th[t], l) = [th[t] EXCEPT !.pc = l]
    BY <1>6 DEF Gone
  <2>2. QED
    BY <1>1, <1>2, <1>6, <2>1 DEF Caller
<1>7. QED
  BY <1>4, <1>5, <1>6

\* A call starts.
LEMMA StartSteps ==
  ASSUME DurableInv, NEW t \in Threads,
         StartFlushAll(t) \/ \E f \in Files : StartFlush(t, f) \/ StartSyncFile(t, f)
  PROVE  DurableInv'
<1>1. /\ page \in Versions /\ os \in Versions /\ acked \in Versions /\ th \in [Threads -> Caller]
      /\ durable \in Versions
  BY DEF DurableInv, WriteInv
<1>2. IdleThread \in Caller /\ IdleThread.before.os = ZeroVersions /\ ZeroVersions \in Versions
  BY DEF IdleThread, Caller, Versions, ZeroVersions
<1>3. th[t].pc = "idle"
  BY ZenonT(40) DEF StartFlushAll, StartFlush, StartSyncFile, At
<1>4. \A f \in Files : ~Holds(th[t], f, os)
  BY <1>3 DEF Holds, HeldPlaces
<1>5. CASE StartFlushAll(t)
  <2> DEFINE r == [IdleThread EXCEPT !.pc = "sweep", !.op = "flushall", !.todo = Files,
                                     !.before.page = page, !.before.acked = acked]
  <2>1. r \in Caller /\ r.pc = "sweep" /\ r.op = "flushall"
    BY ZenonT(40), <1>1, <1>2 DEF Caller
  <2>2. th' = [th EXCEPT ![t] = r]
    BY <1>5 DEF StartFlushAll
  <2> HIDE DEF r
  <2>3. PageInv(r) /\ SyncInv(r, os, durable) /\ r.pc \notin RoundPlaces
    BY <2>1 DEF PageInv, PagePlaces, HeldPlaces, SyncInv, RoundPlaces
  <2>4. QED
    BY ZenonT(40), <1>1, <1>4, <1>5, <2>1, <2>2, <2>3, Inward DEF StartFlushAll, pageVars, listVars
<1>6. ASSUME NEW f \in Files, StartFlush(t, f) PROVE DurableInv'
  <2> DEFINE r == [IdleThread EXCEPT !.pc = "queue", !.op = "flush", !.file = f, !.loop = TRUE]
  <2>1. r \in Caller /\ r.pc = "queue" /\ r.op = "flush" /\ r.file = f
    BY ZenonT(40), <1>2 DEF Caller, PagePlaces
  <2>2. th' = [th EXCEPT ![t] = r]
    BY ZenonT(40), <1>6 DEF StartFlush
  <2> HIDE DEF r
  <2>3. PageInv(r) /\ SyncInv(r, os, durable) /\ r.pc \notin RoundPlaces
    BY <2>1 DEF PageInv, PagePlaces, HeldPlaces, SyncInv, RoundPlaces
  <2>4. QED
    BY ZenonT(40), <1>1, <1>4, <1>6, <2>1, <2>2, <2>3, Inward DEF StartFlush, pageVars, listVars
<1>7. ASSUME NEW f \in Files, StartSyncFile(t, f) PROVE DurableInv'
  <2> DEFINE v == [ZeroVersions EXCEPT ![f] = os[f]]
             r == [IdleThread EXCEPT !.pc = "erase", !.op = "syncfile", !.file = f,
                                     !.files = {f}, !.ret = "ok", !.before.os = v]
  <2>1. v \in Versions /\ v[f] = os[f] /\ os[f] \in Int
    BY <1>1, <1>2 DEF Versions
  <2> HIDE DEF v
  <2>2. r \in Caller
    BY ZenonT(40), <1>2, <2>1 DEF Caller, HeldPlaces
  <2>3. r.pc = "erase" /\ r.file = f /\ r.files = {f} /\ r.ret = "ok" /\ r.before.os = v
    BY <1>2 DEF Caller
  <2>4. th' = [th EXCEPT ![t] = r]
    BY ZenonT(40), <1>7 DEF StartSyncFile, v
  <2> HIDE DEF r
  <2>5. PageInv(r) /\ SyncInv(r, os, durable) /\ r.pc \notin RoundPlaces
    BY <2>1, <2>3 DEF PageInv, PagePlaces, HeldPlaces, SyncInv, RoundPlaces
  <2>6. QED
    BY ZenonT(40), <1>1, <1>4, <1>7, <2>2, <2>4, <2>5, Inward DEF StartSyncFile, pageVars, listVars
<1>8. QED
  BY <1>5, <1>6, <1>7

\* The steps of a call that change neither a page nor a list.
LEMMA InwardSteps ==
  ASSUME DurableInv, NEW t \in Threads,
         \/ Sweep(t) \/ WaitForPendingFlush(t) \/ RoundDone(t) \/ SubmitSync(t) \/ NotedAll(t)
         \/ ReturnOk(t)
  PROVE  DurableInv'
<1>1. /\ WriteInv /\ page \in Versions /\ os \in Versions /\ acked \in Versions
      /\ durable \in Versions /\ th \in [Threads -> Caller] /\ th[t] \in Caller
      /\ PageInv(th[t]) /\ SyncInv(th[t], os, durable)
  BY DEF DurableInv, WriteInv
<1>2. ASSUME NEW l \in {"idle", "sweep", "take", "ok"} \cup PagePlaces,
             Goto(t, l), l # "idle" /\ l # "ok" => th[t].op # "syncfile", l \in PagePlaces => th[t].file \in Files,
             l = "ok" /\ th[t].op = "syncfile" => th[t].before.os[th[t].file] <= durable[th[t].file],
             UNCHANGED <<control, page, os, durable, local, shared>>,
             acked' \in Versions, \A f \in Files : ~Holds(th[t], f, os)
      PROVE  DurableInv'
  <2> DEFINE r == Gone(th[t], l)
  <2>1. /\ th' = [th EXCEPT ![t] = r] /\ r \in Caller /\ r.pc = l
        /\ l = "idle" => r.op = "none"
        /\ l # "idle" => r.op = th[t].op /\ r.before = th[t].before /\ r.ret = th[t].ret
        /\ l # "idle" /\ l # "sweep" => r.file = th[t].file
    BY <1>1, <1>2, GoesOn
  <2> HIDE DEF r
  <2>2. PageInv(r) /\ r.pc \notin RoundPlaces
    BY <1>2, <2>1 DEF PageInv, PagePlaces, HeldPlaces, RoundPlaces
  <2>3. SyncInv(r, os, durable)
    BY <1>1, <1>2, <2>1 DEF SyncInv, PagePlaces
  <2>4. QED
    BY ZenonT(40), <1>2, <2>1, <2>2, <2>3, Inward
<1>3. CASE Sweep(t)
  <2>1. th[t].pc = "sweep" /\ \A f \in Files : ~Holds(th[t], f, os)
    BY ZenonT(40), <1>3 DEF Sweep, At, Holds, HeldPlaces
  <2>2. th[t].op # "syncfile"
    BY <1>1, <2>1 DEF PageInv
  <2>3. ASSUME NEW f \in th[t].todo,
               th' = [th EXCEPT ![t].pc = "queue", ![t].todo = @ \ {f}, ![t].file = f, ![t].loop = FALSE]
        PROVE  DurableInv'
    <3> DEFINE r == [th[t] EXCEPT !.pc = "queue", !.todo = @ \ {f}, !.file = f, !.loop = FALSE]
    <3>1. f \in Files
      BY <1>1 DEF Caller
    <3>2. r \in Caller /\ r.pc = "queue" /\ r.op = th[t].op /\ r.file = f
      BY ZenonT(40), <1>1, <3>1 DEF Caller, PagePlaces
    <3>3. th' = [th EXCEPT ![t] = r]
      BY ZenonT(40), <1>1, <2>3
    <3> HIDE DEF r
    <3>4. PageInv(r) /\ SyncInv(r, os, durable) /\ r.pc \notin RoundPlaces
      BY <2>2, <3>1, <3>2 DEF PageInv, PagePlaces, HeldPlaces, SyncInv, RoundPlaces
    <3>5. QED
      BY ZenonT(40), <1>1, <1>3, <2>1, <3>2, <3>3, <3>4, Inward DEF Sweep, pageVars, listVars
  <2>4. CASE Goto(t, "take")
    BY ZenonT(40), <1>1, <1>2, <1>3, <2>1, <2>2, <2>4 DEF Sweep, pageVars, listVars, PagePlaces
  <2>5. QED
    BY ZenonT(40), <1>3, <2>3, <2>4 DEF Sweep
<1>4. CASE WaitForPendingFlush(t)
  <2>1. th[t].pc = "wait" /\ \A f \in Files : ~Holds(th[t], f, os)
    BY <1>4 DEF WaitForPendingFlush, At, Holds, HeldPlaces
  <2>2. th[t].op # "syncfile" /\ th[t].file \in Files
    BY <1>1, <2>1 DEF PageInv, PagePlaces
  <2>3. QED
    BY <1>1, <1>2, <1>4, <2>1, <2>2 DEF WaitForPendingFlush, pageVars, listVars, PagePlaces
<1>5. CASE RoundDone(t)
  <2>1. th[t].pc = "rounddone" /\ \A f \in Files : ~Holds(th[t], f, os)
    BY <1>5 DEF RoundDone, At, Holds, HeldPlaces
  <2>2. th[t].op # "syncfile" /\ th[t].file \in Files
    BY <1>1, <2>1 DEF PageInv, PagePlaces
  <2>3. acked' \in Versions
    BY ZenonT(40), <1>1, <1>5 DEF RoundDone, Versions, Caller
  <2>4. QED
    BY <1>1, <1>2, <1>5, <2>1, <2>2, <2>3 DEF RoundDone, pageVars, listVars, PagePlaces, AfterPage
<1>6. CASE SubmitSync(t)
  <2>1. th[t].pc = "submit" /\ UNCHANGED <<control, page, os, durable, local, shared, acked>>
    BY <1>6 DEF SubmitSync, At, pageVars, listVars
  <2>2. CASE th[t].files = {}
    <3>1. Goto(t, th[t].ret) /\ \A f \in Files : ~Holds(th[t], f, os)
      BY <1>6, <2>1, <2>2 DEF SubmitSync, Holds, HeldPlaces
    <3>2. th[t].op # "syncfile"
      BY <1>1, <2>1, <2>2 DEF SyncInv
    <3>3. th[t].ret \in {"idle", "ok", "rounddone"}
      BY <1>1 DEF Caller
    <3>4. th[t].ret = "rounddone" => th[t].file \in Files
      BY <1>1, <2>1 DEF PageInv, HeldPlaces
    <3>5. QED
      BY <1>1, <1>2, <2>1, <3>1, <3>2, <3>3, <3>4 DEF PagePlaces
  <2>3. CASE th[t].files # {}
    <3> DEFINE r == [th[t] EXCEPT !.pc = "syncing", !.mark = os]
    <3>1. /\ r \in Caller /\ r.pc = "syncing" /\ r.op = th[t].op /\ r.file = th[t].file
          /\ r.files = th[t].files /\ r.mark = os /\ r.ret = th[t].ret /\ r.before = th[t].before
      BY ZenonT(40), <1>1 DEF Caller
    <3>2. th' = [th EXCEPT ![t] = r]
      BY ZenonT(40), <1>1, <1>6, <2>3 DEF SubmitSync
    <3> HIDE DEF r
    <3>3. PageInv(r) /\ SyncInv(r, os, durable) /\ r.pc \notin RoundPlaces
      BY <1>1, <2>1, <3>1 DEF PageInv, PagePlaces, HeldPlaces, SyncInv, RoundPlaces
    <3>4. \A f \in Files : Holds(th[t], f, os) => Holds(r, f, os)
      BY <2>1, <3>1 DEF Holds, HeldPlaces
    <3>5. QED
      BY ZenonT(40), <1>1, <2>1, <3>1, <3>2, <3>3, <3>4, Inward
  <2>4. QED
    BY <2>2, <2>3
<1>7. CASE NotedAll(t)
  <2>1. th[t].pc = "note" /\ \A f \in Files : ~Holds(th[t], f, os)
    BY <1>7 DEF NotedAll, At, Holds, HeldPlaces
  <2>2. th[t].ret = "rounddone" => th[t].file \in Files /\ th[t].op # "syncfile"
    BY <1>1, <2>1 DEF PageInv, HeldPlaces, SyncInv
  <2>3. QED
    BY <1>1, <1>2, <1>7, <2>1, <2>2 DEF NotedAll, pageVars, listVars, PagePlaces
<1>8. CASE ReturnOk(t)
  <2>1. th[t].pc = "ok" /\ \A f \in Files : ~Holds(th[t], f, os)
    BY <1>8 DEF ReturnOk, At, Holds, HeldPlaces
  <2>2. QED
    BY <1>1, <1>2, <1>8, <2>1 DEF ReturnOk, pageVars, listVars, PagePlaces
<1>9. QED
  BY <1>3, <1>4, <1>5, <1>6, <1>7, <1>8

\* The steps that move files between the lists and the hands of a thread.
LEMMA ListSteps ==
  ASSUME ThreadsHaveHomes, DurableInv, NEW t \in Threads,
         \/ RecordWrittenFile(t) \/ TakeLocal(t) \/ TakeShared(t) \/ EraseLocal(t) \/ EraseShared(t)
         \/ NoteWrittenFile(t)
  PROVE  DurableInv'
<1> DEFINE h == Home(t)
<1>1. /\ WriteInv /\ acked \in Versions /\ durable \in Versions
      /\ local \in [Processes -> SUBSET Files] /\ shared \in SUBSET Files
      /\ th \in [Threads -> Caller] /\ th[t] \in Caller /\ th[t].files \in SUBSET Files
      /\ PageInv(th[t]) /\ SyncInv(th[t], os, durable)
  BY DEF DurableInv, WriteInv, Caller
<1>2. h \in Processes
  BY DEF ThreadsHaveHomes, Home
<1> HIDE DEF h
<1>3. UNCHANGED <<control, page, os, durable, acked>>
  BY DEF RecordWrittenFile, TakeLocal, TakeShared, EraseLocal, EraseShared, NoteWrittenFile, pageVars
<1>4. ASSUME NEW r \in Caller, th' = [th EXCEPT ![t] = r], r.pc \notin RoundPlaces, PageInv(r),
             local' \in [Processes -> SUBSET Files], shared' \in SUBSET Files,
             SyncInv(r, os, durable), \A f \in Files : SeenTo(t, r, f)
      PROVE  DurableInv'
  <2>1. \A f \in Files : durable[f] <= durable'[f]
    BY <1>1, <1>3 DEF Versions
  <2>2. QED
    BY ZenonT(40), <1>1, <1>3, <1>4, <2>1, Steady
<1>5. ASSUME NEW f \in Files, Recorded(h, f)
      PROVE  /\ local' \in [Processes -> SUBSET Files] /\ shared' \in SUBSET Files
             /\ f \in shared' \/ f \in local'[h]
             /\ shared \subseteq shared' /\ \A p \in Processes : local[p] \subseteq local'[p]
  BY <1>1, <1>2, <1>5 DEF Recorded
<1>6. CASE RecordWrittenFile(t)
  <2>1. th[t].pc = "record" /\ th[t].file \in Files /\ th[t].op # "syncfile"
    BY <1>1, <1>6 DEF RecordWrittenFile, At, PageInv, PagePlaces
  <2>2. \A f \in Files : Holds(th[t], f, os) => f = th[t].file
    BY <2>1 DEF Holds, HeldPlaces
  <2>3. CASE Recorded(h, th[t].file) /\ Goto(t, "rounddone")
    <3> DEFINE r == Gone(th[t], "rounddone")
    <3>1. th' = [th EXCEPT ![t] = r] /\ r \in Caller /\ r.pc = "rounddone" /\ r.op = th[t].op /\ r.file = th[t].file
      BY <1>1, <2>3, GoesOn DEF PagePlaces
    <3> HIDE DEF r
    <3>2. PageInv(r) /\ SyncInv(r, os, durable) /\ r.pc \notin RoundPlaces
      BY <2>1, <3>1 DEF PageInv, PagePlaces, HeldPlaces, SyncInv, RoundPlaces
    <3>3. \A f \in Files : SeenTo(t, r, f)
      BY <1>2, <1>5, <2>1, <2>2, <2>3 DEF SeenTo
    <3>4. QED
      BY ZenonT(40), <1>4, <1>5, <2>1, <2>3, <3>1, <3>2, <3>3
  <2>4. CASE /\ th' = [th EXCEPT ![t].pc = "submit", ![t].files = {File(t)}, ![t].ret = "rounddone"]
             /\ UNCHANGED listVars
    <3> DEFINE r == [th[t] EXCEPT !.pc = "submit", !.files = {th[t].file}, !.ret = "rounddone"]
    <3>1. /\ r \in Caller /\ r.pc = "submit" /\ r.op = th[t].op /\ r.file = th[t].file
          /\ r.files = {th[t].file}
      BY ZenonT(40), <1>1, <2>1 DEF Caller, HeldPlaces
    <3>2. th' = [th EXCEPT ![t] = r]
      BY ZenonT(40), <1>1, <2>4 DEF File
    <3> HIDE DEF r
    <3>3. PageInv(r) /\ SyncInv(r, os, durable) /\ r.pc \notin RoundPlaces
      BY <2>1, <3>1 DEF PageInv, PagePlaces, HeldPlaces, SyncInv, RoundPlaces
    <3>4. \A f \in Files : SeenTo(t, r, f)
      BY <2>2, <2>4, <3>1 DEF SeenTo, Holds, HeldPlaces, listVars
    <3>5. QED
      BY ZenonT(40), <1>1, <1>4, <2>4, <3>1, <3>2, <3>3, <3>4 DEF listVars
  <2>5. QED
    BY <1>6, <2>3, <2>4 DEF RecordWrittenFile, File, h
<1>7. CASE TakeLocal(t)
  <2> DEFINE l == IF Shared THEN "takeshared" ELSE "submit"
             r == [th[t] EXCEPT !.pc = l, !.files = local[h], !.ret = "ok"]
  <2>1. th[t].pc = "take" /\ th[t].op # "syncfile"
    BY <1>1, <1>7 DEF TakeLocal, At, PageInv
  <2>2. l \in {"takeshared", "submit"}
    OBVIOUS
  <2>3. th' = [th EXCEPT ![t] = r]
    BY ZenonT(40), <1>1, <1>7 DEF TakeLocal, h
  <2> HIDE DEF l
  <2>4. r \in Caller /\ r.pc = l /\ r.files = local[h] /\ r.ret = "ok" /\ r.op = th[t].op
    BY ZenonT(40), <1>1, <1>2, <2>2 DEF Caller, HeldPlaces
  <2> HIDE DEF r
  <2>5. PageInv(r) /\ SyncInv(r, os, durable) /\ r.pc \notin RoundPlaces
    BY <2>1, <2>2, <2>4 DEF PageInv, PagePlaces, HeldPlaces, SyncInv, RoundPlaces
  <2>6. shared' = shared /\ local' = [local EXCEPT ![h] = {}]
    BY <1>7 DEF TakeLocal, h
  <2>7. local' \in [Processes -> SUBSET Files] /\ \A p \in Processes : p # h => local'[p] = local[p]
    BY ZenonT(40), <1>1, <2>6
  <2>8. \A f \in Files : f \in local[h] => Holds(r, f, os)
    BY <2>2, <2>4 DEF Holds, HeldPlaces
  <2>9. \A f \in Files : ~Holds(th[t], f, os)
    BY <2>1 DEF Holds, HeldPlaces
  <2>10. \A f \in Files : SeenTo(t, r, f)
    BY <2>6, <2>7, <2>8, <2>9 DEF SeenTo
  <2>11. QED
    BY ZenonT(40), <1>1, <1>4, <2>3, <2>4, <2>5, <2>6, <2>7, <2>10
<1>8. CASE TakeShared(t)
  <2> DEFINE r == [th[t] EXCEPT !.pc = "submit", !.files = @ \cup shared]
  <2>1. th[t].pc = "takeshared" /\ th[t].op # "syncfile"
    BY <1>1, <1>8 DEF TakeShared, At, PageInv
  <2>2. th' = [th EXCEPT ![t] = r]
    BY ZenonT(40), <1>1, <1>8 DEF TakeShared
  <2>3. /\ r \in Caller /\ r.pc = "submit" /\ r.files = th[t].files \cup shared /\ r.ret = th[t].ret
        /\ r.op = th[t].op /\ r.file = th[t].file
    BY ZenonT(40), <1>1 DEF Caller, HeldPlaces
  <2> HIDE DEF r
  <2>4. PageInv(r) /\ SyncInv(r, os, durable) /\ r.pc \notin RoundPlaces
    BY <1>1, <2>1, <2>3 DEF PageInv, PagePlaces, HeldPlaces, SyncInv, RoundPlaces
  <2>5. shared' = {} /\ local' = local
    BY <1>8 DEF TakeShared
  <2>6. \A f \in Files : SeenTo(t, r, f)
    BY <2>1, <2>3, <2>5 DEF SeenTo, Holds, HeldPlaces
  <2>7. QED
    BY ZenonT(40), <1>1, <1>4, <2>2, <2>3, <2>4, <2>5, <2>6
<1>9. CASE EraseLocal(t) \/ EraseShared(t)
  <2> DEFINE l == IF EraseLocal(t) /\ Shared THEN "eraseshared" ELSE "submit"
             r == Gone(th[t], l)
  <2>1. th[t].pc \in {"erase", "eraseshared"} /\ l \in {"eraseshared", "submit"}
    BY <1>9 DEF EraseLocal, EraseShared, At
  <2>2. Goto(t, l)
    BY <1>9 DEF EraseLocal, EraseShared, At
  <2> HIDE DEF l
  <2>3. /\ th' = [th EXCEPT ![t] = r] /\ r \in Caller /\ r.pc = l /\ r.files = th[t].files
        /\ r.ret = th[t].ret /\ r.op = th[t].op /\ r.file = th[t].file /\ r.before = th[t].before
    <3>1. l \in HeldPlaces /\ l # "idle" /\ l # "sweep"
      BY ZenonT(40), <2>1 DEF HeldPlaces
    <3>2. QED
      BY SMTT(30), ZenonT(40), <1>1, <2>2, <3>1, GoesOn
  <2> HIDE DEF r
  <2>4. PageInv(r) /\ SyncInv(r, os, durable) /\ r.pc \notin RoundPlaces
    BY ZenonT(40), <1>1, <2>1, <2>3 DEF PageInv, PagePlaces, HeldPlaces, SyncInv, RoundPlaces
  <2>5. /\ local' \in [Processes -> SUBSET Files] /\ shared' \in SUBSET Files
        /\ shared \ th[t].files \subseteq shared'
        /\ \A p \in Processes : local[p] \ th[t].files \subseteq local'[p]
    BY <1>1, <1>9 DEF EraseLocal, EraseShared
  <2>6. \A f \in Files : f \in th[t].files => Holds(r, f, os)
    BY <2>1, <2>3 DEF Holds, HeldPlaces
  <2>7. \A f \in Files : f \notin th[t].files => ~Holds(th[t], f, os)
    BY <2>1 DEF Holds, HeldPlaces
  <2>8. \A f \in Files : SeenTo(t, r, f)
    BY <2>5, <2>6, <2>7 DEF SeenTo
  <2>9. QED
    BY ZenonT(40), <1>4, <2>3, <2>4, <2>5, <2>8
<1>10. CASE NoteWrittenFile(t)
  <2>1. PICK g \in th[t].files :
          /\ IF Records(g) THEN Recorded(h, g)
             ELSE local' = [local EXCEPT ![h] = @ \cup {g}] /\ UNCHANGED shared
          /\ th' = [th EXCEPT ![t].files = @ \ {g}]
    BY ZenonT(40), <1>10 DEF NoteWrittenFile, h
  <2> DEFINE r == [th[t] EXCEPT !.files = @ \ {g}]
  <2>2. th[t].pc = "note" /\ g \in Files
    BY <1>1, <1>10 DEF NoteWrittenFile, At
  <2>3. th' = [th EXCEPT ![t] = r]
    BY <1>1, <2>1
  <2>4. /\ r \in Caller /\ r.pc = "note" /\ r.files = th[t].files \ {g} /\ r.ret = th[t].ret
        /\ r.op = th[t].op /\ r.file = th[t].file /\ r.before = th[t].before
    BY ZenonT(40), <1>1, <2>2 DEF Caller, HeldPlaces
  <2> HIDE DEF r
  <2>5. PageInv(r) /\ SyncInv(r, os, durable) /\ r.pc \notin RoundPlaces
    BY ZenonT(40), <1>1, <2>2, <2>4 DEF PageInv, PagePlaces, HeldPlaces, SyncInv, RoundPlaces
  <2>6. /\ local' \in [Processes -> SUBSET Files] /\ shared' \in SUBSET Files
        /\ g \in shared' \/ g \in local'[h]
        /\ shared \subseteq shared' /\ \A p \in Processes : local[p] \subseteq local'[p]
    <3>1. CASE Recorded(h, g)
      BY <1>5, <2>2, <3>1
    <3>2. CASE local' = [local EXCEPT ![h] = @ \cup {g}] /\ shared' = shared
      BY <1>1, <1>2, <2>2, <3>2
    <3>3. QED
      BY ZenonT(40), <2>1, <3>1, <3>2
  <2>7. \A f \in Files : f # g => (Holds(th[t], f, os) => Holds(r, f, os))
    BY <2>2, <2>4 DEF Holds, HeldPlaces
  <2>8. \A f \in Files : SeenTo(t, r, f)
    BY <1>2, <2>6, <2>7 DEF SeenTo
  <2>9. QED
    BY ZenonT(40), <1>4, <2>3, <2>4, <2>5, <2>6, <2>8
<1>11. QED
  BY <1>6, <1>7, <1>8, <1>9, <1>10

\* The sync completes: what it covered is durable, what failed is noted again.
LEMMA SyncSteps ==
  ASSUME DurableInv, NEW t \in Threads, WaitSync(t)
  PROVE  DurableInv'
<1>1. /\ WriteInv /\ os \in Versions /\ acked \in Versions /\ durable \in Versions
      /\ local \in [Processes -> SUBSET Files] /\ shared \in SUBSET Files
      /\ th \in [Threads -> Caller] /\ th[t] \in Caller /\ th[t].mark \in Versions
      /\ th[t].files \in SUBSET Files /\ th[t].ret \in {"idle", "ok", "rounddone"}
      /\ PageInv(th[t]) /\ SyncInv(th[t], os, durable) /\ th[t].before.os \in Versions
  BY DEF DurableInv, WriteInv, Caller
<1>2. th[t].pc = "syncing" /\ UNCHANGED <<control, page, os, acked, local, shared>>
  BY DEF WaitSync, At, pageVars, listVars
<1>3. PICK synced \in SUBSET th[t].files :
        /\ durable' = Newest(durable, [f \in Files |-> IF f \in synced THEN th[t].mark[f] ELSE 0])
        /\ IF synced = th[t].files
             THEN th' = [th EXCEPT ![t].pc = th[t].ret, ![t].files = {}, ![t].mark = ZeroVersions]
             ELSE th' = [th EXCEPT ![t].pc = "note", ![t].mark = ZeroVersions]
  BY ZenonT(40) DEF WaitSync
<1>4. /\ durable' \in Versions /\ \A f \in Files : durable[f] <= durable'[f]
      /\ \A f \in synced : th[t].mark[f] <= durable'[f]
  BY <1>1, <1>3 DEF Newest, Versions
<1>5. ZeroVersions \in Versions
  BY DEF ZeroVersions, Versions
<1>6. \A f \in Files : os[f] > durable'[f] /\ Holds(th[t], f, os) => f \in th[t].files \ synced
  <2> SUFFICES ASSUME NEW f \in Files, os[f] > durable'[f], Holds(th[t], f, os)
               PROVE  f \in th[t].files \ synced
    OBVIOUS
  <2>1. f \in th[t].files /\ th[t].mark[f] = os[f]
    BY <1>2 DEF Holds, HeldPlaces
  <2>2. f \in synced => os[f] <= durable'[f]
    BY ZenonT(40), <1>4, <2>1
  <2>3. os[f] \in Int /\ durable'[f] \in Int
    BY ZenonT(40), <1>1, <1>4 DEF Versions
  <2>4. ~(os[f] <= durable'[f])
    BY <2>3
  <2>5. QED
    BY ZenonT(40), <2>1, <2>2, <2>4
<1>7. CASE synced = th[t].files
  <2> DEFINE r == [th[t] EXCEPT !.pc = th[t].ret, !.files = {}, !.mark = ZeroVersions]
  <2>1. th' = [th EXCEPT ![t] = r]
    BY ZenonT(40), <1>1, <1>3, <1>7
  <2>2. /\ r \in Caller /\ r.pc = th[t].ret /\ r.op = th[t].op /\ r.file = th[t].file
        /\ r.ret = th[t].ret /\ r.before = th[t].before
    BY ZenonT(40), <1>1, <1>5 DEF Caller, PagePlaces
  <2> HIDE DEF r
  <2>3. PageInv(r) /\ r.pc \notin RoundPlaces
    BY ZenonT(40), <1>1, <1>2, <2>2 DEF PageInv, PagePlaces, HeldPlaces, RoundPlaces, SyncInv
  <2>4. SyncInv(r, os, durable')
    <3>1. CASE th[t].op # "syncfile"
      BY <2>2, <3>1 DEF SyncInv
    <3>2. CASE th[t].op = "syncfile"
      <4>1. /\ th[t].file \in Files /\ th[t].ret = "ok" /\ th[t].files = {th[t].file}
            /\ th[t].before.os[th[t].file] <= os[th[t].file]
            /\ th[t].before.os[th[t].file] <= th[t].mark[th[t].file]
        BY ZenonT(40), <1>1, <1>2, <3>2 DEF SyncInv
      <4>2. th[t].mark[th[t].file] <= durable'[th[t].file]
        BY ZenonT(40), <1>4, <1>7, <4>1
      <4>3. th[t].before.os[th[t].file] <= durable'[th[t].file]
        BY <1>1, <1>4, <4>1, <4>2 DEF Versions
      <4>4. QED
        BY ZenonT(40), <2>2, <4>1, <4>3 DEF SyncInv
    <3>3. QED
      BY <3>1, <3>2
  <2>5. \A f \in Files : os[f] > durable'[f] => SeenTo(t, r, f)
    BY <1>2, <1>6, <1>7 DEF SeenTo
  <2>6. QED
    BY ZenonT(40), <1>1, <1>2, <1>4, <2>1, <2>2, <2>3, <2>4, <2>5, Steady
<1>8. CASE synced # th[t].files
  <2> DEFINE r == [th[t] EXCEPT !.pc = "note", !.mark = ZeroVersions]
  <2>1. th' = [th EXCEPT ![t] = r]
    BY ZenonT(40), <1>1, <1>3, <1>8
  <2>2. /\ r \in Caller /\ r.pc = "note" /\ r.op = th[t].op /\ r.file = th[t].file
        /\ r.ret = th[t].ret /\ r.before = th[t].before /\ r.files = th[t].files
    BY ZenonT(40), <1>1, <1>5 DEF Caller, HeldPlaces
  <2> HIDE DEF r
  <2>3. PageInv(r) /\ r.pc \notin RoundPlaces
    BY ZenonT(40), <1>1, <1>2, <2>2 DEF PageInv, PagePlaces, HeldPlaces, RoundPlaces
  <2>4. SyncInv(r, os, durable')
    BY ZenonT(40), <1>1, <2>2 DEF SyncInv
  <2>5. \A f \in Files : os[f] > durable'[f] => SeenTo(t, r, f)
    BY ZenonT(40), <1>2, <1>6, <2>2 DEF SeenTo, Holds, HeldPlaces
  <2>6. QED
    BY ZenonT(40), <1>1, <1>2, <1>4, <2>1, <2>2, <2>3, <2>4, <2>5, Steady
<1>9. QED
  BY <1>7, <1>8

\* A client changes a page.
LEMMA ModifySteps ==
  ASSUME DurableInv, NEW f \in Files, Modify(f)
  PROVE  DurableInv'
<1>1. /\ WriteInv /\ page \in Versions /\ os \in Versions /\ control \in [Files -> ControlWord]
      /\ th \in [Threads -> Caller]
  BY DEF DurableInv, WriteInv
<1>2. /\ page' = [page EXCEPT ![f] = @ + 1] /\ control' = [control EXCEPT ![f] = MarkedDirty(@)]
      /\ UNCHANGED <<os, durable, local, shared, acked, th>>
  BY DEF Modify, listVars
<1>3. page' \in Versions /\ \A g \in Files : page[g] <= page'[g]
  BY <1>1, <1>2 DEF Versions
<1>4. control' \in [Files -> ControlWord]
  <2>1. MarkedDirty(control[f]) \in ControlWord
    BY ZenonT(40), <1>1 DEF MarkedDirty, HasWriteback, ControlWord
  <2>2. QED
    BY <1>1, <1>2, <2>1
<1>5. \A g \in Files : HasWriteback(control[g]) => HasWriteback(control'[g])
  BY <1>1, <1>2 DEF MarkedDirty, HasWriteback, ControlWord
<1>6. ASSUME NEW t \in Threads PROVE RoundInv(t)'
  <2>1. RoundInv(t)
    BY <1>1 DEF WriteInv
  <2>2. th[t].snap \in Int /\ \A g \in Files : page[g] \in Int /\ page'[g] \in Int
    BY <1>1, <1>3 DEF Versions, Caller
  <2>3. QED
    BY <1>2, <1>3, <1>5, <2>1, <2>2 DEF RoundInv
<1>7. \A g \in Files : os[g] <= page'[g]
  BY <1>1, <1>3 DEF WriteInv, Versions
<1>8. WriteInv'
  <2>1. \A t \in Threads : PageInv(th[t])'
    BY ZenonT(40), <1>1, <1>2 DEF WriteInv, PageInv
  <2>2. QED
    BY ZenonT(40), <1>1, <1>2, <1>3, <1>4, <1>6, <1>7, <2>1 DEF WriteInv
<1>9. QED
  <2>1. \A t \in Threads : SyncInv(th[t], os, durable)'
    BY ZenonT(40), <1>2 DEF DurableInv, SyncInv
  <2>2. NoWriteForgotten'
    BY ZenonT(40), <1>2 DEF DurableInv, NoWriteForgotten, At
  <2>3. QED
    BY ZenonT(40), <1>8, <2>1, <2>2 DEF DurableInv

\* The steps of a writeback round.
LEMMA RoundSteps ==
  ASSUME DurableInv, NEW t \in Threads,
         TryQueueWriteback(t) \/ WriteTask(t) \/ CompleteWriteback(t)
  PROVE  DurableInv'
<1> DEFINE g == th[t].file
<1>1. /\ WriteInv /\ page \in Versions /\ os \in Versions /\ durable \in Versions /\ acked \in Versions
      /\ local \in [Processes -> SUBSET Files] /\ shared \in SUBSET Files
      /\ control \in [Files -> ControlWord] /\ th \in [Threads -> Caller] /\ th[t] \in Caller
      /\ th[t].snap \in Int /\ \A f \in Files : os[f] <= page[f]
      /\ PageInv(th[t]) /\ SyncInv(th[t], os, durable) /\ RoundInv(t)
      /\ \A u \in Threads : SyncInv(th[u], os, durable)
      /\ \A u \in Threads : RoundInv(u) /\ PageInv(th[u])
      /\ NoWriteForgotten
  BY DEF DurableInv, WriteInv, Caller
<1>2. UNCHANGED <<page, durable, local, shared, acked>>
  BY ZenonT(40) DEF TryQueueWriteback, WriteTask, CompleteWriteback, pageVars, listVars
<1>3. th[t].pc \in {"queue"} \cup RoundPlaces
  BY ZenonT(40) DEF TryQueueWriteback, WriteTask, CompleteWriteback, At, RoundPlaces
<1>4. g \in Files /\ th[t].op # "syncfile"
  BY ZenonT(40), <1>1, <1>3 DEF PageInv, RoundInv, PagePlaces
<1> HIDE DEF g
<1>5. ASSUME NEW r \in Caller, th' = [th EXCEPT ![t] = r], r.op # "syncfile", r.pc \in PagePlaces => r.file = g,
             r.pc \notin HeldPlaces \cup {"syncing"},
             control' \in [Files -> ControlWord], \A f \in Files \ {g} : control'[f] = control[f],
             os' \in Versions, \A f \in Files \ {g} : os'[f] = os[f], os[g] <= os'[g], os'[g] <= page[g],
             \/ UNCHANGED <<os, control>> /\ r.pc \notin RoundPlaces
             \/ /\ \A u \in Threads \ {t} : th[u].pc \in RoundPlaces => th[u].file # g
                /\ r.pc \in RoundPlaces => /\ r.file = g /\ HasWriteback(control'[g])
                                           /\ os'[g] <= r.snap /\ r.snap <= page[g],
             th[t].pc = "complete" => r.pc = "record",
             os'[g] = os[g] \/ (r.pc = "complete" /\ r.file = g)
      PROVE  DurableInv'
  <2>1. th' \in [Threads -> Caller] /\ \A u \in Threads : th'[u] = IF u = t THEN r ELSE th[u]
    BY ZenonT(40), <1>1, <1>5
  <2>2. PageInv(r)
    BY <1>4, <1>5 DEF PageInv
  <2>5. WriteInv'
    <3>1. CASE UNCHANGED <<os, control>> /\ r.pc \notin RoundPlaces
      BY ZenonT(40), <1>1, <1>2, <1>5, <2>2, <3>1, PagesKept
    <3>2. CASE /\ \A u \in Threads \ {t} : th[u].pc \in RoundPlaces => th[u].file # g
               /\ r.pc \in RoundPlaces => /\ r.file = g /\ HasWriteback(control'[g])
                                          /\ os'[g] <= r.snap /\ r.snap <= page[g]
      <4>1. ASSUME NEW u \in Threads PROVE RoundInv(u)'
        <5>1. CASE u = t
          BY ZenonT(40), <1>2, <1>4, <2>1, <3>2, <5>1 DEF RoundInv
        <5>2. CASE u # t
          <6>1. th'[u] = th[u] /\ RoundInv(u)
            BY <1>1, <2>1, <5>2
          <6>2. th[u].pc \in RoundPlaces => th[u].file \in Files \ {g}
            BY ZenonT(40), <3>2, <5>2, <6>1 DEF RoundInv
          <6>3. QED
            BY ZenonT(40), <1>2, <1>5, <2>1, <3>2, <6>1, <6>2 DEF RoundInv
        <5>3. QED
          BY ZenonT(40), <5>1, <5>2
      <4>2. \A f \in Files : os'[f] <= page'[f]
        BY ZenonT(40), <1>1, <1>2, <1>5
      <4>3. \A u \in Threads : PageInv(th'[u])
        BY <1>1, <2>1, <2>2
      <4>4. QED
        BY ZenonT(40), <1>1, <1>2, <1>5, <2>1, <4>1, <4>2, <4>3 DEF WriteInv, PageInv
    <3>3. QED
      BY ZenonT(40), <1>5, <3>1, <3>2
  <2>6. \A f \in Files : os[f] <= os'[f] /\ durable[f] <= durable'[f]
    BY SMTT(30), ZenonT(40), <1>1, <1>2, <1>5 DEF Versions
  <2>7. SyncInv(r, os', durable')
    BY ZenonT(40), <1>5 DEF SyncInv
  <2>8. \A u \in Threads : SyncInv(th'[u], os', durable')
    BY ZenonT(40), <1>1, <1>5, <2>5, <2>6, <2>7, SyncsKept
  <2>9. \A f \in Files : Holds(th[t], f, os) => Holds(r, f, os')
    BY ZenonT(40), <1>3, <1>4, <1>5 DEF Holds, HeldPlaces, RoundPlaces, PagePlaces, g
  <2>10. \A f \in Files : os'[f] = os[f] \/ Holds(r, f, os')
    BY ZenonT(40), <1>5 DEF Holds
  <2>11. \A f \in Files : durable'[f] >= durable[f]
    BY <1>1, <1>2 DEF Versions
  <2>12. NoWriteForgotten'
    BY ZenonT(40), <1>1, <1>2, <1>5, <2>5, <2>9, <2>10, <2>11, StillSeenTo
  <2>13. (\A u \in Threads : SyncInv(th[u], os, durable))'
    BY ZenonT(40), <2>8 DEF SyncInv
  <2>14. QED
    BY ZenonT(40), <2>5, <2>12, <2>13 DEF DurableInv
<1>6. CASE TryQueueWriteback(t)
  <2>1. th[t].pc = "queue" /\ os' = os /\ os[g] \in Int /\ os[g] <= os[g] /\ os[g] <= page[g] /\ page[g] \in Int
    BY <1>1, <1>4, <1>6 DEF TryQueueWriteback, At, Versions
  <2>2. CASE /\ QueueOutcome(control[g], FALSE) = "Queued"
             /\ control' = [control EXCEPT ![g] = QueuedWriteback(@)]
             /\ th' = [th EXCEPT ![t].pc = "write", ![t].snap = page[g]]
    <3> DEFINE r == [th[t] EXCEPT !.pc = "write", !.snap = page[g]]
    <3>1. r \in Caller /\ r.pc = "write" /\ r.snap = page[g] /\ r.file = g /\ r.op = th[t].op
      BY ZenonT(40), <1>1, <2>1 DEF Caller, RoundPlaces, g
    <3>2. th' = [th EXCEPT ![t] = r]
      BY ZenonT(40), <1>1, <2>2
    <3> HIDE DEF r
    <3>3. ~HasWriteback(control[g])
      BY <2>2 DEF QueueOutcome
    <3>4. \A u \in Threads \ {t} : th[u].pc \in RoundPlaces => th[u].file # g
      BY ZenonT(40), <1>1, <3>3 DEF RoundInv
    <3>5. QueuedWriteback(control[g]) \in ControlWord /\ HasWriteback(QueuedWriteback(control[g]))
      BY ZenonT(40), <1>1, <1>4 DEF QueuedWriteback, HasWriteback, ControlWord
    <3>6. /\ control' \in [Files -> ControlWord] /\ HasWriteback(control'[g])
          /\ \A f \in Files \ {g} : control'[f] = control[f]
      BY <1>1, <1>4, <2>2, <3>5
    <3>7. page[g] <= page[g]
      BY <2>1
    <3>8. r.pc \notin HeldPlaces \cup {"syncing"} \cup PagePlaces
      BY <3>1 DEF HeldPlaces, PagePlaces
    <3>9. QED
      BY ZenonT(40), <1>1, <1>4, <1>5, <2>1, <3>1, <3>2, <3>4, <3>6, <3>7, <3>8
  <2>3. ASSUME NEW r \in Caller, th' = [th EXCEPT ![t] = r], UNCHANGED control,
               r.pc \in {"idle", "sweep", "wait"}, r.pc = "wait" => r.file = g, r.op # "syncfile"
        PROVE  DurableInv'
    <3>1. r.pc \notin HeldPlaces \cup {"syncing"} /\ r.pc \notin RoundPlaces /\ (r.pc \in PagePlaces => r.file = g)
      BY <2>3 DEF HeldPlaces, RoundPlaces, PagePlaces
    <3>2. QED
      BY ZenonT(40), <1>1, <1>5, <2>1, <2>3, <3>1
  <2>4. CASE Goto(t, AfterPage(t)) /\ UNCHANGED control
    <3> DEFINE l == AfterPage(t)
               r == Gone(th[t], l)
    <3>1. l \in {"idle", "sweep"}
      BY DEF AfterPage
    <3> HIDE DEF l
    <3>2. /\ th' = [th EXCEPT ![t] = r] /\ r \in Caller /\ r.pc = l /\ r.op # "syncfile"
      BY <1>1, <1>4, <2>4, <3>1, GoesOn DEF l
    <3> HIDE DEF r
    <3>3. QED
      BY ZenonT(40), <2>3, <2>4, <3>1, <3>2
  <2>5. CASE th' = [th EXCEPT ![t].pc = "wait", ![t].loop = TRUE] /\ UNCHANGED control
    <3> DEFINE r == [th[t] EXCEPT !.pc = "wait", !.loop = TRUE]
    <3>1. r \in Caller /\ r.pc = "wait" /\ r.file = g /\ r.op = th[t].op
      BY ZenonT(40), <1>1 DEF Caller, PagePlaces, g
    <3>2. th' = [th EXCEPT ![t] = r]
      BY ZenonT(40), <1>1, <2>5
    <3> HIDE DEF r
    <3>3. QED
      BY ZenonT(40), <1>4, <2>3, <2>5, <3>1, <3>2
  <2>6. QED
    BY ZenonT(40), <1>6, <2>2, <2>4, <2>5 DEF TryQueueWriteback, File, g
<1>7. CASE WriteTask(t)
  <2>1. th[t].pc = "write" /\ control' = control
    BY <1>7 DEF WriteTask, At, pageVars
  <2>2. /\ \A u \in Threads \ {t} : th[u].pc \in RoundPlaces => th[u].file # g
        /\ HasWriteback(control[g]) /\ os[g] <= th[t].snap /\ th[t].snap <= page[g]
        /\ os[g] \in Int /\ th[t].snap \in Int /\ page[g] \in Int
    BY <1>1, <1>4, <2>1 DEF RoundInv, RoundPlaces, Versions, g
  <2>3. ASSUME NEW l \in {"complete", "completefail"}, Goto(t, l),
               (l = "complete" /\ os' = [os EXCEPT ![g] = th[t].snap]) \/ os' = os
        PROVE  DurableInv'
    <3> DEFINE r == Gone(th[t], l)
    <3>1. /\ th' = [th EXCEPT ![t] = r] /\ r \in Caller /\ r.pc = l /\ r.op # "syncfile"
          /\ r.file = g /\ r.snap = th[t].snap
      BY <1>1, <1>4, <2>3, GoesOn DEF RoundPlaces, g
    <3> HIDE DEF r
    <3>2. r.pc \notin HeldPlaces \cup {"syncing"} \cup PagePlaces
      BY <2>3, <3>1 DEF HeldPlaces, PagePlaces
    <3>3. /\ os' \in Versions /\ \A f \in Files \ {g} : os'[f] = os[f]
          /\ os'[g] \in {os[g], th[t].snap} /\ (os'[g] = os[g] \/ l = "complete")
      BY <1>1, <1>4, <2>2, <2>3 DEF Versions
    <3>4. os[g] <= os'[g] /\ os'[g] <= page[g] /\ os'[g] <= th[t].snap
      BY <2>2, <3>3
    <3>5. QED
      BY ZenonT(40), <1>1, <1>4, <1>5, <2>1, <2>2, <2>3, <3>1, <3>2, <3>3, <3>4
  <2>4. QED
    BY <1>7, <2>3 DEF WriteTask, File, g
<1>8. CASE CompleteWriteback(t)
  <2> DEFINE l == IF th[t].pc = "complete" THEN "record" ELSE "idle"
             r == Gone(th[t], l)
  <2>1. /\ th[t].pc \in {"complete", "completefail"} /\ Goto(t, l) /\ os' = os
        /\ control' = [control EXCEPT ![g] = CompletedWriteback(@, th[t].pc = "complete")]
    BY <1>8 DEF CompleteWriteback, At, File, g
  <2>2. /\ \A u \in Threads \ {t} : th[u].pc \in RoundPlaces => th[u].file # g
    BY ZenonT(40), <1>1, <1>4, <2>1 DEF RoundInv, RoundPlaces, g
  <2>3. l \in {"record", "idle"} /\ (th[t].pc = "complete" => l = "record")
    OBVIOUS
  <2> HIDE DEF l
  <2>4. /\ th' = [th EXCEPT ![t] = r] /\ r \in Caller /\ r.pc = l /\ r.op # "syncfile"
        /\ l = "record" => r.file = g
    <3>1. l \in {"idle", "sweep", "take", "syncing", "ok"} \cup RoundPlaces \cup PagePlaces \cup HeldPlaces
      BY <2>3 DEF PagePlaces
    <3>2. /\ th' = [th EXCEPT ![t] = r] /\ r \in Caller /\ r.pc = l
          /\ l = "idle" => r.op = "none"
          /\ l # "idle" => r.op = th[t].op /\ (l # "sweep" => r.file = th[t].file)
      BY ZenonT(40), <1>1, <2>1, <3>1, GoesOn
    <3> HIDE DEF r
    <3>3. QED
      BY <1>4, <2>3, <3>2 DEF g
  <2> HIDE DEF r
  <2>5. r.pc \notin HeldPlaces \cup {"syncing"} \cup RoundPlaces /\ (r.pc \in PagePlaces => r.file = g)
    BY <2>3, <2>4 DEF HeldPlaces, RoundPlaces, PagePlaces
  <2>6. \A b \in BOOLEAN : CompletedWriteback(control[g], b) \in ControlWord
    <3>1. control[g] \in ControlWord /\ control[g].dirty \in BOOLEAN
      BY <1>1, <1>4 DEF ControlWord
    <3>2. \A b \in BOOLEAN : (control[g].dirty /\ ~ClearsDirty(control[g], b)) \in BOOLEAN
      OBVIOUS
    <3>3. QED
      BY ZenonT(40), <3>1, <3>2 DEF CompletedWriteback, ControlWord
  <2>7. control' \in [Files -> ControlWord] /\ \A f \in Files \ {g} : control'[f] = control[f]
    BY ZenonT(40), <1>1, <1>4, <2>1, <2>6
  <2>8. os[g] <= os'[g] /\ os'[g] <= page[g] /\ os' \in Versions
    BY <1>1, <1>4, <2>1 DEF Versions
  <2>9. QED
    BY ZenonT(40), <1>5, <2>1, <2>2, <2>3, <2>4, <2>5, <2>7, <2>8
<1>9. QED
  BY <1>6, <1>7, <1>8

\* The invariant holds from the start and in every step.
LEMMA DurableKept ==
  ASSUME ThreadsHaveHomes
  PROVE  (Init => DurableInv) /\ (DurableInv /\ [Next]_vars => DurableInv')
<1>1. ASSUME Init PROVE DurableInv
  <2>1. ZeroVersions \in Versions /\ (\A f \in Files : ZeroVersions[f] = 0) /\ 0 \in Int
    BY DEF Versions, ZeroVersions
  <2>2. IdleThread \in Caller /\ IdleThread.pc = "idle" /\ IdleThread.op = "none"
    BY ZenonT(40), <2>1 DEF IdleThread, Caller
  <2>3. [FreeWord EXCEPT !.state = "Resident"] \in ControlWord
    <3>1. FreeWord \in ControlWord
      BY FrameControlBounds DEF FreeWord, ControlWord, States
    <3>2. QED
      BY <3>1 DEF ControlWord, States
  <2>4. control \in [Files -> ControlWord]
    BY <1>1, <2>3 DEF Init
  <2>5. th \in [Threads -> Caller] /\ \A t \in Threads : th[t].pc = "idle" /\ th[t].op = "none"
    BY SMTT(30), ZenonT(40), <1>1, <2>2 DEF Init
  <2>6. \A t \in Threads : RoundInv(t) /\ PageInv(th[t]) /\ SyncInv(th[t], os, durable)
    BY <2>5 DEF RoundInv, PageInv, SyncInv, RoundPlaces, PagePlaces, HeldPlaces
  <2>7. WriteInv
    BY <1>1, <2>1, <2>4, <2>5, <2>6 DEF WriteInv, Init
  <2>8. NoWriteForgotten
    BY <1>1, <2>1 DEF NoWriteForgotten, Init
  <2>9. QED
    BY <2>6, <2>7, <2>8 DEF DurableInv
<1>2. ASSUME DurableInv, Next PROVE DurableInv'
  BY <1>2, ModifySteps, StartSteps, InwardSteps, ListSteps, SyncSteps, RoundSteps DEF Next
<1>3. ASSUME DurableInv, UNCHANGED vars PROVE DurableInv'
  BY ZenonT(40), <1>3 DEF vars, DurableInv, WriteInv, RoundInv, PageInv, SyncInv, NoWriteForgotten, At
<1>4. QED
  BY <1>1, <1>2, <1>3

\* A write that the backend has and the disk may lose is never forgotten, for
\* every set of files, threads and processes, in both modes and for every size
\* of the shared list (buffer_manager_flush.cc: the written files).
THEOREM WritesRemembered ==
  ASSUME ThreadsHaveHomes
  PROVE  Spec => []NoWriteForgotten
<1>1. DurableInv => NoWriteForgotten
  BY DEF DurableInv
<1>2. QED
  BY <1>1, DurableKept, PTL DEF Spec

\* SyncFile makes every write durable that the backend had when the call
\* started, whatever the other threads write, sync or fail meanwhile.
THEOREM SyncFileSyncs ==
  ASSUME ThreadsHaveHomes
  PROVE  Spec => []SyncFileDurable
<1>1. DurableInv => SyncFileDurable
  <2> SUFFICES ASSUME DurableInv, NEW t \in Threads, th[t].pc = "ok", th[t].op = "syncfile"
               PROVE  durable[th[t].file] >= th[t].before.os[th[t].file]
    BY DEF SyncFileDurable, At, File
  <2>1. SyncInv(th[t], os, durable) /\ th[t] \in Caller /\ durable \in Versions
    BY DEF DurableInv, WriteInv
  <2>2. th[t].file \in Files /\ th[t].before.os[th[t].file] <= durable[th[t].file]
    BY <2>1 DEF SyncInv
  <2>3. th[t].before.os \in Versions
    BY <2>1 DEF Caller
  <2>4. QED
    BY <2>1, <2>2, <2>3 DEF Versions
<1>2. QED
  BY <1>1, DurableKept, PTL DEF Spec

-----------------------------------------------------------------------------
(* The futex mutex.                                                        *)

CONSTANT Lockers
VARIABLES word, at

Mutex == INSTANCE FutexMutex

\* The invariant of the mutex: both properties are inductive together with
\* the types, since what a step does depends only on the word and on the
\* place of the thread that takes it.
MutexInv == Mutex!TypeOK /\ Mutex!OneHolder /\ Mutex!NoSleeperForgotten

\* An unlocked mutex that nobody uses satisfies the invariant.
LEMMA MutexInit == Mutex!Init => MutexInv
  BY SMT DEF Mutex!Init, MutexInv, Mutex!TypeOK, Mutex!Places, Mutex!OneHolder, Mutex!NoSleeperForgotten

\* Every atomic operation of lock and unlock keeps the invariant.
LEMMA MutexStep == MutexInv /\ [Mutex!Next]_(Mutex!mutexVars) => MutexInv'
<1> SUFFICES ASSUME MutexInv, [Mutex!Next]_(Mutex!mutexVars) PROVE MutexInv'
  OBVIOUS
<1> USE DEF MutexInv, Mutex!TypeOK, Mutex!Places, Mutex!OneHolder, Mutex!NoSleeperForgotten, Mutex!Goto
<1>1. ASSUME NEW t \in Lockers, Mutex!TryLock(t) PROVE MutexInv'
  BY <1>1, SMTT(30), ZenonT(40) DEF Mutex!TryLock
<1>2. ASSUME NEW t \in Lockers, Mutex!LockContended(t) PROVE MutexInv'
  BY <1>2, SMTT(30), ZenonT(40) DEF Mutex!LockContended
<1>3. ASSUME NEW t \in Lockers, Mutex!Exchange(t) PROVE MutexInv'
  BY <1>3, SMTT(30), ZenonT(40) DEF Mutex!Exchange
<1>4. ASSUME NEW t \in Lockers, Mutex!FutexWait(t) PROVE MutexInv'
  BY <1>4, SMTT(30), ZenonT(40) DEF Mutex!FutexWait
<1>5. ASSUME NEW t \in Lockers, Mutex!Interrupted(t) PROVE MutexInv'
  BY <1>5, SMTT(30), ZenonT(40) DEF Mutex!Interrupted
<1>6. ASSUME NEW t \in Lockers, Mutex!Unlock(t) PROVE MutexInv'
  BY <1>6, SMTT(30), ZenonT(40) DEF Mutex!Unlock
<1>7. ASSUME NEW t \in Lockers, Mutex!FutexWakeOne(t) PROVE MutexInv'
  <2>1. CASE \E u \in Lockers :
               at[u] = "asleep" /\ at' = [at EXCEPT ![t] = "out", ![u] = "swap"]
    BY <1>7, <2>1, SMTT(30), ZenonT(40) DEF Mutex!FutexWakeOne
  <2>2. CASE (\A u \in Lockers : at[u] # "asleep") /\ Mutex!Goto(t, "out")
    BY <1>7, <2>2, SMTT(30), ZenonT(40) DEF Mutex!FutexWakeOne
  <2> QED
    BY <1>7, <2>1, <2>2 DEF Mutex!FutexWakeOne
<1>8. CASE UNCHANGED Mutex!mutexVars
  BY <1>8 DEF Mutex!mutexVars
<1> QED
  BY <1>1, <1>2, <1>3, <1>4, <1>5, <1>6, <1>7, <1>8 DEF Mutex!Next

\* FutexMutex excludes: of any number of threads that lock, try to lock and
\* unlock, at most one holds the mutex.
THEOREM MutexExcludes == Mutex!Spec => []Mutex!OneHolder
<1>1. MutexInv => Mutex!OneHolder
  BY DEF MutexInv
<1> QED
  BY MutexInit, MutexStep, <1>1, PTL DEF Mutex!Spec

\* FutexMutex forgets nobody: a thread that sleeps in lock sleeps on a word
\* that makes unlock wake, or a wake that can reach it is still to come.
THEOREM MutexWakes == Mutex!Spec => []Mutex!NoSleeperForgotten
<1>1. MutexInv => Mutex!NoSleeperForgotten
  BY DEF MutexInv
<1> QED
  BY MutexInit, MutexStep, <1>1, PTL DEF Mutex!Spec

-----------------------------------------------------------------------------
(* Sleeping on a frame's control word.                                     *)

CONSTANTS Tags, Ops(_)
VARIABLES frame, waiters, tag, sleepers

Sleep == INSTANCE FrameSleep WITH control <- frame, th <- sleepers

\* A word whose counts are not known to stay above zero: that they do is up to
\* the callers, and no wake-up depends on it.
AnyWord ==
  [state : Sleep!States, dirty : BOOLEAN, queued : BOOLEAN, active : BOOLEAN,
   redirtied : BOOLEAN, exclusive : BOOLEAN, shared : Int, pins : Int]

Sleeper ==
  [pc : Sleep!Places, op : Sleep!SleepOps \cup UNION {Ops(t) : t \in Threads}, want : Tags,
   seen : AnyWord, bit : BOOLEAN, on : Sleep!Conditions,
   back : {"idle", "try", "unpin", "queue", "complete"}]

\* The word that WaitWhile is about to sleep on is one that blocks it, and only
\* a load is awaited through the state and the tag.
WaitInv(r) ==
  /\ r.pc \in {"cas", "sleep"} /\ r.on # "load" => Sleep!Blocks(r.on, r.seen)
  /\ r.pc \in {"state", "tag"} => r.on = "load"

\* The inductive invariant behind NoLostWakeup.
SleepInv ==
  /\ frame \in AnyWord /\ frame.shared <= MaxShared
  /\ waiters \in BOOLEAN
  /\ tag \in Tags
  /\ sleepers \in [Threads -> Sleeper]
  /\ \A t \in Threads : WaitInv(sleepers[t])
  /\ Sleep!NoLostWakeup

\* Whoever was blocked by the word still is.
StillBlocks == \A c \in Sleep!Conditions \ {"load"} : Sleep!Blocks(c, frame) => Sleep!Blocks(c, frame')

\* A thread that moves on keeps its type, and what it remembers of its wait.
LEMMA SleeperGone ==
  ASSUME tag \in Tags, NEW r \in Sleeper, NEW l \in Sleep!Places
  PROVE  /\ Sleep!GoneTo(r, l) \in Sleeper
         /\ Sleep!GoneTo(r, l).pc = l
         /\ l \in Sleep!WaitPlaces => Sleep!GoneTo(r, l).on = r.on
         /\ l \in Sleep!WaitPlaces \ {"ww", "asleep"} => Sleep!GoneTo(r, l).seen = r.seen
<1>1. (CHOOSE k \in Tags : TRUE) \in Tags
  OBVIOUS
<1>2. Sleep!FreeWord \in AnyWord
  BY DEF Sleep!FreeWord, AnyWord, Sleep!States
<1>3. Sleep!IdleThread \in Sleeper /\ Sleep!IdleThread.pc = "idle"
  BY <1>1, <1>2 DEF Sleep!IdleThread, Sleeper, Sleep!SleepOps, Sleep!Conditions, Sleep!Places
<1>4. CASE l = "idle"
  BY <1>3, <1>4 DEF Sleep!GoneTo, Sleep!WaitPlaces
<1>5. CASE l \in {"ww", "asleep"}
  BY ZenonT(40), <1>2, <1>5 DEF Sleep!GoneTo, Sleeper, Sleep!WaitPlaces
<1>6. CASE l \in Sleep!WaitPlaces \ {"ww", "asleep"}
  BY <1>6 DEF Sleep!GoneTo, Sleeper, Sleep!WaitPlaces
<1>7. CASE l \notin Sleep!WaitPlaces /\ l # "idle"
  <2>1. Sleep!GoneTo(r, l) = [Sleep!IdleThread EXCEPT !.pc = l, !.op = r.op, !.want = r.want]
    BY <1>7 DEF Sleep!GoneTo, Sleep!WaitPlaces
  <2>2. QED
    BY ZenonT(40), <2>1, <1>3, <1>7 DEF Sleeper
<1>8. QED
  BY <1>4, <1>5, <1>6, <1>7

\* One thread steps, and the word with it.  Nobody's wake-up is lost when the
\* thread is going to wake, or when it did not owe a wake, whoever was blocked
\* still is, and the thread falls asleep only on a word that blocks it.
LEMMA Moved ==
  ASSUME SleepInv, NEW t \in Threads, NEW r \in Sleeper, sleepers' = [sleepers EXCEPT ![t] = r],
         WaitInv(r), frame' \in AnyWord, frame'.shared <= MaxShared,
         waiters' \in BOOLEAN, tag' \in Tags,
         \/ r.pc = "wake"
         \/ /\ sleepers[t].pc # "wake"
            /\ waiters => waiters' /\ StillBlocks
            /\ r.pc = "asleep" /\ r.on # "load" => waiters' /\ Sleep!Blocks(r.on, frame')
  PROVE  SleepInv'
<1>1. sleepers' \in [Threads -> Sleeper] /\ \A u \in Threads : sleepers'[u] = IF u = t THEN r ELSE sleepers[u]
  BY DEF SleepInv
<1>2. \A u \in Threads : WaitInv(sleepers'[u])
  BY <1>1 DEF SleepInv
<1>3. Sleep!NoLostWakeup'
  <2> SUFFICES ASSUME NEW u \in Threads, sleepers'[u].pc = "asleep", sleepers'[u].on # "load"
               PROVE  (\E v \in Threads : sleepers'[v].pc = "wake") \/ (waiters' /\ Sleep!Blocks(sleepers'[u].on, frame'))
    BY DEF Sleep!NoLostWakeup, Sleep!Woken, Sleep!At
  <2>1. CASE r.pc = "wake"
    BY <2>1, <1>1
  <2>2. CASE r.pc # "wake" /\ u = t
    BY <2>2, <1>1
  <2>3. CASE r.pc # "wake" /\ u # t
    <3>1. sleepers'[u] = sleepers[u]
      BY <2>3, <1>1
    <3>2. (\E v \in Threads : sleepers[v].pc = "wake") \/ (waiters /\ Sleep!Blocks(sleepers[u].on, frame))
      BY <3>1 DEF SleepInv, Sleep!NoLostWakeup, Sleep!Woken, Sleep!At
    <3>3. CASE \E v \in Threads : sleepers[v].pc = "wake"
      BY <3>3, <2>3, <1>1
    <3>4. CASE waiters /\ Sleep!Blocks(sleepers[u].on, frame)
      <4>1. sleepers[u].on \in Sleep!Conditions \ {"load"}
        BY <3>1 DEF SleepInv, Sleeper
      <4>2. QED
        BY <3>4, <4>1, <3>1, <2>3 DEF StillBlocks
    <3>5. QED
      BY <3>2, <3>3, <3>4
  <2>4. QED
    BY <2>1, <2>2, <2>3
<1>4. (\A u \in Threads : WaitInv(sleepers[u]))'
  BY ZenonT(40), <1>2 DEF WaitInv, Sleep!Blocks, Sleep!Latched, Sleep!HasWriteback
<1>5. QED
  BY <1>1, <1>3, <1>4 DEF SleepInv

\* A call that goes on, or returns, and wakes nobody.
LEMMA Quiet ==
  ASSUME SleepInv, NEW t \in Threads, sleepers[t].pc # "wake",
         NEW l \in Sleep!Places \ (Sleep!WaitPlaces \cup {"wake"}), Sleep!Goto(t, l),
         frame' \in AnyWord, frame'.shared <= MaxShared,
         UNCHANGED waiters, tag' \in Tags, StillBlocks
  PROVE  SleepInv'
<1> DEFINE r == Sleep!GoneTo(sleepers[t], l)
<1>1. sleepers[t] \in Sleeper /\ tag \in Tags /\ waiters \in BOOLEAN
  BY DEF SleepInv
<1>2. r \in Sleeper /\ r.pc = l
  BY <1>1, SleeperGone
<1>3. sleepers' = [sleepers EXCEPT ![t] = r]
  BY ZenonT(40) DEF Sleep!Goto, SleepInv
<1>4. WaitInv(r) /\ r.pc # "asleep"
  BY <1>2 DEF WaitInv, Sleep!WaitPlaces
<1> HIDE DEF r
<1>5. QED
  BY ZenonT(40), <1>1, <1>2, <1>3, <1>4, Moved

\* A call that starts to wait.
LEMMA Waits ==
  ASSUME SleepInv, NEW t \in Threads, sleepers[t].pc # "wake", NEW c \in Sleep!Conditions,
         NEW l \in {"idle", "try", "unpin", "queue", "complete"}, Sleep!WaitFor(t, c, l)
  PROVE  SleepInv'
<1> DEFINE r == [sleepers[t] EXCEPT !.pc = "ww", !.on = c, !.back = l]
<1>1. sleepers[t] \in Sleeper /\ tag \in Tags /\ waiters \in BOOLEAN
  BY DEF SleepInv
<1>2. r \in Sleeper /\ r.pc = "ww"
  BY ZenonT(40), <1>1 DEF Sleeper, Sleep!Places
<1>3. sleepers' = [sleepers EXCEPT ![t] = r]
  BY ZenonT(40), <1>1 DEF Sleep!WaitFor, SleepInv
<1>4. WaitInv(r)
  BY <1>2 DEF WaitInv
<1> HIDE DEF r
<1>5. frame' = frame /\ waiters' = waiters /\ tag' = tag
  BY DEF Sleep!WaitFor
<1>6. StillBlocks
  BY <1>5 DEF StillBlocks
<1>7. frame' \in AnyWord /\ frame'.shared <= MaxShared
  BY <1>5 DEF SleepInv
<1>8. QED
  BY ZenonT(40), <1>1, <1>2, <1>3, <1>4, <1>5, <1>6, <1>7, Moved

\* The CAS of UpdateAndWake: either it wakes, or it leaves everybody blocked.
LEMMA Wakes ==
  ASSUME SleepInv, NEW t \in Threads, sleepers[t].pc # "wake", NEW w \in AnyWord,
         w.shared <= MaxShared, NEW wakes \in BOOLEAN,
         NEW l \in {"idle", "try", "unpin", "queue", "complete"},
         Sleep!UpdateAndWake(t, w, wakes, l),
         wakes \/ \A c \in Sleep!Conditions \ {"load"} : Sleep!Blocks(c, frame) => Sleep!Blocks(c, w)
  PROVE  SleepInv'
<1>1. sleepers[t] \in Sleeper /\ tag \in Tags /\ waiters \in BOOLEAN
  BY DEF SleepInv
<1>2. frame' = w /\ tag' = tag
  BY DEF Sleep!UpdateAndWake
<1>3. CASE waiters /\ wakes
  <2> DEFINE r == [sleepers[t] EXCEPT !.pc = "wake", !.back = l]
  <2>1. waiters' = FALSE /\ sleepers' = [sleepers EXCEPT ![t] = r]
    BY ZenonT(40), <1>1, <1>3 DEF Sleep!UpdateAndWake, SleepInv
  <2>2. r \in Sleeper /\ r.pc = "wake"
    BY ZenonT(40), <1>1 DEF Sleeper, Sleep!Places
  <2>3. WaitInv(r)
    BY <2>2 DEF WaitInv
  <2> HIDE DEF r
  <2>4. QED
    BY ZenonT(40), <1>1, <1>2, <2>1, <2>2, <2>3, Moved
<1>4. CASE ~(waiters /\ wakes)
  <2> DEFINE r == Sleep!GoneTo(sleepers[t], l)
  <2>1. waiters' = waiters /\ sleepers' = [sleepers EXCEPT ![t] = r]
    BY <1>4 DEF Sleep!UpdateAndWake, Sleep!Goto, SleepInv
  <2>2. l \in Sleep!Places \ (Sleep!WaitPlaces \cup {"wake"})
    BY ZenonT(40) DEF Sleep!Places, Sleep!WaitPlaces
  <2>3. r \in Sleeper /\ r.pc = l
    BY ZenonT(40), <2>2, <1>1, SleeperGone
  <2>4. WaitInv(r) /\ r.pc # "asleep"
    BY ZenonT(40), <2>2, <2>3 DEF WaitInv, Sleep!WaitPlaces
  <2> HIDE DEF r
  <2>5. waiters => StillBlocks
    BY <1>2, <1>4 DEF StillBlocks
  <2>6. QED
    BY ZenonT(40), <1>1, <1>2, <2>1, <2>3, <2>4, <2>5, Moved
<1>5. QED
  BY <1>3, <1>4

\* WaitWhile judges the word that it has read.
LEMMA Judged ==
  ASSUME SleepInv, NEW t \in Threads, sleepers[t].pc # "wake",
         Sleep!Judge(t, frame, waiters), UNCHANGED <<frame, waiters, tag>>
  PROVE  SleepInv'
<1> DEFINE q == [sleepers[t] EXCEPT !.seen = frame, !.bit = waiters]
           l == IF sleepers[t].on = "load" THEN "state"
                ELSE IF Sleep!Blocks(sleepers[t].on, frame) THEN (IF waiters THEN "sleep" ELSE "cas")
                ELSE sleepers[t].back
           r == Sleep!GoneTo(q, l)
<1>1. sleepers[t] \in Sleeper /\ tag \in Tags /\ waiters \in BOOLEAN /\ frame \in AnyWord
  BY DEF SleepInv
<1>2. q \in Sleeper /\ q.on = sleepers[t].on /\ q.seen = frame
  BY ZenonT(40), <1>1 DEF Sleeper
<1>3. sleepers' = [sleepers EXCEPT ![t] = r]
  BY ZenonT(40), <1>1 DEF Sleep!Judge, SleepInv
<1>4. /\ l \in Sleep!Places \ {"wake", "asleep", "tag"}
      /\ l = "state" => sleepers[t].on = "load"
      /\ l \in {"cas", "sleep"} => Sleep!Blocks(sleepers[t].on, frame)
  BY ZenonT(40), <1>1 DEF Sleeper, Sleep!Places
<1> HIDE DEF q, l
<1>5. r \in Sleeper /\ r.pc = l
  BY ZenonT(40), <1>1, <1>2, <1>4, SleeperGone
<1>6. l \in Sleep!WaitPlaces => r.on = sleepers[t].on
  BY ZenonT(40), <1>1, <1>2, <1>4, SleeperGone
<1>7. l \in Sleep!WaitPlaces \ {"ww", "asleep"} => r.seen = frame
  BY ZenonT(40), <1>1, <1>2, <1>4, SleeperGone
<1>8. WaitInv(r)
  BY <1>4, <1>5, <1>6, <1>7 DEF WaitInv, Sleep!WaitPlaces
<1> HIDE DEF r
<1>9. frame' \in AnyWord /\ frame'.shared <= MaxShared /\ StillBlocks
  BY DEF SleepInv, StillBlocks
<1>10. QED
  BY ZenonT(40), <1>1, <1>3, <1>4, <1>5, <1>8, <1>9, Moved

\* The steps of WaitWhile.
LEMMA WaitSteps ==
  ASSUME SleepInv, NEW t \in Threads,
         Sleep!WaitLoad(t) \/ Sleep!IsLoadingState(t) \/ Sleep!IsLoadingTag(t) \/ Sleep!SetWaiters(t) \/ Sleep!FutexWait(t)
  PROVE  SleepInv'
<1> DEFINE Gets(l) == Sleep!GoneTo(sleepers[t], l)
<1>1. /\ sleepers[t] \in Sleeper /\ tag \in Tags /\ waiters \in BOOLEAN /\ frame \in AnyWord
      /\ frame.shared <= MaxShared /\ WaitInv(sleepers[t])
  BY ZenonT(40) DEF SleepInv
<1>2. sleepers[t].back \in Sleep!Places \ (Sleep!WaitPlaces \cup {"wake"})
  BY SMTT(30), ZenonT(40), <1>1 DEF Sleeper, Sleep!Places, Sleep!WaitPlaces
<1>3. \A l \in Sleep!Places :
        /\ Gets(l) \in Sleeper /\ Gets(l).pc = l
        /\ l \in Sleep!WaitPlaces => Gets(l).on = sleepers[t].on
        /\ l \in {"cas", "sleep", "state", "tag"} => Gets(l).seen = sleepers[t].seen
  BY ZenonT(40), <1>1, SleeperGone DEF Sleep!WaitPlaces
<1>4. ASSUME NEW l \in Sleep!Places, Sleep!Goto(t, l)
      PROVE  sleepers' = [sleepers EXCEPT ![t] = Gets(l)]
  BY SMTT(30), ZenonT(40), <1>4 DEF Sleep!Goto, SleepInv
<1> HIDE DEF Gets
<1>5. CASE Sleep!WaitLoad(t)
  BY ZenonT(40), <1>5, Judged DEF Sleep!WaitLoad, Sleep!At
<1>6. CASE Sleep!IsLoadingState(t)
  <2> DEFINE l == IF frame.state = "Loading" THEN "tag" ELSE sleepers[t].back
  <2>1. l \in Sleep!Places \ {"wake", "asleep", "cas", "sleep"}
    BY SMTT(30), ZenonT(40), <1>2 DEF Sleep!Places, Sleep!WaitPlaces
  <2>2. Sleep!Goto(t, l) /\ UNCHANGED <<frame, waiters, tag>> /\ sleepers[t].pc = "state"
    BY ZenonT(40), <1>6 DEF Sleep!IsLoadingState, Sleep!At
  <2>3. WaitInv(Gets(l))
    BY ZenonT(40), <1>1, <1>2, <1>3, <2>1, <2>2 DEF WaitInv, Sleep!WaitPlaces
  <2> HIDE DEF l
  <2>4. QED
    BY ZenonT(40), <1>1, <1>3, <1>4, <2>1, <2>2, <2>3, Moved DEF StillBlocks
<1>7. CASE Sleep!IsLoadingTag(t)
  <2> DEFINE l == IF tag # sleepers[t].want THEN sleepers[t].back ELSE IF sleepers[t].bit THEN "sleep" ELSE "cas"
  <2>1. l \in Sleep!Places \ {"wake", "asleep", "state", "tag"}
    BY ZenonT(40), <1>2 DEF Sleep!Places, Sleep!WaitPlaces
  <2>2. Sleep!Goto(t, l) /\ UNCHANGED <<frame, waiters, tag>> /\ sleepers[t].pc = "tag"
    BY SMTT(30), ZenonT(40), <1>7 DEF Sleep!IsLoadingTag, Sleep!At
  <2>3. WaitInv(Gets(l))
    BY ZenonT(40), <1>1, <1>2, <1>3, <2>1, <2>2 DEF WaitInv, Sleep!WaitPlaces
  <2> HIDE DEF l
  <2>4. QED
    BY ZenonT(40), <1>1, <1>3, <1>4, <2>1, <2>2, <2>3, Moved DEF StillBlocks
<1>8. CASE Sleep!SetWaiters(t)
  <2>1. CASE frame = sleepers[t].seen /\ ~waiters
    <3>1. Sleep!Goto(t, "sleep") /\ waiters' = TRUE /\ UNCHANGED <<frame, tag>> /\ sleepers[t].pc = "cas"
      BY ZenonT(40), <1>8, <2>1 DEF Sleep!SetWaiters, Sleep!At
    <3>2. WaitInv(Gets("sleep"))
      BY ZenonT(40), <1>1, <1>3, <3>1 DEF WaitInv, Sleep!WaitPlaces, Sleep!Places
    <3>3. QED
      BY ZenonT(40), <1>1, <1>3, <1>4, <3>1, <3>2, Moved DEF StillBlocks, Sleep!Places
  <2>2. CASE ~(frame = sleepers[t].seen /\ ~waiters)
    BY ZenonT(40), <1>8, <2>2, Judged DEF Sleep!SetWaiters, Sleep!At
  <2>3. QED
    BY SMTT(30), ZenonT(40), <2>1, <2>2
<1>9. CASE Sleep!FutexWait(t)
  <2>1. UNCHANGED <<frame, waiters, tag>> /\ sleepers[t].pc = "sleep"
    BY ZenonT(40), <1>9 DEF Sleep!FutexWait, Sleep!At
  <2>2. CASE frame = sleepers[t].seen /\ waiters
    <3>1. Sleep!Goto(t, "asleep")
      BY <1>9, <2>2 DEF Sleep!FutexWait
    <3>2. Gets("asleep") \in Sleeper /\ Gets("asleep").pc = "asleep" /\ Gets("asleep").on = sleepers[t].on
      BY ZenonT(40), <1>3 DEF Sleep!Places, Sleep!WaitPlaces
    <3>3. sleepers[t].on # "load" => Sleep!Blocks(sleepers[t].on, frame)
      BY ZenonT(40), <1>1, <2>1, <2>2 DEF WaitInv
    <3>4. WaitInv(Gets("asleep"))
      BY <3>2 DEF WaitInv
    <3>5. sleepers' = [sleepers EXCEPT ![t] = Gets("asleep")]
      BY <3>1, <1>4 DEF Sleep!Places
    <3>6. QED
      BY ZenonT(40), <1>1, <2>1, <2>2, <3>2, <3>3, <3>4, <3>5, Moved DEF StillBlocks
  <2>3. CASE ~(frame = sleepers[t].seen /\ waiters)
    <3>1. Sleep!Goto(t, "ww")
      BY ZenonT(40), <1>9, <2>3 DEF Sleep!FutexWait
    <3>2. Gets("ww") \in Sleeper /\ Gets("ww").pc = "ww" /\ sleepers' = [sleepers EXCEPT ![t] = Gets("ww")]
      BY <1>3, <1>4, <3>1 DEF Sleep!Places
    <3>3. WaitInv(Gets("ww"))
      BY <3>2 DEF WaitInv
    <3>4. QED
      BY ZenonT(40), <1>1, <2>1, <3>2, <3>3, Moved DEF StillBlocks
  <2>4. QED
    BY SMTT(30), ZenonT(40), <2>2, <2>3
<1>10. QED
  BY <1>5, <1>6, <1>7, <1>8, <1>9

\* FutexWakeAll leaves nobody asleep.
LEMMA WakeSteps ==
  ASSUME SleepInv, NEW t \in Threads, Sleep!FutexWakeAll(t)
  PROVE  SleepInv'
<1>1. tag \in Tags /\ \A u \in Threads : sleepers[u] \in Sleeper /\ WaitInv(sleepers[u])
  BY ZenonT(40) DEF SleepInv
<1>2. sleepers[t].back \in Sleep!Places \ (Sleep!WaitPlaces \cup {"wake"})
  BY ZenonT(40), <1>1 DEF Sleeper, Sleep!Places, Sleep!WaitPlaces
<1>3. Sleep!GoneTo(sleepers[t], sleepers[t].back) \in Sleeper /\ Sleep!GoneTo(sleepers[t], sleepers[t].back).pc = sleepers[t].back
  BY ZenonT(40), <1>1, <1>2, SleeperGone
<1>4. \A u \in Threads : Sleep!GoneTo(sleepers[u], "ww") \in Sleeper /\ Sleep!GoneTo(sleepers[u], "ww").pc = "ww"
  <2>1. "ww" \in Sleep!Places
    BY ZenonT(40) DEF Sleep!Places
  <2>2. QED
    BY ZenonT(40), <1>1, <2>1, SleeperGone
<1>5. \A u \in Threads : sleepers'[u] = IF u = t THEN Sleep!GoneTo(sleepers[t], sleepers[t].back)
                                  ELSE IF Sleep!At(u, "asleep") THEN Sleep!GoneTo(sleepers[u], "ww") ELSE sleepers[u]
  BY ZenonT(40) DEF Sleep!FutexWakeAll
<1>6. sleepers' \in [Threads -> Sleeper]
  BY ZenonT(40), <1>1, <1>3, <1>4 DEF Sleep!FutexWakeAll
<1>7. \A u \in Threads : WaitInv(sleepers'[u]) /\ sleepers'[u].pc # "asleep"
  BY ZenonT(40), <1>1, <1>2, <1>3, <1>4, <1>5 DEF WaitInv, Sleep!WaitPlaces, Sleep!At
<1>8. (\A u \in Threads : WaitInv(sleepers[u]))'
  BY ZenonT(40), <1>7 DEF WaitInv, Sleep!Blocks, Sleep!Latched, Sleep!HasWriteback
<1>9. Sleep!NoLostWakeup'
  BY ZenonT(40), <1>7 DEF Sleep!NoLostWakeup, Sleep!At
<1>10. QED
  BY <1>6, <1>8, <1>9 DEF SleepInv, Sleep!FutexWakeAll

\* The words that the transitions install.
LEMMA NextWords ==
  ASSUME NEW w \in AnyWord, w.shared <= MaxShared, NEW b \in BOOLEAN
  PROVE  /\ \A v \in {Sleep!Pinned(w), Sleep!Unpinned(w), Sleep!AcquiredExclusive(w), Sleep!MarkedDirty(w), Sleep!ReleasedShared(w),
                      Sleep!ReleasedExclusive(w), Sleep!QueuedWriteback(w), Sleep!BegunWriteback(w),
                      Sleep!CancelledWriteback(w), Sleep!CompletedWriteback(w, b), Sleep!ReservedWord, Sleep!FreeWord,
                      Sleep!PublishedResident(w, b), Sleep!ReleasedToFree(w)} :
              v \in AnyWord /\ v.shared <= MaxShared
         /\ Sleep!AcquiredShared(w) \in AnyWord
         /\ Sleep!CanAcquireShared(w) => Sleep!AcquiredShared(w).shared <= MaxShared
<1>1. w.shared \in Int /\ w.shared - 1 <= MaxShared /\ w.shared + 1 \in Int /\ w.pins + 1 \in Int
      /\ w.pins - 1 \in Int /\ w.shared - 1 \in Int /\ 0 <= MaxShared
  BY FrameControlBounds DEF AnyWord
<1>2. \A v \in {Sleep!Pinned(w), Sleep!Unpinned(w), Sleep!AcquiredExclusive(w), Sleep!ReleasedShared(w)} :
              v \in AnyWord /\ v.shared <= MaxShared
  BY ZenonT(40), <1>1 DEF Sleep!Pinned, Sleep!Unpinned, Sleep!AcquiredExclusive, Sleep!ReleasedShared, AnyWord
<1>3. Sleep!MarkedDirty(w) \in AnyWord /\ Sleep!MarkedDirty(w).shared <= MaxShared
  BY ZenonT(40) DEF Sleep!MarkedDirty, Sleep!HasWriteback, AnyWord
<1>4. Sleep!ReleasedExclusive(w) \in AnyWord /\ Sleep!ReleasedExclusive(w).shared <= MaxShared
  BY ZenonT(40) DEF Sleep!ReleasedExclusive, Sleep!HasWriteback, AnyWord
<1>5. \A v \in {Sleep!QueuedWriteback(w), Sleep!BegunWriteback(w), Sleep!CancelledWriteback(w)} :
              v \in AnyWord /\ v.shared <= MaxShared
  BY ZenonT(40) DEF Sleep!QueuedWriteback, Sleep!BegunWriteback, Sleep!CancelledWriteback, AnyWord
<1>6. Sleep!CompletedWriteback(w, b) \in AnyWord /\ Sleep!CompletedWriteback(w, b).shared <= MaxShared
  <2>1. (w.dirty /\ ~Sleep!ClearsDirty(w, b)) \in BOOLEAN
    OBVIOUS
  <2>2. QED
    BY ZenonT(40), <2>1 DEF Sleep!CompletedWriteback, AnyWord
<1>7. \A v \in {Sleep!ReservedWord, Sleep!FreeWord, Sleep!ReleasedToFree(w)} : v \in AnyWord /\ v.shared <= MaxShared
  <2>1. Sleep!FreeWord \in AnyWord /\ Sleep!FreeWord.shared = 0
    BY DEF Sleep!FreeWord, AnyWord, Sleep!States
  <2>2. Sleep!ReservedWord \in AnyWord /\ Sleep!ReservedWord.shared = 0
    <3>1. \A v \in AnyWord : [v EXCEPT !.state = "Loading", !.pins = 1] \in AnyWord
      <4>1. 1 \in Int
        OBVIOUS
      <4>2. QED
        BY <4>1, ZenonT(30) DEF AnyWord, Sleep!States
    <3>2. \A v \in AnyWord : [v EXCEPT !.state = "Loading", !.pins = 1].shared = v.shared
      BY DEF AnyWord
    <3>3. QED
      BY ZenonT(40), <2>1, <3>1, <3>2 DEF Sleep!ReservedWord
  <2>3. Sleep!ReleasedToFree(w) \in AnyWord /\ Sleep!ReleasedToFree(w).shared = w.shared
    BY ZenonT(40), <2>1 DEF Sleep!ReleasedToFree, AnyWord
  <2>4. QED
    BY <1>1, <2>1, <2>2, <2>3
<1>8. Sleep!PublishedResident(w, b) \in AnyWord /\ Sleep!PublishedResident(w, b).shared <= MaxShared
  BY ZenonT(40), <1>1 DEF Sleep!PublishedResident, AnyWord, Sleep!States
<1>9. /\ Sleep!AcquiredShared(w) \in AnyWord
      /\ Sleep!CanAcquireShared(w) => Sleep!AcquiredShared(w).shared <= MaxShared
  BY <1>1, FrameControlBounds DEF Sleep!AcquiredShared, Sleep!CanAcquireShared, AnyWord
<1>10. QED
  BY ZenonT(40), <1>2, <1>3, <1>4, <1>5, <1>6, <1>7, <1>8, <1>9

\* The transitions that wake nobody leave everybody blocked.
LEMMA SilentWords ==
  ASSUME NEW w \in AnyWord, w.shared <= MaxShared, NEW c \in Sleep!Conditions \ {"load"}, Sleep!Blocks(c, w)
  PROVE  /\ \A v \in {Sleep!Pinned(w), Sleep!Unpinned(w), Sleep!AcquiredExclusive(w), Sleep!MarkedDirty(w),
                      Sleep!QueuedWriteback(w), Sleep!BegunWriteback(w), Sleep!AcquiredShared(w)} : Sleep!Blocks(c, v)
         /\ ~Sleep!ReleaseSharedWakes(w) => Sleep!Blocks(c, Sleep!ReleasedShared(w))
         /\ Sleep!ReserveOutcome(w, TRUE) # "Reserved"
<1>1. w.shared \in Int /\ MaxShared \in Nat /\ MaxShared > 0
  BY FrameControlBounds DEF AnyWord
<1>2. CASE c = "shared"
  <2>1. \A v : Sleep!Blocks(c, v) = (v.exclusive \/ v.shared >= MaxShared)
    BY <1>2 DEF Sleep!Blocks
  <2>2. w.exclusive \/ w.shared >= MaxShared
    BY ZenonT(40), <2>1
  <2>3. \A v \in {Sleep!Pinned(w), Sleep!Unpinned(w), Sleep!AcquiredExclusive(w), Sleep!MarkedDirty(w),
                  Sleep!QueuedWriteback(w), Sleep!BegunWriteback(w), Sleep!AcquiredShared(w)} :
          v.exclusive \/ v.shared >= MaxShared
    <3>1. \A v \in {Sleep!Pinned(w), Sleep!Unpinned(w), Sleep!AcquiredExclusive(w), Sleep!AcquiredShared(w)} :
            v.exclusive \/ v.shared >= MaxShared
      BY <1>1, <2>2 DEF Sleep!Pinned, Sleep!Unpinned, Sleep!AcquiredExclusive, Sleep!AcquiredShared, AnyWord
    <3>2. \A v \in {Sleep!MarkedDirty(w), Sleep!QueuedWriteback(w), Sleep!BegunWriteback(w)} :
            v.exclusive = w.exclusive /\ v.shared = w.shared
      BY ZenonT(40) DEF Sleep!MarkedDirty, Sleep!QueuedWriteback, Sleep!BegunWriteback, AnyWord
    <3>3. QED
      BY <2>2, <3>1, <3>2
  <2>4. ~Sleep!ReleaseSharedWakes(w) => Sleep!ReleasedShared(w).exclusive \/ Sleep!ReleasedShared(w).shared >= MaxShared
    BY <1>1, <2>2 DEF Sleep!ReleaseSharedWakes, Sleep!ReleasedShared, AnyWord
  <2>5. Sleep!ReserveOutcome(w, TRUE) # "Reserved"
    BY <1>1, <2>2 DEF Sleep!ReserveOutcome, Sleep!Latched
  <2>6. QED
    BY ZenonT(40), <2>1, <2>3, <2>4, <2>5
<1>3. CASE c = "latch"
  <2>1. \A v : Sleep!Blocks(c, v) = (v.exclusive \/ v.shared > 0)
    BY <1>3 DEF Sleep!Blocks, Sleep!Latched
  <2>2. w.exclusive \/ w.shared > 0
    BY ZenonT(40), <2>1
  <2>3. \A v \in {Sleep!Pinned(w), Sleep!Unpinned(w), Sleep!AcquiredExclusive(w), Sleep!MarkedDirty(w),
                  Sleep!QueuedWriteback(w), Sleep!BegunWriteback(w), Sleep!AcquiredShared(w)} :
          v.exclusive \/ v.shared > 0
    <3>1. \A v \in {Sleep!Pinned(w), Sleep!Unpinned(w), Sleep!AcquiredExclusive(w), Sleep!AcquiredShared(w)} :
            v.exclusive \/ v.shared > 0
      BY <1>1, <2>2 DEF Sleep!Pinned, Sleep!Unpinned, Sleep!AcquiredExclusive, Sleep!AcquiredShared, AnyWord
    <3>2. \A v \in {Sleep!MarkedDirty(w), Sleep!QueuedWriteback(w), Sleep!BegunWriteback(w)} :
            v.exclusive = w.exclusive /\ v.shared = w.shared
      BY ZenonT(40) DEF Sleep!MarkedDirty, Sleep!QueuedWriteback, Sleep!BegunWriteback, AnyWord
    <3>3. QED
      BY <2>2, <3>1, <3>2
  <2>4. ~Sleep!ReleaseSharedWakes(w) => Sleep!ReleasedShared(w).exclusive \/ Sleep!ReleasedShared(w).shared > 0
    BY <1>1, <2>2 DEF Sleep!ReleaseSharedWakes, Sleep!ReleasedShared, AnyWord
  <2>5. Sleep!ReserveOutcome(w, TRUE) # "Reserved"
    BY <2>2 DEF Sleep!ReserveOutcome, Sleep!Latched
  <2>6. QED
    BY ZenonT(40), <2>1, <2>3, <2>4, <2>5
<1>4. CASE c = "writeback"
  <2>1. \A v : Sleep!Blocks(c, v) = (v.queued \/ v.active)
    BY <1>4 DEF Sleep!Blocks, Sleep!HasWriteback
  <2>2. w.queued \/ w.active
    BY ZenonT(40), <2>1
  <2>3. \A v \in {Sleep!Pinned(w), Sleep!Unpinned(w), Sleep!AcquiredExclusive(w), Sleep!MarkedDirty(w),
                  Sleep!QueuedWriteback(w), Sleep!BegunWriteback(w), Sleep!AcquiredShared(w), Sleep!ReleasedShared(w)} :
          v.queued \/ v.active
    BY ZenonT(40), <2>2 DEF Sleep!Pinned, Sleep!Unpinned, Sleep!AcquiredExclusive, Sleep!MarkedDirty, Sleep!QueuedWriteback,
                Sleep!BegunWriteback, Sleep!AcquiredShared, Sleep!ReleasedShared, AnyWord
  <2>4. Sleep!ReserveOutcome(w, TRUE) # "Reserved"
    BY <2>2 DEF Sleep!ReserveOutcome, Sleep!HasWriteback
  <2>5. QED
    BY ZenonT(40), <2>1, <2>3, <2>4
<1>5. QED
  BY ZenonT(40), <1>2, <1>3, <1>4 DEF Sleep!Conditions

\* The steps of a call that neither wait nor wake.
LEMMA QuietSteps ==
  ASSUME SleepInv, NEW t \in Threads,
         Sleep!TryPinResident(t) \/ Sleep!Unpin(t) \/ Sleep!MarkDirty(t) \/ Sleep!TryReserve(t) \/ Sleep!StoreTag(t)
  PROVE  SleepInv'
<1>1. frame \in AnyWord /\ frame.shared <= MaxShared /\ tag \in Tags /\ sleepers[t] \in Sleeper
  BY DEF SleepInv
<1>2. {"idle", "discard", "try", "dropwait", "held", "storetag", "publish"}
        \subseteq Sleep!Places \ (Sleep!WaitPlaces \cup {"wake"})
  BY DEF Sleep!Places, Sleep!WaitPlaces
<1>3. ASSUME NEW l \in Sleep!Places \ (Sleep!WaitPlaces \cup {"wake"}), Sleep!Stay(t, l), sleepers[t].pc # "wake"
      PROVE  SleepInv'
  BY ZenonT(40), <1>1, <1>3, Quiet DEF Sleep!Stay, StillBlocks
<1>4. ASSUME NEW l \in Sleep!Places \ (Sleep!WaitPlaces \cup {"wake"}), sleepers[t].pc # "wake",
             NEW v \in AnyWord, v.shared <= MaxShared, Sleep!Update(t, v, l),
             \A c \in Sleep!Conditions \ {"load"} : Sleep!Blocks(c, frame) => Sleep!Blocks(c, v)
      PROVE  SleepInv'
  BY <1>1, <1>4, Quiet DEF Sleep!Update, StillBlocks
<1>5. CASE Sleep!TryPinResident(t)
  <2>1. CASE Sleep!CanPinResident(frame)
    BY ZenonT(40), <1>1, <1>2, <1>4, <1>5, <2>1, NextWords, SilentWords DEF Sleep!TryPinResident, Sleep!At
  <2>2. CASE ~Sleep!CanPinResident(frame)
    BY ZenonT(40), <1>2, <1>3, <1>5, <2>2 DEF Sleep!TryPinResident, Sleep!At
  <2>3. QED
    BY <2>1, <2>2
<1>6. CASE Sleep!Unpin(t)
  BY ZenonT(40), <1>1, <1>2, <1>4, <1>6, NextWords, SilentWords DEF Sleep!Unpin, Sleep!At
<1>7. CASE Sleep!MarkDirty(t)
  BY ZenonT(40), <1>1, <1>2, <1>4, <1>7, NextWords, SilentWords DEF Sleep!MarkDirty, Sleep!At
<1>8. CASE Sleep!TryReserve(t)
  <2>1. CASE Sleep!ReserveOutcome(frame, TRUE) = "Reserved"
    BY ZenonT(40), <1>1, <1>2, <1>4, <1>8, <2>1, NextWords, SilentWords DEF Sleep!TryReserve, Sleep!At
  <2>2. CASE Sleep!ReserveOutcome(frame, TRUE) # "Reserved"
    BY ZenonT(40), <1>2, <1>3, <1>8, <2>2 DEF Sleep!TryReserve, Sleep!At
  <2>3. QED
    BY ZenonT(40), <2>1, <2>2
<1>9. CASE Sleep!StoreTag(t)
  <2>1. tag' \in Tags
    BY ZenonT(40), <1>1, <1>9 DEF Sleep!StoreTag, Sleeper
  <2>2. QED
    BY ZenonT(40), <1>1, <1>2, <1>9, <2>1, Quiet DEF Sleep!StoreTag, Sleep!At, StillBlocks
<1>10. QED
  BY <1>5, <1>6, <1>7, <1>8, <1>9

\* The steps that take a latch, queue a writeback or drop a page: a refusal waits.
LEMMA TrySteps ==
  ASSUME SleepInv, NEW t \in Threads,
         \/ Sleep!AcquireShared(t) \/ Sleep!AcquireExclusive(t) \/ Sleep!TryQueueWriteback(t)
         \/ Sleep!TryDiscardPinned(t) \/ Sleep!DropWaitWriteback(t)
  PROVE  SleepInv'
<1>1. frame \in AnyWord /\ frame.shared <= MaxShared /\ tag \in Tags
  BY DEF SleepInv
<1>2. {"idle", "held", "begin", "dropunpin", "unpin"} \subseteq Sleep!Places \ (Sleep!WaitPlaces \cup {"wake"})
  BY ZenonT(40) DEF Sleep!Places, Sleep!WaitPlaces
<1>3. ASSUME NEW l \in Sleep!Places \ (Sleep!WaitPlaces \cup {"wake"}), Sleep!Stay(t, l), sleepers[t].pc # "wake"
      PROVE  SleepInv'
  BY ZenonT(40), <1>1, <1>3, Quiet DEF Sleep!Stay, StillBlocks
<1>4. ASSUME NEW l \in Sleep!Places \ (Sleep!WaitPlaces \cup {"wake"}), sleepers[t].pc # "wake",
             NEW v \in AnyWord, v.shared <= MaxShared, Sleep!Update(t, v, l),
             \A c \in Sleep!Conditions \ {"load"} : Sleep!Blocks(c, frame) => Sleep!Blocks(c, v)
      PROVE  SleepInv'
  BY <1>1, <1>4, Quiet DEF Sleep!Update, StillBlocks
<1>5. CASE Sleep!AcquireShared(t)
  <2>1. CASE Sleep!CanAcquireShared(frame)
    BY ZenonT(40), <1>1, <1>2, <1>4, <1>5, <2>1, NextWords, SilentWords DEF Sleep!AcquireShared, Sleep!At
  <2>2. CASE ~Sleep!CanAcquireShared(frame)
    BY ZenonT(40), <1>5, <2>2, Waits DEF Sleep!AcquireShared, Sleep!At, Sleep!Conditions
  <2>3. QED
    BY <2>1, <2>2
<1>6. CASE Sleep!AcquireExclusive(t)
  <2>1. CASE Sleep!CanAcquireExclusive(frame)
    BY ZenonT(40), <1>1, <1>2, <1>4, <1>6, <2>1, NextWords, SilentWords DEF Sleep!AcquireExclusive, Sleep!At
  <2>2. CASE ~Sleep!CanAcquireExclusive(frame)
    BY ZenonT(40), <1>6, <2>2, Waits DEF Sleep!AcquireExclusive, Sleep!At, Sleep!Conditions
  <2>3. QED
    BY <2>1, <2>2
<1>7. CASE Sleep!TryQueueWriteback(t)
  <2>1. CASE Sleep!QueueOutcome(frame, FALSE) = "Queued"
    BY ZenonT(40), <1>1, <1>2, <1>4, <1>7, <2>1, NextWords, SilentWords DEF Sleep!TryQueueWriteback, Sleep!At
  <2>2. CASE Sleep!QueueOutcome(frame, FALSE) = "Pending"
    BY <1>7, <2>2, Waits DEF Sleep!TryQueueWriteback, Sleep!At, Sleep!Conditions
  <2>3. CASE Sleep!QueueOutcome(frame, FALSE) \notin {"Queued", "Pending"}
    BY ZenonT(40), <1>2, <1>3, <1>7, <2>3 DEF Sleep!TryQueueWriteback, Sleep!At
  <2>4. QED
    BY ZenonT(40), <2>1, <2>2, <2>3
<1>8. CASE Sleep!TryDiscardPinned(t)
  <2>1. Sleep!DiscardOutcome(frame) \in {"Discarded", "Writeback", "Latched", "Busy"}
    BY DEF Sleep!DiscardOutcome
  <2>2. CASE Sleep!DiscardOutcome(frame) = "Discarded"
    BY ZenonT(40), <1>1, <1>8, <2>2, NextWords, Wakes DEF Sleep!TryDiscardPinned, Sleep!At
  <2>3. CASE Sleep!DiscardOutcome(frame) = "Writeback"
    BY <1>2, <1>3, <1>8, <2>3 DEF Sleep!TryDiscardPinned, Sleep!At
  <2>4. CASE Sleep!DiscardOutcome(frame) = "Latched"
    BY <1>8, <2>4, Waits DEF Sleep!TryDiscardPinned, Sleep!At, Sleep!Conditions
  <2>5. CASE Sleep!DiscardOutcome(frame) = "Busy"
    BY ZenonT(40), <1>2, <1>3, <1>8, <2>5 DEF Sleep!TryDiscardPinned, Sleep!At
  <2>6. QED
    BY <2>1, <2>2, <2>3, <2>4, <2>5
<1>9. CASE Sleep!DropWaitWriteback(t)
  BY <1>9, Waits DEF Sleep!DropWaitWriteback, Sleep!At, Sleep!Conditions
<1>10. QED
  BY <1>5, <1>6, <1>7, <1>8, <1>9

\* The steps that may wake.
LEMMA ReleaseSteps ==
  ASSUME SleepInv, NEW t \in Threads,
         \/ Sleep!ReleaseShared(t) \/ Sleep!ReleaseExclusive(t) \/ Sleep!BeginWriteback(t) \/ Sleep!CancelQueuedWriteback(t)
         \/ Sleep!CompleteWriteback(t) \/ Sleep!PublishResident(t) \/ Sleep!ReleaseToFree(t)
  PROVE  SleepInv'
<1>1. frame \in AnyWord /\ frame.shared <= MaxShared
  BY ZenonT(40) DEF SleepInv
<1>2. CASE Sleep!ReleaseShared(t)
  <2>1. Sleep!ReleaseSharedWakes(frame) \in BOOLEAN
    BY DEF Sleep!ReleaseSharedWakes
  <2>2. \A c \in Sleep!Conditions \ {"load"} :
          Sleep!Blocks(c, frame) => Sleep!ReleaseSharedWakes(frame) \/ Sleep!Blocks(c, Sleep!ReleasedShared(frame))
    BY ZenonT(40), <1>1, SilentWords
  <2>3. Sleep!ReleasedShared(frame) \in AnyWord /\ Sleep!ReleasedShared(frame).shared <= MaxShared
    BY ZenonT(40), <1>1, NextWords
  <2>4. Sleep!UpdateAndWake(t, Sleep!ReleasedShared(frame), Sleep!ReleaseSharedWakes(frame), "idle") /\ sleepers[t].pc # "wake"
    BY ZenonT(40), <1>2 DEF Sleep!ReleaseShared, Sleep!At
  <2>5. QED
    BY ZenonT(40), <2>1, <2>2, <2>3, <2>4, Wakes
<1>3. CASE Sleep!ReleaseExclusive(t)
  BY ZenonT(40), <1>1, <1>3, NextWords, Wakes DEF Sleep!ReleaseExclusive, Sleep!At
<1>4. CASE Sleep!BeginWriteback(t)
  BY ZenonT(40), <1>1, <1>4, NextWords, SilentWords, Wakes DEF Sleep!BeginWriteback, Sleep!At
<1>5. CASE Sleep!CancelQueuedWriteback(t)
  BY ZenonT(40), <1>1, <1>5, NextWords, Wakes DEF Sleep!CancelQueuedWriteback, Sleep!At
<1>6. CASE Sleep!CompleteWriteback(t)
  BY ZenonT(40), <1>1, <1>6, NextWords, Wakes DEF Sleep!CompleteWriteback, Sleep!At
<1>7. CASE Sleep!PublishResident(t)
  BY ZenonT(40), <1>1, <1>7, NextWords, Wakes DEF Sleep!PublishResident, Sleep!At
<1>8. CASE Sleep!ReleaseToFree(t)
  BY ZenonT(40), <1>1, <1>8, NextWords, Wakes DEF Sleep!ReleaseToFree, Sleep!At
<1>9. QED
  BY <1>2, <1>3, <1>4, <1>5, <1>6, <1>7, <1>8

\* A call begins.
LEMMA SleeperStarts ==
  ASSUME SleepInv, NEW t \in Threads, NEW o \in Ops(t), NEW k \in Tags, Sleep!Start(t, o, k)
  PROVE  SleepInv'
<1> DEFINE l == CASE o = "share" -> "try" [] o = "flush" -> "queue"
                  [] o = "load" -> "reserve" [] o = "wait" -> "ww" [] OTHER -> "pin"
           r == [sleepers[t] EXCEPT !.op = o, !.want = k,
                   !.on = IF o = "wait" THEN "load" ELSE @, !.pc = l]
<1>1. sleepers[t] \in Sleeper /\ tag \in Tags /\ waiters \in BOOLEAN
  BY DEF SleepInv
<1>2. l \in {"try", "queue", "reserve", "ww", "pin"}
  BY DEF Sleep!Places
<1>3. sleepers' = [sleepers EXCEPT ![t] = r]
  BY ZenonT(40), <1>1 DEF Sleep!Start, SleepInv
<1> HIDE DEF l
<1>4. r \in Sleeper /\ r.pc = l
  <2>1. /\ o \in Sleep!SleepOps \cup UNION {Ops(u) : u \in Threads} /\ l \in Sleep!Places
        /\ (IF o = "wait" THEN "load" ELSE sleepers[t].on) \in Sleep!Conditions
    BY <1>1, <1>2 DEF Sleeper, Sleep!Places, Sleep!Conditions
  <2>2. QED
    BY <1>1, <2>1, Zenon DEF Sleeper
<1> HIDE DEF r
<1>5. WaitInv(r) /\ r.pc # "asleep"
  BY <1>2, <1>4 DEF WaitInv
<1>6. UNCHANGED <<frame, waiters, tag>> /\ sleepers[t].pc # "wake"
  BY DEF Sleep!Start, Sleep!At
<1>7. frame' \in AnyWord /\ frame'.shared <= MaxShared /\ StillBlocks
  BY <1>6 DEF SleepInv, StillBlocks
<1>8. QED
  BY ZenonT(40), <1>1, <1>3, <1>4, <1>5, <1>6, <1>7, Moved

\* No latch or writeback wait on a frame's control word is lost, for every
\* number of threads and every limit on readers and pins: a thread asleep in
\* WaitWhile is still blocked by the word, with the waiters bit set, or a wake
\* is on its way (docs/concurrency.md 3).
THEOREM NobodyForgotten == Sleep!Spec => []Sleep!NoLostWakeup
<1>1. Sleep!Init => SleepInv
  <2> SUFFICES ASSUME Sleep!Init PROVE SleepInv
    OBVIOUS
  <2>1. Sleep!IdleThread \in Sleeper /\ Sleep!IdleThread.pc = "idle"
    <3>1. Sleep!FreeWord \in AnyWord
      BY DEF Sleep!FreeWord, AnyWord, Sleep!States
    <3>2. (CHOOSE k \in Tags : TRUE) \in Tags
      BY DEF Sleep!Init
    <3>3. QED
      BY <3>1, <3>2 DEF Sleep!IdleThread, Sleeper, Sleep!SleepOps, Sleep!Conditions, Sleep!Places
  <2>2. sleepers \in [Threads -> Sleeper] /\ \A t \in Threads : sleepers[t].pc = "idle"
    BY <2>1 DEF Sleep!Init
  <2>3. Sleep!NoLostWakeup /\ \A t \in Threads : WaitInv(sleepers[t])
    BY <2>2 DEF Sleep!NoLostWakeup, WaitInv, Sleep!At
  <2>4. frame \in AnyWord /\ frame.shared = 0 /\ 0 <= MaxShared
    BY FrameControlBounds DEF Sleep!Init, Sleep!FreeWord, AnyWord, Sleep!States
  <2>5. QED
    BY ZenonT(40), <2>2, <2>3, <2>4 DEF SleepInv, Sleep!Init
<1>2. SleepInv /\ [Sleep!Next]_(Sleep!vars) => SleepInv'
  <2> SUFFICES ASSUME SleepInv, [Sleep!Next]_(Sleep!vars) PROVE SleepInv'
    OBVIOUS
  <2>1. CASE Sleep!Next
    <3>1. PICK t \in Threads : Sleep!Run(t) \/ Sleep!MarkDirty(t) \/ (\E o \in Ops(t), k \in Tags : Sleep!Start(t, o, k))
      BY <2>1 DEF Sleep!Next
    <3>2. QED
      BY <3>1, WaitSteps, WakeSteps, QuietSteps, TrySteps, ReleaseSteps, SleeperStarts DEF Sleep!Run
  <2>2. CASE UNCHANGED Sleep!vars
    BY ZenonT(40), <2>2 DEF Sleep!vars, SleepInv, Sleep!NoLostWakeup, WaitInv, Sleep!Woken, Sleep!At, Sleep!Blocks, Sleep!Latched, Sleep!HasWriteback
  <2>3. QED
    BY <2>1, <2>2
<1>3. SleepInv => Sleep!NoLostWakeup
  BY DEF SleepInv
<1>4. QED
  BY <1>1, <1>2, <1>3, PTL DEF Sleep!Spec

=============================================================================
