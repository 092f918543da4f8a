---------------------------- MODULE Observation -----------------------------
(***************************************************************************)
(* The observation area (lib/buffer/observation_publisher.cc): processes   *)
(* open one shared object by name, claim a record in it, publish under     *)
(* sequence numbers, and the last one removes the name.  Byte locks guard  *)
(* all of it and die with their process, which may happen at any step.     *)
(*                                                                         *)
(* The guarded parts of an object are the snapshot of the frames, number   *)
(* 0, and one record per process.  A part holds two words, each stamped    *)
(* with the sequence number under which it was written.                    *)
(***************************************************************************)
EXTENDS Integers

CONSTANTS
  Processes, Nobody,
  Dead,          \* the pid of a process that no longer exists
  Objects,       \* numbers; the objects shm_open may ever create
  Records,       \* kObservationProcessCapacity of them: 1 .. n
  Bound(_)       \* bound on the sequence number at which a part is written

VARIABLES
  name,      \* the object the name denotes, 0 if none
  area,      \* the objects
  proc,      \* the processes
  reader     \* a process that only maps the object

obsVars == <<name, area, proc, reader>>

Parts == {0} \cup Records
Empty == [sequence |-> 0, first |-> 0, rest |-> 0, orphaned |-> FALSE]
Out == [at |-> "out", obj |-> 0, record |-> 0, part |-> 0]
Quiet == [at |-> "quiet", obj |-> 0, part |-> 0, sequence |-> 0, first |-> 0, rest |-> 0]

Init ==
  /\ name = 0
  /\ area = [o \in Objects |-> [used |-> FALSE, setup |-> Nobody, publisher |-> Nobody, users |-> {},
                                owner |-> [r \in Records |-> Nobody], part |-> [k \in Parts |-> Empty]]]
  /\ proc = [p \in Processes |-> Out]
  /\ reader = Quiet

At(p, l) == proc[p].at = l
Obj(p) == proc[p].obj
Goto(p, l) == proc' = [proc EXCEPT ![p].at = l]

TypeOK ==
  /\ name \in Objects \cup {0}
  /\ \A o \in Objects : /\ {area[o].setup, area[o].publisher} \subseteq Processes \cup {Nobody}
                        /\ area[o].users \subseteq Processes
                        /\ \A k \in Parts : area[o].part[k].sequence \in Nat
  /\ \A p \in Processes : proc[p].obj \in Objects \cup {0} /\ {proc[p].record, proc[p].part} \subseteq Parts

-----------------------------------------------------------------------------
(* Open.                                                                   *)

\* shm_open with O_CREAT.
ShmOpen(p) ==
  /\ At(p, "out") /\ UNCHANGED reader
  /\ \/ name # 0 /\ proc' = [proc EXCEPT ![p].at = "setup", ![p].obj = name] /\ UNCHANGED <<name, area>>
     \/ /\ name = 0
        /\ \E o \in Objects : /\ ~area[o].used /\ \A q \in Objects : q < o => area[q].used
                              /\ name' = o
                              /\ area' = [area EXCEPT ![o].used = TRUE]
                              /\ proc' = [proc EXCEPT ![p].at = "setup", ![p].obj = o]

\* Mutant of LockSetup: the link count is not looked at.
LockSetupOnly(p) ==
  /\ At(p, "setup") /\ area[Obj(p)].setup = Nobody
  /\ Goto(p, "claim") /\ area' = [area EXCEPT ![Obj(p)].setup = p]
  /\ UNCHANGED <<name, reader>>

\* The setup byte is locked; an object without a name is given up for another.
LockSetup(p) ==
  /\ At(p, "setup") /\ area[Obj(p)].setup = Nobody
  /\ \/ name = Obj(p) /\ Goto(p, "claim") /\ area' = [area EXCEPT ![Obj(p)].setup = p]
     \/ name # Obj(p) /\ proc' = [proc EXCEPT ![p] = Out] /\ UNCHANGED area
  /\ UNCHANGED <<name, reader>>

OwnedBy(p, who) == {r \in Records : area[Obj(p)].owner[r] = who}
TakeRecord(p, r) ==
  /\ area' = [area EXCEPT ![Obj(p)].owner[r] = p]
  /\ proc' = [proc EXCEPT ![p].at = "users", ![p].record = r]

\* A free record, else the record of a process that no longer exists; without
\* either the publisher is destroyed again.
ClaimProcessRecord(p) ==
  /\ At(p, "claim") /\ UNCHANGED <<name, reader>>
  /\ \/ \E r \in OwnedBy(p, Nobody) : TakeRecord(p, r)
     \/ OwnedBy(p, Nobody) = {} /\ \E r \in OwnedBy(p, Dead) : TakeRecord(p, r)
     \/ /\ OwnedBy(p, Nobody) \cup OwnedBy(p, Dead) = {}
        /\ Goto(p, "closing") /\ UNCHANGED area

\* The users byte is read-locked before the setup byte is let go.
LockUsers(p) ==
  /\ At(p, "users")
  /\ area' = [area EXCEPT ![Obj(p)].users = @ \cup {p}, ![Obj(p)].setup = Nobody]
  /\ Goto(p, "idle")
  /\ UNCHANGED <<name, reader>>

-----------------------------------------------------------------------------
(* Publish: the process's own record, then the frames if it may.           *)

Sequence(p) == area[Obj(p)].part[proc[p].part].sequence

\* BeginWrite of part k.
BeginWrite(p, k) ==
  /\ area[Obj(p)].part[k].sequence < Bound(k)
  /\ area' = [area EXCEPT ![Obj(p)].part[k].sequence = @ + 1,
                          ![Obj(p)].publisher = IF k = 0 THEN p ELSE @]
  /\ proc' = [proc EXCEPT ![p].at = "first", ![p].part = k]

Publish(p) == At(p, "idle") /\ BeginWrite(p, proc[p].record) /\ UNCHANGED <<name, reader>>

WriteFirst(p) ==
  /\ At(p, "first")
  /\ area' = [area EXCEPT ![Obj(p)].part[proc[p].part].first = Sequence(p)]
  /\ Goto(p, "rest") /\ UNCHANGED <<name, reader>>

WriteRest(p) ==
  /\ At(p, "rest")
  /\ area' = [area EXCEPT ![Obj(p)].part[proc[p].part].rest = Sequence(p)]
  /\ Goto(p, "end") /\ UNCHANGED <<name, reader>>

\* Mutant of EndWrite: the sequence is set back, not moved on.
EndWriteBack(p) ==
  /\ At(p, "end")
  /\ area' = [area EXCEPT ![Obj(p)].part[proc[p].part].sequence = @ - 1]
  /\ Goto(p, IF proc[p].part = 0 THEN "idle" ELSE "elect") /\ UNCHANGED <<name, reader>>

EndWrite(p) ==
  /\ At(p, "end")
  /\ area' = [area EXCEPT ![Obj(p)].part[proc[p].part].sequence = @ + 1]
  /\ Goto(p, IF proc[p].part = 0 THEN "idle" ELSE "elect") /\ UNCHANGED <<name, reader>>

\* Whoever gets the publisher byte keeps it until it closes or dies.
TryBecomePublisher(p) ==
  /\ At(p, "elect") /\ UNCHANGED <<name, reader>>
  /\ \/ area[Obj(p)].publisher \in {p, Nobody} /\ BeginWrite(p, 0)
     \/ area[Obj(p)].publisher \notin {p, Nobody} /\ Goto(p, "idle") /\ UNCHANGED area

-----------------------------------------------------------------------------
(* The destructor, after Stop has joined the publishing thread; and death. *)

Released(o, p) ==
  [area[o] EXCEPT !.users = @ \ {p}, !.setup = IF @ = p THEN Nobody ELSE @,
                  !.publisher = IF @ = p THEN Nobody ELSE @]

Close(p) ==
  /\ At(p, "idle")
  /\ area' = [area EXCEPT ![Obj(p)].owner[proc[p].record] = Nobody]
  /\ proc' = [proc EXCEPT ![p].at = "closing", ![p].record = 0]
  /\ UNCHANGED <<name, reader>>

LockForClose(p) ==
  /\ At(p, "closing") /\ area[Obj(p)].setup \in {Nobody, p}
  /\ area' = [area EXCEPT ![Obj(p)].setup = p]
  /\ Goto(p, "last") /\ UNCHANGED <<name, reader>>

\* shm_unlink by whoever can write-lock the users byte, then close.
UnlinkAndClose(p) ==
  /\ At(p, "last")
  /\ name' = IF area[Obj(p)].users \subseteq {p} THEN 0 ELSE name
  /\ area' = [area EXCEPT ![Obj(p)] = Released(Obj(p), p)]
  /\ proc' = [proc EXCEPT ![p] = Out] /\ UNCHANGED reader

Die(p) ==
  LET o == Obj(p) IN
  /\ ~At(p, "out")
  /\ area' = [area EXCEPT ![o] =
       [Released(o, p) EXCEPT
          !.owner = [r \in Records |-> IF @[r] = p THEN Dead ELSE @[r]],
          !.part = [k \in Parts |-> [@[k] EXCEPT !.orphaned =
                      @ \/ (k = proc[p].part /\ proc[p].at \in {"first", "rest", "end"})]]]]
  /\ proc' = [proc EXCEPT ![p] = Out]
  /\ UNCHANGED <<name, reader>>

-----------------------------------------------------------------------------
(* A reader as observation_format.h asks for: copies between two reads of  *)
(* the sequence, again if it was odd or changed.                           *)

PartRead == area[reader.obj].part[reader.part]

ReadSequence(k) ==
  /\ reader.at = "quiet" /\ name # 0 /\ area[name].part[k].sequence % 2 = 0
  /\ reader' = [Quiet EXCEPT !.at = "first", !.obj = name, !.part = k, !.sequence = area[name].part[k].sequence]
  /\ UNCHANGED <<name, area, proc>>
CopyFirst ==
  /\ reader.at = "first" /\ reader' = [reader EXCEPT !.at = "rest", !.first = PartRead.first]
  /\ UNCHANGED <<name, area, proc>>
CopyRest ==
  /\ reader.at = "rest" /\ reader' = [reader EXCEPT !.at = "check", !.rest = PartRead.rest]
  /\ UNCHANGED <<name, area, proc>>
CheckSequence ==
  /\ reader.at = "check"
  /\ reader' = IF PartRead.sequence = reader.sequence THEN [reader EXCEPT !.at = "accepted"] ELSE Quiet
  /\ UNCHANGED <<name, area, proc>>
Forget == reader.at = "accepted" /\ reader' = Quiet /\ UNCHANGED <<name, area, proc>>

Next ==
  \/ \E p \in Processes :
       \/ ShmOpen(p) \/ LockSetup(p) \/ ClaimProcessRecord(p) \/ LockUsers(p)
       \/ Publish(p) \/ WriteFirst(p) \/ WriteRest(p) \/ EndWrite(p) \/ TryBecomePublisher(p)
       \/ Close(p) \/ LockForClose(p) \/ UnlinkAndClose(p) \/ Die(p)
  \/ (\E k \in Parts : ReadSequence(k)) \/ CopyFirst \/ CopyRest \/ CheckSequence \/ Forget

Spec == Init /\ [][Next]_obsVars

-----------------------------------------------------------------------------
\* All users publish in the object that has the name, so that a reader who
\* opens the name sees them: the name is never removed under a user.
UsersShareArea ==
  \A o \in Objects : area[o].users # {} => name = o

\* A process that publishes owns its record alone.
RecordsOwned ==
  \A p \in Processes : proc[p].record # 0 => area[Obj(p)].owner[proc[p].record] = p

\* What a reader accepts was written by one Publish, unless a process died
\* between BeginWrite and EndWrite of that part and left its sequence odd.
SnapshotWhole ==
  reader.at = "accepted" /\ ~PartRead.orphaned => reader.first = reader.rest

=============================================================================
