--------------------------- MODULE OrderedPolicies --------------------------
(***************************************************************************)
(* The replacement policies that keep frames in ordered sets: LRU-K and    *)
(* the plan policy (lib/replacer/lru_k_replacer.cc, plan_replacer.cc) over *)
(* the treap of indexed_ordered_set.h.                                     *)
(*                                                                         *)
(* Every operation holds the policy's latch and is one action.  Victim     *)
(* reads the sets and offers frames to the probe in their order, so it is  *)
(* the state function Candidates.  An access reaches LRU-K in a batch,     *)
(* possibly after its frame was removed or loaded again: Touch may happen  *)
(* to any frame at any time.                                               *)
(***************************************************************************)
EXTENDS Integers, Sequences, SequencesExt, FiniteSets

CONSTANTS
  Frames, kNone,
  Priorities,       \* the orders of priority considered
  HistoryLength,    \* K
  MaxClock,         \* bound on the accesses LRU-K has recorded
  NextUses, kNeverUsed   \* positions in a plan

VARIABLES
  policy,     \* "lru-k" or "plan"
  priority,       \* of a frame in the treaps, a hash of its number
  nodes, root,    \* the treaps: one array of nodes, a root per set
  clock, history, \* LRU-K's: per frame the ring of timestamps
  log         \* the abstract policy: all accesses of a frame since its load, or its next use

orderedVars == <<policy, priority, nodes, root, clock, history, log>>

Node(key, parent, linked) == [key |-> key, left |-> kNone, right |-> kNone, parent |-> parent, linked |-> linked]
NoHistory == [tracked |-> FALSE, count |-> 0, oldest |-> 0, times |-> [i \in 0 .. HistoryLength - 1 |-> 0]]

Init ==
  /\ policy \in {"lru-k", "plan"}
  /\ priority \in Priorities
  /\ nodes = [f \in Frames |-> Node(0, kNone, FALSE)]
  /\ root = [s \in {"incomplete", "complete", "order"} |-> kNone]
  /\ clock = 0 /\ history = [f \in Frames |-> NoHistory]
  /\ log = [f \in Frames |-> <<>>]

-----------------------------------------------------------------------------
(* IndexedOrderedSet: operators on a treap t, a record of nodes and root.  *)

Less(n, a, b) == n[a].key < n[b].key \/ (n[a].key = n[b].key /\ a < b)
Repeat(Op(_), t) == FoldLeft(LAMBDA u, i : Op(u), t, [i \in 1 .. Cardinality(Frames) |-> i])

\* Replace: where f hangs, r hangs.
Replace(t, f, r) ==
  LET p == t.nodes[f].parent IN
  [nodes |-> [x \in Frames |->
     CASE x = p -> IF t.nodes[p].left = f THEN [t.nodes[p] EXCEPT !.left = r] ELSE [t.nodes[p] EXCEPT !.right = r]
       [] x = r -> [t.nodes[r] EXCEPT !.parent = p]
       [] OTHER -> t.nodes[x]],
   root |-> IF p = kNone THEN r ELSE t.root]

\* Rotate: f rises above its parent; the subtree between them changes sides.
Rotate(t, f) ==
  LET p == t.nodes[f].parent
      n == t.nodes
      left == n[p].left = f
      between == IF left THEN n[f].right ELSE n[f].left
      u == Replace(t, p, f) IN
  [u EXCEPT !.nodes = [x \in Frames |->
     CASE x = p -> IF left THEN [@[p] EXCEPT !.left = between, !.parent = f] ELSE [@[p] EXCEPT !.right = between, !.parent = f]
       [] x = f -> IF left THEN [@[f] EXCEPT !.right = p] ELSE [@[f] EXCEPT !.left = p]
       [] x = between -> [@[x] EXCEPT !.parent = p]
       [] OTHER -> @[x]]]

RiseAbove(n, f) == n[f].parent # kNone /\ priority[f] > priority[n[f].parent]

\* Insert: a new leaf, then rotations.
Insert(t, f, key) ==
  LET n == [t.nodes EXCEPT ![f] = Node(key, kNone, TRUE)]
      below(p) == IF Less(n, f, p) THEN n[p].left ELSE n[p].right
      place[p \in Frames] == IF below(p) = kNone THEN p ELSE place[below(p)]
      p == place[t.root]
      leaf == IF t.root = kNone THEN [nodes |-> n, root |-> f]
              ELSE [t EXCEPT !.nodes = IF Less(n, f, p) THEN [n EXCEPT ![p].left = f, ![f].parent = p]
                                       ELSE [n EXCEPT ![p].right = f, ![f].parent = p]]
  IN Repeat(LAMBDA u : IF RiseAbove(u.nodes, f) THEN Rotate(u, f) ELSE u, leaf)

HigherChild(n, f) ==
  CASE n[f].left = kNone -> n[f].right
    [] n[f].right = kNone -> n[f].left
    [] OTHER -> IF priority[n[f].left] > priority[n[f].right] THEN n[f].left ELSE n[f].right

\* Erase: rotate down to a leaf, then cut it off.
Erase(t, f) ==
  LET sink(u) == IF HigherChild(u.nodes, f) = kNone THEN u ELSE Rotate(u, HigherChild(u.nodes, f))
      cut == Replace(Repeat(sink, t), f, kNone)
  IN IF t.nodes[f].linked THEN [cut EXCEPT !.nodes[f] = Node(0, kNone, FALSE)] ELSE t

\* First and Next, and Last and Previous: the frames in either direction.
Toward(n, f, right) == IF right THEN n[f].right ELSE n[f].left
Extreme(n, f, leftmost) ==
  LET down[x \in Frames] == IF Toward(n, x, ~leftmost) = kNone THEN x ELSE down[Toward(n, x, ~leftmost)]
  IN IF f = kNone THEN kNone ELSE down[f]
Step(n, f, forward) ==
  LET up[x \in Frames] ==
        LET p == n[x].parent IN IF p # kNone /\ Toward(n, p, forward) = x THEN up[p] ELSE p
  IN IF Toward(n, f, forward) # kNone THEN Extreme(n, Toward(n, f, forward), forward) ELSE up[f]
Walk(n, r, forward) ==
  LET walk == FoldLeft(LAMBDA s, i : IF s = <<>> \/ Last(s) = kNone THEN s ELSE Append(s, Step(n, Last(s), forward)),
                       <<Extreme(n, r, forward)>>, [i \in 1 .. Cardinality(Frames) |-> i])
  IN SelectSeq(walk, LAMBDA f : f # kNone)

Set(s) == [nodes |-> nodes, root |-> root[s]]

-----------------------------------------------------------------------------
(* LRU-K.                                                                  *)

Incomplete(h) == h.count < HistoryLength
QueueOf(h) == IF Incomplete(h) THEN "incomplete" ELSE "complete"

\* Timestamp, and Enqueue's key: the latest access, or the K-th most recent.
Timestamp(h, age) == h.times[(h.oldest + age) % HistoryLength]
KeyOf(h) == IF Incomplete(h) THEN Timestamp(h, h.count - 1) ELSE Timestamp(h, 0)

\* Mutant of Appended: the ring does not turn.
AppendedInPlace(h, now) ==
  IF Incomplete(h)
    THEN [h EXCEPT !.times[(h.oldest + h.count) % HistoryLength] = now, !.count = @ + 1]
    ELSE [h EXCEPT !.times[h.oldest] = now]

Appended(h, now) ==
  IF Incomplete(h)
    THEN [h EXCEPT !.times[(h.oldest + h.count) % HistoryLength] = now, !.count = @ + 1]
    ELSE [h EXCEPT !.times[h.oldest] = now, !.oldest = (@ + 1) % HistoryLength]

\* Dequeue and Enqueue around a change of the frame's history to h.
Requeue(f, h) ==
  LET old == QueueOf(history[f])
      out == IF history[f].tracked THEN Erase(Set(old), f) ELSE Set(old)
      roots == [root EXCEPT ![old] = out.root]
      in == Insert([nodes |-> out.nodes, root |-> roots[QueueOf(h)]], f, KeyOf(h)) IN
  IF h.tracked THEN nodes' = in.nodes /\ root' = [roots EXCEPT ![QueueOf(h)] = in.root]
  ELSE nodes' = out.nodes /\ root' = roots

Touch(f) ==
  LET h == Appended(history[f], clock + 1) IN
  /\ policy = "lru-k" /\ clock < MaxClock /\ history[f].tracked
  /\ clock' = clock + 1 /\ history' = [history EXCEPT ![f] = h] /\ Requeue(f, h)
  /\ log' = [log EXCEPT ![f] = Append(@, clock + 1)] /\ UNCHANGED <<policy, priority>>

RecordLoad(f) ==
  LET h == Appended([NoHistory EXCEPT !.tracked = TRUE], clock + 1) IN
  /\ policy = "lru-k" /\ clock < MaxClock
  /\ clock' = clock + 1 /\ history' = [history EXCEPT ![f] = h] /\ Requeue(f, h)
  /\ log' = [log EXCEPT ![f] = <<clock + 1>>] /\ UNCHANGED <<policy, priority>>

RemoveFrame(f) ==
  /\ policy = "lru-k" /\ history[f].tracked
  /\ history' = [history EXCEPT ![f] = NoHistory] /\ Requeue(f, NoHistory)
  /\ log' = [log EXCEPT ![f] = <<>>] /\ UNCHANGED <<policy, priority, clock>>

-----------------------------------------------------------------------------
(* The plan policy.                                                        *)

Update(t, f, key) == Insert(Erase(t, f), f, key)
InstallPlan(t) == nodes' = t.nodes /\ root' = [root EXCEPT !["order"] = t.root] /\ UNCHANGED <<policy, priority, clock, history>>

LoadPlanned(f) ==
  /\ policy = "plan" /\ InstallPlan(Update(Set("order"), f, 0))
  /\ log' = [log EXCEPT ![f] = <<0>>]
RemovePlanned(f) ==
  /\ policy = "plan" /\ nodes[f].linked /\ InstallPlan(Erase(Set("order"), f))
  /\ log' = [log EXCEPT ![f] = <<>>]
SetNextUse(f, use) ==
  /\ policy = "plan" /\ nodes[f].linked /\ InstallPlan(Update(Set("order"), f, use))
  /\ log' = [log EXCEPT ![f] = <<use>>]
ForgetPlan ==
  /\ policy = "plan"
  /\ InstallPlan(FoldLeft(LAMBDA t, f : IF t.nodes[f].linked THEN Update(t, f, kNeverUsed) ELSE t,
                          Set("order"), SetToSortSeq(Frames, <)))
  /\ log' = [f \in Frames |-> IF log[f] = <<>> THEN <<>> ELSE <<kNeverUsed>>]

Next ==
  \/ \E f \in Frames : Touch(f) \/ RecordLoad(f) \/ RemoveFrame(f) \/ LoadPlanned(f) \/ RemovePlanned(f)
  \/ \E f \in Frames, use \in NextUses : SetNextUse(f, use)
  \/ ForgetPlan

Spec == Init /\ [][Next]_orderedVars

-----------------------------------------------------------------------------
\* The order in which Victim offers the frames to the probe.
Candidates ==
  IF policy = "plan" THEN Walk(nodes, root["order"], FALSE)
  ELSE Walk(nodes, root["incomplete"], TRUE) \o Walk(nodes, root["complete"], TRUE)

\* What it should be.  LRU-K: frames with fewer than K accesses first, by their
\* latest; then the others by their K-th most recent.  The plan policy: the
\* frames needed last first.
Colder(f, g) ==
  LET F == log[f]
      G == log[g]
      K == HistoryLength IN
  IF policy = "plan" THEN F[1] > G[1] \/ (F[1] = G[1] /\ f > g)
  ELSE \/ Len(F) < K /\ Len(G) >= K
       \/ Len(F) < K /\ Len(G) < K /\ Last(F) < Last(G)
       \/ Len(F) >= K /\ Len(G) >= K /\ F[Len(F) - K + 1] < G[Len(G) - K + 1]

\* Victim offers every tracked frame once, the coldest first: the treaps with
\* their shared nodes and the rings of timestamps compute the policy's order.
OfferedColdestFirst ==
  /\ ToSet(Candidates) = {f \in Frames : log[f] # <<>>}
  /\ \A i, j \in DOMAIN Candidates : i < j => Colder(Candidates[i], Candidates[j])

\* The treaps are heaps by priority, which keeps their depth logarithmic, and
\* walking back gives the reverse of walking forth.
TreapsBalanced ==
  /\ \A f \in Frames : nodes[f].linked /\ nodes[f].parent # kNone => priority[nodes[f].parent] > priority[f]
  /\ \A s \in DOMAIN root : Walk(nodes, root[s], FALSE) = Reverse(Walk(nodes, root[s], TRUE))

=============================================================================
