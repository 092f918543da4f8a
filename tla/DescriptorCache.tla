--------------------------- MODULE DescriptorCache --------------------------
(***************************************************************************)
(* The cache of open files (lib/io/file_descriptor_cache.cc), as operators *)
(* on the entries: a function from the open files to their pins and the    *)
(* time of their last use.  Every operation holds the cache's latch.       *)
(* Times are ranks: only their order is used.                              *)
(***************************************************************************)
EXTENDS Integers, FiniteSets, Functions

CONSTANT MaxOpenFiles

OpenFiles(e) == DOMAIN e

\* ++clock_: the file becomes the last one used.
Used(e, file, pins) ==
  [x \in DOMAIN e \cup {file} |->
     IF x = file THEN [pins |-> pins, last |-> Cardinality(DOMAIN e \ {file}) + 1]
     ELSE [e[x] EXCEPT !.last = Cardinality({y \in DOMAIN e \ {file} : e[y].last <= e[x].last})]]

Idle(e) == {x \in DOMAIN e : e[x].pins = 0}

\* EvictIdleLocked closes the least recently used idle files, as many as it
\* must and can.
EvictIdle(e, target) ==
  LET surplus == Cardinality(DOMAIN e) - target
      victims == {x \in Idle(e) : Cardinality({y \in Idle(e) : e[y].last < e[x].last}) < surplus}
  IN Restrict(e, DOMAIN e \ victims)

\* The open may fail after files were closed for it.
Acquired(e, file) ==
  IF file \in DOMAIN e THEN Used(e, file, e[file].pins + 1)
  ELSE Used(EvictIdle(e, MaxOpenFiles - 1), file, 1)
OpenFailed(e) == EvictIdle(e, MaxOpenFiles - 1)

Released(e, file) == EvictIdle(Used(e, file, e[file].pins - 1), MaxOpenFiles)

=============================================================================
