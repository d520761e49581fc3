----------------------------- MODULE PsosRegions -----------------------------
(***************************************************************************)
(* The memory of the pSOS kernel bridge: regions, their segments and the   *)
(* stacks that task creation takes from region 0 (psos.rs: allocate,       *)
(* create, the services rn_create, rn_delete, rn_getseg and rn_retseg, and *)
(* the part of initialize that sets up region 0).                          *)
(*                                                                         *)
(* Abstractions.  An address is a cell; sizes are in cells.  Names and the *)
(* services that change no memory are left out.  The guest builds a region *)
(* in one of a few areas of its own, each at most once, and returns a      *)
(* segment it holds or an address where none is: returning what is no      *)
(* longer its own would be an error of the guest.                          *)
(***************************************************************************)
EXTENDS Naturals, FiniteSets, FiniteSetsExt

CONSTANTS
  Heap,        \* region 0: its first cell, size and unit
  Areas,       \* areas of the guest, with the unit it asks for
  Requests,    \* sizes the guest asks for, of segments and stacks
  Glue,        \* sizes of the kernel's own segments (32 and 8)
  FirstStack,  \* size of the user stacks of ROOT and IDLE
  FirstSuper,  \* size of the supervisor stack of ROOT
  MaxTask      \* largest task number (255)

Cells(segment) == segment.base .. segment.base + segment.size - 1

\* What a model of the memory has to satisfy.
RegionsAssumption ==
  /\ {Heap} \cup Areas \subseteq [base : Nat \ {0}, size : Nat \ {0}, unit : Nat \ {0}]
  /\ \A a, b \in {Heap} \cup Areas : a # b => Cells(a) \cap Cells(b) = {}
  /\ Heap \notin Areas
  /\ Requests \subseteq Nat
  /\ Glue \in Nat \ {0} /\ FirstStack \in Nat /\ FirstSuper \in Nat /\ MaxTask \in Nat

VARIABLES
  regions,   \* the regions, by number; free and used give the size of each segment
  nextTask,  \* the number of the next task
  stacks,    \* the segments that are the stacks of tasks
  fresh,     \* areas of the guest where it has built no region yet
  held       \* history: the segments the guest holds, with their region

vars == <<regions, nextTask, stacks, fresh, held>>

NoSegments == [cell \in {} |-> 0]
Without(f, x) == [y \in DOMAIN f \ {x} |-> f[y]]
With(f, x, value) == [y \in DOMAIN f \cup {x} |-> IF y = x THEN value ELSE f[y]]
\* The region cut into other segments.
Cut(r, free, used) == [area |-> r.area, unit |-> r.unit, free |-> free, used |-> used]
NewRegion(a) ==
  [area |-> a, unit |-> a.unit, free |-> With(NoSegments, a.base, a.size), used |-> NoSegments]

\* A size is rounded up to the unit of the region.
Rounded(r, bytes) == ((bytes + r.unit - 1) \div r.unit) * r.unit
Fits(r, bytes) == {base \in DOMAIN r.free : r.free[base] >= Rounded(r, bytes)}
Available(r, bytes) == bytes # 0 /\ Fits(r, bytes) # {}

\* The first free segment that is large enough gives its first cells.
Segment(r, bytes) == [base |-> Min(Fits(r, bytes)), size |-> Rounded(r, bytes)]

Allocate(r, bytes) ==
  LET s == Segment(r, bytes)
      rest == r.free[s.base] - s.size
      left == Without(r.free, s.base)
  IN Cut(r, IF rest = 0 THEN left ELSE With(left, s.base + s.size, rest),
         With(r.used, s.base, s.size))

\* No stack is asked for with a size of 0.
Possible(r, bytes) == bytes = 0 \/ Available(r, bytes)
Taken(r, bytes) == IF bytes = 0 THEN r ELSE Allocate(r, bytes)
-----------------------------------------------------------------------------
\* A region gets the number of regions there are, also when a region has it that
\* outlived one that was deleted: then it takes its place.
CreateRegion(a) ==
  /\ a \in fresh /\ a.size >= a.unit
  /\ regions' = With(regions, Cardinality(DOMAIN regions), NewRegion(a))
  /\ fresh' = fresh \ {a}
  /\ UNCHANGED <<nextTask, stacks, held>>

\* Mutant: region 0 can be deleted.
DeleteRegion_Any(n) ==
  /\ n \in DOMAIN regions
  /\ regions' = Without(regions, n)
  /\ held' = {h \in held : h.region # n}
  /\ UNCHANGED <<nextTask, stacks, fresh>>

\* The guest gives up the segments of a region it deletes.
DeleteRegion(n) ==
  /\ n # 0 /\ n \in DOMAIN regions
  /\ regions' = Without(regions, n)
  /\ held' = {h \in held : h.region # n}
  /\ UNCHANGED <<nextTask, stacks, fresh>>

GetSegment(n, bytes) ==
  /\ n \in DOMAIN regions /\ Available(regions[n], bytes)
  /\ regions' = [regions EXCEPT ![n] = Allocate(@, bytes)]
  /\ LET s == Segment(regions[n], bytes)
     IN held' = held \cup {[region |-> n, base |-> s.base, size |-> s.size]}
  /\ UNCHANGED <<nextTask, stacks, fresh>>

\* Mutant: a segment that is returned twice is free twice.
ReturnSegment_Unchecked(n, base) ==
  /\ n \in DOMAIN regions
  /\ LET r == regions[n]
         size == IF base \in DOMAIN r.used THEN r.used[base] ELSE r.unit
     IN regions' = [regions EXCEPT ![n] = Cut(r, With(r.free, base, size), Without(r.used, base))]
  /\ held' = {h \in held : h.region # n \/ h.base # base}
  /\ UNCHANGED <<nextTask, stacks, fresh>>

\* An address that is no segment in use is refused.  Neighbours are not merged.
ReturnSegment(n, base) ==
  /\ n \in DOMAIN regions /\ base \in DOMAIN regions[n].used
  /\ LET r == regions[n]
     IN regions' = [regions EXCEPT ![n] = Cut(r, With(r.free, base, r.used[base]), Without(r.used, base))]
  /\ held' = {h \in held : h.region # n \/ h.base # base}
  /\ UNCHANGED <<nextTask, stacks, fresh>>

MayReturn(n, base) ==
  \/ [region |-> n, base |-> base] \in {[region |-> h.region, base |-> h.base] : h \in held}
  \/ base \notin DOMAIN regions[n].used

\* A task takes its user and its supervisor stack; when the second fails, its number
\* and the first one are gone.
CreateTask(user, super) ==
  LET heap == regions[0]
      first == Possible(heap, user)
      heap1 == IF first THEN Taken(heap, user) ELSE heap
      second == Possible(heap1, super)
      heap2 == IF second THEN Taken(heap1, super) ELSE heap1
  IN /\ 0 \in DOMAIN regions /\ nextTask <= MaxTask
     /\ nextTask' = nextTask + 1
     /\ regions' = [regions EXCEPT ![0] = heap2]
     /\ stacks' = IF first /\ second
                  THEN stacks \cup {[base |-> b, size |-> heap2.used[b]] :
                                      b \in DOMAIN heap2.used \ DOMAIN heap.used}
                  ELSE stacks
     /\ UNCHANGED <<fresh, held>>
-----------------------------------------------------------------------------
\* The kernel has taken its own segments and the stacks of ROOT and IDLE; without them it
\* does not start.
Init ==
  LET glue == Allocate(NewRegion(Heap), Glue)
      own == Allocate(glue, Glue)
      root == Taken(own, FirstStack)
      rootSuper == Taken(root, FirstSuper)
      idle == Taken(rootSuper, FirstStack)
  IN /\ Available(NewRegion(Heap), Glue) /\ Available(glue, Glue)
     /\ Possible(own, FirstStack) /\ Possible(root, FirstSuper) /\ Possible(rootSuper, FirstStack)
     /\ regions = [n \in {0} |-> idle]
     /\ stacks = {[base |-> b, size |-> idle.used[b]] : b \in DOMAIN idle.used \ DOMAIN own.used}
     /\ nextTask = 3 /\ fresh = Areas /\ held = {}

Next ==
  \/ \E a \in Areas : CreateRegion(a)
  \/ \E n \in DOMAIN regions :
       \/ DeleteRegion(n)
       \/ \E bytes \in Requests : GetSegment(n, bytes)
       \/ \E base \in Cells(regions[n].area) : MayReturn(n, base) /\ ReturnSegment(n, base)
  \/ \E user, super \in Requests \cup {0} : CreateTask(user, super)

Spec == Init /\ [][Next]_vars
-----------------------------------------------------------------------------
Segments(f) == {[base |-> b, size |-> f[b]] : b \in DOMAIN f}

\* Whatever is taken, split, returned and taken again, the free and the used segments
\* of a region cover it, every cell once: no memory is lost and none is in two.
RegionsTiled ==
  \A n \in DOMAIN regions :
    LET r == regions[n] all == Segments(r.free) \cup Segments(r.used)
    IN /\ DOMAIN r.free \cap DOMAIN r.used = {}
       /\ UNION {Cells(s) : s \in all} = Cells(r.area)
       /\ \A s, t \in all : s # t => Cells(s) \cap Cells(t) = {}

\* The stack of a task stays its own: region 0 is there for as long as the kernel runs,
\* however regions are created and deleted, and no stack, segment of the guest or
\* other stack has a cell in common with it.
StacksOwned ==
  \A s \in stacks :
    /\ 0 \in DOMAIN regions
    /\ s.base \in DOMAIN regions[0].used
    /\ \A t \in stacks : t # s => Cells(s) \cap Cells(t) = {}
    /\ \A h \in held : Cells(s) \cap Cells(h) = {}
=============================================================================
