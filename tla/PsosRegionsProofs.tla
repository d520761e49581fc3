------------------------- MODULE PsosRegionsProofs -------------------------
(***************************************************************************)
(* Proofs about PsosRegions for any memory, units, sizes and areas: the    *)
(* segments of a region cover it, every cell once, and the stack of a task *)
(* stays its own.                                                          *)
(*                                                                         *)
(* The free and the used segments of a region, taken together, are a       *)
(* tiling of its area.  To take a segment splits one tile or leaves the    *)
(* tiling as it is; to return one leaves it as it is.                      *)
(***************************************************************************)
EXTENDS PsosRegions, FiniteSetTheorems, WellFoundedInduction, TLAPS

\* The size of every segment of a region, free or used, by its first cell.
All(r) ==
  [b \in DOMAIN r.free \cup DOMAIN r.used |-> IF b \in DOMAIN r.free THEN r.free[b] ELSE r.used[b]]

Tiling(f, area) ==
  /\ \A b \in DOMAIN f : b \in Nat /\ f[b] \in Nat \ {0}
  /\ \A b \in DOMAIN f : area.base <= b /\ b + f[b] <= area.base + area.size
  /\ \A c \in Cells(area) : \E b \in DOMAIN f : c \in b .. b + f[b] - 1
  /\ \A b, c \in DOMAIN f : b < c => b + f[b] <= c

Area == [base : Nat \ {0}, size : Nat \ {0}, unit : Nat \ {0}]
Region(r) ==
  /\ r = [area |-> r.area, unit |-> r.unit, free |-> r.free, used |-> r.used]
  /\ r.area \in Area /\ r.unit \in Nat \ {0}
  /\ r.free = [b \in DOMAIN r.free |-> r.free[b]]
  /\ r.used = [b \in DOMAIN r.used |-> r.used[b]]
  /\ DOMAIN r.free \cap DOMAIN r.used = {}
  /\ Tiling(All(r), r.area)
-----------------------------------------------------------------------------
LEMMA MinIn ==
  ASSUME NEW S \in SUBSET Nat, S # {}
  PROVE  Min(S) \in S
<1> DEFINE Less == {ss \in Nat \X Nat : ss[1] < ss[2]}
<1>0. IsWellFoundedOn(Less, Nat)
  BY NatLessThanWellFounded, Zenon DEF OpToRel
<1>1. PICK x \in S : \A y \in S : ~(<<y, x>> \in Less)
  <2> HIDE DEF Less
  <2>1. QED  BY <1>0, WFMin
<1>2. \A y \in S : x <= y
  <2> SUFFICES ASSUME NEW y \in S, y < x PROVE FALSE
    OBVIOUS
  <2>1. <<y, x>> \in Less
    OBVIOUS
  <2>2. QED  BY <1>1, <2>1
<1>3. QED  BY <1>2 DEF Min

\* A request is rounded up to a positive size.
LEMMA RoundedPositive ==
  ASSUME NEW r, r.unit \in Nat \ {0}, NEW bytes \in Nat \ {0}
  PROVE  Rounded(r, bytes) \in Nat \ {0}
<1> DEFINE u == r.unit
           q == (bytes + u - 1) \div u
<1>1. bytes + u - 1 \in Nat /\ u \in Nat \ {0} /\ u <= bytes + u - 1
  OBVIOUS
<1>2. q \in Nat \ {0}
  BY <1>1
<1>3. q * u \in Nat \ {0}
  <2> HIDE DEF q, u
  <2>1. \A x, y \in Nat \ {0} : x * y \in Nat \ {0}
    OBVIOUS
  <2>2. QED  BY <1>1, <1>2, <2>1
<1>4. QED  BY <1>3 DEF Rounded

\* A tile is split in two.
LEMMA Split ==
  ASSUME NEW f, NEW area \in Area, Tiling(f, area), NEW b \in DOMAIN f,
         NEW n \in Nat \ {0}, n < f[b]
  PROVE  /\ b + n \notin DOMAIN f
         /\ Tiling(With(With(f, b, n), b + n, f[b] - n), area)
<1> DEFINE g == With(With(f, b, n), b + n, f[b] - n)
<1>1. /\ b \in Nat /\ f[b] \in Nat \ {0}
      /\ area.base <= b /\ b + f[b] <= area.base + area.size
      /\ area.base \in Nat /\ area.size \in Nat
  BY DEF Tiling, Area
<1>2. b + n \notin DOMAIN f
  BY <1>1 DEF Tiling
<1>3. /\ DOMAIN g = DOMAIN f \cup {b + n}
      /\ g[b] = n /\ g[b + n] = f[b] - n
      /\ \A c \in DOMAIN f \ {b} : g[c] = f[c]
  BY <1>1, <1>2 DEF With
<1>4. \A c \in DOMAIN g : c \in Nat /\ g[c] \in Nat \ {0}
  BY <1>1, <1>3 DEF Tiling
<1>5. \A c \in DOMAIN g : area.base <= c /\ c + g[c] <= area.base + area.size
  <2> SUFFICES ASSUME NEW c \in DOMAIN g
               PROVE  area.base <= c /\ c + g[c] <= area.base + area.size
    OBVIOUS
  <2>1. CASE c = b
    BY <1>1, <1>3, <2>1
  <2>2. CASE c = b + n
    BY <1>1, <1>3, <2>2
  <2>3. CASE c \in DOMAIN f \ {b}
    BY <1>3, <2>3 DEF Tiling
  <2>4. QED  BY <1>3, <2>1, <2>2, <2>3
<1>6. \A x \in Cells(area) : \E c \in DOMAIN g : x \in c .. c + g[c] - 1
  <2> SUFFICES ASSUME NEW x \in Cells(area)
               PROVE  \E c \in DOMAIN g : x \in c .. c + g[c] - 1
    OBVIOUS
  <2>1. PICK c \in DOMAIN f : x \in c .. c + f[c] - 1
    BY DEF Tiling
  <2>2. CASE c # b
    BY <1>3, <2>1, <2>2
  <2>3. CASE c = b
    <3>1. x \in b .. b + n - 1 \/ x \in b + n .. (b + n) + (f[b] - n) - 1
      BY <1>1, <2>1, <2>3
    <3>2. QED  BY <1>3, <3>1
  <2>4. QED  BY <2>2, <2>3
<1>7. \A c, d \in DOMAIN g : c < d => c + g[c] <= d
  <2> SUFFICES ASSUME NEW c \in DOMAIN g, NEW d \in DOMAIN g, c < d PROVE c + g[c] <= d
    OBVIOUS
  <2>0. \A x, y \in DOMAIN f : x < y => x + f[x] <= y
    BY DEF Tiling
  <2>1. CASE c = b
    <3>1. CASE d = b + n
      BY <1>1, <1>3, <2>1, <3>1
    <3>2. CASE d \in DOMAIN f
      BY <1>1, <1>3, <1>4, <2>0, <2>1, <3>2
    <3>3. QED  BY <1>3, <3>1, <3>2
  <2>2. CASE c = b + n
    <3>1. d \in DOMAIN f \ {b}
      BY <1>1, <1>3, <2>2
    <3>2. b < d /\ d \in Nat
      BY <1>1, <1>4, <2>2
    <3>3. b + f[b] <= d
      BY <2>0, <3>1, <3>2
    <3>4. QED  BY <1>1, <1>3, <2>2, <3>2, <3>3
  <2>3. CASE c \in DOMAIN f \ {b}
    <3>1. CASE d = b + n
      <4>1. c \in Nat /\ f[c] \in Nat \ {0}
        BY <2>3 DEF Tiling
      <4>2. c < b
        <5>1. CASE b < c
          <6>1. b + f[b] <= c
            BY <2>0, <2>3, <5>1
          <6>2. QED  BY <1>1, <3>1, <4>1, <6>1
        <5>2. QED  BY <1>1, <2>3, <4>1, <5>1
      <4>3. c + f[c] <= b
        BY <2>0, <2>3, <4>2
      <4>4. QED  BY <1>1, <1>3, <2>3, <3>1, <4>1, <4>3
    <3>2. CASE d \in DOMAIN f
      BY <1>3, <2>0, <2>3, <3>2
    <3>3. QED  BY <1>3, <3>1, <3>2
  <2>4. QED  BY <1>3, <2>1, <2>2, <2>3
<1>8. QED  BY <1>2, <1>4, <1>5, <1>6, <1>7 DEF Tiling
-----------------------------------------------------------------------------
\* The segment that is taken was free, and what it leaves is free.
LEMMA SegmentFree ==
  ASSUME NEW r, Region(r), NEW bytes \in Nat, Available(r, bytes)
  PROVE  LET s == Segment(r, bytes)
         IN /\ s.base \in DOMAIN r.free /\ s.base \in Nat
            /\ s.size \in Nat \ {0} /\ r.free[s.base] \in Nat /\ s.size <= r.free[s.base]
<1>1. Fits(r, bytes) # {} /\ bytes \in Nat \ {0}
  BY DEF Available
<1>2. Fits(r, bytes) \in SUBSET Nat
  BY DEF Fits, Region, Tiling, All
<1>3. Min(Fits(r, bytes)) \in Fits(r, bytes)
  BY <1>1, <1>2, MinIn
<1>4. Rounded(r, bytes) \in Nat \ {0}
  BY <1>1, RoundedPositive DEF Region
<1>5. \A b \in DOMAIN r.free : r.free[b] \in Nat
  BY DEF Region, Tiling, All
<1>6. QED  BY <1>2, <1>3, <1>4, <1>5 DEF Segment, Fits

LEMMA AllocateKeeps ==
  ASSUME NEW r, Region(r), NEW bytes \in Nat, Available(r, bytes)
  PROVE  /\ Region(Allocate(r, bytes))
         /\ Allocate(r, bytes).area = r.area
         /\ Segment(r, bytes).base \notin DOMAIN r.used
         /\ Allocate(r, bytes).used = With(r.used, Segment(r, bytes).base, Segment(r, bytes).size)
<1> DEFINE s == Segment(r, bytes)
           b == s.base
           n == s.size
           rest == r.free[b] - n
           left == Without(r.free, b)
           a == Allocate(r, bytes)
<1>1. /\ b \in DOMAIN r.free /\ b \in Nat
      /\ n \in Nat \ {0} /\ r.free[b] \in Nat /\ n <= r.free[b]
  BY SegmentFree
<1> HIDE DEF s
<1>2. a = [area |-> r.area, unit |-> r.unit,
           free |-> IF rest = 0 THEN left ELSE With(left, b + n, rest), used |-> With(r.used, b, n)]
  BY DEF Allocate, Cut, s
<1>3. /\ a.area = r.area /\ a.unit = r.unit /\ a.used = With(r.used, b, n)
      /\ a.free = IF rest = 0 THEN left ELSE With(left, b + n, rest)
  BY <1>2
<1>4. b \notin DOMAIN r.used
  BY <1>1 DEF Region
<1>5. All(r)[b] = r.free[b] /\ b \in DOMAIN All(r)
  BY <1>1 DEF All
<1> HIDE DEF a
<1>6. CASE rest = 0
  <2>1. a.free = left /\ n = r.free[b]
    BY <1>1, <1>3, <1>6
  <2>2. DOMAIN a.free = DOMAIN r.free \ {b} /\ DOMAIN a.used = DOMAIN r.used \cup {b}
    BY <1>3, <2>1 DEF With, Without
  <2>3. /\ \A c \in DOMAIN a.free : a.free[c] = r.free[c]
        /\ \A c \in DOMAIN r.used : a.used[c] = r.used[c]
        /\ a.used[b] = r.free[b]
    BY <1>3, <1>4, <2>1, <2>2 DEF With, Without
  <2>4. All(a) = All(r)
    <3>1. DOMAIN All(a) = DOMAIN All(r)
      BY <1>1, <2>2 DEF All
    <3>2. \A c \in DOMAIN All(r) : All(a)[c] = All(r)[c]
      BY <1>1, <1>4, <2>2, <2>3 DEF All, Region
    <3>3. QED  BY <3>1, <3>2 DEF All
  <2>5. Region(a)
    <3>1. a.free = [c \in DOMAIN a.free |-> a.free[c]] /\ a.used = [c \in DOMAIN a.used |-> a.used[c]]
      BY <1>3, <2>1 DEF With, Without
    <3>2. a = [area |-> a.area, unit |-> a.unit, free |-> a.free, used |-> a.used]
      BY <1>2
    <3>3. DOMAIN a.free \cap DOMAIN a.used = {}
      BY <2>2 DEF Region
    <3>4. QED  BY <1>3, <2>4, <3>1, <3>2, <3>3 DEF Region
  <2>6. QED  BY <1>3, <1>4, <2>5 DEF a, s
<1>7. CASE rest # 0
  <2>1. a.free = With(left, b + n, rest) /\ n < r.free[b] /\ rest \in Nat \ {0}
    BY <1>1, <1>3, <1>7
  <2>2. /\ b + n \notin DOMAIN All(r)
        /\ Tiling(With(With(All(r), b, n), b + n, rest), r.area)
    BY <1>1, <1>5, <2>1, Split DEF Region
  <2>3. b + n \notin DOMAIN r.free /\ b + n \notin DOMAIN r.used /\ b + n # b
    BY <1>1, <2>2 DEF All
  <2>4. /\ DOMAIN a.free = (DOMAIN r.free \ {b}) \cup {b + n}
        /\ DOMAIN a.used = DOMAIN r.used \cup {b}
    BY <1>3, <2>1 DEF With, Without
  <2>5. /\ \A c \in DOMAIN r.free \ {b} : a.free[c] = r.free[c]
        /\ a.free[b + n] = rest
        /\ \A c \in DOMAIN r.used : a.used[c] = r.used[c]
        /\ a.used[b] = n
    BY <1>3, <1>4, <2>1, <2>3, <2>4 DEF With, Without
  <2>6. All(a) = With(With(All(r), b, n), b + n, rest)
    <3> DEFINE g == With(With(All(r), b, n), b + n, rest)
    <3>1. DOMAIN All(a) = DOMAIN g
      BY <1>1, <2>4 DEF All, With
    <3>2. \A c \in DOMAIN g : All(a)[c] = g[c]
      <4> SUFFICES ASSUME NEW c \in DOMAIN g PROVE All(a)[c] = g[c]
        OBVIOUS
      <4>1. CASE c = b + n
        BY <2>3, <2>4, <2>5, <4>1 DEF All, With
      <4>2. CASE c = b
        BY <1>4, <2>3, <2>4, <2>5, <4>2 DEF All, With
      <4>3. CASE c \in DOMAIN r.free \ {b}
        BY <1>1, <2>3, <2>4, <2>5, <4>3 DEF All, With
      <4>4. CASE c \in DOMAIN r.used
        BY <1>1, <1>4, <2>3, <2>4, <2>5, <4>4 DEF All, With, Region
      <4>5. QED  BY <1>1, <4>1, <4>2, <4>3, <4>4 DEF All, With
    <3>3. QED  BY <3>1, <3>2 DEF All, With
  <2>7. DOMAIN a.free \cap DOMAIN a.used = {}
    BY <2>3, <2>4 DEF Region
  <2>8. Region(a)
    <3>1. a.free = [c \in DOMAIN a.free |-> a.free[c]] /\ a.used = [c \in DOMAIN a.used |-> a.used[c]]
      BY <1>3, <2>1 DEF With
    <3>2. a = [area |-> a.area, unit |-> a.unit, free |-> a.free, used |-> a.used]
      BY <1>2
    <3>3. QED  BY <1>3, <2>2, <2>6, <2>7, <3>1, <3>2 DEF Region
  <2>9. QED  BY <1>3, <1>4, <2>8 DEF a, s
<1>8. QED  BY <1>6, <1>7

LEMMA NewRegionTiled ==
  ASSUME NEW a \in Area
  PROVE  Region(NewRegion(a)) /\ NewRegion(a).area = a /\ DOMAIN NewRegion(a).used = {}
<1> DEFINE r == NewRegion(a)
<1>1. /\ r.area = a /\ r.unit = a.unit
      /\ r.free = [y \in {a.base} |-> a.size] /\ r.used = [cell \in {} |-> 0]
      /\ r = [area |-> r.area, unit |-> r.unit, free |-> r.free, used |-> r.used]
  BY DEF NewRegion, With, NoSegments
<1> HIDE DEF r
<1>2. /\ DOMAIN All(r) = {a.base} /\ All(r)[a.base] = a.size
      /\ DOMAIN r.free \cap DOMAIN r.used = {}
  BY <1>1 DEF All
<1>3. a.base \in Nat \ {0} /\ a.size \in Nat \ {0} /\ a.unit \in Nat \ {0}
  BY DEF Area
<1>4. Tiling(All(r), a)
  BY <1>2, <1>3 DEF Tiling, Cells
<1>5. QED  BY <1>1, <1>2, <1>3, <1>4 DEF Region, r
-----------------------------------------------------------------------------
\* A segment that is returned is free again; the tiling is the same.
LEMMA ReturnKeeps ==
  ASSUME NEW r, Region(r), NEW b \in DOMAIN r.used
  PROVE  Region(Cut(r, With(r.free, b, r.used[b]), Without(r.used, b)))
<1> DEFINE a == Cut(r, With(r.free, b, r.used[b]), Without(r.used, b))
<1>1. /\ a = [area |-> r.area, unit |-> r.unit, free |-> With(r.free, b, r.used[b]),
               used |-> Without(r.used, b)]
      /\ a.area = r.area /\ a.unit = r.unit
      /\ a.free = With(r.free, b, r.used[b]) /\ a.used = Without(r.used, b)
  BY DEF Cut
<1> HIDE DEF a
<1>2. b \notin DOMAIN r.free
  BY DEF Region
<1>3. /\ DOMAIN a.free = DOMAIN r.free \cup {b} /\ DOMAIN a.used = DOMAIN r.used \ {b}
      /\ a.free[b] = r.used[b]
      /\ \A c \in DOMAIN r.free : a.free[c] = r.free[c]
      /\ \A c \in DOMAIN a.used : a.used[c] = r.used[c]
  BY <1>1, <1>2 DEF With, Without
<1>4. All(a) = All(r)
  <2>1. DOMAIN All(a) = DOMAIN All(r)
    BY <1>3 DEF All
  <2>2. \A c \in DOMAIN All(r) : All(a)[c] = All(r)[c]
    BY <1>2, <1>3 DEF All, Region
  <2>3. QED  BY <2>1, <2>2 DEF All
<1>5. a.free = [c \in DOMAIN a.free |-> a.free[c]] /\ a.used = [c \in DOMAIN a.used |-> a.used[c]]
  BY <1>1 DEF With, Without
<1>6. a = [area |-> a.area, unit |-> a.unit, free |-> a.free, used |-> a.used]
  BY <1>1
<1>7. DOMAIN a.free \cap DOMAIN a.used = {}
  BY <1>3 DEF Region
<1>8. QED  BY <1>1, <1>4, <1>5, <1>6, <1>7 DEF Region, a

\* What is taken is added to the segments in use.
LEMMA TakenKeeps ==
  ASSUME NEW r, Region(r), NEW bytes \in Nat, Possible(r, bytes)
  PROVE  /\ Region(Taken(r, bytes))
         /\ Taken(r, bytes).area = r.area
         /\ DOMAIN r.used \subseteq DOMAIN Taken(r, bytes).used
         /\ \A b \in DOMAIN r.used : Taken(r, bytes).used[b] = r.used[b]
<1>1. CASE bytes = 0
  BY <1>1 DEF Taken
<1>2. CASE bytes # 0
  <2>1. Available(r, bytes) /\ Taken(r, bytes) = Allocate(r, bytes)
    BY <1>2 DEF Possible, Taken
  <2> DEFINE t == Taken(r, bytes)
             s == Segment(r, bytes)
  <2>2. Region(t) /\ t.area = r.area /\ s.base \notin DOMAIN r.used
        /\ t.used = With(r.used, s.base, s.size)
    BY <2>1, AllocateKeeps
  <2> HIDE DEF t, s
  <2>3. DOMAIN r.used \subseteq DOMAIN t.used /\ \A b \in DOMAIN r.used : t.used[b] = r.used[b]
    BY <2>2 DEF With
  <2>4. QED  BY <2>2, <2>3 DEF t
<1>3. QED  BY <1>1, <1>2

\* The segments of a region lie in its area, and no two of them have a cell in common.
LEMMA TilesApart ==
  ASSUME NEW r, Region(r), NEW b \in DOMAIN All(r), NEW c \in DOMAIN All(r)
  PROVE  /\ b .. b + All(r)[b] - 1 \subseteq Cells(r.area)
         /\ b # c => (b .. b + All(r)[b] - 1) \cap (c .. c + All(r)[c] - 1) = {}
<1>1. /\ b \in Nat /\ c \in Nat /\ All(r)[b] \in Nat /\ All(r)[c] \in Nat
      /\ r.area.base \in Nat /\ r.area.size \in Nat
      /\ r.area.base <= b /\ b + All(r)[b] <= r.area.base + r.area.size
      /\ b < c => b + All(r)[b] <= c
      /\ c < b => c + All(r)[c] <= b
  BY DEF Region, Tiling, Area
<1>2. QED  BY <1>1 DEF Cells

LEMMA UsedTile ==
  ASSUME NEW r, Region(r), NEW b \in DOMAIN r.used
  PROVE  b \in DOMAIN All(r) /\ All(r)[b] = r.used[b]
BY DEF Region, All
-----------------------------------------------------------------------------
(***************************************************************************)
(* The invariant: what every region is, where the stacks are, and where    *)
(* the segments are that the guest holds.  Those of a region that was      *)
(* replaced are no segments any more, but they are not in region 0.        *)
(***************************************************************************)
Regions ==
  /\ IsFiniteSet(DOMAIN regions) /\ 0 \in DOMAIN regions
  /\ regions = [n \in DOMAIN regions |-> regions[n]]
  /\ \A n \in DOMAIN regions : Region(regions[n])
  /\ regions[0].area = Heap
  /\ \A n \in DOMAIN regions \ {0} : regions[n].area \in Areas
  /\ fresh \subseteq Areas

InUse(s, used) == s.base \in DOMAIN used /\ s.size = used[s.base]
StacksIn(used, S) == \A s \in S : s = [base |-> s.base, size |-> s.size] /\ InUse(s, used)
HeldIn(used, S, H) ==
  \A h \in H :
    \/ h.region = 0 /\ InUse(h, used) /\ \A s \in S : s.base # h.base
    \/ h.region # 0 /\ \E a \in Areas : Cells(h) \subseteq Cells(a)

\* The inductive invariant.
IInv ==
  /\ Regions
  /\ StacksIn(regions[0].used, stacks)
  /\ HeldIn(regions[0].used, stacks, held)

\* More segments in use, none of them at a place of those before.
LEMMA MoreInUse ==
  ASSUME NEW used, NEW more, NEW S, NEW H, StacksIn(used, S), HeldIn(used, S, H),
         DOMAIN used \subseteq DOMAIN more, \A b \in DOMAIN used : more[b] = used[b]
  PROVE  StacksIn(more, S) /\ HeldIn(more, S, H)
BY DEF StacksIn, HeldIn, InUse

LEMMA IInvInit == ASSUME RegionsAssumption, Init PROVE IInv
<1> DEFINE new == NewRegion(Heap)
           glue == Allocate(new, Glue)
           own == Allocate(glue, Glue)
           root == Taken(own, FirstStack)
           rootSuper == Taken(root, FirstSuper)
           idle == Taken(rootSuper, FirstStack)
<1>1. /\ Available(new, Glue) /\ Available(glue, Glue)
      /\ Possible(own, FirstStack) /\ Possible(root, FirstSuper) /\ Possible(rootSuper, FirstStack)
      /\ regions = [n \in {0} |-> idle]
      /\ stacks = {[base |-> b, size |-> idle.used[b]] : b \in DOMAIN idle.used \ DOMAIN own.used}
      /\ fresh = Areas /\ held = {}
  BY DEF Init
<1>2. Heap \in Area /\ Glue \in Nat /\ FirstStack \in Nat /\ FirstSuper \in Nat
  BY DEF RegionsAssumption, Area
<1> HIDE DEF new, glue, own, root, rootSuper, idle
<1>3. Region(new) /\ new.area = Heap
  BY <1>2, NewRegionTiled DEF new
<1>4. Region(glue) /\ glue.area = Heap
  BY <1>1, <1>2, <1>3, AllocateKeeps DEF glue
<1>5. Region(own) /\ own.area = Heap
  BY <1>1, <1>2, <1>4, AllocateKeeps DEF own
<1>6. Region(root) /\ root.area = Heap
  BY <1>1, <1>2, <1>5, TakenKeeps DEF root
<1>7. Region(rootSuper) /\ rootSuper.area = Heap
  BY <1>1, <1>2, <1>6, TakenKeeps DEF rootSuper
<1>8. Region(idle) /\ idle.area = Heap
  BY <1>1, <1>2, <1>7, TakenKeeps DEF idle
<1>9. IsFiniteSet({0})
  BY FS_Singleton
<1>10. Regions
  BY <1>1, <1>8, <1>9 DEF Regions
<1>11. StacksIn(regions[0].used, stacks)
  BY <1>1 DEF StacksIn, InUse
<1>12. HeldIn(regions[0].used, stacks, held)
  BY <1>1 DEF HeldIn
<1>13. QED  BY <1>10, <1>11, <1>12 DEF IInv

LEMMA CreateRegionStep ==
  ASSUME RegionsAssumption, IInv, NEW a \in Areas, CreateRegion(a)
  PROVE  IInv'
<1> DEFINE n == Cardinality(DOMAIN regions)
<1>1. n # 0
  BY FS_EmptySet DEF IInv, Regions
<1>2. /\ regions' = With(regions, n, NewRegion(a))
      /\ fresh' = fresh \ {a}
      /\ UNCHANGED <<stacks, held>>
  BY DEF CreateRegion
<1> HIDE DEF n
<1>3. /\ DOMAIN regions' = DOMAIN regions \cup {n}
      /\ regions'[n] = NewRegion(a)
      /\ \A m \in DOMAIN regions \ {n} : regions'[m] = regions[m]
      /\ regions' = [m \in DOMAIN regions' |-> regions'[m]]
  BY <1>2 DEF With
<1>4. Region(NewRegion(a)) /\ NewRegion(a).area = a
  <2>1. a \in Area
    BY DEF RegionsAssumption, Area
  <2>2. QED  BY <2>1, NewRegionTiled
<1>5. IsFiniteSet(DOMAIN regions')
  BY <1>3, FS_AddElement DEF IInv, Regions
<1>6. regions'[0] = regions[0]
  BY <1>1, <1>3 DEF IInv, Regions
<1>7. Regions'
  BY <1>1, <1>2, <1>3, <1>4, <1>5, <1>6 DEF IInv, Regions
<1>8. QED  BY <1>2, <1>6, <1>7 DEF IInv

LEMMA DeleteRegionStep ==
  ASSUME IInv, NEW n \in DOMAIN regions, DeleteRegion(n)
  PROVE  IInv'
<1>1. /\ n # 0 /\ regions' = Without(regions, n)
      /\ held' = {h \in held : h.region # n}
      /\ UNCHANGED <<stacks, fresh>>
  BY DEF DeleteRegion
<1>2. /\ DOMAIN regions' = DOMAIN regions \ {n}
      /\ \A m \in DOMAIN regions' : regions'[m] = regions[m]
      /\ regions' = [m \in DOMAIN regions' |-> regions'[m]]
  BY <1>1 DEF Without
<1>3. IsFiniteSet(DOMAIN regions')
  BY <1>2, FS_RemoveElement DEF IInv, Regions
<1>4. regions'[0] = regions[0]
  BY <1>1, <1>2 DEF IInv, Regions
<1>5. Regions'
  BY <1>1, <1>2, <1>3, <1>4 DEF IInv, Regions
<1>6. HeldIn(regions[0].used, stacks, held')
  BY <1>1 DEF IInv, HeldIn
<1>7. QED  BY <1>1, <1>4, <1>5, <1>6 DEF IInv

\* A region is cut anew.
LEMMA CutStep ==
  ASSUME Regions, NEW n \in DOMAIN regions, NEW r, Region(r), r.area = regions[n].area,
         regions' = [regions EXCEPT ![n] = r], UNCHANGED fresh
  PROVE  Regions' /\ regions'[n] = r /\ (n # 0 => regions'[0] = regions[0])
<1>1. /\ DOMAIN regions' = DOMAIN regions
      /\ regions'[n] = r
      /\ \A m \in DOMAIN regions \ {n} : regions'[m] = regions[m]
      /\ regions' = [m \in DOMAIN regions' |-> regions'[m]]
  BY DEF Regions
<1>2. \A m \in DOMAIN regions' : Region(regions'[m]) /\ regions'[m].area = regions[m].area
  BY <1>1 DEF Regions
<1>3. QED  BY <1>1, <1>2 DEF Regions

LEMMA GetSegmentStep ==
  ASSUME RegionsAssumption, IInv, NEW n \in DOMAIN regions, NEW bytes \in Requests,
         GetSegment(n, bytes)
  PROVE  IInv'
<1> DEFINE r == regions[n]
           a == Allocate(r, bytes)
           s == Segment(r, bytes)
           h == [region |-> n, base |-> s.base, size |-> s.size]
<1>1. /\ Available(r, bytes)
      /\ regions' = [regions EXCEPT ![n] = a]
      /\ held' = held \cup {h}
      /\ UNCHANGED <<stacks, fresh>>
  BY DEF GetSegment
<1>2. bytes \in Nat /\ Region(r)
  BY DEF RegionsAssumption, IInv, Regions
<1>3. /\ Region(a) /\ a.area = r.area
      /\ s.base \notin DOMAIN r.used /\ a.used = With(r.used, s.base, s.size)
  BY <1>1, <1>2, AllocateKeeps
<1>4. s.size \in Nat \ {0} /\ s.base \in Nat
  BY <1>1, <1>2, SegmentFree
<1> HIDE DEF a, s, r
<1>5. Regions' /\ regions'[n] = a /\ (n # 0 => regions'[0] = regions[0])
  BY <1>1, <1>3, CutStep DEF IInv, r
<1>6. /\ DOMAIN r.used \subseteq DOMAIN a.used /\ \A b \in DOMAIN r.used : a.used[b] = r.used[b]
      /\ s.base \in DOMAIN a.used /\ a.used[s.base] = s.size
  BY <1>3 DEF With
<1>7. CASE n = 0
  <2>1. StacksIn(a.used, stacks) /\ HeldIn(a.used, stacks, held)
    BY <1>6, <1>7, MoreInUse DEF IInv, r
  <2>2. \A t \in stacks : t.base # s.base
    BY <1>3, <1>7 DEF IInv, StacksIn, InUse, r
  <2>3. HeldIn(a.used, stacks, held')
    <3>1. h.region = 0 /\ h.base = s.base /\ h.size = s.size
      BY <1>7
    <3>2. InUse(h, a.used) /\ \A t \in stacks : t.base # h.base
      BY <1>6, <2>2, <3>1 DEF InUse
    <3> HIDE DEF h
    <3>3. QED  BY <1>1, <2>1, <3>1, <3>2 DEF HeldIn
  <2>4. QED  BY <1>1, <1>5, <1>7, <2>1, <2>3 DEF IInv
<1>8. CASE n # 0
  <2>1. Cells(h) \subseteq Cells(r.area)
    <3>1. s.base .. s.base + s.size - 1 \subseteq Cells(a.area)
      BY <1>3, <1>6, TilesApart, UsedTile
    <3>2. QED  BY <1>3, <3>1 DEF Cells
  <2>2. r.area \in Areas
    BY <1>8 DEF IInv, Regions, r
  <2>3. h.region # 0
    BY <1>8
  <2> HIDE DEF h
  <2>4. HeldIn(regions[0].used, stacks, held')
    BY <1>1, <2>1, <2>2, <2>3 DEF IInv, HeldIn
  <2>5. QED  BY <1>1, <1>5, <1>8, <2>4 DEF IInv
<1>9. QED  BY <1>7, <1>8

LEMMA ReturnSegmentStep ==
  ASSUME IInv, NEW n \in DOMAIN regions, NEW base, MayReturn(n, base), ReturnSegment(n, base)
  PROVE  IInv'
<1> DEFINE r == regions[n]
           a == Cut(r, With(r.free, base, r.used[base]), Without(r.used, base))
<1>1. /\ base \in DOMAIN r.used
      /\ regions' = [regions EXCEPT ![n] = a]
      /\ held' = {h \in held : h.region # n \/ h.base # base}
      /\ UNCHANGED <<stacks, fresh>>
  BY DEF ReturnSegment
<1>2. Region(r)
  BY DEF IInv, Regions
<1>3. Region(a) /\ a.area = r.area /\ a.used = Without(r.used, base)
  BY <1>1, <1>2, ReturnKeeps DEF Cut
<1> HIDE DEF a, r
<1>4. Regions' /\ regions'[n] = a /\ (n # 0 => regions'[0] = regions[0])
  BY <1>1, <1>3, CutStep DEF IInv, r
<1>5. CASE n # 0
  <2>1. HeldIn(regions[0].used, stacks, held')
    BY <1>1 DEF IInv, HeldIn
  <2>2. QED  BY <1>1, <1>4, <1>5, <2>1 DEF IInv
<1>6. CASE n = 0
  <2>1. PICK g \in held : g.region = 0 /\ g.base = base
    <3>1. \E g \in held :
            [region |-> n, base |-> base] = [region |-> g.region, base |-> g.base]
      BY <1>1 DEF MayReturn, r
    <3>2. PICK g \in held :
            [region |-> n, base |-> base] = [region |-> g.region, base |-> g.base]
      BY <3>1
    <3>3. [region |-> n, base |-> base].region = g.region
          /\ [region |-> n, base |-> base].base = g.base
      BY <3>2
    <3>4. QED  BY <1>6, <3>3
  <2>2. \A t \in stacks : t.base # base
    BY <2>1 DEF IInv, HeldIn
  <2>3. DOMAIN a.used = DOMAIN r.used \ {base} /\ \A b \in DOMAIN a.used : a.used[b] = r.used[b]
    BY <1>3 DEF Without
  <2>4. StacksIn(a.used, stacks)
    BY <1>6, <2>2, <2>3 DEF IInv, StacksIn, InUse, r
  <2>5. HeldIn(a.used, stacks, held')
    BY <1>1, <1>6, <2>3 DEF IInv, HeldIn, InUse, r
  <2>6. QED  BY <1>1, <1>4, <1>6, <2>4, <2>5 DEF IInv
<1>7. QED  BY <1>5, <1>6

LEMMA CreateTaskStep ==
  ASSUME RegionsAssumption, IInv, NEW user \in Requests \cup {0}, NEW super \in Requests \cup {0},
         CreateTask(user, super)
  PROVE  IInv'
<1> DEFINE heap == regions[0]
           heap1 == IF Possible(heap, user) THEN Taken(heap, user) ELSE heap
           heap2 == IF Possible(heap1, super) THEN Taken(heap1, super) ELSE heap1
           new == {[base |-> b, size |-> heap2.used[b]] : b \in DOMAIN heap2.used \ DOMAIN heap.used}
<1>1. /\ regions' = [regions EXCEPT ![0] = heap2]
      /\ stacks' = stacks \/ stacks' = stacks \cup new
      /\ UNCHANGED <<fresh, held>>
  BY DEF CreateTask
<1>2. user \in Nat /\ super \in Nat /\ Region(heap) /\ 0 \in DOMAIN regions
  BY DEF RegionsAssumption, IInv, Regions
<1> HIDE DEF heap, heap1, heap2, new
<1>3. /\ Region(heap1) /\ heap1.area = heap.area
      /\ DOMAIN heap.used \subseteq DOMAIN heap1.used
      /\ \A b \in DOMAIN heap.used : heap1.used[b] = heap.used[b]
  BY <1>2, TakenKeeps DEF heap1
<1>4. /\ Region(heap2) /\ heap2.area = heap.area
      /\ DOMAIN heap.used \subseteq DOMAIN heap2.used
      /\ \A b \in DOMAIN heap.used : heap2.used[b] = heap.used[b]
  BY <1>2, <1>3, TakenKeeps DEF heap2
<1>5. Regions' /\ regions'[0] = heap2
  BY <1>1, <1>2, <1>4, CutStep DEF IInv, heap
<1>6. StacksIn(heap2.used, stacks) /\ HeldIn(heap2.used, stacks, held)
  BY <1>4, MoreInUse DEF IInv, heap
<1>7. /\ \A t \in new : t = [base |-> t.base, size |-> t.size] /\ InUse(t, heap2.used)
      /\ \A t \in new : t.base \notin DOMAIN heap.used
  BY DEF new, InUse
<1>8. StacksIn(heap2.used, stacks')
  BY <1>1, <1>6, <1>7 DEF StacksIn
<1>9. HeldIn(heap2.used, stacks', held)
  <2>1. \A h \in held : h.region = 0 => h.base \in DOMAIN heap.used
    BY DEF IInv, HeldIn, InUse, heap
  <2>2. QED  BY <1>1, <1>6, <1>7, <2>1 DEF HeldIn
<1>10. QED  BY <1>1, <1>5, <1>8, <1>9 DEF IInv

\* The invariant holds in every state.
THEOREM RegionsInvariant == ASSUME RegionsAssumption PROVE Spec => []IInv
<1>1. IInv /\ [Next]_vars => IInv'
  <2>1. IInv /\ UNCHANGED vars => IInv'
    BY DEF vars, IInv, Regions, StacksIn, HeldIn
  <2>2. IInv /\ Next => IInv'
    BY CreateRegionStep, DeleteRegionStep, GetSegmentStep, ReturnSegmentStep, CreateTaskStep
       DEF Next
  <2>3. QED  BY <2>1, <2>2
<1>2. Init => IInv
  BY IInvInit
<1>3. QED  BY <1>1, <1>2, PTL DEF Spec
-----------------------------------------------------------------------------
\* The free and the used segments of a region cover it, every cell once, whatever its
\* unit is and whatever is taken and returned.
THEOREM RegionsStayTiled == ASSUME RegionsAssumption PROVE Spec => []RegionsTiled
<1>1. IInv => RegionsTiled
  <2> SUFFICES ASSUME IInv, NEW n \in DOMAIN regions
               PROVE  LET r == regions[n] all == Segments(r.free) \cup Segments(r.used)
                      IN /\ DOMAIN r.free \cap DOMAIN r.used = {}
                         /\ UNION {Cells(s) : s \in all} = Cells(r.area)
                         /\ \A s, t \in all : s # t => Cells(s) \cap Cells(t) = {}
    BY DEF RegionsTiled
  <2> DEFINE r == regions[n]
             all == Segments(r.free) \cup Segments(r.used)
  <2>1. Region(r)
    BY DEF IInv, Regions
  <2> HIDE DEF r
  <2>2. \A s \in all : s.base \in DOMAIN All(r) /\ s = [base |-> s.base, size |-> All(r)[s.base]]
                        /\ Cells(s) = s.base .. s.base + All(r)[s.base] - 1
    BY <2>1 DEF Segments, All, Region, Cells
  <2>3. \A b \in DOMAIN All(r) : [base |-> b, size |-> All(r)[b]] \in all
    BY <2>1 DEF Segments, All, Region
  <2> HIDE DEF all
  <2>4. \A s, t \in all : s # t => Cells(s) \cap Cells(t) = {}
    <3> SUFFICES ASSUME NEW s \in all, NEW t \in all, s # t PROVE Cells(s) \cap Cells(t) = {}
      OBVIOUS
    <3>1. s.base # t.base
      BY <2>2
    <3>2. QED  BY <2>1, <2>2, <3>1, TilesApart
  <2>5. UNION {Cells(s) : s \in all} = Cells(r.area)
    <3>1. \A s \in all : Cells(s) \subseteq Cells(r.area)
      BY <2>1, <2>2, TilesApart
    <3>2. ASSUME NEW c \in Cells(r.area) PROVE \E s \in all : c \in Cells(s)
      <4>1. PICK b \in DOMAIN All(r) : c \in b .. b + All(r)[b] - 1
        BY <2>1 DEF Region, Tiling
      <4>2. [base |-> b, size |-> All(r)[b]] \in all
        BY <2>3
      <4>3. c \in Cells([base |-> b, size |-> All(r)[b]])
        BY <4>1 DEF Cells
      <4>4. QED  BY <4>2, <4>3
    <3>3. QED  BY <3>1, <3>2
  <2>6. DOMAIN r.free \cap DOMAIN r.used = {}
    BY <2>1 DEF Region
  <2>7. QED  BY <2>4, <2>5, <2>6 DEF all, r
<1>2. QED  BY <1>1, RegionsInvariant, PTL

\* Region 0 and the stacks in it outlive every region that is created, replaced or
\* deleted, and no stack has a cell in common with another or with what the guest holds.
THEOREM RegionsStacksOwned == ASSUME RegionsAssumption PROVE Spec => []StacksOwned
<1>1. IInv => StacksOwned
  <2> SUFFICES ASSUME IInv, NEW s \in stacks
               PROVE  /\ 0 \in DOMAIN regions
                      /\ s.base \in DOMAIN regions[0].used
                      /\ \A t \in stacks : t # s => Cells(s) \cap Cells(t) = {}
                      /\ \A h \in held : Cells(s) \cap Cells(h) = {}
    BY DEF StacksOwned
  <2> DEFINE r == regions[0]
  <2>1. Region(r) /\ r.area = Heap /\ 0 \in DOMAIN regions
    BY DEF IInv, Regions
  <2>2. \A t \in stacks : InUse(t, r.used) /\ t = [base |-> t.base, size |-> t.size]
    BY DEF IInv, StacksIn
  <2>3. HeldIn(r.used, stacks, held)
    BY DEF IInv
  <2> HIDE DEF r
  <2>4. ASSUME NEW x, NEW y, InUse(x, r.used), InUse(y, r.used), x.base # y.base
        PROVE  Cells(x) \cap Cells(y) = {}
    <3>1. /\ x.base \in DOMAIN All(r) /\ All(r)[x.base] = x.size
          /\ y.base \in DOMAIN All(r) /\ All(r)[y.base] = y.size
      BY <2>1, <2>4, UsedTile DEF InUse
    <3>2. QED  BY <2>1, <2>4, <3>1, TilesApart DEF Cells
  <2>5. ASSUME NEW t \in stacks, t # s PROVE Cells(s) \cap Cells(t) = {}
    <3>1. InUse(s, r.used) /\ InUse(t, r.used)
      BY <2>2
    <3>2. s.base # t.base
      BY <2>2, <2>5, <3>1 DEF InUse
    <3>3. QED  BY <2>4, <3>1, <3>2
  <2>6. ASSUME NEW h \in held PROVE Cells(s) \cap Cells(h) = {}
    <3>1. CASE InUse(h, r.used) /\ s.base # h.base
      BY <2>2, <2>4, <3>1
    <3>2. CASE \E a \in Areas : Cells(h) \subseteq Cells(a)
      <4>1. Cells(s) \subseteq Cells(Heap)
        <5>1. s.base \in DOMAIN All(r) /\ All(r)[s.base] = s.size
          BY <2>1, <2>2, UsedTile DEF InUse
        <5>2. QED  BY <2>1, <5>1, TilesApart DEF Cells
      <4>2. PICK a \in Areas : Cells(h) \subseteq Cells(a)
        BY <3>2
      <4>3. Cells(Heap) \cap Cells(a) = {}
        BY DEF RegionsAssumption
      <4>4. QED  BY <4>1, <4>2, <4>3
    <3>3. QED  BY <2>3, <3>1, <3>2 DEF HeldIn
  <2>7. QED  BY <2>1, <2>2, <2>5, <2>6 DEF InUse, r
<1>2. QED  BY <1>1, RegionsInvariant, PTL
=============================================================================
