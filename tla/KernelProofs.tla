---------------------------- MODULE KernelProofs ----------------------------
(***************************************************************************)
(* Proofs about what the kernel runs on: the linked-list allocator of      *)
(* kernel/src/allocator/linked_list.rs (Heap), the page tables and the     *)
(* frame allocator of kernel/src/memory.rs (Paging), and the cooperative   *)
(* executor of kernel/src/task with its wakers (AsyncRuntime).             *)
(*                                                                         *)
(* Heap: Exclusive is shown from HeapInv, which tells two blocks with the  *)
(* same region apart.  All that linking does to the list is in             *)
(* AddFreeRegion: the regions stay apart, and what was disjoint from the   *)
(* list and from the region that is linked is disjoint from the new list,  *)
(* and its total grows by that region.  Accounted follows from AccountInv, *)
(* which counts the skipped words too; for it the sum of a finite set is   *)
(* shown not to depend on the order in which MapThenSumSet picks (SumAdds),*)
(* and induction over the size of the set is the absence of a least        *)
(* counterexample (NoLeast).                                               *)
(*                                                                         *)
(* Paging: one inductive invariant for the three properties.  FramesInv:   *)
(* every frame in use comes before next, but for those of registers, which *)
(* are past the usable ones; the tables map makes take the frames from     *)
(* next on in the order of their levels (RankFacts).  PathInv: while       *)
(* segments are loaded, the pages closed to the user are the heap's, and   *)
(* no segment has one.  MmapInv: how far the loop of mmap_user_pages has   *)
(* come.                                                                   *)
(*                                                                         *)
(* AsyncRuntime: RingInv is the ring slot by slot, with the arithmetic     *)
(* modulo Capacity done once, in RingFacts.  NoLostWakeup is inductive     *)
(* with WindowInv, which says what holds in the windows of the two polls.  *)
(***************************************************************************)
EXTENDS Heap, Paging, AsyncRuntime, FiniteSetTheorems,
        WellFoundedInduction, TLAPS

-----------------------------------------------------------------------------
(* The heap.                                                               *)

(* A set of numbers none of which is the least is empty: induction, as     *)
(* the absence of a least counterexample.                                  *)
LEMMA NoLeast ==
    ASSUME NEW T \in SUBSET Nat, \A n \in T : \E m \in T : m < n
    PROVE  T = {}
  <1> SUFFICES ASSUME T # {} PROVE FALSE
    OBVIOUS
  <1> DEFINE R == OpToRel(<, Nat)
  <1>1. PICK k \in T : \A j \in T : ~(<<j, k>> \in R)
    <2>1. IsWellFoundedOn(R, Nat)
      BY NatLessThanWellFounded
    <2> HIDE DEF R
    <2> QED
      BY <2>1, WFMin
  <1> QED
    BY <1>1 DEF OpToRel

(* What the regions of a set come to, and a function that sums up all of   *)
(* its subsets the way MapThenSumSet does.                                 *)
TotalSize(S) == MapThenSumSet(LAMBDA r : r.size, S)
Pick(s) == CHOOSE x \in s : TRUE
Sized(S) == IsFiniteSet(S) /\ \A x \in S : x.size \in Nat
SumOf(g, s) == IF s = {} THEN 0 ELSE Pick(s).size + g[s \ {Pick(s)}]
IsSum(g, S) == g = [s \in SUBSET S |-> SumOf(g, s)]

(* What is left of a set without the element that is picked.               *)
LEMMA PickFacts ==
    ASSUME NEW S, Sized(S), NEW s \in SUBSET S
    PROVE  /\ IsFiniteSet(s) /\ Cardinality(s) \in Nat
           /\ Cardinality(s) <= Cardinality(S) /\ Cardinality(S) \in Nat
           /\ s = {} <=> Cardinality(s) = 0
           /\ s # {} => /\ Pick(s) \in s /\ Pick(s).size \in Nat
                        /\ s \ {Pick(s)} \in SUBSET S
                        /\ Cardinality(s \ {Pick(s)}) = Cardinality(s) - 1
  <1>1. IsFiniteSet(s) /\ Cardinality(s) <= Cardinality(S)
    BY FS_Subset DEF Sized
  <1>2. Cardinality(s) \in Nat /\ Cardinality(S) \in Nat
    BY <1>1, FS_CardinalityType DEF Sized
  <1>3. s = {} <=> Cardinality(s) = 0
    BY <1>1, FS_EmptySet
  <1>4. s # {} => Pick(s) \in s
    BY DEF Pick
  <1> HIDE DEF Pick
  <1>5. s # {} => Cardinality(s \ {Pick(s)}) = Cardinality(s) - 1
    BY <1>1, <1>4, FS_RemoveElement
  <1> QED
    BY <1>1, <1>2, <1>3, <1>4, <1>5 DEF Sized

(* Such a function exists.                                                 *)
Small(S, n) == {s \in SUBSET S : Cardinality(s) <= n}
LEMMA SumExists ==
    ASSUME NEW S, Sized(S)
    PROVE  \E g \in [SUBSET S -> Nat] : IsSum(g, S)
  <1> DEFINE UpTo(g, n) == /\ g \in [Small(S, n) -> Nat]
                           /\ \A s \in Small(S, n) : g[s] = SumOf(g, s)
             T == {n \in Nat : ~\E g : UpTo(g, n)}
  <1>1. ASSUME NEW n \in T PROVE \E m \in T : m < n
    <2> SUFFICES ASSUME \A m \in Nat : m < n => \E g : UpTo(g, m)
                 PROVE  \E g : UpTo(g, n)
      BY <1>1
    <2>0. n \in Nat
      OBVIOUS
    <2>1. CASE n = 0
      <3>1. \A s \in Small(S, 0) : s = {}
        <4> TAKE s \in Small(S, 0)
        <4>1. s \in SUBSET S /\ Cardinality(s) <= 0
          BY DEF Small
        <4>2. Cardinality(s) \in Nat /\ (s = {} <=> Cardinality(s) = 0)
          BY <4>1, PickFacts
        <4> QED
          BY <4>1, <4>2
      <3>2. UpTo([s \in Small(S, 0) |-> 0], 0)
        BY <3>1 DEF SumOf
      <3> QED
        BY <2>1, <3>2
    <2>2. CASE n # 0
      <3>1. n - 1 \in Nat /\ n - 1 < n
        BY <2>0, <2>2
      <3>2. PICK g : UpTo(g, n - 1)
        BY <3>1
      <3> DEFINE h == [s \in Small(S, n) |-> SumOf(g, s)]
      <3>3. ASSUME NEW s \in Small(S, n), s # {}
            PROVE  /\ Pick(s).size \in Nat
                   /\ s \ {Pick(s)} \in Small(S, n - 1)
                   /\ s \ {Pick(s)} \in Small(S, n)
        BY <2>0, <3>3, PickFacts DEF Small
      <3>4. h \in [Small(S, n) -> Nat]
        BY <3>2, <3>3 DEF SumOf
      <3>5. \A s \in Small(S, n - 1) : s \in Small(S, n) /\ h[s] = g[s]
        <4> TAKE s \in Small(S, n - 1)
        <4>1. /\ s \in SUBSET S
              /\ Cardinality(s) <= n - 1 /\ Cardinality(s) \in Nat
          BY PickFacts DEF Small
        <4>2. s \in Small(S, n)
          BY <2>0, <4>1 DEF Small
        <4>3. g[s] = SumOf(g, s)
          BY <3>2
        <4> QED
          BY <4>2, <4>3
      <3>6. \A s \in Small(S, n) : SumOf(h, s) = SumOf(g, s)
        <4> TAKE s \in Small(S, n)
        <4>1. CASE s = {}
          BY <4>1 DEF SumOf
        <4>2. CASE s # {}
          <5>1. h[s \ {Pick(s)}] = g[s \ {Pick(s)}]
            BY <3>3, <3>5, <4>2
          <5> HIDE DEF h
          <5> QED
            BY <4>2, <5>1 DEF SumOf
        <4> QED
          BY <4>1, <4>2
      <3>7. \A s \in Small(S, n) : h[s] = SumOf(g, s)
        OBVIOUS
      <3> HIDE DEF h
      <3> QED
        BY <3>4, <3>6, <3>7
    <2> QED
      BY <2>1, <2>2
  <1> HIDE DEF UpTo
  <1>2. T = {}
    BY <1>1, NoLeast
  <1>3. Cardinality(S) \in Nat /\ Small(S, Cardinality(S)) = SUBSET S
    BY PickFacts DEF Small
  <1>4. PICK g : UpTo(g, Cardinality(S))
    BY <1>2, <1>3
  <1>5. g \in [SUBSET S -> Nat] /\ \A s \in SUBSET S : g[s] = SumOf(g, s)
    BY <1>3, <1>4 DEF UpTo
  <1> QED
    BY <1>5 DEF IsSum

(* And it does not depend on what else is in the set.                      *)
LEMMA SumUnique ==
    ASSUME NEW S, NEW g, NEW U, NEW h,
           Sized(S), IsSum(g, S), IsSum(h, U), S \subseteq U
    PROVE  \A s \in SUBSET S : g[s] = h[s]
  <1> DEFINE T == {n \in Nat : \E s \in SUBSET S :
                                  Cardinality(s) = n /\ g[s] # h[s]}
  <1>1. /\ \A s \in SUBSET S : g[s] = SumOf(g, s)
        /\ \A s \in SUBSET S : h[s] = SumOf(h, s)
    <2>1. \A s \in SUBSET S : s \in SUBSET U
      OBVIOUS
    <2> QED
      BY <2>1 DEF IsSum
  <1>2. ASSUME NEW n \in T PROVE \E m \in T : m < n
    <2>1. PICK s \in SUBSET S : Cardinality(s) = n /\ g[s] # h[s]
      OBVIOUS
    <2>2. CASE s = {}
      BY <1>1, <2>1, <2>2 DEF SumOf
    <2>3. CASE s # {}
      <3> DEFINE t == s \ {Pick(s)}
      <3>1. /\ t \in SUBSET S /\ Cardinality(t) = n - 1
            /\ n - 1 \in Nat /\ n - 1 < n
        BY <2>1, <2>3, PickFacts
      <3>2. g[t] # h[t]
        BY <1>1, <2>1, <2>3 DEF SumOf
      <3> QED
        BY <3>1, <3>2
    <2> QED
      BY <2>2, <2>3
  <1>3. T = {}
    BY <1>2, NoLeast
  <1>4. \A s \in SUBSET S : Cardinality(s) \in Nat
    BY PickFacts
  <1> QED
    BY <1>3, <1>4

(* The sum does not depend on the order in which elements are picked.      *)
LEMMA SumAdds ==
    ASSUME NEW S, NEW g, Sized(S), g \in [SUBSET S -> Nat], IsSum(g, S)
    PROVE  \A x \in S : g[S] = g[S \ {x}] + x.size
  <1> DEFINE Adds(t, y) == g[t \cup {y}] = g[t] + y.size
             T == {n \in Nat : \E t \in SUBSET S : \E y \in S \ t :
                                  Cardinality(t) = n /\ ~Adds(t, y)}
  <1>1. \A t \in SUBSET S : g[t] = SumOf(g, t) /\ g[t] \in Nat
    BY DEF IsSum
  <1>2. ASSUME NEW n \in T PROVE \E m \in T : m < n
    <2>0. PICK t \in SUBSET S :
             \E y \in S \ t : Cardinality(t) = n /\ ~Adds(t, y)
      OBVIOUS
    <2>1. PICK y \in S \ t : Cardinality(t) = n /\ ~Adds(t, y)
      BY <2>0
    <2> DEFINE u == t \cup {y}
               z == Pick(u)
    <2>2. /\ u \in SUBSET S /\ u # {} /\ z \in u
          /\ g[u] = z.size + g[u \ {z}]
          /\ z.size \in Nat /\ y.size \in Nat
      <3>1. u \in SUBSET S /\ u # {}
        OBVIOUS
      <3> HIDE DEF u
      <3>2. Pick(u) \in u
        BY <3>1, PickFacts
      <3> QED
        BY <1>1, <3>1, <3>2 DEF SumOf, Sized
    <2>3. CASE z = y
      <3>1. u \ {z} = t
        BY <2>3
      <3>2. g[u] = y.size + g[t]
        BY <2>2, <2>3, <3>1
      <3>3. g[t] \in Nat
        BY <1>1
      <3>4. g[u] = g[t] + y.size
        <4> HIDE DEF u
        <4> QED
          BY <2>2, <3>2, <3>3
      <3> QED
        BY <2>1, <3>4
    <2>4. CASE z # y
      <3> DEFINE v == t \ {z}
      <3>1. z \in t
        BY <2>2, <2>4
      <3>2. /\ v \in SUBSET S /\ y \in S \ v /\ z \in S \ v
            /\ u \ {z} = v \cup {y} /\ t = v \cup {z}
        BY <2>4, <3>1
      <3>3. Cardinality(v) = n - 1 /\ n - 1 \in Nat /\ n - 1 < n
        <4>1. IsFiniteSet(t)
          BY PickFacts
        <4> HIDE DEF z
        <4>2. Cardinality(v) = Cardinality(t) - 1
          BY <3>1, <4>1, FS_RemoveElement
        <4> HIDE DEF v
        <4>3. Cardinality(v) \in Nat
          BY <3>2, PickFacts
        <4> QED
          BY <2>1, <4>2, <4>3
      <3>4. ~(Adds(v, y) /\ Adds(v, z))
        <4> SUFFICES ASSUME Adds(v, y), Adds(v, z) PROVE FALSE
          OBVIOUS
        <4>1. /\ g[v] \in Nat /\ g[u] = z.size + (g[v] + y.size)
              /\ g[t] = g[v] + z.size
          BY <1>1, <2>2, <3>2
        <4> HIDE DEF u, v, z
        <4>2. g[u] = g[t] + y.size
          BY <2>2, <4>1
        <4> QED
          BY <2>1, <4>2 DEF u
      <3> HIDE DEF Adds, v, z, u
      <3> QED
        BY <3>2, <3>3, <3>4
    <2> QED
      BY <2>3, <2>4
  <1> HIDE DEF Adds
  <1>3. T = {}
    BY <1>2, NoLeast
  <1>4. \A s \in SUBSET S : Cardinality(s) \in Nat
    BY PickFacts
  <1>5. \A s \in SUBSET S : \A x \in S \ s : Adds(s, x)
    BY <1>3, <1>4
  <1> SUFFICES ASSUME NEW x \in S PROVE g[S] = g[S \ {x}] + x.size
    OBVIOUS
  <1> DEFINE r == S \ {x}
  <1>6. r \in SUBSET S /\ x \in S \ r /\ r \cup {x} = S
    OBVIOUS
  <1> HIDE DEF r
  <1>7. Adds(r, x)
    BY <1>5, <1>6
  <1>8. g[r \cup {x}] = g[r] + x.size
    BY <1>7 DEF Adds
  <1> QED
    BY <1>6, <1>8 DEF r

(* A total is a value of such a function, for any set around.              *)
LEMMA TotalIs ==
    ASSUME NEW S, NEW s, NEW g, Sized(S), s \in SUBSET S, IsSum(g, S)
    PROVE  TotalSize(s) = g[s]
  <1>1. Sized(s)
    BY PickFacts DEF Sized
  <1> DEFINE h == CHOOSE h : IsSum(h, s)
  <1>2. IsSum(h, s)
    BY <1>1, SumExists
  <1>3. TotalSize(s) = h[s]
    BY DEF TotalSize, MapThenSumSet, MapThenFoldSet, IsSum, SumOf, Pick
  <1> HIDE DEF h
  <1> QED
    BY <1>1, <1>2, <1>3, SumUnique

(* Totals, one element at a time.                                          *)
LEMMA TotalFacts ==
    ASSUME NEW S, Sized(S)
    PROVE  /\ TotalSize(S) \in Nat
           /\ S = {} => TotalSize(S) = 0
           /\ \A x \in S : /\ Sized(S \ {x})
                           /\ TotalSize(S \ {x}) = TotalSize(S) - x.size
           /\ \A x : x \notin S /\ x.size \in Nat =>
                 /\ Sized(S \cup {x})
                 /\ TotalSize(S \cup {x}) = TotalSize(S) + x.size
  <1>1. PICK k \in [SUBSET S -> Nat] : IsSum(k, S)
    BY SumExists
  <1>2. TotalSize(S) = k[S] /\ k[S] \in Nat
    BY <1>1, TotalIs
  <1>3. S = {} => k[S] = 0
    BY <1>1 DEF IsSum, SumOf
  <1>3a. \A x \in S : k[S] = k[S \ {x}] + x.size
    <2>1. Sized(S)
      OBVIOUS
    <2>2. k \in [SUBSET S -> Nat] /\ IsSum(k, S)
      BY <1>1
    <2> QED
      BY <2>1, <2>2, SumAdds
  <1>4. ASSUME NEW x \in S
        PROVE  Sized(S \ {x}) /\ TotalSize(S \ {x}) = TotalSize(S) - x.size
    <2> DEFINE s == S \ {x}
    <2>1. s \in SUBSET S /\ x.size \in Nat
      BY DEF Sized
    <2>32. k[S] = k[s] + x.size
      BY <1>3a
    <2> HIDE DEF s
    <2>2. Sized(s)
      <3>1. IsFiniteSet(s)
        BY <2>1, FS_Subset DEF Sized
      <3> QED
        BY <2>1, <3>1 DEF Sized
    <2>3. k[s] \in Nat
      BY <1>1, <2>1
    <2>4. TotalSize(s) = k[s]
      BY <1>1, <2>1, TotalIs
    <2>5. TotalSize(s) = TotalSize(S) - x.size
      BY <1>2, <2>1, <2>3, <2>32, <2>4
    <2> QED
      BY <2>2, <2>5 DEF s
  <1>5. ASSUME NEW x, x \notin S, x.size \in Nat
        PROVE  /\ Sized(S \cup {x})
               /\ TotalSize(S \cup {x}) = TotalSize(S) + x.size
    <2> DEFINE U == S \cup {x}
    <2>1. Sized(U)
      BY <1>5, FS_AddElement DEF Sized
    <2>2. S \in SUBSET U /\ U \in SUBSET U /\ x \in U /\ U \ {x} = S
      BY <1>5
    <2>3. PICK h \in [SUBSET U -> Nat] : IsSum(h, U)
      BY <2>1, SumExists
    <2>4. h[U] = h[S] + x.size
      <3>1. h \in [SUBSET U -> Nat] /\ IsSum(h, U)
        BY <2>3
      <3> HIDE DEF U
      <3>2. \A y \in U : h[U] = h[U \ {y}] + y.size
        BY <2>1, <3>1, SumAdds
      <3> QED
        BY <2>2, <3>2
    <2>5. TotalSize(U) = h[U] /\ TotalSize(S) = h[S]
      BY <2>1, <2>2, <2>3, TotalIs
    <2> QED
      BY <2>1, <2>4, <2>5
  <1> QED
    BY <1>2, <1>3, <1>4, <1>5

(* A region of the heap that can hold a node.                              *)
Placed(r) ==
    /\ r \in [start : Nat, size : Nat]
    /\ r.start >= HeapStart /\ r.size >= NodeSize /\ End(r) <= HeapEnd

(* Regions that neither overlap nor touch.                                 *)
Separate(r, q) == End(r) < q.start \/ End(q) < r.start

(* A list without overlaps and with nothing left to merge.                 *)
FreeOk(F) ==
    /\ \A r \in F : Placed(r)
    /\ \A r, q \in F : r # q => Separate(r, q)

BlockOf(b) == Region(b.start, Padded(b))

HeapInv ==
    /\ FreeOk(free_list)
    /\ live \subseteq [start : Nat, size : Sizes, align : Aligns]
    /\ \A b \in live : Placed(BlockOf(b)) /\ b.start % b.align = 0
    /\ \A b, c \in live : b # c => Disjoint(BlockOf(b), BlockOf(c))
    /\ \A r \in free_list, b \in live : Disjoint(r, BlockOf(b))

(* The counters agree with what is on the list and with callers.           *)
AccountInv ==
    /\ IsFiniteSet(free_list) /\ IsFiniteSet(Blocks)
    /\ allocated_bytes \in Int /\ skipped \in Int
    /\ allocated_bytes = TotalSize(Blocks)
    /\ HeapSize - allocated_bytes - skipped = TotalSize(free_list)

(* What the division of linked_list.rs rounds to.                          *)
LEMMA DivFacts ==
    ASSUME NEW x \in Nat, NEW n \in Nat \ {0},
           NEW d \in Nat, d = x \div n
    PROVE  d * n \in Nat /\ d * n <= x /\ x < d * n + n /\ (d * n) % n = 0
  OBVIOUS

(* align_up returns a multiple of the alignment, not below its argument.   *)
LEMMA AlignUp ==
    ASSUME NEW a \in Nat, NEW n \in Nat \ {0}
    PROVE  /\ align_up(a, n) \in Nat
           /\ align_up(a, n) >= a
           /\ align_up(a, n) % n = 0
  <1> DEFINE x == a + n - 1
  <1>1. x \in Nat
    OBVIOUS
  <1>2. x + 1 = a + n
    OBVIOUS
  <1>3. align_up(a, n) = (x \div n) * n
    BY DEF align_up
  <1> HIDE DEF x
  <1>4. PICK d \in Nat : d = x \div n
    BY <1>1
  <1>5. /\ d * n \in Nat /\ x < d * n + n /\ (d * n) % n = 0
    BY <1>1, <1>4, DivFacts
  <1> QED
    BY <1>1, <1>2, <1>3, <1>4, <1>5

(* add_free_region of a region disjoint from the list: the list stays in   *)
(* order and merged, covers nothing new but the region, and grows by its   *)
(* size.                                                                   *)
LEMMA AddFreeRegion ==
    ASSUME NEW F, FreeOk(F),
           NEW a \in Nat, NEW s \in Nat, Placed(Region(a, s)),
           \A r \in F : Disjoint(r, Region(a, s))
    PROVE  /\ FreeOk(add_free_region(F, a, s))
           /\ \A d : /\ Placed(d) /\ Disjoint(Region(a, s), d)
                     /\ \A r \in F : Disjoint(r, d)
                     => \A r \in add_free_region(F, a, s) : Disjoint(r, d)
           /\ IsFiniteSet(F) =>
                /\ IsFiniteSet(add_free_region(F, a, s))
                /\ TotalSize(add_free_region(F, a, s)) = TotalSize(F) + s
  <1> DEFINE left == Left(F, a)
             right == Right(F, a, s)
             l == CHOOSE r \in left : TRUE
             t == CHOOSE r \in right : TRUE
             from == IF left = {} THEN a ELSE l.start
             to == IF right = {} THEN a + s ELSE End(t)
             new == Region(from, to - from)
             G == add_free_region(F, a, s)
  <1>1. G = (F \ (left \cup right)) \cup {new}
    BY DEF add_free_region
  <1>2. /\ HeapStart \in Nat /\ NodeSize \in Nat \ {0} /\ HeapEnd \in Nat
    BY HeapAssumption DEF HeapEnd
  <1>3. /\ a >= HeapStart /\ s >= NodeSize /\ a + s <= HeapEnd
    BY DEF Placed, Region, End
  <1>4. \A r \in F : /\ r.start \in Nat /\ r.size \in Nat /\ End(r) \in Nat
                     /\ End(r) = r.start + r.size /\ r.size >= NodeSize
                     /\ r.start >= HeapStart /\ End(r) <= HeapEnd
    BY DEF FreeOk, Placed, End
  <1>5. \A r \in F : End(r) <= a \/ a + s <= r.start
    BY DEF Disjoint, Region, End
  <1>6. left # {} => /\ l \in F /\ End(l) = a
    BY DEF Left, Predecessors
  <1>7. right # {} => /\ t \in F /\ t.start = a + s
    BY DEF Right, Successors
  <1>8. \A r \in F : End(r) = a => r \in left
    <2> SUFFICES ASSUME NEW r \in F, End(r) = a PROVE r \in left
      OBVIOUS
    <2>1. r \in Predecessors(F, a)
      BY <1>4 DEF Predecessors
    <2>2. ASSUME NEW q \in Predecessors(F, a) PROVE q.start <= r.start
      <3>1. q \in F /\ q.start <= a
        BY <2>2 DEF Predecessors
      <3>2. End(q) <= a
        BY <3>1, <1>2, <1>3, <1>4, <1>5
      <3>3. q = r \/ End(q) < r.start \/ End(r) < q.start
        BY <3>1 DEF FreeOk, Separate
      <3> QED
        BY <1>2, <1>4, <3>1, <3>2, <3>3
    <2> QED
      BY <2>1, <2>2 DEF Left
  <1>9. \A r \in F : r.start = a + s => r \in right
    <2> SUFFICES ASSUME NEW r \in F, r.start = a + s PROVE r \in right
      OBVIOUS
    <2>1. r \in Successors(F, a)
      BY <1>2, <1>3, <1>4 DEF Successors
    <2>2. ASSUME NEW q \in Successors(F, a) PROVE r.start <= q.start
      <3>1. q \in F /\ q.start > a
        BY <2>2 DEF Successors
      <3>2. q.start >= a + s
        BY <3>1, <1>2, <1>3, <1>4, <1>5
      <3> QED
        BY <1>2, <1>4, <3>1, <3>2
    <2> QED
      BY <2>1, <2>2 DEF Right
  <1>10. /\ from \in Nat /\ from <= a /\ from >= HeapStart
         /\ from = a \/ (l \in F /\ from = l.start /\ End(l) = a)
    BY <1>2, <1>3, <1>4, <1>6
  <1>11. /\ to \in Nat /\ to >= a + s /\ to <= HeapEnd
         /\ to = a + s \/ (t \in F /\ to = End(t) /\ t.start = a + s)
    BY <1>2, <1>3, <1>4, <1>7
  <1>12. /\ new.start = from /\ new.size = to - from /\ End(new) = to
         /\ new \in [start : Nat, size : Nat] /\ new.size >= NodeSize
    BY <1>2, <1>3, <1>10, <1>11 DEF Region, End
  <1>13. Placed(new)
    BY <1>10, <1>11, <1>12 DEF Placed
  <1>14. ASSUME NEW q \in F, q \notin left, q \notin right
         PROVE  End(q) < from \/ to < q.start
    <2>1. End(q) # a /\ q.start # a + s
      BY <1>8, <1>9, <1>14
    <2>2. End(q) < a \/ a + s < q.start
      BY <1>3, <1>4, <1>5, <2>1
    <2>3. left # {} => l \in left
      OBVIOUS
    <2>4. right # {} => t \in right
      OBVIOUS
    <2>5. left # {} => End(q) < l.start \/ End(l) < q.start
      BY <1>6, <1>14, <2>3 DEF FreeOk, Separate
    <2>6. right # {} => End(q) < t.start \/ End(t) < q.start
      BY <1>7, <1>14, <2>4 DEF FreeOk, Separate
    <2>7. CASE End(q) < a
      <3>1. End(q) < from
        BY <1>2, <1>3, <1>4, <1>6, <2>5, <2>7
      <3> QED
        BY <3>1
    <2>8. CASE a + s < q.start
      <3>1. to < q.start
        BY <1>2, <1>3, <1>4, <1>7, <2>6, <2>8
      <3> QED
        BY <3>1
    <2> QED
      BY <2>2, <2>7, <2>8
  <1>14a. /\ \/ left = {} /\ from = a
             \/ left = {l} /\ l \in F /\ l.size = a - from
          /\ \/ right = {} /\ to = a + s
             \/ right = {t} /\ t \in F /\ t.size = to - (a + s)
          /\ left # {} /\ right # {} => l # t
    <2>1. \A r, q \in left : r = q
      <3> SUFFICES ASSUME NEW r \in left, NEW q \in left PROVE r = q
        OBVIOUS
      <3>1. r \in F /\ q \in F /\ End(r) = a /\ End(q) = a
        BY DEF Left, Predecessors
      <3>2. r = q \/ End(r) < q.start \/ End(q) < r.start
        BY <3>1 DEF FreeOk, Separate
      <3> QED
        BY <1>2, <1>4, <3>1, <3>2
    <2>2. \A r, q \in right : r = q
      <3> SUFFICES ASSUME NEW r \in right, NEW q \in right PROVE r = q
        OBVIOUS
      <3>1. r \in F /\ q \in F /\ r.start = a + s /\ q.start = a + s
        BY DEF Right, Successors
      <3>2. r = q \/ End(r) < q.start \/ End(q) < r.start
        BY <3>1 DEF FreeOk, Separate
      <3> QED
        BY <1>2, <1>4, <3>1, <3>2
    <2>3. left # {} => left = {l}
      BY <2>1
    <2>4. right # {} => right = {t}
      BY <2>2
    <2>5. left # {} => l.size = a - from
      BY <1>4, <1>6
    <2>6. right # {} => t.size = to - (a + s)
      BY <1>4, <1>7
    <2>7. left # {} /\ right # {} => l # t
      <3> HIDE DEF l, t, left, right
      <3> QED
        BY <1>2, <1>3, <1>4, <1>6, <1>7
    <2>8. (left = {} => from = a) /\ (right = {} => to = a + s)
      OBVIOUS
    <2> HIDE DEF l, t, left, right, from, to
    <2> QED
      BY <1>6, <1>7, <2>3, <2>4, <2>5, <2>6, <2>7, <2>8
  <1> HIDE DEF G, new, from, to, l, t, left, right
  <1>15. FreeOk(G)
    <2>1. \A r \in G : Placed(r)
      BY <1>1, <1>13 DEF FreeOk
    <2>2. ASSUME NEW r \in G, NEW q \in G, r # q PROVE Separate(r, q)
      <3>1. CASE r \in F /\ q \in F
        BY <2>2, <3>1 DEF FreeOk
      <3>2. CASE r = new
        BY <1>1, <1>12, <1>14, <2>2, <3>2 DEF Separate
      <3>3. CASE q = new
        BY <1>1, <1>12, <1>14, <2>2, <3>3 DEF Separate
      <3> QED
        BY <1>1, <3>1, <3>2, <3>3
    <2> QED
      BY <2>1, <2>2 DEF FreeOk
  <1>16. ASSUME NEW d, Placed(d), Disjoint(Region(a, s), d),
                \A r \in F : Disjoint(r, d),
                NEW r \in G
         PROVE  Disjoint(r, d)
    <2>1. CASE r \in F
      BY <1>16, <2>1
    <2>2. CASE r = new
      <3>1. /\ d.start \in Nat /\ End(d) \in Nat /\ d.start < End(d)
        BY <1>2, <1>16 DEF Placed, End
      <3>2. a + s <= d.start \/ End(d) <= a
        BY <1>16 DEF Disjoint, Region, End
      <3>3. l \in F => End(l) <= d.start \/ End(d) <= l.start
        BY <1>16 DEF Disjoint
      <3>4. t \in F => End(t) <= d.start \/ End(d) <= t.start
        BY <1>16 DEF Disjoint
      <3>5. to <= d.start \/ End(d) <= from
        BY <1>2, <1>3, <1>4, <1>10, <1>11, <3>1, <3>2, <3>3, <3>4
      <3> QED
        BY <1>12, <2>2, <3>5 DEF Disjoint
    <2> QED
      BY <1>1, <2>1, <2>2
  <1>17. ASSUME IsFiniteSet(F)
         PROVE  IsFiniteSet(G) /\ TotalSize(G) = TotalSize(F) + s
    <2> DEFINE F1 == F \ left
               F2 == F1 \ right
    <2>1. Sized(F) /\ TotalSize(F) \in Nat
      <3>1. Sized(F)
        BY <1>4, <1>17 DEF Sized
      <3> QED
        BY <3>1, TotalFacts
    <2>2. /\ Sized(F1) /\ TotalSize(F1) \in Nat
          /\ TotalSize(F1) = TotalSize(F) - (a - from)
      <3>1. CASE left = {}
        <4>1. F1 = F /\ from = a
          BY <1>14a, <3>1
        <4> QED
          BY <2>1, <4>1
      <3>2. CASE left # {}
        <4>1. F1 = F \ {l} /\ l \in F /\ l.size = a - from
          BY <1>14a, <3>2
        <4>2. Sized(F1) /\ TotalSize(F1) = TotalSize(F) - l.size
          BY <2>1, <4>1, TotalFacts
        <4> HIDE DEF F1
        <4>3. TotalSize(F1) \in Nat
          BY <4>2, TotalFacts
        <4> QED
          BY <4>1, <4>2, <4>3
      <3> QED
        BY <3>1, <3>2
    <2> HIDE DEF F1
    <2>3. /\ Sized(F2) /\ TotalSize(F2) \in Nat
          /\ TotalSize(F2) = TotalSize(F1) - (to - (a + s))
      <3>1. CASE right = {}
        <4>1. F2 = F1 /\ to = a + s
          BY <1>14a, <3>1
        <4> QED
          BY <2>2, <4>1
      <3>2. CASE right # {}
        <4>1. F2 = F1 \ {t} /\ t \in F1 /\ t.size = to - (a + s)
          BY <1>14a, <3>2 DEF F1
        <4>2. Sized(F2) /\ TotalSize(F2) = TotalSize(F1) - t.size
          BY <2>2, <4>1, TotalFacts
        <4> HIDE DEF F2
        <4>3. TotalSize(F2) \in Nat
          BY <4>2, TotalFacts
        <4> QED
          BY <4>1, <4>2, <4>3
      <3> QED
        BY <3>1, <3>2
    <2>4. G = F2 \cup {new}
      BY <1>1 DEF F1
    <2>5. new \notin F2
      BY <1>3, <1>10, <1>11, <1>12, <1>14 DEF F1
    <2> HIDE DEF F2
    <2>6. new.size = to - from /\ new.size \in Nat
      BY <1>12
    <2>7. Sized(G) /\ TotalSize(G) = TotalSize(F2) + new.size
      BY <2>3, <2>4, <2>5, <2>6, TotalFacts
    <2>8. TotalSize(G) = TotalSize(F) + s
      BY <1>10, <1>11, <2>1, <2>2, <2>3, <2>6, <2>7
    <2> QED
      BY <2>7, <2>8 DEF Sized
  <1> QED
    BY <1>15, <1>16, <1>17 DEF G

(* A request padded by size_align has at least the size of a node.         *)
LEMMA SizeAlignFacts ==
    ASSUME NEW size \in Sizes, NEW align \in Aligns
    PROVE  SizeAlign(size, align) \in Nat /\ SizeAlign(size, align) >= NodeSize
  <1>1. size \in Nat /\ align \in Nat \ {0} /\ NodeSize \in Nat
    BY HeapAssumption
  <1>2. align_up(size, align) \in Nat
    BY <1>1, AlignUp
  <1> QED
    BY <1>1, <1>2 DEF SizeAlign

(* init: one region.                                                       *)
LEMMA HeapStarts == HeapInit => HeapInv /\ AccountInv
  <1> SUFFICES ASSUME HeapInit PROVE HeapInv /\ AccountInv
    OBVIOUS
  <1>1. Placed(Region(HeapStart, HeapSize))
    BY HeapAssumption DEF Placed, Region, End, HeapEnd
  <1>2. FreeOk(free_list)
    BY <1>1 DEF HeapInit, FreeOk
  <1>3. HeapInv
    BY <1>2 DEF HeapInit, HeapInv
  <1>4. Blocks = {} /\ Sized({})
    BY FS_EmptySet DEF HeapInit, Blocks, Sized
  <1>5. TotalSize({}) = 0
    BY <1>4, TotalFacts
  <1> DEFINE whole == Region(HeapStart, HeapSize)
  <1>6. whole.size = HeapSize /\ HeapSize \in Nat
    BY HeapAssumption DEF Region
  <1> HIDE DEF whole
  <1>7. Sized({} \cup {whole}) /\ TotalSize({} \cup {whole}) = 0 + HeapSize
    BY <1>4, <1>5, <1>6, TotalFacts
  <1>8. {} \cup {whole} = {whole}
    OBVIOUS
  <1>9. free_list = {whole} /\ allocated_bytes = 0 /\ skipped = 0
    BY DEF HeapInit, whole
  <1> QED
    BY <1>3, <1>4, <1>5, <1>6, <1>7, <1>8, <1>9 DEF AccountInv, Sized

(* allocate_layout: the block and what is left behind it lie in the region *)
(* that was taken off the list.                                            *)
LEMMA AllocateKeeps ==
    ASSUME HeapInv, NEW s \in Sizes, NEW al \in Aligns, Allocate(s, al)
    PROVE  HeapInv' /\ (AccountInv => AccountInv')
  <1> DEFINE size == SizeAlign(s, al)
  <1>1. PICK r \in free_list :
           LET start == align_up(r.start, al)
               rest  == free_list \ {r}
               end   == start + size
           IN  /\ find_region(r, size, al)
               /\ free_list' = IF End(r) > end
                               THEN add_free_region(rest, end, End(r) - end)
                               ELSE rest
               /\ live' = live \cup {[start |-> start, size |-> s,
                                      align |-> al]}
               /\ allocated_bytes' = allocated_bytes + size
               /\ skipped' = skipped + (start - r.start)
    BY Zenon DEF Allocate
  <1> DEFINE start == align_up(r.start, al)
             end == start + size
             rest == free_list \ {r}
             b == [start |-> start, size |-> s, align |-> al]
             d == Region(start, size)
             excess == Region(end, End(r) - end)
  <1>2. al \in Nat \ {0} /\ NodeSize \in Nat \ {0} /\ HeapStart \in Nat
        /\ HeapEnd \in Nat
    BY HeapAssumption DEF HeapEnd
  <1>3. size \in Nat /\ size >= NodeSize
    BY SizeAlignFacts
  <1>4. /\ r.start \in Nat /\ r.size \in Nat /\ End(r) \in Nat
        /\ End(r) = r.start + r.size
        /\ r.start >= HeapStart /\ End(r) <= HeapEnd
    BY DEF HeapInv, FreeOk, Placed, End
  <1>5. start \in Nat /\ start >= r.start /\ start % al = 0
    BY <1>2, <1>4, AlignUp
  <1>6. end <= End(r) /\ (end = End(r) \/ End(r) - end >= NodeSize)
    BY <1>1 DEF find_region, allocate_from
  <1>7. /\ free_list' = IF End(r) > end
                        THEN add_free_region(rest, end, End(r) - end)
                        ELSE rest
        /\ live' = live \cup {b}
        /\ allocated_bytes' = allocated_bytes + size
        /\ skipped' = skipped + (start - r.start)
    BY <1>1
  <1>8. /\ BlockOf(b) = d /\ b.start = start /\ b.align = al
        /\ b \in [start : Nat, size : Sizes, align : Aligns]
    BY <1>5 DEF BlockOf, Padded
  <1> HIDE DEF size, start, b
  <1>9. Placed(d) /\ d.start = start /\ End(d) = end
    BY <1>2, <1>3, <1>4, <1>5, <1>6 DEF Placed, Region, End
  <1>10. FreeOk(rest)
    BY DEF HeapInv, FreeOk
  <1>11. \A q \in rest : /\ q.start \in Nat /\ End(q) \in Nat
                         /\ End(q) < r.start \/ End(r) < q.start
    BY DEF HeapInv, FreeOk, Separate, Placed, End
  <1>12. \A q \in rest : Disjoint(q, d)
    BY <1>3, <1>4, <1>5, <1>6, <1>9, <1>11 DEF Disjoint
  <1>13. \A c \in live : /\ End(BlockOf(c)) \in Nat /\ BlockOf(c).start \in Nat
                         /\ End(r) <= BlockOf(c).start
                              \/ End(BlockOf(c)) <= r.start
    BY DEF HeapInv, Placed, End, Disjoint
  <1>14. \A c \in live : Disjoint(d, BlockOf(c)) /\ Disjoint(BlockOf(c), d)
    BY <1>3, <1>4, <1>5, <1>6, <1>9, <1>13 DEF Disjoint
  <1>15. /\ FreeOk(free_list')
         /\ \A q \in free_list' : Disjoint(q, d)
         /\ \A q \in free_list', c \in live : Disjoint(q, BlockOf(c))
         /\ IsFiniteSet(rest) /\ TotalSize(rest) \in Nat =>
              /\ IsFiniteSet(free_list')
              /\ TotalSize(free_list') = TotalSize(rest) + (End(r) - end)
    <2>1. CASE End(r) > end
      <3>1. /\ end \in Nat /\ End(r) - end \in Nat
            /\ excess.start = end /\ End(excess) = End(r) /\ Placed(excess)
        BY <1>2, <1>3, <1>4, <1>5, <1>6, <2>1 DEF Placed, Region, End
      <3>2. \A q \in rest : Disjoint(q, excess)
        BY <1>3, <1>4, <1>5, <1>6, <1>11, <3>1 DEF Disjoint
      <3>3. Disjoint(excess, d)
        BY <1>9, <3>1 DEF Disjoint
      <3>4. \A c \in live : /\ Placed(BlockOf(c))
                            /\ Disjoint(excess, BlockOf(c))
                            /\ \A q \in rest : Disjoint(q, BlockOf(c))
        BY <1>3, <1>4, <1>5, <1>6, <1>13, <3>1 DEF Disjoint, HeapInv
      <3>5. free_list' = add_free_region(rest, end, End(r) - end)
        BY <1>7, <2>1
      <3>6. /\ FreeOk(free_list')
            /\ \A e : /\ Placed(e) /\ Disjoint(excess, e)
                      /\ \A q \in rest : Disjoint(q, e)
                      => \A q \in free_list' : Disjoint(q, e)
            /\ IsFiniteSet(rest) =>
                 /\ IsFiniteSet(free_list')
                 /\ TotalSize(free_list') = TotalSize(rest) + (End(r) - end)
        <4> HIDE DEF end, rest
        <4> QED
          BY <1>10, <3>1, <3>2, <3>5, AddFreeRegion
      <3> QED
        BY <1>9, <1>12, <3>3, <3>4, <3>6
    <2>2. CASE ~(End(r) > end)
      <3>1. free_list' = rest
        BY <1>7, <2>2
      <3>2. End(r) - end = 0
        BY <1>3, <1>4, <1>5, <1>6, <2>2
      <3>3. TotalSize(rest) \in Nat
              => TotalSize(free_list') = TotalSize(rest) + (End(r) - end)
        BY <3>1, <3>2
      <3> QED
        BY <1>10, <1>12, <3>1, <3>3 DEF HeapInv
    <2> QED
      BY <2>1, <2>2
  <1>16. live' \subseteq [start : Nat, size : Sizes, align : Aligns]
    BY <1>7, <1>8 DEF HeapInv
  <1>17. \A c \in live' : Placed(BlockOf(c)) /\ c.start % c.align = 0
    BY <1>5, <1>7, <1>8, <1>9 DEF HeapInv
  <1>18. \A c, e \in live' : c # e => Disjoint(BlockOf(c), BlockOf(e))
    BY <1>7, <1>8, <1>14 DEF HeapInv
  <1>19. \A q \in free_list', c \in live' : Disjoint(q, BlockOf(c))
    BY <1>7, <1>8, <1>15
  <1>20. ASSUME AccountInv PROVE AccountInv'
    <2>1. Sized(free_list) /\ Sized(Blocks)
      BY <1>20 DEF AccountInv, HeapInv, FreeOk, Placed, Sized, Blocks, BlockOf
    <2>2. /\ Sized(rest) /\ TotalSize(rest) = TotalSize(free_list) - r.size
          /\ TotalSize(free_list) \in Nat /\ TotalSize(Blocks) \in Nat
      BY <2>1, TotalFacts
    <2>3. TotalSize(rest) \in Nat
      <3> HIDE DEF rest
      <3> QED
        BY <2>2, TotalFacts
    <2>4. /\ IsFiniteSet(free_list')
          /\ TotalSize(free_list') = TotalSize(rest) + (End(r) - end)
      BY <1>15, <2>2, <2>3 DEF Sized
    <2>5. Blocks' = Blocks \cup {d}
      BY <1>7, <1>8 DEF Blocks, BlockOf
    <2>6. d \notin Blocks
      <3>1. \A e \in Blocks : Disjoint(d, e)
        BY <1>14 DEF Blocks, BlockOf
      <3>2. ~Disjoint(d, d)
        BY <1>2, <1>3, <1>5, <1>9 DEF Disjoint
      <3> QED
        BY <3>1, <3>2
    <2>7. d.size = size /\ d.size \in Nat
      BY <1>3 DEF Region
    <2> HIDE DEF d
    <2>8. Sized(Blocks \cup {d}) /\ TotalSize(Blocks \cup {d})
                                     = TotalSize(Blocks) + size
      BY <2>1, <2>6, <2>7, TotalFacts
    <2>9. IsFiniteSet(Blocks') /\ TotalSize(Blocks') = TotalSize(Blocks) + size
      BY <2>5, <2>8 DEF Sized
    <2>10. PICK n \in Int, m \in Int : n = allocated_bytes' /\ m = skipped'
      BY <1>3, <1>4, <1>5, <1>7, <1>20 DEF AccountInv
    <2>11. HeapSize \in Nat
      BY HeapAssumption
    <2>12. allocated_bytes' = TotalSize(Blocks')
      BY <1>7, <1>20, <2>9 DEF AccountInv
    <2>13. HeapSize - allocated_bytes' - skipped' = TotalSize(free_list')
      BY <1>3, <1>4, <1>5, <1>7, <1>20, <2>2, <2>4, <2>11 DEF AccountInv
    <2> QED
      BY <2>4, <2>9, <2>10, <2>12, <2>13 DEF AccountInv
  <1> QED
    BY <1>15, <1>16, <1>17, <1>18, <1>19, <1>20 DEF HeapInv

(* deallocate_layout: a block nobody else holds goes back to the list.     *)
LEMMA DeallocateKeeps ==
    ASSUME HeapInv, NEW b \in live, Deallocate(b)
    PROVE  HeapInv' /\ (AccountInv => AccountInv')
  <1> DEFINE d == BlockOf(b)
  <1>1. /\ b.start \in Nat /\ Padded(b) \in Nat
        /\ d = Region(b.start, Padded(b)) /\ Placed(d)
    <2>1. Placed(d) /\ d = Region(b.start, Padded(b))
      BY DEF HeapInv, BlockOf
    <2>2. d.start = b.start /\ d.size = Padded(b)
      BY DEF BlockOf, Region
    <2> QED
      BY <2>1, <2>2 DEF Placed
  <1>2. /\ free_list' = add_free_region(free_list, b.start, Padded(b))
        /\ live' = live \ {b}
    BY DEF Deallocate
  <1>3. \A c \in live' : /\ c \in live /\ Placed(BlockOf(c))
                         /\ Disjoint(d, BlockOf(c))
                         /\ \A q \in free_list : Disjoint(q, BlockOf(c))
    BY <1>2 DEF HeapInv
  <1>4. FreeOk(free_list) /\ \A q \in free_list : Disjoint(q, d)
    BY DEF HeapInv
  <1> HIDE DEF d
  <1>5. /\ FreeOk(free_list')
        /\ \A e : /\ Placed(e) /\ Disjoint(d, e)
                  /\ \A q \in free_list : Disjoint(q, e)
                  => \A q \in free_list' : Disjoint(q, e)
        /\ IsFiniteSet(free_list) =>
             /\ IsFiniteSet(free_list')
             /\ TotalSize(free_list') = TotalSize(free_list) + Padded(b)
    BY <1>1, <1>2, <1>4, AddFreeRegion
  <1>6. ASSUME AccountInv PROVE AccountInv'
    <2>1. Sized(free_list) /\ Sized(Blocks)
      BY <1>6 DEF AccountInv, HeapInv, FreeOk, Placed, Sized, Blocks, BlockOf
    <2>2. d \in Blocks /\ d.size = Padded(b)
      BY DEF d, Blocks, BlockOf, Region
    <2>3. Blocks' = Blocks \ {d}
      <3>1. \A c \in live : c # b => BlockOf(c) # d
        <4> SUFFICES ASSUME NEW c \in live, c # b, BlockOf(c) = d PROVE FALSE
          OBVIOUS
        <4>1. Disjoint(d, d)
          BY DEF HeapInv, d
        <4>2. NodeSize \in Nat \ {0}
          BY HeapAssumption
        <4> QED
          BY <1>1, <4>1, <4>2 DEF Disjoint, Placed, End
      <3> QED
        BY <1>2, <3>1 DEF Blocks, BlockOf, d
    <2>4. /\ Sized(Blocks \ {d})
          /\ TotalSize(Blocks \ {d}) = TotalSize(Blocks) - d.size
          /\ TotalSize(free_list) \in Nat /\ TotalSize(Blocks) \in Nat
      BY <2>1, <2>2, TotalFacts
    <2>5. /\ IsFiniteSet(Blocks')
          /\ TotalSize(Blocks') = TotalSize(Blocks) - Padded(b)
      BY <2>2, <2>3, <2>4 DEF Sized
    <2>6. /\ allocated_bytes' = allocated_bytes - Padded(b)
          /\ skipped' = skipped /\ HeapSize \in Nat
      BY HeapAssumption DEF Deallocate
    <2>7. allocated_bytes' \in Int /\ skipped' \in Int
      BY <1>1, <1>6, <2>6 DEF AccountInv
    <2>8. allocated_bytes' = TotalSize(Blocks')
      BY <1>6, <2>5, <2>6 DEF AccountInv
    <2>9. HeapSize - allocated_bytes' - skipped' = TotalSize(free_list')
      BY <1>1, <1>5, <1>6, <2>4, <2>6 DEF AccountInv
    <2> QED
      BY <1>5, <1>6, <2>5, <2>7, <2>8, <2>9 DEF AccountInv
  <1> QED
    BY <1>2, <1>3, <1>5, <1>6 DEF HeapInv

(* HeapInv is inductive, and AccountInv with it.                           *)
LEMMA HeapInvariant == HeapSpec => [](HeapInv /\ AccountInv)
  <1>1. HeapInv /\ AccountInv /\ [HeapNext]_heapVars
          => (HeapInv /\ AccountInv)'
    <2> SUFFICES ASSUME HeapInv, AccountInv, [HeapNext]_heapVars
                 PROVE  HeapInv' /\ AccountInv'
      OBVIOUS
    <2>1. CASE HeapNext
      BY <2>1, AllocateKeeps, DeallocateKeeps DEF HeapNext
    <2>2. CASE UNCHANGED heapVars
      BY <2>2 DEF heapVars, HeapInv, AccountInv, Blocks
    <2> QED
      BY <2>1, <2>2
  <1> QED
    BY <1>1, HeapStarts, PTL DEF HeapSpec

(* The linked-list allocator hands out no word twice, keeps blocks aligned *)
(* and in the heap, and merges every pair of free neighbours, for every    *)
(* heap, every node size and every set of layouts.                         *)
THEOREM HeapCorrect == HeapSpec => []Exclusive
  <1>1. HeapInv => Exclusive
    <2> SUFFICES ASSUME HeapInv PROVE Exclusive
      OBVIOUS
    <2>1. NodeSize \in Nat \ {0}
      BY HeapAssumption
    <2>2. \A r \in Blocks : \E b \in live : r = BlockOf(b)
      BY DEF Blocks, BlockOf
    <2>3. \A r \in free_list \cup Blocks : Placed(r)
      BY <2>2 DEF HeapInv, FreeOk
    <2>4. \A r, q \in free_list : /\ r # q => Disjoint(r, q)
                                  /\ End(r) # q.start
      <3> SUFFICES ASSUME NEW r \in free_list, NEW q \in free_list
                   PROVE  /\ r # q => Disjoint(r, q)
                          /\ End(r) # q.start
        OBVIOUS
      <3>1. /\ r.start \in Nat /\ q.start \in Nat /\ q.size \in Nat
            /\ r.size \in Nat /\ r.size >= NodeSize /\ q.size >= NodeSize
            /\ End(r) = r.start + r.size /\ End(q) = q.start + q.size
        BY <2>3 DEF Placed, End
      <3>2. r # q => End(r) < q.start \/ End(q) < r.start
        BY DEF HeapInv, FreeOk, Separate
      <3> QED
        BY <2>1, <3>1, <3>2 DEF Disjoint
    <2>5. \A r, q \in free_list \cup Blocks : r # q => Disjoint(r, q)
      BY <2>2, <2>4 DEF HeapInv, Disjoint
    <2> QED
      BY <2>3, <2>4, <2>5 DEF Exclusive, HeapInv, Placed
  <1> QED
    BY <1>1, HeapInvariant, PTL

(* used() of the allocator is exact after every sequence of allocations    *)
(* and frees, and so is free() as long as no word was skipped to align a   *)
(* block.                                                                  *)
THEOREM AccountCorrect == HeapSpec => []Accounted
  <1>1. AccountInv => Accounted
    <2> SUFFICES ASSUME AccountInv PROVE Accounted
      OBVIOUS
    <2>1. allocated_bytes = MapThenSumSet(LAMBDA r : r.size, Blocks)
      BY DEF AccountInv, TotalSize
    <2>2. /\ HeapSize - allocated_bytes - skipped
               = MapThenSumSet(LAMBDA r : r.size, free_list)
          /\ allocated_bytes \in Int
      BY DEF AccountInv, TotalSize
    <2>3. skipped = 0 => HeapSize - allocated_bytes
                           = MapThenSumSet(LAMBDA r : r.size, free_list)
      <3> DEFINE onList == MapThenSumSet(LAMBDA r : r.size, free_list)
      <3>1. HeapSize - allocated_bytes - skipped = onList
        BY <2>2
      <3>2. skipped = 0 => HeapSize - allocated_bytes = onList
        <4> HIDE DEF onList
        <4> QED
          BY <2>2, <3>1, HeapAssumption
      <3> QED
        BY <3>2
    <2> QED
      BY <2>1, <2>3 DEF Accounted
  <1> QED
    BY <1>1, HeapInvariant, PTL

-----------------------------------------------------------------------------
(* The page tables and the frames.                                         *)

(* One of the frames handed out before n.                                  *)
Usable(f, n) == f \in Nat /\ f < n /\ f < Frames

TableTypes == \A q \in DOMAIN tables :
                 tables[q] \in [frame : Nat, user : BOOLEAN]
LeafTypes == \A p \in DOMAIN leaf :
                leaf[p] \in [frame : Nat, user : BOOLEAN,
                             w : BOOLEAN, x : BOOLEAN]

(* Who has which frame.                                                    *)
FramesInv ==
    /\ next \in Nat
    /\ TableTypes /\ LeafTypes
    /\ \A q \in DOMAIN tables : Usable(tables[q].frame, next)
    /\ \A p \in DOMAIN leaf :
          \/ Usable(leaf[p].frame, next)
          \/ p \in MmioPages /\ leaf[p].frame = Frames + p
    /\ \A d \in dma : Usable(d, next)
    /\ OwnFrames

(* The job mmap starts; the other jobs come from the boot, which is over   *)
(* when the first mmap is called.                                          *)
MmapJobs == [kind : {"mmap"}, todo : Seq(Nat), pages : SUBSET Nat]

BootInv ==
    /\ boot \in Seq(Jobs)
    /\ \/ job = NoJob
       \/ job = Panic
       \/ /\ job \in PageJobs \cup SegmentJobs \cup BufferJobs
          /\ Range(job.todo) \subseteq job.pages
          /\ job.pages \cap (MmapBase .. PageLimit) = {}
          /\ job \in PageJobs => job.todo # <<>>
          /\ job.pages \subseteq PagesOf(job.kind)
       \/ job \in MmapJobs
    /\ job.kind = "mmap" \/ owned # {} =>
          boot = <<>> /\ job.kind \in {"none", "mmap"}

(* The paths, and which pages are closed to the user during the boot.      *)
PathInv ==
    /\ UserPathIsOpen
    /\ \A p \in DOMAIN leaf : ~Blocked(p)
    /\ boot # <<>> \/ job.kind = "segment" =>
          \A p \in DOMAIN leaf : leaf[p].user \/ p \in PagesOf("heap")

(* The page the loop of mmap_user_pages is about to map, or the next mmap  *)
(* would be.                                                               *)
Reached == IF job.kind = "mmap" THEN Head(job.todo) ELSE mmapNext

UserMapped(p) == p \in DOMAIN leaf /\ leaf[p].user /\ leaf[p].w

(* The pages left are consecutive and end at MMAP_NEXT; those before them  *)
(* are mapped, and nothing from there on is.                               *)
MmapInv ==
    /\ mmapNext \in Nat
    /\ job.kind = "mmap" =>
        /\ job.todo # <<>>
        /\ \A i \in 1 .. Len(job.todo) : job.todo[i] = job.todo[1] + i - 1
        /\ job.todo[1] + Len(job.todo) = mmapNext
        /\ job.todo[1] \in job.pages
        /\ \E a \in 0 .. mmapNext : job.pages = a .. (mmapNext - 1)
        /\ \A p \in job.pages : p < job.todo[1] => UserMapped(p)
    /\ \A p \in DOMAIN leaf \cap (MmapBase .. PageLimit) : p < Reached
    /\ MmapKeepsItsWord

(* The inductive invariant.                                                *)
PagingIInv == FramesInv /\ BootInv /\ PathInv /\ MmapInv

(* A path has one entry to a level.                                        *)
LEMMA PathFacts ==
    ASSUME NEW p
    PROVE  /\ IsFiniteSet(Path(p))
           /\ \A q \in Path(p) : q[1] \in Levels
           /\ \A q, r \in Path(p) : q[1] = r[1] => q = r
  <1> DEFINE e(l) == <<l, p \div Fanout ^ l>>
  <1>1. Path(p) = {e(l) : l \in Levels}
    BY DEF Path
  <1>2. \A l : e(l)[1] = l
    OBVIOUS
  <1> HIDE DEF e
  <1>3. Path(p) = (({} \cup {e(1)}) \cup {e(2)}) \cup {e(3)}
    BY <1>1 DEF Levels
  <1>4. IsFiniteSet(Path(p))
    <2>1. IsFiniteSet({} \cup {e(1)})
      BY FS_EmptySet, FS_AddElement
    <2>2. IsFiniteSet(({} \cup {e(1)}) \cup {e(2)})
      BY <2>1, FS_AddElement
    <2> QED
      BY <1>3, <2>2, FS_AddElement
  <1> QED
    BY <1>1, <1>2, <1>4

(* The tables map creates take the frames from n on, one each, in order.   *)
LEMMA RankFacts ==
    ASSUME NEW p, NEW n \in Nat, Frames \in Nat
    PROVE  /\ \A q \in Missing(p) : Rank(p, q) \in Nat
           /\ Cardinality(Created(p, n)) \in Nat
           /\ \A q \in Created(p, n) : Rank(p, q) < Cardinality(Created(p, n))
           /\ \A q, r \in Missing(p) : Rank(p, q) = Rank(p, r) => q = r
  <1> DEFINE Above(q) == {r \in Missing(p) : r[1] > q[1]}
             C == Created(p, n)
  <1>1. \A q : Rank(p, q) = Cardinality(Above(q))
    BY DEF Rank
  <1>2. Missing(p) \subseteq Path(p) /\ IsFiniteSet(Missing(p))
    BY PathFacts, FS_Subset, FS_EmptySet DEF Missing
  <1>3. \A q \in Missing(p) : q[1] \in Int
    BY <1>2, PathFacts DEF Levels
  <1>4. \A q : /\ IsFiniteSet(Above(q)) /\ Cardinality(Above(q)) \in Nat
               /\ Above(q) \subseteq Missing(p)
    <2> SUFFICES ASSUME NEW q
                 PROVE  /\ IsFiniteSet(Above(q))
                        /\ Cardinality(Above(q)) \in Nat
      OBVIOUS
    <2>1. Above(q) \in SUBSET Missing(p)
      OBVIOUS
    <2> QED
      BY <1>2, <2>1, FS_Subset, FS_CardinalityType
  <1>5. \A q \in Missing(p), r \in Missing(p) :
           r[1] > q[1] <=> r \in Above(q)
    OBVIOUS
  <1>6. \A q : \A r \in Above(q) : r \in Missing(p)
    OBVIOUS
  <1> HIDE DEF Above
  <1>7. ASSUME NEW q \in Missing(p), NEW r \in Missing(p), r[1] > q[1]
        PROVE  Cardinality(Above(r)) < Cardinality(Above(q))
    <2>1. Above(r) \in SUBSET Above(q)
      BY <1>3, <1>5, <1>6, <1>7
    <2>2. r \in Above(q) /\ r \notin Above(r)
      BY <1>3, <1>5, <1>7
    <2> QED
      BY <1>4, <2>1, <2>2, FS_Subset
  <1>8. \A q, r \in Missing(p) : Rank(p, q) = Rank(p, r) => q = r
    <2> SUFFICES ASSUME NEW q \in Missing(p), NEW r \in Missing(p),
                        Rank(p, q) = Rank(p, r)
                 PROVE  q[1] = r[1]
      BY <1>2, PathFacts
    <2> QED
      BY <1>1, <1>3, <1>4, <1>7
  <1>9. C \in SUBSET Missing(p) /\ \A q \in Missing(p) :
           q \in C <=> n + Cardinality(Above(q)) < Frames
    BY <1>1 DEF Created
  <1>10. IsFiniteSet(C) /\ Cardinality(C) \in Nat
    BY <1>2, <1>9, FS_Subset, FS_CardinalityType
  <1>11. ASSUME NEW q \in C PROVE Cardinality(Above(q)) < Cardinality(C)
    <2>1. \A r \in Above(q) : r \in C
      BY <1>4, <1>5, <1>6, <1>7, <1>9, <1>11
    <2>2. Above(q) \in SUBSET C /\ q \notin Above(q)
      BY <1>3, <1>5, <1>9, <2>1
    <2> QED
      BY <1>4, <1>10, <2>2, FS_Subset
  <1> QED
    BY <1>1, <1>4, <1>8, <1>10, <1>11

(* What map does, whatever it ends with.                                   *)
LEMMA MapFacts ==
    ASSUME NEW p, NEW f \in Nat, NEW n \in Nat,
           NEW fl \in [user : BOOLEAN, w : BOOLEAN, x : BOOLEAN],
           TableTypes, Map(p, f, fl, n)
    PROVE  /\ next' \in Nat /\ n <= next'
           /\ TableTypes'
           /\ DOMAIN tables \subseteq DOMAIN tables'
           /\ \A q \in DOMAIN tables :
                 /\ tables'[q].frame = tables[q].frame
                 /\ tables[q].user => tables'[q].user
           /\ \A q \in DOMAIN tables' \ DOMAIN tables :
                 /\ n <= tables'[q].frame
                 /\ tables'[q].frame < next' /\ tables'[q].frame < Frames
           /\ \A q, r \in DOMAIN tables' \ DOMAIN tables :
                 tables'[q].frame = tables'[r].frame => q = r
           /\ MapOk(p, n) => \A q \in Path(p) :
                 q \in DOMAIN tables' /\ (fl.user => tables'[q].user)
  <1> DEFINE C == Created(p, n)
  <1>1. Frames \in Nat
    BY PagingAssumption
  <1>2. /\ \A q \in C : /\ q \in Missing(p) /\ q \notin DOMAIN tables
                        /\ n + Rank(p, q) < Frames
    BY FS_EmptySet DEF Created, Missing
  <1>3. /\ \A q \in Missing(p) : Rank(p, q) \in Nat
        /\ Cardinality(C) \in Nat
        /\ \A q \in C : Rank(p, q) < Cardinality(C)
        /\ \A q, r \in Missing(p) : Rank(p, q) = Rank(p, r) => q = r
    BY <1>1, RankFacts
  <1>4. next' = n + Cardinality(C) + (IF C = Missing(p) THEN 0 ELSE 1)
    BY DEF Map
  <1>5. next' \in Nat /\ n + Cardinality(C) <= next'
    BY <1>3, <1>4
  <1>6. tables' = [q \in DOMAIN tables \cup C |->
                    IF q \in C
                    THEN [frame |-> n + Rank(p, q), user |-> fl.user]
                    ELSE IF q \in Walked(p) /\ fl.user
                    THEN [tables[q] EXCEPT !.user = TRUE]
                    ELSE tables[q]]
    BY DEF Map
  <1>7. \A q \in C : /\ q \in DOMAIN tables' \ DOMAIN tables
                     /\ tables'[q] = [frame |-> n + Rank(p, q),
                                      user |-> fl.user]
    BY <1>2, <1>6
  <1>8. \A q \in DOMAIN tables :
           /\ tables'[q] \in [frame : Nat, user : BOOLEAN]
           /\ tables'[q].frame = tables[q].frame
           /\ tables[q].user => tables'[q].user
           /\ q \in Walked(p) /\ fl.user => tables'[q].user
    BY <1>2, <1>6 DEF TableTypes
  <1>9. DOMAIN tables' = DOMAIN tables \cup C
    BY <1>6
  <1>10. fl.user \in BOOLEAN
    OBVIOUS
  <1>11. \A q \in C : /\ tables'[q] \in [frame : Nat, user : BOOLEAN]
                      /\ tables'[q].frame = n + Rank(p, q)
                      /\ fl.user => tables'[q].user
    <2> SUFFICES ASSUME NEW q \in C
                 PROVE  /\ tables'[q] \in [frame : Nat, user : BOOLEAN]
                        /\ tables'[q].frame = n + Rank(p, q)
                        /\ fl.user => tables'[q].user
      OBVIOUS
    <2>1. PICK k \in Nat : k = n + Rank(p, q)
      BY <1>2, <1>3
    <2>2. PICK e : e = tables'[q]
      OBVIOUS
    <2>3. CASE fl.user = TRUE
      <3>1. e = [frame |-> k, user |-> TRUE]
        BY <1>7, <2>1, <2>2, <2>3, Zenon
      <3>2. e \in [frame : Nat, user : BOOLEAN] /\ e.frame = k /\ e.user
        BY <3>1
      <3> QED
        BY <2>1, <2>2, <3>2, Zenon
    <2>4. CASE fl.user = FALSE
      <3>1. e = [frame |-> k, user |-> FALSE]
        BY <1>7, <2>1, <2>2, <2>4, Zenon
      <3>2. e \in [frame : Nat, user : BOOLEAN] /\ e.frame = k
        BY <3>1
      <3> QED
        BY <2>1, <2>2, <2>4, <3>2, Zenon
    <2> QED
      BY <1>10, <2>3, <2>4
  <1>12. \A q \in C : /\ tables'[q].frame = n + Rank(p, q)
                      /\ fl.user => tables'[q].user
    BY <1>11
  <1>13. MapOk(p, n) => \A q \in Path(p) :
            /\ q \in C \/ q \in DOMAIN tables
            /\ q \in Walked(p)
    BY DEF MapOk, Missing, Blocked, Walked
  <1> HIDE DEF C
  <1>14. TableTypes'
    BY <1>8, <1>9, <1>11 DEF TableTypes
  <1>15. \A q \in DOMAIN tables' \ DOMAIN tables :
                 /\ n <= tables'[q].frame
                 /\ tables'[q].frame < next' /\ tables'[q].frame < Frames
    BY <1>2, <1>3, <1>5, <1>9, <1>12
  <1>16. \A q, r \in DOMAIN tables' \ DOMAIN tables :
                 tables'[q].frame = tables'[r].frame => q = r
    BY <1>2, <1>3, <1>9, <1>12
  <1>17. MapOk(p, n) => \A q \in Path(p) :
                 q \in DOMAIN tables' /\ (fl.user => tables'[q].user)
    BY <1>8, <1>9, <1>12, <1>13
  <1> QED
    BY <1>3, <1>5, <1>8, <1>9, <1>14, <1>15, <1>16, <1>17

(* map enters one page when it succeeds, and changes no other.             *)
LEMMA MapLeaf ==
    ASSUME NEW p, NEW f \in Nat, NEW n,
           NEW fl \in [user : BOOLEAN, w : BOOLEAN, x : BOOLEAN],
           LeafTypes, Map(p, f, fl, n)
    PROVE  /\ LeafTypes'
           /\ ~MapOk(p, n) => leaf' = leaf
           /\ MapOk(p, n) =>
                /\ p \notin DOMAIN leaf /\ DOMAIN leaf' = DOMAIN leaf \cup {p}
                /\ leaf'[p].frame = f
                /\ leaf'[p].user = fl.user /\ leaf'[p].w = fl.w
                /\ \A r \in DOMAIN leaf : leaf'[r] = leaf[r]
  <1>1. leaf' = IF MapOk(p, n)
                THEN [r \in DOMAIN leaf \cup {p} |->
                       IF r = p THEN Entry(f, fl) ELSE leaf[r]]
                ELSE leaf
    BY DEF Map
  <1>2. CASE ~MapOk(p, n)
    BY <1>1, <1>2 DEF LeafTypes
  <1>3. CASE MapOk(p, n)
    <2>1. p \notin DOMAIN leaf
      BY <1>3 DEF MapOk
    <2>2. /\ DOMAIN leaf' = DOMAIN leaf \cup {p}
          /\ leaf'[p] = Entry(f, fl)
          /\ \A r \in DOMAIN leaf : leaf'[r] = leaf[r]
      BY <1>1, <1>3, <2>1
    <2>3. PICK e : e = Entry(f, fl)
      OBVIOUS
    <2>4. /\ e \in [frame : Nat, user : BOOLEAN, w : BOOLEAN, x : BOOLEAN]
          /\ e.frame = f /\ e.user = fl.user /\ e.w = fl.w
      BY <2>3 DEF Entry
    <2> QED
      BY <1>3, <2>1, <2>2, <2>3, <2>4 DEF LeafTypes
  <1> QED
    BY <1>2, <1>3

(* A frame nothing has, entered by map together with new tables.           *)
LEMMA MapKeepsFrames ==
    ASSUME FramesInv, NEW p, NEW f \in Nat, NEW n \in Nat,
           NEW fl \in [user : BOOLEAN, w : BOOLEAN, x : BOOLEAN],
           \/ f = next /\ n = next + 1 /\ next < Frames
           \/ f = Frames + p /\ n = next /\ p \in MmioPages,
           Map(p, f, fl, n), dma' = dma
    PROVE  FramesInv'
  <1>1. Frames \in Nat /\ MmioPages \subseteq Nat /\ next \in Nat /\ next <= n
    BY PagingAssumption DEF FramesInv
  <1>0. \/ f = next /\ n = next + 1 /\ f < Frames
        \/ Frames <= f /\ n = next
    <2>1. \A r \in MmioPages : r \in Nat /\ Frames <= Frames + r
      BY <1>1
    <2> QED
      BY <1>1, <2>1
  <1>2. TableTypes /\ LeafTypes
    BY DEF FramesInv
  <1>3. /\ next' \in Nat /\ n <= next'
        /\ TableTypes'
        /\ \A q \in DOMAIN tables : tables'[q].frame = tables[q].frame
        /\ \A q \in DOMAIN tables' \ DOMAIN tables :
              /\ n <= tables'[q].frame
              /\ tables'[q].frame < next' /\ tables'[q].frame < Frames
        /\ \A q, r \in DOMAIN tables' \ DOMAIN tables :
              tables'[q].frame = tables'[r].frame => q = r
    BY <1>2, MapFacts
  <1>4. /\ LeafTypes'
        /\ \/ leaf' = leaf
           \/ /\ p \notin DOMAIN leaf /\ DOMAIN leaf' = DOMAIN leaf \cup {p}
              /\ leaf'[p].frame = f
              /\ \A r \in DOMAIN leaf : leaf'[r] = leaf[r]
    BY <1>2, MapLeaf
  <1>5. \A q \in DOMAIN tables' : tables'[q].frame \in Nat
    BY <1>3 DEF TableTypes
  <1>6. \A r \in DOMAIN leaf' : leaf'[r].frame \in Nat
    BY <1>4 DEF LeafTypes
  <1>7. \A q \in DOMAIN tables : Usable(tables[q].frame, next)
    BY DEF FramesInv
  <1>8. \A r \in DOMAIN leaf : \/ Usable(leaf[r].frame, next)
                               \/ r \in MmioPages /\ leaf[r].frame = Frames + r
    BY DEF FramesInv
  <1>9. \A d \in dma : Usable(d, next)
    BY DEF FramesInv
  <1>10. \A q \in DOMAIN tables' : Usable(tables'[q].frame, next')
    BY <1>1, <1>3, <1>5, <1>7 DEF Usable
  <1>11. \A r \in DOMAIN leaf' :
            \/ Usable(leaf'[r].frame, next')
            \/ r \in MmioPages /\ leaf'[r].frame = Frames + r
    BY <1>1, <1>3, <1>4, <1>6, <1>8 DEF Usable
  <1>12. \A d \in dma' : Usable(d, next')
    BY <1>1, <1>3, <1>9 DEF Usable
  <1>13. OwnFrames'
    <2>1. \A r, t \in DOMAIN leaf' : leaf'[r].frame = leaf'[t].frame => r = t
      <3>1. \A r, t \in DOMAIN leaf : leaf[r].frame = leaf[t].frame => r = t
        BY DEF FramesInv, OwnFrames
      <3>2. p \notin DOMAIN leaf => \A r \in DOMAIN leaf : leaf[r].frame # f
        BY <1>1, <1>8 DEF Usable
      <3> QED
        BY <1>4, <3>1, <3>2
    <2>2. \A q, r \in DOMAIN tables' :
             tables'[q].frame = tables'[r].frame => q = r
      <3>1. \A q, r \in DOMAIN tables :
                tables[q].frame = tables[r].frame => q = r
        BY DEF FramesInv, OwnFrames
      <3> QED
        BY <1>1, <1>3, <1>5, <1>7, <3>1 DEF Usable
    <2>3. \A r \in DOMAIN leaf', q \in DOMAIN tables' :
             leaf'[r].frame # tables'[q].frame
      <3> SUFFICES ASSUME NEW r \in DOMAIN leaf', NEW q \in DOMAIN tables'
                   PROVE  leaf'[r].frame # tables'[q].frame
        OBVIOUS
      <3>1. CASE r \in DOMAIN leaf /\ leaf'[r] = leaf[r] /\ q \in DOMAIN tables
        BY <1>3, <3>1 DEF FramesInv, OwnFrames
      <3>2. CASE /\ r \in DOMAIN leaf /\ leaf'[r] = leaf[r]
                 /\ q \notin DOMAIN tables
        <4>1. \A t \in MmioPages : t \in Nat /\ Frames <= Frames + t
          BY <1>1
        <4>2. leaf[r].frame < next \/ Frames <= leaf[r].frame
          BY <1>8, <3>2, <4>1 DEF Usable
        <4>3. /\ n <= tables'[q].frame /\ tables'[q].frame < Frames
              /\ leaf'[r].frame \in Nat /\ tables'[q].frame \in Nat
          BY <1>3, <1>5, <1>6, <3>2
        <4> QED
          BY <1>1, <3>2, <4>2, <4>3
      <3>3. CASE leaf'[r].frame = f /\ q \in DOMAIN tables
        BY <1>0, <1>1, <1>3, <1>5, <1>7, <3>3 DEF Usable
      <3>4. CASE leaf'[r].frame = f /\ q \notin DOMAIN tables
        BY <1>0, <1>1, <1>3, <1>5, <3>4
      <3> QED
        BY <1>4, <3>1, <3>2, <3>3, <3>4
    <2>4. \A d \in dma' :
            /\ \A r \in DOMAIN leaf' : leaf'[r].frame # d
            /\ \A q \in DOMAIN tables' : tables'[q].frame # d
      <3> SUFFICES ASSUME NEW d \in dma
                   PROVE  /\ \A r \in DOMAIN leaf' : leaf'[r].frame # d
                          /\ \A q \in DOMAIN tables' : tables'[q].frame # d
        OBVIOUS
      <3>1. /\ \A r \in DOMAIN leaf : leaf[r].frame # d
            /\ \A q \in DOMAIN tables : tables[q].frame # d
        BY DEF FramesInv, OwnFrames
      <3>2. d \in Nat /\ d < next /\ d < Frames
        BY <1>9 DEF Usable
      <3>3. \A r \in DOMAIN leaf' : leaf'[r].frame # d
        BY <1>0, <1>1, <1>4, <3>1, <3>2
      <3>4. \A q \in DOMAIN tables' : tables'[q].frame # d
        BY <1>1, <1>3, <1>5, <3>1, <3>2
      <3> QED
        BY <3>3, <3>4
    <2> QED
      BY <2>1, <2>2, <2>3, <2>4 DEF OwnFrames
  <1> QED
    BY <1>3, <1>4, <1>10, <1>11, <1>12, <1>13 DEF FramesInv

(* Steps that make no table and enter no page: those that unmap, change    *)
(* flags or give frames to a device.                                       *)
LEMMA OthersKeepFrames ==
    ASSUME FramesInv, next' \in Nat, next <= next', tables' = tables,
           LeafTypes',
           \A p \in DOMAIN leaf' : /\ p \in DOMAIN leaf
                                   /\ leaf'[p].frame = leaf[p].frame,
           \A d \in dma' : \/ d \in dma
                           \/ d \in Nat /\ next <= d /\ d < next' /\ d < Frames
    PROVE  FramesInv'
  <1>1. next \in Nat /\ Frames \in Nat /\ TableTypes /\ MmioPages \subseteq Nat
    BY PagingAssumption DEF FramesInv
  <1>2. \A q \in DOMAIN tables : tables[q].frame \in Nat
    BY <1>1 DEF TableTypes
  <1>3. \A p \in DOMAIN leaf : leaf[p].frame \in Nat
    BY DEF FramesInv, LeafTypes
  <1>4. \A q \in DOMAIN tables' : Usable(tables'[q].frame, next')
    BY <1>1 DEF FramesInv, Usable
  <1>5. \A p \in DOMAIN leaf' :
           \/ Usable(leaf'[p].frame, next')
           \/ p \in MmioPages /\ leaf'[p].frame = Frames + p
    <2>1. \A p \in DOMAIN leaf :
           \/ leaf[p].frame < next /\ leaf[p].frame < Frames
           \/ p \in MmioPages /\ leaf[p].frame = Frames + p
      BY DEF FramesInv, Usable
    <2> QED
      BY <1>1, <1>3, <2>1 DEF Usable
  <1>6. \A d \in dma' : Usable(d, next')
    BY <1>1 DEF FramesInv, Usable
  <1>7. OwnFrames'
    <2>1. \A p, q \in DOMAIN leaf' : leaf'[p].frame = leaf'[q].frame => p = q
      BY DEF FramesInv, OwnFrames
    <2>2. \A p, q \in DOMAIN tables' :
             tables'[p].frame = tables'[q].frame => p = q
      BY DEF FramesInv, OwnFrames
    <2>3. \A p \in DOMAIN leaf', q \in DOMAIN tables' :
              leaf'[p].frame # tables'[q].frame
      BY DEF FramesInv, OwnFrames
    <2>4. ASSUME NEW d \in dma'
          PROVE  /\ \A p \in DOMAIN leaf' : leaf'[p].frame # d
                 /\ \A q \in DOMAIN tables' : tables'[q].frame # d
      <3>1. CASE d \in dma
        BY <3>1 DEF FramesInv, OwnFrames
      <3>2. CASE d \in Nat /\ next <= d /\ d < Frames
        <4>1. \A q \in DOMAIN tables : tables[q].frame < next
          BY DEF FramesInv, Usable
        <4>2. \A t \in MmioPages : t \in Nat /\ Frames <= Frames + t
          BY <1>1
        <4>3. \A p \in DOMAIN leaf :
                 leaf[p].frame < next \/ Frames <= leaf[p].frame
          BY <4>2 DEF FramesInv, Usable
        <4> QED
          BY <1>1, <1>2, <1>3, <3>2, <4>1, <4>3
      <3> QED
        BY <2>4, <3>1, <3>2
    <2> QED
      BY <2>1, <2>2, <2>3, <2>4 DEF OwnFrames
  <1>8. TableTypes'
    BY <1>1 DEF TableTypes
  <1> QED
    BY <1>4, <1>5, <1>6, <1>7, <1>8 DEF FramesInv

(* allocate_contiguous finds a place, at or after next.                    *)
LEMMA FirstRunFacts ==
    ASSUME next \in Nat, NEW n \in Nat \ {0}
    PROVE  FirstRun(n) \in Nat /\ next <= FirstRun(n)
  <1> DEFINE Run(k) == \A i \in k .. (k + n - 2) :
                          i < Frames - 1 => i \notin Gaps
             T == {k \in Nat : next <= k /\ Run(k)}
             R == OpToRel(<, Nat)
  <1>1. Frames \in Nat
    BY PagingAssumption
  <1>2. next + Frames \in T
    BY <1>1
  <1>3. PICK k \in T : \A j \in T : ~(<<j, k>> \in R)
    <2>1. T \subseteq Nat /\ T # {}
      BY <1>2
    <2>2. IsWellFoundedOn(R, Nat)
      BY NatLessThanWellFounded
    <2> HIDE DEF T, R
    <2> QED
      BY <2>1, <2>2, WFMin
  <1>4. \A j \in T : ~(j < k)
    BY <1>3 DEF OpToRel
  <1>5. k \in next .. (next + Frames)
    BY <1>1, <1>2, <1>4
  <1>6. \A j \in next .. (k - 1) : ~Run(j)
    <2> SUFFICES ASSUME NEW j \in next .. (k - 1), Run(j) PROVE FALSE
      OBVIOUS
    <2>1. j \in T /\ j < k
      <3> HIDE DEF Run
      <3> QED
        OBVIOUS
    <2> HIDE DEF T, Run
    <2> QED
      BY <1>4, <2>1
  <1>7. \A j \in next .. (k - 1) :
           \E i \in j .. (j + n - 2) : i < Frames - 1 /\ i \in Gaps
    BY <1>6
  <1>8. \E c \in next .. (next + Frames) :
            /\ \A i \in c .. (c + n - 2) : i < Frames - 1 => i \notin Gaps
            /\ \A j \in next .. (c - 1) :
                  \E i \in j .. (j + n - 2) : i < Frames - 1 /\ i \in Gaps
    BY <1>5, <1>7
  <1>9. FirstRun(n) \in next .. (next + Frames)
    BY <1>8, Zenon DEF FirstRun
  <1> QED
    BY <1>1, <1>9

(* allocate_contiguous: the frames of a buffer are nobody else's.          *)
LEMMA ContiguousKeepsFrames ==
    ASSUME FramesInv, NEW n \in Nat \ {0}, AllocateContiguous(n),
           UNCHANGED <<tables, leaf>>
    PROVE  FramesInv'
  <1>1. next \in Nat /\ Frames \in Nat
    BY PagingAssumption DEF FramesInv
  <1>2. PICK k \in Nat : k = FirstRun(n) /\ next <= k
    BY <1>1, FirstRunFacts
  <1>3. IF k + n <= Frames
        THEN next' = k + n /\ dma' = dma \cup (k .. (k + n - 1))
        ELSE next' = k /\ UNCHANGED dma
    BY <1>2 DEF AllocateContiguous
  <1>4. /\ next' \in Nat /\ next <= next'
        /\ \A d \in dma' : \/ d \in dma
                           \/ d \in Nat /\ next <= d /\ d < next' /\ d < Frames
    BY <1>1, <1>2, <1>3
  <1>5. LeafTypes'
    BY DEF FramesInv, LeafTypes
  <1> QED
    BY <1>4, <1>5, OthersKeepFrames

(* The flags of a page.                                                    *)
AllFlags == [user : BOOLEAN, w : BOOLEAN, x : BOOLEAN]

(* allocate followed by map.                                               *)
LEMMA AllocateKeepsFrames ==
    ASSUME FramesInv, NEW p, NEW fl \in AllFlags, AllocateAndMap(p, fl),
           dma' = dma
    PROVE  FramesInv'
  <1>1. next \in Nat /\ Frames \in Nat
    BY PagingAssumption DEF FramesInv
  <1>2. CASE next < Frames
    BY <1>1, <1>2, MapKeepsFrames DEF AllocateAndMap, AllFlags
  <1>3. CASE ~(next < Frames)
    <2>1. next' = next + 1 /\ UNCHANGED <<tables, leaf>>
      BY <1>3 DEF AllocateAndMap
    <2>2. LeafTypes'
      BY <2>1 DEF FramesInv, LeafTypes
    <2> QED
      BY <1>1, <2>1, <2>2, OthersKeepFrames
  <1> QED
    BY <1>2, <1>3

(* The paths of the pages that are mapped.                                 *)
PathsOpen == UserPathIsOpen /\ \A p \in DOMAIN leaf : ~Blocked(p)

(* map opens the way to the page it enters and closes none.                *)
LEMMA MapKeepsPaths ==
    ASSUME TableTypes, LeafTypes, PathsOpen,
           NEW p, NEW f \in Nat, NEW n \in Nat, NEW fl \in AllFlags,
           Map(p, f, fl, n)
    PROVE  PathsOpen'
  <1>1. /\ DOMAIN tables \subseteq DOMAIN tables'
        /\ \A q \in DOMAIN tables : tables[q].user => tables'[q].user
        /\ MapOk(p, n) => \A q \in Path(p) :
              q \in DOMAIN tables' /\ (fl.user => tables'[q].user)
    BY MapFacts DEF AllFlags
  <1>2. /\ ~MapOk(p, n) => leaf' = leaf
        /\ MapOk(p, n) =>
              /\ DOMAIN leaf' = DOMAIN leaf \cup {p}
              /\ p \notin DOMAIN leaf
              /\ leaf'[p].user = fl.user
              /\ \A r \in DOMAIN leaf : leaf'[r] = leaf[r]
    BY MapLeaf DEF AllFlags
  <1>3. MapOk(p, n) => ~Blocked(p)
    BY DEF MapOk
  <1>4. \A r \in DOMAIN leaf : \A q \in Path(r) :
           q \in DOMAIN tables' /\ (leaf[r].user => tables'[q].user)
    BY <1>1 DEF PathsOpen, UserPathIsOpen
  <1>5. UserPathIsOpen'
    <2>1. CASE MapOk(p, n)
      BY <1>1, <1>2, <1>4, <2>1 DEF UserPathIsOpen
    <2>2. CASE ~MapOk(p, n)
      BY <1>2, <1>4, <2>2 DEF UserPathIsOpen
    <2> QED
      BY <2>1, <2>2
  <1>6. \A r \in DOMAIN leaf' : ~Blocked(r)
    BY <1>2, <1>3 DEF PathsOpen
  <1> QED
    BY <1>5, <1>6 DEF PathsOpen, Blocked

(* allocate and map: the page is mapped, or nothing is.                    *)
LEMMA AllocateFacts ==
    ASSUME FramesInv, PathsOpen, NEW p, NEW fl \in AllFlags,
           AllocateAndMap(p, fl)
    PROVE  /\ PathsOpen'
           /\ ~AllocatedOk(p) => leaf' = leaf
           /\ AllocatedOk(p) =>
                /\ p \notin DOMAIN leaf /\ DOMAIN leaf' = DOMAIN leaf \cup {p}
                /\ leaf'[p].user = fl.user /\ leaf'[p].w = fl.w
                /\ \A r \in DOMAIN leaf : leaf'[r] = leaf[r]
  <1>1. next \in Nat /\ next + 1 \in Nat /\ TableTypes /\ LeafTypes
    BY DEF FramesInv
  <1>2. CASE next < Frames
    <2>1. Map(p, next, fl, next + 1)
      BY <1>2 DEF AllocateAndMap
    <2>2. AllocatedOk(p) <=> MapOk(p, next + 1)
      BY <1>2 DEF AllocatedOk
    <2> HIDE DEF Map, MapOk, AllocatedOk
    <2>3. PathsOpen'
      BY <1>1, <2>1, MapKeepsPaths
    <2>4. /\ ~MapOk(p, next + 1) => leaf' = leaf
          /\ MapOk(p, next + 1) =>
                /\ p \notin DOMAIN leaf /\ DOMAIN leaf' = DOMAIN leaf \cup {p}
                /\ leaf'[p].user = fl.user /\ leaf'[p].w = fl.w
                /\ \A r \in DOMAIN leaf : leaf'[r] = leaf[r]
      BY <1>1, <2>1, MapLeaf DEF AllFlags
    <2> QED
      BY <2>2, <2>3, <2>4
  <1>3. CASE ~(next < Frames)
    BY <1>3 DEF AllocateAndMap, AllocatedOk, PathsOpen, UserPathIsOpen, Blocked
  <1> QED
    BY <1>2, <1>3

-----------------------------------------------------------------------------
(* The steps.                                                              *)

(* The two flag sets the kernel maps with.                                 *)
LEMMA FlagFacts == KernelData \in AllFlags /\ UserData \in AllFlags
                   /\ UserData.user = TRUE /\ UserData.w = TRUE
  BY DEF KernelData, UserData, Flags, AllFlags

(* No two jobs are confused: each kind has its own fields.                 *)
LEMMA JobFacts ==
    ASSUME BootInv
    PROVE  /\ job.kind \in {"heap", "stack"} =>
                /\ job \in PageJobs /\ job.todo # <<>>
                /\ Range(job.todo) \subseteq job.pages
                /\ job.pages \cap (MmapBase .. PageLimit) = {}
                /\ job.pages \subseteq PagesOf(job.kind)
           /\ job.kind = "segment" =>
                /\ job \in SegmentJobs
                /\ Range(job.todo) \subseteq job.pages
                /\ job.pages \cap (MmapBase .. PageLimit) = {}
                /\ job.pages \subseteq PagesOf(job.kind)
           /\ job.kind = "dma" => job \in BufferJobs
           /\ job.kind = "mmap" => job \in MmapJobs
           /\ job = NoJob => job.kind = "none"
           /\ NoJob.kind = "none" /\ Panic.kind = "panic"
  BY DEF BootInv, PageJobs, SegmentJobs, BufferJobs, MmapJobs, NoJob, Panic

(* No step of the boot, of a system call or of a driver lets two share a   *)
(* frame.                                                                  *)
LEMMA FramesStep ==
    ASSUME PagingIInv, PagingNext
    PROVE  FramesInv'
  <1>1. FramesInv /\ BootInv /\ LeafTypes /\ next \in Nat /\ Frames \in Nat
    BY PagingAssumption DEF PagingIInv, FramesInv
  <1>2. ASSUME next' = next, UNCHANGED <<tables, leaf, dma>> PROVE FramesInv'
    BY <1>1, <1>2 DEF FramesInv, OwnFrames, TableTypes, LeafTypes, Usable
  <1>3. CASE NextJob
    BY <1>2, <1>3 DEF NextJob, history
  <1>4. CASE BootPage
    <2>1. \E fl \in AllFlags : AllocateAndMap(Head(job.todo), fl)
      BY <1>4, FlagFacts, Zenon DEF BootPage
    <2>2. dma' = dma
      BY <1>4 DEF BootPage, history
    <2> QED
      BY <1>1, <2>1, <2>2, AllocateKeepsFrames
  <1>5. CASE SegmentPage
    <2>1. dma' = dma
      BY <1>5 DEF SegmentPage, history
    <2>2. \/ UNCHANGED <<next, tables, leaf>>
          \/ AllocateAndMap(Head(job.todo), UserData)
      BY <1>5 DEF SegmentPage
    <2> QED
      BY <1>1, <1>2, <2>1, <2>2, FlagFacts, AllocateKeepsFrames
  <1>6. CASE SegmentFlags
    <2>1. job \in SegmentJobs
      BY <1>1, <1>6, JobFacts DEF SegmentFlags
    <2>2. job.w \in BOOLEAN /\ job.x \in BOOLEAN
      BY <2>1 DEF SegmentJobs
    <2>3. /\ UNCHANGED <<next, tables, dma>>
          /\ leaf' = [p \in DOMAIN leaf |->
                       IF p \in job.pages
                       THEN Entry(leaf[p].frame, Flags(TRUE, job.w, job.x))
                       ELSE leaf[p]]
      BY <1>6 DEF SegmentFlags, history
    <2>4. \A p \in DOMAIN leaf :
            leaf[p] \in [frame : Nat, user : BOOLEAN, w : BOOLEAN, x : BOOLEAN]
      BY <1>1 DEF LeafTypes
    <2>5. \A fr \in Nat :
             /\ Entry(fr, Flags(TRUE, job.w, job.x)).frame = fr
             /\ Entry(fr, Flags(TRUE, job.w, job.x))
                  \in [frame : Nat, user : BOOLEAN, w : BOOLEAN, x : BOOLEAN]
      BY <2>2 DEF Entry, Flags
    <2>6. \A p \in DOMAIN leaf : leaf[p].frame \in Nat
      BY <2>4
    <2>7. /\ DOMAIN leaf' = DOMAIN leaf
          /\ \A p \in DOMAIN leaf :
              /\ leaf'[p] \in [frame : Nat, user : BOOLEAN,
                               w : BOOLEAN, x : BOOLEAN]
              /\ leaf'[p].frame = leaf[p].frame
      BY <2>3, <2>4, <2>5, <2>6
    <2>8. LeafTypes'
      BY <2>7 DEF LeafTypes
    <2>9. next' \in Nat /\ next <= next' /\ tables' = tables /\ dma' = dma
      BY <1>1, <2>3
    <2> QED
      BY <1>1, <2>7, <2>8, <2>9, OthersKeepFrames
  <1>7. CASE BootDma
    <2>1. job \in BufferJobs
      BY <1>1, <1>7, JobFacts DEF BootDma
    <2>2. job.count \in Nat \ {0}
      BY <2>1 DEF BufferJobs
    <2> QED
      BY <1>1, <1>7, <2>2, ContiguousKeepsFrames DEF BootDma
  <1>8. CASE Panicked
    BY <1>2, <1>8 DEF Panicked, pagingVars
  <1>9. ASSUME NEW n \in MmapSizes, Mmap(n) PROVE FramesInv'
    BY <1>2, <1>9 DEF Mmap, history
  <1>10. CASE MmapPage
    <2>1. dma' = dma /\ AllocateAndMap(Head(job.todo), UserData)
      BY <1>10 DEF MmapPage
    <2> QED
      BY <1>1, <2>1, FlagFacts, AllocateKeepsFrames
  <1>11. ASSUME NEW p \in UserPages, NEW n \in MmapSizes, Munmap(p, n)
         PROVE  FramesInv'
    <2>1. /\ UNCHANGED <<next, tables, dma>>
          /\ leaf' = [q \in {r \in DOMAIN leaf :
                              r \notin p .. (p + n - 1) \/ Blocked(r)}
                       |-> leaf[q]]
      BY <1>11 DEF Munmap, Unmap
    <2>2. \A q \in DOMAIN leaf' : q \in DOMAIN leaf /\ leaf'[q] = leaf[q]
      BY <2>1
    <2>3. LeafTypes'
      BY <1>1, <2>2 DEF LeafTypes
    <2> QED
      BY <1>1, <2>1, <2>2, <2>3, OthersKeepFrames
  <1>12. ASSUME NEW n \in DmaSizes, Dma(n) PROVE FramesInv'
    <2>1. n \in Nat \ {0} /\ UNCHANGED <<tables, leaf>>
      BY <1>12, PagingAssumption DEF Dma
    <2>2. CASE n = 1
      <3>1. /\ next' = next + 1
            /\ dma' = IF next < Frames THEN dma \cup {next} ELSE dma
        BY <1>12, <2>2 DEF Dma
      <3>2. LeafTypes'
        BY <1>1, <2>1 DEF LeafTypes
      <3> QED
        BY <1>1, <2>1, <3>1, <3>2, OthersKeepFrames
    <2>3. CASE n # 1
      BY <1>1, <1>12, <2>1, <2>3, ContiguousKeepsFrames DEF Dma
    <2> QED
      BY <2>2, <2>3
  <1>13. ASSUME NEW p \in MmioPages, Mmio(p) PROVE FramesInv'
    <2>1. p \in Nat /\ Frames + p \in Nat
      BY <1>1, PagingAssumption
    <2>2. Map(p, Frames + p, KernelData, next) /\ dma' = dma
      BY <1>13 DEF Mmio, history
    <2> QED
      BY <1>1, <2>1, <2>2, FlagFacts, MapKeepsFrames DEF AllFlags
  <1> QED
    BY <1>3, <1>4, <1>5, <1>6, <1>7, <1>8, <1>9, <1>10, <1>11, <1>12, <1>13
    DEF PagingNext

(* Every step keeps the job in the form its kind has.                      *)
LEMMA BootStep ==
    ASSUME PagingIInv, PagingNext
    PROVE  BootInv'
  <1>1. BootInv
    BY DEF PagingIInv
  <1>2. ASSUME boot' = boot, owned' = owned,
               job' = NoJob \/ job' = Panic,
               job.kind # "mmap", job.kind # "none"
        PROVE  BootInv'
    <2>1. owned' = {}
      BY <1>1, <1>2 DEF BootInv
    <2>2. job'.kind \in {"none", "panic"}
      BY <1>2 DEF NoJob, Panic
    <2> QED
      BY <1>1, <1>2, <2>1, <2>2 DEF BootInv
  <1>3. ASSUME boot' = boot, owned' = owned,
               job.kind \in {"heap", "stack", "segment"}, job.todo # <<>>,
               job' = [job EXCEPT !.todo = Tail(@)],
               job.kind = "segment" \/ Tail(job.todo) # <<>>
        PROVE  BootInv'
    <2>1. /\ job \in PageJobs \cup SegmentJobs
          /\ Range(job.todo) \subseteq job.pages
          /\ job.pages \cap (MmapBase .. PageLimit) = {}
          /\ job.pages \subseteq PagesOf(job.kind)
      BY <1>1, <1>3, JobFacts
    <2>2. job.todo \in Seq(Nat)
      BY <2>1 DEF PageJobs, SegmentJobs
    <2>3. /\ job' \in PageJobs \cup SegmentJobs
          /\ job'.kind = job.kind /\ job'.pages = job.pages
          /\ job'.todo = Tail(job.todo)
      <3>1. Tail(job.todo) \in Seq(Nat)
        BY <1>3, <2>2
      <3>2. PICK t \in Seq(Nat) : t = Tail(job.todo)
        BY <3>1
      <3>3. job' = [job EXCEPT !.todo = t]
        BY <1>3, <3>2
      <3>4. CASE job \in PageJobs
        BY <3>2, <3>3, <3>4 DEF PageJobs
      <3>5. CASE job \in SegmentJobs
        BY <3>2, <3>3, <3>5 DEF SegmentJobs
      <3> QED
        BY <2>1, <3>4, <3>5
    <2>4. Range(job'.todo) \subseteq Range(job.todo)
      BY <1>3, <2>2, <2>3 DEF Range
    <2>5. job' \in PageJobs => job'.todo # <<>>
      BY <1>3, <2>3 DEF PageJobs
    <2>6. owned' = {}
      BY <1>1, <1>3 DEF BootInv
    <2> QED
      BY <1>1, <1>3, <2>1, <2>3, <2>4, <2>5, <2>6 DEF BootInv
  <1>4. CASE NextJob
    <2>1. /\ boot \in Seq(Jobs) /\ boot # <<>> /\ job = NoJob
          /\ boot' = Tail(boot) /\ job' = Head(boot) /\ owned' = owned
      BY <1>1, <1>4 DEF NextJob, history, BootInv
    <2>2. Head(boot) \in Jobs /\ boot' \in Seq(Jobs)
      BY <2>1
    <2>3. PICK j : j = Head(boot) /\ j \in Jobs /\ j = job'
      BY <2>1, <2>2
    <2>4. /\ j \in PageJobs \cup SegmentJobs \cup BufferJobs
          /\ Range(j.todo) \subseteq j.pages
          /\ j.pages \cap (MmapBase .. PageLimit) = {}
          /\ j \in PageJobs => j.todo # <<>>
      BY <2>3, PagingAssumption
    <2>5. j.pages \subseteq PagesOf(j.kind)
      BY <2>3 DEF PagesOf
    <2>6. j.kind # "mmap"
      BY <2>4 DEF PageJobs, SegmentJobs, BufferJobs
    <2>7. owned' = {}
      BY <1>1, <2>1 DEF BootInv
    <2> QED
      BY <2>2, <2>3, <2>4, <2>5, <2>6, <2>7 DEF BootInv
  <1>5. CASE BootPage
    <2>1. /\ job.kind \in {"heap", "stack"} /\ boot' = boot /\ owned' = owned
          /\ job' = Panic \/ Finish
      BY <1>5 DEF BootPage, history
    <2>2. job.todo # <<>>
      BY <1>1, <2>1, JobFacts
    <2> QED
      BY <1>2, <1>3, <2>1, <2>2 DEF Finish
  <1>6. CASE SegmentPage
    <2>1. /\ job.kind = "segment" /\ job.todo # <<>>
          /\ boot' = boot /\ owned' = owned
          /\ job' = Panic \/ job' = [job EXCEPT !.todo = Tail(@)]
      BY <1>6 DEF SegmentPage, history
    <2> QED
      BY <1>2, <1>3, <2>1
  <1>7. CASE SegmentFlags
    BY <1>2, <1>7 DEF SegmentFlags, history
  <1>8. CASE BootDma
    BY <1>2, <1>8 DEF BootDma
  <1>9. CASE Panicked
    BY <1>1, <1>9 DEF Panicked, pagingVars, BootInv
  <1>10. ASSUME NEW n \in MmapSizes, Mmap(n) PROVE BootInv'
    <2>1. n \in Nat /\ mmapNext \in Nat
      BY PagingAssumption DEF PagingIInv, MmapInv
    <2>2. /\ boot = <<>> /\ boot' = boot /\ owned' = owned
          /\ job' = [kind |-> "mmap", pages |-> mmapNext .. (mmapNext + n - 1),
                     todo |-> [i \in 1 .. n |-> mmapNext + i - 1]]
      BY <1>10 DEF Mmap, Ready, history
    <2>3. [i \in 1 .. n |-> mmapNext + i - 1] \in Seq(Nat)
      BY <2>1
    <2>4. mmapNext .. (mmapNext + n - 1) \in SUBSET Nat
      BY <2>1
    <2>5. job' \in MmapJobs /\ job'.kind = "mmap"
      BY <2>2, <2>3, <2>4 DEF MmapJobs
    <2> QED
      BY <1>1, <2>2, <2>5 DEF BootInv
  <1>11. CASE MmapPage
    <2>1. /\ job.kind = "mmap" /\ boot' = boot
          /\ job' = NoJob \/ job' = [job EXCEPT !.todo = Tail(@)]
      BY <1>11 DEF MmapPage, Finish
    <2>2. boot = <<>> /\ job \in MmapJobs /\ job.todo # <<>>
      BY <1>1, <2>1, JobFacts DEF BootInv, PagingIInv, MmapInv
    <2>3. job.todo \in Seq(Nat) /\ Tail(job.todo) \in Seq(Nat)
      BY <2>2 DEF MmapJobs
    <2>4. job' = NoJob \/ job' \in MmapJobs
      BY <2>1, <2>2, <2>3 DEF MmapJobs
    <2>5. job'.kind \in {"none", "mmap"}
      BY <2>4 DEF NoJob, MmapJobs
    <2> QED
      BY <1>1, <2>1, <2>2, <2>4, <2>5 DEF BootInv
  <1>12. ASSUME NEW p \in UserPages, NEW n \in MmapSizes, Munmap(p, n)
         PROVE  BootInv'
    <2>1. /\ UNCHANGED <<boot, job>> /\ boot = <<>> /\ job = NoJob
      BY <1>12 DEF Munmap, Ready
    <2> QED
      BY <1>1, <2>1 DEF BootInv, NoJob
  <1>13. ASSUME NEW n \in DmaSizes, Dma(n) PROVE BootInv'
    BY <1>1, <1>13 DEF Dma, BootInv
  <1>14. ASSUME NEW p \in MmioPages, Mmio(p) PROVE BootInv'
    BY <1>1, <1>14 DEF Mmio, BootInv, history
  <1> QED
    BY <1>4, <1>5, <1>6, <1>7, <1>8, <1>9, <1>10, <1>11, <1>12, <1>13, <1>14
    DEF PagingNext

(* Every step keeps the way to every user page open.                       *)
LEMMA PathStep ==
    ASSUME PagingIInv, PagingNext
    PROVE  PathInv'
  <1>1. FramesInv /\ BootInv /\ PathInv /\ PathsOpen
    BY DEF PagingIInv, PathInv, PathsOpen
  <1> DEFINE Booting == boot # <<>> \/ job.kind = "segment"
             KernelOk == \A p \in DOMAIN leaf :
                            leaf[p].user \/ p \in PagesOf("heap")
  <1>2. Booting => KernelOk
    BY <1>1 DEF PathInv
  <1>3. ASSUME PathsOpen', Booting' => KernelOk' PROVE PathInv'
    BY <1>3 DEF PathsOpen, PathInv
  <1>4. ASSUME UNCHANGED <<tables, leaf>>
        PROVE  PathsOpen' /\ (KernelOk => KernelOk')
    BY <1>1, <1>4 DEF PathsOpen, UserPathIsOpen, Blocked
  <1>5. CASE NextJob
    <2>1. Booting /\ UNCHANGED <<tables, leaf>>
      BY <1>5 DEF NextJob
    <2> QED
      BY <1>2, <1>3, <1>4, <2>1
  <1>6. CASE BootPage
    <2> DEFINE p == Head(job.todo)
               fl == IF job.kind = "heap" THEN KernelData ELSE UserData
    <2>1. /\ job.kind \in {"heap", "stack"} /\ AllocateAndMap(p, fl)
          /\ boot' = boot
      BY <1>6 DEF BootPage
    <2>2. fl \in AllFlags
      BY FlagFacts
    <2>3. job'.kind \in {"none", "panic", "heap", "stack"}
      <3>1. \/ job' = Panic \/ job' = NoJob
            \/ job' = [job EXCEPT !.todo = Tail(@)]
        BY <1>6 DEF BootPage, Finish
      <3>2. job \in PageJobs
        BY <1>1, <2>1, JobFacts
      <3>3. job' = [job EXCEPT !.todo = Tail(@)] => job'.kind = job.kind
        BY <3>2 DEF PageJobs
      <3> QED
        BY <2>1, <3>1, <3>3 DEF Panic, NoJob
    <2>4. Booting' => Booting
      BY <2>1, <2>3
    <2>5. fl.user = TRUE \/ p \in PagesOf("heap")
      <3>1. /\ job \in PageJobs /\ job.todo # <<>>
            /\ Range(job.todo) \subseteq job.pages
            /\ job.pages \subseteq PagesOf(job.kind)
        BY <1>1, <2>1, JobFacts
      <3>2. p \in Range(job.todo)
        BY <3>1 DEF PageJobs, Range
      <3> QED
        BY <2>1, <3>1, <3>2, FlagFacts
    <2> HIDE DEF p, fl
    <2>6. /\ PathsOpen'
          /\ \/ leaf' = leaf
             \/ /\ p \notin DOMAIN leaf /\ DOMAIN leaf' = DOMAIN leaf \cup {p}
                /\ leaf'[p].user = fl.user
                /\ \A r \in DOMAIN leaf : leaf'[r] = leaf[r]
      BY <1>1, <2>1, <2>2, AllocateFacts
    <2>7. KernelOk => KernelOk'
      BY <2>5, <2>6
    <2> QED
      BY <1>2, <1>3, <2>4, <2>6, <2>7
  <1>7. CASE SegmentPage
    <2>1. Booting
      BY <1>7 DEF SegmentPage
    <2>2. CASE UNCHANGED <<tables, leaf>>
      BY <1>2, <1>3, <1>4, <2>1, <2>2
    <2>3. CASE AllocateAndMap(Head(job.todo), UserData)
      <3> DEFINE p == Head(job.todo)
      <3>1. AllocateAndMap(p, UserData)
        BY <2>3
      <3> HIDE DEF p
      <3>2. /\ PathsOpen'
            /\ \/ leaf' = leaf
               \/ /\ p \notin DOMAIN leaf
                  /\ DOMAIN leaf' = DOMAIN leaf \cup {p}
                  /\ leaf'[p].user = TRUE
                  /\ \A r \in DOMAIN leaf : leaf'[r] = leaf[r]
        BY <1>1, <3>1, FlagFacts, AllocateFacts
      <3>3. KernelOk => KernelOk'
        BY <3>2
      <3> QED
        BY <1>2, <1>3, <2>1, <3>2, <3>3
    <2> QED
      BY <1>7, <2>2, <2>3 DEF SegmentPage
  <1>8. CASE SegmentFlags
    <2>1. /\ Booting /\ tables' = tables
          /\ leaf' = [p \in DOMAIN leaf |->
                       IF p \in job.pages
                       THEN Entry(leaf[p].frame, Flags(TRUE, job.w, job.x))
                       ELSE leaf[p]]
      BY <1>8 DEF SegmentFlags
    <2>2. KernelOk
      BY <1>2, <2>1
    <2>3. job.pages \cap PagesOf("heap") = {}
      BY <1>1, <1>8, JobFacts, PagingAssumption DEF SegmentFlags
    <2>4. \A fr : Entry(fr, Flags(TRUE, job.w, job.x)).user = TRUE
      BY DEF Entry, Flags
    <2>5. /\ DOMAIN leaf' = DOMAIN leaf
          /\ \A p \in DOMAIN leaf : p \in job.pages => leaf'[p].user = TRUE
          /\ \A p \in DOMAIN leaf : p \notin job.pages => leaf'[p] = leaf[p]
      BY <2>1, <2>4
    <2>6. \A p \in DOMAIN leaf : leaf'[p].user => leaf[p].user
      BY <2>2, <2>3, <2>5
    <2>7. KernelOk'
      BY <2>2, <2>5
    <2>8. PathsOpen'
      BY <1>1, <2>1, <2>5, <2>6 DEF PathsOpen, UserPathIsOpen, Blocked
    <2> QED
      BY <1>3, <2>7, <2>8
  <1>9. CASE BootDma
    <2>1. UNCHANGED <<tables, leaf, boot>> /\ job'.kind = "none"
      BY <1>9 DEF BootDma, NoJob
    <2> QED
      BY <1>2, <1>3, <1>4, <2>1
  <1>10. CASE Panicked
    BY <1>2, <1>3, <1>4, <1>10 DEF Panicked, pagingVars
  <1>11. ASSUME NEW n \in MmapSizes, Mmap(n) PROVE PathInv'
    <2>1. UNCHANGED <<tables, leaf>> /\ ~Booting'
      BY <1>11 DEF Mmap, Ready
    <2> QED
      BY <1>3, <1>4, <2>1
  <1>12. CASE MmapPage
    <2>1. AllocateAndMap(Head(job.todo), UserData)
      BY <1>12 DEF MmapPage
    <2>2. PathsOpen'
      BY <1>1, <2>1, FlagFacts, AllocateFacts
    <2>3. boot' = <<>> /\ job.kind = "mmap"
      BY <1>1, <1>12 DEF MmapPage, BootInv
    <2>4. job'.kind \in {"none", "mmap"}
      <3>1. job' = NoJob \/ job' = [job EXCEPT !.todo = Tail(@)]
        BY <1>12 DEF MmapPage, Finish
      <3>2. job \in MmapJobs
        BY <1>1, <2>3, JobFacts
      <3> QED
        BY <3>1, <3>2 DEF NoJob, MmapJobs
    <2> QED
      BY <1>3, <2>2, <2>3, <2>4
  <1>13. ASSUME NEW p \in UserPages, NEW n \in MmapSizes, Munmap(p, n)
         PROVE  PathInv'
    <2>1. ~Booting' /\ tables' = tables
      BY <1>13 DEF Munmap, Ready, NoJob
    <2>2. \A q \in DOMAIN leaf' : q \in DOMAIN leaf /\ leaf'[q] = leaf[q]
      BY <1>13 DEF Munmap, Unmap
    <2>3. PathsOpen'
      BY <1>1, <2>1, <2>2 DEF PathsOpen, UserPathIsOpen, Blocked
    <2> QED
      BY <1>3, <2>1, <2>3
  <1>14. ASSUME NEW n \in DmaSizes, Dma(n) PROVE PathInv'
    BY <1>2, <1>3, <1>4, <1>14 DEF Dma
  <1>15. ASSUME NEW p \in MmioPages, Mmio(p) PROVE PathInv'
    <2>1. ~Booting' /\ Map(p, Frames + p, KernelData, next)
      BY <1>15 DEF Mmio, Ready, NoJob
    <2>2. /\ Frames + p \in Nat /\ next \in Nat /\ TableTypes /\ LeafTypes
      BY <1>1, PagingAssumption DEF FramesInv
    <2>3. PathsOpen'
      BY <1>1, <2>1, <2>2, FlagFacts, MapKeepsPaths
    <2> QED
      BY <1>3, <2>1, <2>3
  <1> QED
    BY <1>5, <1>6, <1>7, <1>8, <1>9, <1>10, <1>11, <1>12, <1>13, <1>14, <1>15
    DEF PagingNext

(* What mmap asks for, as the loop of mmap_user_pages goes on.             *)
LEMMA MmapStep ==
    ASSUME PagingIInv, PagingNext
    PROVE  MmapInv'
  <1>1. FramesInv /\ BootInv /\ PathsOpen /\ MmapInv
    BY DEF PagingIInv, PathInv, PathsOpen
  <1> DEFINE Zone == MmapBase .. PageLimit
  <1>2. /\ mmapNext \in Nat /\ MmapBase \in Nat /\ PageLimit \in Nat
        /\ Zone \subseteq Nat
    BY <1>1, PagingAssumption DEF MmapInv
  <1>3. /\ \A p \in owned : UserMapped(p)
        /\ \A p \in DOMAIN leaf \cap Zone :
              p \in owned \cup leftover \cup job.pages
        /\ \A p \in DOMAIN leaf \cap Zone : p < Reached
    BY <1>1 DEF MmapInv, MmapKeepsItsWord, UserMapped
  <1>4. job.kind # "mmap" => job.pages \cap Zone = {}
    BY <1>1 DEF BootInv, NoJob, Panic, MmapJobs
  <1>5. job.kind \notin {"none", "mmap"} => owned = {}
    BY <1>1 DEF BootInv
  <1>6. ASSUME mmapNext' = mmapNext, job.kind # "mmap", job'.kind # "mmap",
               \A p \in owned' : UserMapped(p)',
               \A p \in DOMAIN leaf' \cap Zone :
                  /\ p \in DOMAIN leaf
                  /\ p \in owned \cup leftover => p \in owned' \cup leftover'
        PROVE  MmapInv'
    <2>1. Reached = mmapNext /\ Reached' = mmapNext'
      BY <1>6 DEF Reached
    <2>2. \A p \in DOMAIN leaf' \cap Zone : p < Reached'
      BY <1>3, <1>6, <2>1
    <2>3. MmapKeepsItsWord'
      <3>1. \A p \in DOMAIN leaf' \cap Zone : p \in owned' \cup leftover'
        BY <1>3, <1>4, <1>6
      <3> QED
        BY <1>6, <3>1 DEF MmapKeepsItsWord, UserMapped
    <2> QED
      BY <1>2, <1>6, <2>2, <2>3 DEF MmapInv
  <1>7. ASSUME UNCHANGED <<mmapNext, owned, leftover, leaf>>,
               job.kind # "mmap", job'.kind # "mmap"
        PROVE  MmapInv'
    BY <1>3, <1>6, <1>7 DEF UserMapped
  <1>8. CASE NextJob
    <2>1. /\ boot \in Seq(Jobs) /\ boot # <<>> /\ job = NoJob
          /\ job' = Head(boot)
          /\ UNCHANGED <<mmapNext, owned, leftover, leaf>>
      BY <1>1, <1>8 DEF NextJob, history, BootInv
    <2>2. job' \in Jobs
      BY <2>1
    <2>3. job'.kind # "mmap"
      BY <2>2, PagingAssumption DEF PageJobs, SegmentJobs, BufferJobs
    <2> QED
      BY <1>7, <2>1, <2>3 DEF NoJob
  <1>9. CASE BootPage
    <2> DEFINE p == Head(job.todo)
               fl == IF job.kind = "heap" THEN KernelData ELSE UserData
    <2>1. /\ job.kind \in {"heap", "stack"} /\ AllocateAndMap(p, fl)
          /\ UNCHANGED <<mmapNext, owned, leftover>>
      BY <1>9 DEF BootPage, history
    <2>2. fl \in AllFlags
      BY FlagFacts
    <2>3. job'.kind # "mmap"
      <3>1. \/ job' = Panic \/ job' = NoJob
            \/ job' = [job EXCEPT !.todo = Tail(@)]
        BY <1>9 DEF BootPage, Finish
      <3>2. job \in PageJobs
        BY <1>1, <2>1, JobFacts
      <3>3. job' = [job EXCEPT !.todo = Tail(@)] => job'.kind = job.kind
        BY <3>2 DEF PageJobs
      <3> QED
        BY <2>1, <3>1, <3>3 DEF Panic, NoJob
    <2>4. p \notin Zone
      <3>1. /\ job \in PageJobs /\ job.todo # <<>>
            /\ Range(job.todo) \subseteq job.pages
        BY <1>1, <2>1, JobFacts
      <3>2. p \in Range(job.todo)
        BY <3>1 DEF PageJobs, Range
      <3> QED
        BY <1>4, <2>1, <3>1, <3>2
    <2> HIDE DEF p, fl
    <2>5. \A r \in DOMAIN leaf' : r \in DOMAIN leaf \/ r = p
      BY <1>1, <2>1, <2>2, AllocateFacts
    <2> QED
      BY <1>5, <1>6, <2>1, <2>3, <2>4, <2>5
  <1>10. CASE SegmentPage
    <2> DEFINE p == Head(job.todo)
    <2>1. /\ job.kind = "segment" /\ job.todo # <<>>
          /\ UNCHANGED <<mmapNext, owned, leftover>>
          /\ leaf' = leaf \/ AllocateAndMap(p, UserData)
          /\ job' = Panic \/ job' = [job EXCEPT !.todo = Tail(@)]
      BY <1>10 DEF SegmentPage, history
    <2>2. /\ job \in SegmentJobs /\ Range(job.todo) \subseteq job.pages
      BY <1>1, <2>1, JobFacts
    <2>3. job'.kind # "mmap"
      <3>1. job' = [job EXCEPT !.todo = Tail(@)] => job'.kind = job.kind
        BY <2>2 DEF SegmentJobs
      <3> QED
        BY <2>1, <3>1 DEF Panic
    <2>4. p \notin Zone
      <3>1. p \in Range(job.todo)
        BY <2>1, <2>2 DEF SegmentJobs, Range
      <3> QED
        BY <1>4, <2>1, <2>2, <3>1
    <2> HIDE DEF p
    <2>5. \A r \in DOMAIN leaf' : r \in DOMAIN leaf \/ r = p
      <3>1. CASE leaf' = leaf
        BY <3>1
      <3>2. CASE AllocateAndMap(p, UserData)
        BY <1>1, <3>2, FlagFacts, AllocateFacts
      <3> QED
        BY <2>1, <3>1, <3>2
    <2> QED
      BY <1>5, <1>6, <2>1, <2>3, <2>4, <2>5
  <1>11. CASE SegmentFlags
    <2>1. /\ job.kind = "segment" /\ job'.kind # "mmap"
          /\ UNCHANGED <<mmapNext, owned, leftover>>
          /\ DOMAIN leaf' = DOMAIN leaf
      BY <1>11 DEF SegmentFlags, history, NoJob
    <2> QED
      BY <1>5, <1>6, <2>1
  <1>12. CASE BootDma
    BY <1>7, <1>12 DEF BootDma, NoJob
  <1>13. CASE Panicked
    BY <1>7, <1>13 DEF Panicked, pagingVars, Panic
  <1>14. ASSUME NEW n \in MmapSizes, Mmap(n) PROVE MmapInv'
    <2> DEFINE t == [i \in 1 .. n |-> mmapNext + i - 1]
    <2>1. n \in Nat \ {0}
      BY PagingAssumption
    <2>2. /\ job = NoJob /\ mmapNext' = mmapNext + n
          /\ job' = [kind |-> "mmap", pages |-> mmapNext .. (mmapNext + n - 1),
                     todo |-> [i \in 1 .. n |-> mmapNext + i - 1]]
          /\ UNCHANGED <<leaf, owned, leftover>>
      BY <1>14 DEF Mmap, Ready, history
    <2>3. /\ job'.kind = "mmap"
          /\ job'.pages = mmapNext .. (mmapNext + n - 1)
          /\ job'.todo = t
      BY <2>2
    <2>4. t \in Seq(Nat)
      BY <1>2, <2>1
    <2>5. /\ Len(t) = n /\ t # <<>> /\ t[1] = mmapNext /\ Head(t) = mmapNext
          /\ \A i \in 1 .. Len(t) : t[i] = t[1] + i - 1
      <3>1. Len(t) = n
        BY <1>2, <2>1, <2>4
      <3>2. \A i \in 1 .. n : t[i] = mmapNext + i - 1
        OBVIOUS
      <3> HIDE DEF t
      <3>3. t[1] = mmapNext
        BY <1>2, <2>1, <3>2
      <3>4. t # <<>> /\ Head(t) = t[1]
        BY <2>1, <2>4, <3>1
      <3> QED
        BY <3>1, <3>2, <3>3, <3>4
    <2> HIDE DEF t
    <2>6. Reached = mmapNext /\ Reached' = mmapNext
      BY <2>2, <2>3, <2>4, <2>5 DEF Reached, NoJob
    <2>7. \A p \in DOMAIN leaf' \cap Zone : p < Reached'
      BY <1>3, <2>2, <2>6
    <2>8. MmapKeepsItsWord'
      BY <1>3, <2>2 DEF MmapKeepsItsWord, UserMapped, NoJob
    <2>9. \E a \in 0 .. mmapNext' : job'.pages = a .. (mmapNext' - 1)
      BY <1>2, <2>1, <2>2, <2>3
    <2>10. /\ job'.todo # <<>>
           /\ \A i \in 1 .. Len(job'.todo) :
                 job'.todo[i] = job'.todo[1] + i - 1
           /\ job'.todo[1] + Len(job'.todo) = mmapNext'
           /\ job'.todo[1] \in job'.pages
      BY <1>2, <2>1, <2>2, <2>3, <2>4, <2>5
    <2>11. \A p \in job'.pages : ~(p < job'.todo[1])
      BY <1>2, <2>1, <2>3, <2>4, <2>5
    <2> QED
      BY <1>2, <2>1, <2>2, <2>7, <2>8, <2>9, <2>10, <2>11 DEF MmapInv
  <1>15. CASE MmapPage
    <2>0. PICK p : p = Head(job.todo)
      OBVIOUS
    <2>1. /\ job.kind = "mmap" /\ AllocateAndMap(p, UserData)
          /\ mmapNext' = mmapNext
          /\ IF AllocatedOk(p)
             THEN /\ Finish
                  /\ owned' = IF Tail(job.todo) = <<>>
                              THEN owned \cup job.pages ELSE owned
                  /\ UNCHANGED leftover
             ELSE /\ job' = NoJob
                  /\ leftover' = leftover \cup {q \in job.pages : q < p}
                  /\ UNCHANGED owned
      BY <1>15, <2>0 DEF MmapPage
    <2>2. /\ job \in MmapJobs
          /\ job.todo \in Seq(Nat) /\ job.pages \in SUBSET Nat
      BY <1>1, <2>1, JobFacts DEF MmapJobs
    <2>3. PICK t \in Seq(Nat) : t = job.todo
      BY <2>2
    <2>4. /\ t # <<>> /\ p = t[1] /\ p \in Nat /\ Len(t) \in Nat \ {0}
          /\ \A i \in 1 .. Len(t) : t[i] = p + i - 1
          /\ p + Len(t) = mmapNext
          /\ p \in job.pages
          /\ \E a \in 0 .. mmapNext : job.pages = a .. (mmapNext - 1)
          /\ \A q \in job.pages : q < p => UserMapped(q)
          /\ Reached = p
      <3>1. /\ t # <<>> /\ t[1] = Head(t)
            /\ Len(t) \in Nat \ {0} /\ t[1] \in Nat
        BY <1>1, <2>1, <2>3 DEF MmapInv
      <3>2. p = t[1] /\ Reached = p
        BY <2>0, <2>1, <2>3, <3>1 DEF Reached
      <3> QED
        BY <1>1, <2>1, <2>3, <3>1, <3>2 DEF MmapInv
    <2>5. CASE AllocatedOk(p)
      <3>1. /\ p \notin DOMAIN leaf /\ DOMAIN leaf' = DOMAIN leaf \cup {p}
            /\ leaf'[p].user = TRUE /\ leaf'[p].w = TRUE
            /\ \A r \in DOMAIN leaf : leaf'[r] = leaf[r]
        BY <1>1, <2>1, <2>5, FlagFacts, AllocateFacts
      <3>2. UserMapped(p)' /\ \A q : UserMapped(q) => UserMapped(q)'
        BY <3>1 DEF UserMapped
      <3>3. \A q \in job.pages : q < p + 1 => UserMapped(q)'
        BY <2>2, <2>4, <3>2
      <3>4. \A q \in DOMAIN leaf' \cap Zone : q < p + 1
        BY <1>2, <1>3, <2>4, <3>1
      <3>5. /\ leftover' = leftover
            /\ job' = IF Tail(t) = <<>> THEN NoJob
                      ELSE [job EXCEPT !.todo = Tail(t)]
            /\ owned' = IF Tail(t) = <<>> THEN owned \cup job.pages ELSE owned
        BY <2>1, <2>3, <2>5 DEF Finish
      <3>6. CASE Tail(t) = <<>>
        <4>1. Len(t) = 1
          <5>1. Len(Tail(t)) = Len(t) - 1
            BY <2>4
          <5>2. Len(<<>>) = 0
            OBVIOUS
          <5>3. Len(Tail(t)) = 0
            BY <3>6, <5>2, Zenon
          <5>4. Len(t) \in Nat
            OBVIOUS
          <5> QED
            BY <5>1, <5>3, <5>4
        <4>2. p + 1 = mmapNext
          BY <2>4, <4>1
        <4>3. /\ job' = NoJob /\ owned' = owned \cup job.pages
          BY <3>5, <3>6
        <4>4. \A q \in job.pages : q < mmapNext
          BY <1>2, <2>4
        <4>5. MmapKeepsItsWord'
          <5>1. \A q \in owned' : UserMapped(q)'
            BY <1>3, <3>2, <3>3, <4>2, <4>3, <4>4
          <5>2. \A q \in DOMAIN leaf' \cap Zone : q \in owned' \cup leftover'
            BY <1>3, <2>4, <3>1, <3>5, <4>3
          <5> QED
            BY <5>1, <5>2 DEF MmapKeepsItsWord, UserMapped
        <4>6. Reached' = mmapNext /\ job'.kind # "mmap"
          BY <2>1, <4>3 DEF Reached, NoJob
        <4> QED
          BY <1>2, <2>1, <3>4, <4>2, <4>5, <4>6 DEF MmapInv
      <3>7. CASE Tail(t) # <<>>
        <4> DEFINE u == Tail(t)
        <4>1. /\ u \in Seq(Nat) /\ u # <<>> /\ Len(u) = Len(t) - 1
              /\ Len(u) \in Nat \ {0}
              /\ \A i \in 1 .. Len(u) : u[i] = t[i + 1]
              /\ Head(u) = u[1]
          <5>1. u \in Seq(Nat) /\ Len(u) = Len(t) - 1
            BY <2>4
          <5>2. u # <<>>
            BY <3>7
          <5>3. Len(u) \in Nat \ {0} /\ Head(u) = u[1]
            BY <5>1, <5>2
          <5>4. \A i \in 1 .. Len(u) : u[i] = t[i + 1]
            BY <2>4, <5>1
          <5> QED
            BY <5>1, <5>2, <5>3, <5>4
        <4> HIDE DEF u
        <4>2. \A i \in 1 .. Len(u) : u[i] = p + i
          <5> SUFFICES ASSUME NEW i \in 1 .. Len(u) PROVE u[i] = p + i
            OBVIOUS
          <5>1. i + 1 \in 1 .. Len(t)
            BY <2>4, <4>1
          <5>2. t[i + 1] = p + (i + 1) - 1
            BY <2>4, <5>1
          <5> QED
            BY <2>4, <4>1, <5>2
        <4>3. u[1] = p + 1
          BY <4>1, <4>2
        <4>4. /\ job' = [job EXCEPT !.todo = u] /\ owned' = owned
          BY <3>5, <3>7 DEF u
        <4>5. /\ job'.kind = "mmap" /\ job'.pages = job.pages /\ job'.todo = u
          BY <2>2, <4>1, <4>4 DEF MmapJobs
        <4>6. Reached' = p + 1
          BY <4>1, <4>3, <4>5 DEF Reached
        <4>7. /\ u[1] \in job.pages /\ u[1] + Len(u) = mmapNext
              /\ \A i \in 1 .. Len(u) : u[i] = u[1] + i - 1
          <5>1. u[1] + Len(u) = mmapNext
            BY <1>2, <2>4, <4>1, <4>3
          <5>2. u[1] \in job.pages
            <6>1. PICK a \in 0 .. mmapNext : job.pages = a .. (mmapNext - 1)
              BY <2>4
            <6>2. a <= p /\ p \in Nat
              BY <2>4, <6>1
            <6>3. p + 1 <= mmapNext - 1
              BY <1>2, <4>1, <4>3, <5>1, <6>2
            <6> QED
              BY <1>2, <4>3, <6>1, <6>2, <6>3
          <5>3. \A i \in 1 .. Len(u) : u[i] = u[1] + i - 1
            BY <2>4, <4>2, <4>3
          <5> QED
            BY <5>1, <5>2, <5>3
        <4>8. MmapKeepsItsWord'
          <5>1. \A q \in owned' : UserMapped(q)'
            BY <1>3, <3>2, <4>4
          <5>2. \A q \in DOMAIN leaf' \cap Zone :
                   q \in owned' \cup leftover' \cup job'.pages
            BY <1>3, <2>4, <3>1, <3>5, <4>4, <4>5
          <5> QED
            BY <5>1, <5>2 DEF MmapKeepsItsWord, UserMapped
        <4>9. \A q \in job'.pages : q < job'.todo[1] => UserMapped(q)'
          BY <3>3, <4>3, <4>5
        <4>10. \A q \in DOMAIN leaf' \cap Zone : q < Reached'
          BY <3>4, <4>6
        <4>11. \E a \in 0 .. mmapNext' : job'.pages = a .. (mmapNext' - 1)
          BY <2>1, <2>4, <4>5
        <4>12. /\ job'.todo # <<>> /\ job'.todo[1] \in job'.pages
               /\ job'.todo[1] + Len(job'.todo) = mmapNext'
               /\ \A i \in 1 .. Len(job'.todo) :
                     job'.todo[i] = job'.todo[1] + i - 1
          BY <2>1, <4>1, <4>5, <4>7
        <4> QED
          BY <1>2, <2>1, <4>8, <4>9, <4>10, <4>11, <4>12 DEF MmapInv
      <3> QED
        BY <3>6, <3>7
    <2>6. CASE ~AllocatedOk(p)
      <3>1. leaf' = leaf
        BY <1>1, <2>1, <2>6, FlagFacts, AllocateFacts
      <3>2. /\ job' = NoJob /\ owned' = owned
            /\ leftover' = leftover \cup {q \in job.pages : q < p}
        BY <2>1, <2>6
      <3>3. Reached' = mmapNext /\ job'.kind # "mmap" /\ job'.pages = {}
        BY <2>1, <3>2 DEF Reached, NoJob
      <3>4. \A q \in DOMAIN leaf' \cap Zone : q < p
        BY <1>3, <2>4, <3>1
      <3>5. \A q \in DOMAIN leaf' \cap Zone : q < Reached'
        BY <1>2, <2>4, <3>3, <3>4
      <3>6. MmapKeepsItsWord'
        <4>1. \A q \in owned' : UserMapped(q)'
          BY <1>3, <3>1, <3>2 DEF UserMapped
        <4>2. \A q \in DOMAIN leaf' \cap Zone : q \in owned' \cup leftover'
          BY <1>3, <3>1, <3>2, <3>4
        <4> QED
          BY <4>1, <4>2 DEF MmapKeepsItsWord, UserMapped
      <3> QED
        BY <1>2, <2>1, <3>3, <3>5, <3>6 DEF MmapInv
    <2> QED
      BY <2>5, <2>6
  <1>16. ASSUME NEW p \in UserPages, NEW n \in MmapSizes, Munmap(p, n)
         PROVE  MmapInv'
    <2> DEFINE P == p .. (p + n - 1)
    <2>1. /\ job = NoJob /\ job' = job /\ mmapNext' = mmapNext
          /\ owned' = owned \ P /\ leftover' = leftover \ P
          /\ leaf' = [q \in {r \in DOMAIN leaf : r \notin P \/ Blocked(r)}
                        |-> leaf[q]]
      BY <1>16 DEF Munmap, Unmap, Ready
    <2>2. \A r \in DOMAIN leaf : ~Blocked(r)
      BY <1>1 DEF PathsOpen
    <2>3. /\ DOMAIN leaf' = DOMAIN leaf \ P
          /\ \A r \in DOMAIN leaf \ P : leaf'[r] = leaf[r]
      BY <2>1, <2>2
    <2> HIDE DEF P
    <2>4. \A q \in owned' : UserMapped(q)'
      BY <1>3, <2>1, <2>3 DEF UserMapped
    <2> QED
      BY <1>6, <2>1, <2>3, <2>4 DEF NoJob
  <1>17. ASSUME NEW n \in DmaSizes, Dma(n) PROVE MmapInv'
    BY <1>7, <1>17 DEF Dma, Ready, NoJob
  <1>18. ASSUME NEW p \in MmioPages, Mmio(p) PROVE MmapInv'
    <2>1. /\ job = NoJob /\ Map(p, Frames + p, KernelData, next)
          /\ UNCHANGED <<job, mmapNext, owned, leftover>>
      BY <1>18 DEF Mmio, Ready, history
    <2>2. Frames + p \in Nat /\ LeafTypes /\ p \notin Zone
      BY <1>1, PagingAssumption DEF FramesInv
    <2>3. \/ leaf' = leaf
          \/ /\ DOMAIN leaf' = DOMAIN leaf \cup {p}
             /\ \A r \in DOMAIN leaf : leaf'[r] = leaf[r]
      BY <2>1, <2>2, FlagFacts, MapLeaf DEF AllFlags
    <2>4. \A q \in owned' : UserMapped(q)'
      BY <1>3, <2>1, <2>3 DEF UserMapped
    <2> QED
      BY <1>6, <2>1, <2>2, <2>3, <2>4 DEF NoJob
  <1> QED
    BY <1>8, <1>9, <1>10, <1>11, <1>12, <1>13, <1>14, <1>15, <1>16, <1>17,
       <1>18
    DEF PagingNext

(* PagingIInv is inductive.                                                *)
LEMMA PagingInvariant == PagingSpec => []PagingIInv
  <1>1. PagingInit => PagingIInv
    <2> SUFFICES ASSUME PagingInit PROVE PagingIInv
      OBVIOUS
    <2>1. DOMAIN tables = {} /\ DOMAIN leaf = {}
      BY DEF PagingInit
    <2>2. FramesInv
      BY <2>1 DEF PagingInit, FramesInv, OwnFrames, TableTypes, LeafTypes
    <2>3. BootInv
      BY PagingAssumption DEF PagingInit, BootInv, NoJob
    <2>4. PathInv
      BY <2>1 DEF PathInv, UserPathIsOpen
    <2>5. MmapInv
      BY <2>1, PagingAssumption
      DEF PagingInit, MmapInv, MmapKeepsItsWord, NoJob
    <2> QED
      BY <2>2, <2>3, <2>4, <2>5 DEF PagingIInv
  <1>2. PagingIInv /\ [PagingNext]_pagingVars => PagingIInv'
    <2> SUFFICES ASSUME PagingIInv, [PagingNext]_pagingVars PROVE PagingIInv'
      OBVIOUS
    <2>1. CASE PagingNext
      BY <2>1, FramesStep, BootStep, PathStep, MmapStep DEF PagingIInv
    <2>2. CASE UNCHANGED pagingVars
      BY <2>2 DEF pagingVars, PagingIInv, FramesInv, BootInv, PathInv, MmapInv,
         OwnFrames, TableTypes, LeafTypes, Usable, UserPathIsOpen, Blocked,
         MmapKeepsItsWord, UserMapped, Reached
    <2> QED
      BY <2>1, <2>2
  <1> QED
    BY <1>1, <1>2, PTL DEF PagingSpec

(* No frame is two pages, two tables, a page and a table, or either and a  *)
(* device's buffer, however many frames there are, wherever the gaps and   *)
(* the huge pages lie and wherever the frames run out.                     *)
THEOREM FramesCorrect == PagingSpec => []OwnFrames
  <1>1. PagingIInv => OwnFrames
    BY DEF PagingIInv, FramesInv
  <1> QED
    BY <1>1, PagingInvariant, PTL

(* Mapper::map and update_flags: every table on the way to a user page     *)
(* exists and has the USER bit.                                            *)
THEOREM PathsCorrect == PagingSpec => []UserPathIsOpen
  <1>1. PagingIInv => UserPathIsOpen
    BY DEF PagingIInv, PathInv
  <1> QED
    BY <1>1, PagingInvariant, PTL

(* mmap_user_pages and munmap_user_pages: the pages mmap returned are      *)
(* mapped for the user until munmap takes them, and no other page of its   *)
(* range is but for those of calls that failed in the middle.              *)
THEOREM MmapCorrect == PagingSpec => []MmapKeepsItsWord
  <1>1. PagingIInv => MmapKeepsItsWord
    BY DEF PagingIInv, MmapInv
  <1> QED
    BY <1>1, PagingInvariant, PTL

-----------------------------------------------------------------------------
(* The executor.                                                           *)


(* Places around the ring.                                                 *)
Around(x) == IF x < Capacity THEN x ELSE x - Capacity
Held == IF head <= tail THEN tail - head ELSE tail - head + Capacity

(* % of a number that has gone round at most once.                         *)
LEMMA ModFacts ==
    ASSUME NEW C \in Nat \ {0}
    PROVE  /\ \A x \in Nat : x < C + C =>
                 x % C = IF x < C THEN x ELSE x - C
           /\ \A x \in 0 .. C - 1, y \in 0 .. C - 1 :
                 (y - x) % C = IF x <= y THEN y - x ELSE y - x + C
  OBVIOUS

(* Only tasks are queued, and the reader never ends.                       *)
ReadyInv == ready \in Seq(Tasks) /\ Reader \in tasks

(* What has entered is what has left, and then what the ring holds.        *)
RingInv ==
    /\ buffer \in [0 .. Capacity - 1 -> Scancodes \cup {None}]
    /\ head \in 0 .. Capacity - 1 /\ tail \in 0 .. Capacity - 1
    /\ accepted \in Seq(Scancodes) /\ read \in Seq(Scancodes)
    /\ Len(accepted) = Len(read) + Held
    /\ \A i \in 1 .. Len(read) : accepted[i] = read[i]
    /\ \A i \in 1 .. Held :
          accepted[Len(read) + i] = buffer[Around(head + i - 1)]

(* The clock, the two wakers and the future of the sleeper.                *)
ClockInv ==
    /\ ticks \in 0 .. MaxTicks /\ wake_at \in 0 .. Never
    /\ deadline \in 0 .. MaxTicks + SleepFor
    /\ asleep \in BOOLEAN
    /\ kwaker \in {Reader, None} /\ twaker \in {Sleeper, None}

(* Between the registration of a waker and the second look, the event has  *)
(* come or the waker is in place.                                          *)
WindowInv ==
    /\ pc = "k_recheck" => kwaker = Reader
    /\ pc \in {"s_check", "s_waker", "s_wake_at", "s_recheck"} => asleep
    /\ pc = "s_wake_at" =>
          twaker = Sleeper \/ ticks >= deadline \/ TaskQueued(Sleeper)
    /\ pc = "s_recheck" =>
          \/ twaker = Sleeper /\ wake_at = deadline
          \/ ticks >= deadline \/ TaskQueued(Sleeper)

AsyncIInv == ReadyInv /\ RingInv /\ ClockInv /\ WindowInv /\ NoLostWakeup

(* The arithmetic of the ring.                                             *)
LEMMA RingFacts ==
    ASSUME RingInv
    PROVE  /\ Held \in 0 .. Capacity - 1
           /\ Held = (tail - head) % Capacity
           /\ Full <=> Held = Capacity - 1
           /\ Empty <=> Held = 0
           /\ (tail + 1) % Capacity = Around(tail + 1)
           /\ (head + 1) % Capacity = Around(head + 1)
           /\ Around(head + Held) = tail
           /\ \A i \in 1 .. Held :
                /\ Around(head + i - 1) = (head + i - 1) % Capacity
                /\ Around(head + i - 1) \in 0 .. Capacity - 1
                /\ Around(head + i - 1) # tail
  <1>1. Capacity \in Nat \ {0, 1}
    BY AsyncAssumption
  <1>2. head \in 0 .. Capacity - 1 /\ tail \in 0 .. Capacity - 1
    BY DEF RingInv
  <1>3. Held \in 0 .. Capacity - 1 /\ (Empty <=> Held = 0)
    BY <1>1, <1>2 DEF Held, Empty
  <1>4. Held = (tail - head) % Capacity
    BY <1>1, <1>2, ModFacts DEF Held
  <1>5. \A x \in Nat : x < Capacity + Capacity => x % Capacity = Around(x)
    BY <1>1, ModFacts DEF Around
  <1>6. /\ (tail + 1) % Capacity = Around(tail + 1)
        /\ (head + 1) % Capacity = Around(head + 1)
    BY <1>1, <1>2, <1>5
  <1>7. Full <=> Held = Capacity - 1
    BY <1>1, <1>2, <1>6 DEF Full, Around, Held
  <1>8. Around(head + Held) = tail
    BY <1>1, <1>2 DEF Around, Held
  <1>9. ASSUME NEW i \in 1 .. Held
        PROVE  /\ Around(head + i - 1) = (head + i - 1) % Capacity
               /\ Around(head + i - 1) \in 0 .. Capacity - 1
               /\ Around(head + i - 1) # tail
    <2>1. head + i - 1 \in Nat /\ head + i - 1 < Capacity + Capacity
      BY <1>1, <1>2, <1>3
    <2>2. Around(head + i - 1) = (head + i - 1) % Capacity
      BY <1>5, <2>1
    <2> QED
      BY <1>1, <1>2, <1>3, <2>2 DEF Around, Held
  <1> QED
    BY <1>3, <1>4, <1>6, <1>7, <1>8, <1>9

(* push puts the scancode behind those that wait.                          *)
LEMMA PushRing ==
    ASSUME RingInv, NEW s \in Scancodes, Push(s)
    PROVE  RingInv' /\ ~Empty'
  <1>1. Capacity \in Nat \ {0, 1}
    BY AsyncAssumption
  <1>2. /\ head \in 0 .. Capacity - 1 /\ tail \in 0 .. Capacity - 1
        /\ accepted \in Seq(Scancodes) /\ read \in Seq(Scancodes)
        /\ Len(accepted) = Len(read) + Held
        /\ Len(accepted) \in Nat /\ Len(read) \in Nat
    BY DEF RingInv
  <1>3. /\ Held \in 0 .. Capacity - 1 /\ Held # Capacity - 1
        /\ tail' = Around(tail + 1) /\ Around(head + Held) = tail
        /\ \A i \in 1 .. Held : /\ Around(head + i - 1) \in 0 .. Capacity - 1
                                /\ Around(head + i - 1) # tail
    BY RingFacts DEF Push
  <1>4. /\ buffer' = [buffer EXCEPT ![tail] = s]
        /\ accepted' = Append(accepted, s)
        /\ head' = head /\ read' = read
    BY DEF Push
  <1>5. tail' \in 0 .. Capacity - 1 /\ Held' = Held + 1 /\ head' # tail'
    BY <1>1, <1>2, <1>3, <1>4 DEF Around, Held
  <1>6. /\ accepted' \in Seq(Scancodes) /\ Len(accepted') = Len(accepted) + 1
        /\ \A i \in 1 .. Len(accepted) : accepted'[i] = accepted[i]
        /\ accepted'[Len(accepted) + 1] = s
    BY <1>2, <1>4
  <1>7. buffer' \in [0 .. Capacity - 1 -> Scancodes \cup {None}]
    BY <1>4 DEF RingInv
  <1>8. buffer'[tail] = s /\ \A i \in 0 .. Capacity - 1 :
                               i # tail => buffer'[i] = buffer[i]
    BY <1>2, <1>4 DEF RingInv
  <1>9. \A i \in 1 .. Len(read') : accepted'[i] = read'[i]
    BY <1>2, <1>3, <1>4, <1>6 DEF RingInv
  <1>10. ASSUME NEW i \in 1 .. Held'
         PROVE  accepted'[Len(read') + i] = buffer'[Around(head' + i - 1)]
    <2>1. CASE i \in 1 .. Held
      <3>1. accepted[Len(read) + i] = buffer[Around(head + i - 1)]
        BY <2>1 DEF RingInv
      <3>2. buffer'[Around(head + i - 1)] = buffer[Around(head + i - 1)]
        BY <1>3, <1>8, <2>1
      <3>3. Len(read) + i \in 1 .. Len(accepted)
        BY <1>2, <1>3, <2>1
      <3>4. accepted'[Len(read) + i] = accepted[Len(read) + i]
        BY <1>6, <3>3
      <3> QED
        BY <1>4, <3>1, <3>2, <3>4
    <2>2. CASE i = Held + 1
      <3>1. Len(read) + i = Len(accepted) + 1
        BY <1>2, <1>3, <2>2
      <3>2. head + i - 1 = head + Held
        BY <1>2, <1>3, <2>2
      <3> QED
        BY <1>3, <1>4, <1>6, <1>8, <3>1, <3>2
    <2> QED
      BY <1>3, <1>5, <1>10, <2>1, <2>2
  <1>11. Len(accepted') = Len(read') + Held'
    BY <1>2, <1>3, <1>4, <1>5, <1>6
  <1> QED
    BY <1>2, <1>4, <1>5, <1>6, <1>7, <1>9, <1>10, <1>11 DEF RingInv, Empty

(* pop takes the oldest.                                                   *)
LEMMA PopRing ==
    ASSUME RingInv, Pop
    PROVE  RingInv'
  <1>1. Capacity \in Nat \ {0, 1}
    BY AsyncAssumption
  <1>2. /\ head \in 0 .. Capacity - 1 /\ tail \in 0 .. Capacity - 1
        /\ accepted \in Seq(Scancodes) /\ read \in Seq(Scancodes)
        /\ Len(accepted) = Len(read) + Held
        /\ Len(accepted) \in Nat /\ Len(read) \in Nat
    BY DEF RingInv
  <1>3. Held \in 1 .. Capacity - 1 /\ head' = Around(head + 1)
    BY <1>1, RingFacts DEF Pop
  <1>4. /\ read' = Append(read, buffer[head])
        /\ buffer' = buffer /\ tail' = tail /\ accepted' = accepted
    BY DEF Pop
  <1>5. head' \in 0 .. Capacity - 1 /\ Held' = Held - 1
    BY <1>1, <1>2, <1>3, <1>4 DEF Around, Held
  <1>6. Around(head + 1 - 1) = head
    BY <1>1, <1>2 DEF Around
  <1>7. accepted[Len(read) + 1] = buffer[head]
    <2>1. 1 \in 1 .. Held
      BY <1>3
    <2> QED
      BY <1>6, <2>1 DEF RingInv
  <1>8. accepted[Len(read) + 1] \in Scancodes
    BY <1>2, <1>3
  <1>9. /\ read' \in Seq(Scancodes) /\ Len(read') = Len(read) + 1
        /\ \A i \in 1 .. Len(read) : read'[i] = read[i]
        /\ read'[Len(read) + 1] = accepted[Len(read) + 1]
    BY <1>2, <1>4, <1>7, <1>8
  <1>10. \A i \in 1 .. Len(read') : accepted'[i] = read'[i]
    <2>1. \A i \in 1 .. Len(read) + 1 :
            i \in 1 .. Len(read) \/ i = Len(read) + 1
      BY <1>2
    <2> QED
      BY <1>4, <1>9, <2>1 DEF RingInv
  <1>11. ASSUME NEW i \in 1 .. Held'
         PROVE  accepted'[Len(read') + i] = buffer'[Around(head' + i - 1)]
    <2>1. i + 1 \in 1 .. Held
      BY <1>3, <1>5
    <2>2. Around(head' + i - 1) = Around(head + (i + 1) - 1)
      BY <1>1, <1>2, <1>3, <1>5, <2>1 DEF Around, Held
    <2>3. accepted[Len(read) + (i + 1)] = buffer[Around(head + (i + 1) - 1)]
      BY <2>1 DEF RingInv
    <2>4. Len(read') + i = Len(read) + (i + 1)
      BY <1>2, <1>3, <1>5, <1>9
    <2> QED
      BY <1>4, <2>2, <2>3, <2>4
  <1>12. Len(accepted') = Len(read') + Held'
    <2>1. Len(accepted') = Len(accepted) /\ Held \in Nat
      BY <1>1, <1>3, <1>4
    <2>2. Len(read') = Len(read) + 1 /\ Held' = Held - 1
      BY <1>5, <1>9
    <2> QED
      BY <1>2, <2>1, <2>2
  <1>13. buffer' \in [0 .. Capacity - 1 -> Scancodes \cup {None}]
    BY <1>4 DEF RingInv
  <1> QED
    BY <1>2, <1>4, <1>5, <1>9, <1>10, <1>11, <1>12, <1>13 DEF RingInv

(* The rest of the runtime leaves the ring alone.                          *)
LEMMA RingSame ==
    ASSUME RingInv, UNCHANGED ringVars
    PROVE  RingInv'
  BY DEF ringVars, RingInv, Held, Around

(* Every step keeps what entered in order.                                 *)
LEMMA RingStep == RingInv /\ [RuntimeNext]_runtimeVars => RingInv'
  <1> SUFFICES ASSUME RingInv, [RuntimeNext]_runtimeVars PROVE RingInv'
    OBVIOUS
  <1>1. ASSUME NEW s \in Scancodes, AddScancode(s) PROVE RingInv'
    BY <1>1, PushRing, RingSame DEF AddScancode
  <1>2. CASE FastPop
    BY <1>2, PopRing, RingSame DEF FastPop
  <1>3. CASE Recheck
    BY <1>3, PopRing, RingSame DEF Recheck
  <1>4. CASE UNCHANGED ringVars
    BY <1>4, RingSame
  <1> QED
    BY <1>1, <1>2, <1>3, <1>4
    DEF RuntimeNext, Executor, Interrupts, RunReadyTask, NothingReady, SleepIfIdle,
        RegisterReader, ForgetReader, StartSleep, CheckDeadline,
        RegisterSleeper, SetWakeAt, RecheckDeadline, ClearWakeAt,
        ForgetSleeper, TickTimer, runtimeVars

(* The ring, slot by slot, is ReadInOrder.                                 *)
LEMMA RingImplies == RingInv => ReadInOrder
  <1> SUFFICES ASSUME RingInv PROVE read \o Contents = accepted
    BY DEF ReadInOrder
  <1>1. Held \in Nat /\ Held = (tail - head) % Capacity
        /\ \A i \in 1 .. Held :
              Around(head + i - 1) = (head + i - 1) % Capacity
    BY RingFacts, AsyncAssumption
  <1>2. /\ accepted \in Seq(Scancodes) /\ read \in Seq(Scancodes)
        /\ Len(accepted) = Len(read) + Held
    BY DEF RingInv
  <1>3. Contents = [i \in 1 .. Held |-> buffer[Around(head + i - 1)]]
    BY <1>1 DEF Contents
  <1>4. \A i \in 1 .. Held : /\ Len(read) + i \in 1 .. Len(accepted)
                             /\ Contents[i] = accepted[Len(read) + i]
    BY <1>1, <1>2, <1>3 DEF RingInv
  <1>5. Contents \in Seq(Scancodes) /\ Len(Contents) = Held
    <2>1. \A i \in 1 .. Held : Contents[i] \in Scancodes
      BY <1>2, <1>4
    <2>2. Contents \in [1 .. Held -> Scancodes]
      BY <1>3, <2>1
    <2> QED
      BY <1>1, <2>2
  <1> DEFINE c == read \o Contents
  <1>6. c \in Seq(Scancodes) /\ Len(c) = Len(accepted)
    <2>1. c \in Seq(Scancodes)
      BY <1>2, <1>5
    <2>2. Len(c) = Len(read) + Len(Contents)
      <3>1. \A a, b \in Seq(Scancodes) : Len(a \o b) = Len(a) + Len(b)
        OBVIOUS
      <3> QED
        BY <1>2, <1>5, <3>1
    <2> QED
      BY <1>2, <1>5, <2>1, <2>2
  <1>7. ASSUME NEW i \in 1 .. Len(accepted) PROVE c[i] = accepted[i]
    <2>1. CASE i \in 1 .. Len(read)
      <3>1. c[i] = read[i]
        BY <1>2, <1>5, <2>1
      <3> QED
        BY <2>1, <3>1 DEF RingInv
    <2>2. CASE i \notin 1 .. Len(read)
      <3>1. i - Len(read) \in 1 .. Held /\ Len(read) + (i - Len(read)) = i
        BY <1>1, <1>2, <1>7, <2>2
      <3>2. c[i] = Contents[i - Len(read)]
        BY <1>2, <1>5, <2>2, <3>1
      <3> QED
        BY <1>4, <3>1, <3>2
    <2> QED
      BY <2>1, <2>2
  <1> HIDE DEF c
  <1>8. c = accepted
    BY <1>2, <1>6, <1>7
  <1> QED
    BY <1>8 DEF c

(* Waking adds to the queue; a turn of the loop takes only its head.       *)
LEMMA QueuedFacts ==
    ASSUME ready \in Seq(Tasks)
    PROVE  /\ \A t, w : ready' = Wake(ready, w) /\ w \in Tasks \cup {None} =>
                /\ ready' \in Seq(Tasks)
                /\ TaskQueued(t) => TaskQueued(t)'
                /\ w # None => TaskQueued(w)'
           /\ ready # <<>> /\ ready' = Tail(ready) =>
                /\ ready' \in Seq(Tasks) /\ Head(ready) \in Tasks
                /\ \A t : TaskQueued(t) => t = Head(ready) \/ TaskQueued(t)'
  <1>1. ASSUME NEW t, NEW w \in Tasks \cup {None}, ready' = Wake(ready, w)
        PROVE  /\ ready' \in Seq(Tasks)
               /\ TaskQueued(t) => TaskQueued(t)'
               /\ w # None => TaskQueued(w)'
    <2>1. CASE w = None
      BY <1>1, <2>1 DEF Wake, TaskQueued
    <2>2. CASE w # None
      <3>1. ready' = Append(ready, w) /\ w \in Tasks
        BY <1>1, <2>2 DEF Wake
      <3>2. /\ ready' \in Seq(Tasks) /\ Len(ready') = Len(ready) + 1
            /\ Len(ready) \in Nat
            /\ \A i \in 1 .. Len(ready) : ready'[i] = ready[i]
            /\ ready'[Len(ready) + 1] = w
        BY <3>1
      <3>3. TaskQueued(t) => TaskQueued(t)'
        BY <3>2 DEF TaskQueued
      <3>4. TaskQueued(w)'
        <4>1. Len(ready) + 1 \in 1 .. Len(ready')
          BY <3>2
        <4> QED
          BY <3>2, <4>1 DEF TaskQueued
      <3> QED
        BY <3>2, <3>3, <3>4
    <2> QED
      BY <2>1, <2>2
  <1>2. ASSUME ready # <<>>, ready' = Tail(ready)
        PROVE  /\ ready' \in Seq(Tasks) /\ Head(ready) \in Tasks
               /\ \A t : TaskQueued(t) => t = Head(ready) \/ TaskQueued(t)'
    <2>1. /\ ready' \in Seq(Tasks) /\ Head(ready) \in Tasks
          /\ Len(ready) \in Nat /\ Len(ready') = Len(ready) - 1
          /\ Head(ready) = ready[1]
          /\ \A i \in 1 .. Len(ready') : ready'[i] = ready[i + 1]
      BY <1>2
    <2>2. ASSUME NEW t, NEW i \in 1 .. Len(ready), ready[i] = t, i # 1
          PROVE  TaskQueued(t)'
      <3>1. i - 1 \in 1 .. Len(ready') /\ (i - 1) + 1 = i
        BY <2>1, <2>2
      <3>2. ready'[i - 1] = t
        BY <2>1, <2>2, <3>1
      <3> QED
        BY <3>1, <3>2 DEF TaskQueued
    <2> QED
      BY <2>1, <2>2 DEF TaskQueued
  <1> QED
    BY <1>1, <1>2

(* What the executor, the wakers and the two polls agree on.               *)
TaskInv == ReadyInv /\ ClockInv /\ WindowInv /\ NoLostWakeup

(* Every step keeps it: an interrupt between the registration of a waker   *)
(* and the second look queues the task, or the second look sees the event. *)
LEMMA TaskStep == RingInv /\ TaskInv /\ [RuntimeNext]_runtimeVars => TaskInv'
  <1> SUFFICES ASSUME RingInv, TaskInv, [RuntimeNext]_runtimeVars PROVE TaskInv'
    OBVIOUS
  <1> USE DEF Tasks
  <1>1. /\ Reader # Sleeper /\ None \notin {Reader, Sleeper}
        /\ SleepFor \in Nat /\ MaxTicks \in Nat
        /\ Never = MaxTicks + SleepFor + 1
    BY AsyncAssumption DEF Never
  <1>2. ReadyInv /\ ClockInv /\ WindowInv /\ NoLostWakeup
    BY DEF TaskInv
  <1>3. /\ ready \in Seq(Tasks) /\ Reader \in tasks
        /\ ticks \in 0 .. MaxTicks /\ wake_at \in 0 .. Never
        /\ deadline \in 0 .. MaxTicks + SleepFor
        /\ kwaker \in Tasks \cup {None} /\ twaker \in Tasks \cup {None}
    BY <1>2 DEF ReadyInv, ClockInv
  <1>4. CASE RunReadyTask
    <2>1. /\ pc = "run" /\ ready # <<>> /\ ready' = Tail(ready)
          /\ pc' = IF Head(ready) \in tasks THEN PollOf(Head(ready)) ELSE "run"
          /\ UNCHANGED <<tasks, ringVars, kwaker, timerVars, sleepVars,
                         pressed>>
      BY <1>4 DEF RunReadyTask
    <2>2. /\ ready' \in Seq(Tasks) /\ Head(ready) \in Tasks
          /\ \A t : TaskQueued(t) => t = Head(ready) \/ TaskQueued(t)'
      BY <1>3, <2>1, QueuedFacts
    <2>3. \/ Head(ready) = Reader /\ pc' = "k_pop"
          \/ /\ Head(ready) = Sleeper /\ Sleeper \in tasks
             /\ pc' \in {"s_check", "s_start"} /\ (pc' = "s_check" => asleep)
          \/ Head(ready) = Sleeper /\ Sleeper \notin tasks /\ pc' = "run"
      BY <1>1, <1>3, <2>1, <2>2 DEF PollOf
    <2>4. ReadyInv' /\ ClockInv' /\ WindowInv'
      BY <1>2, <2>1, <2>2, <2>3
      DEF ReadyInv, ClockInv, WindowInv, timerVars, sleepVars
    <2>5. NoLostWakeup'
      BY <1>1, <1>2, <2>1, <2>2, <2>3
      DEF NoLostWakeup, PollingReader, PollingSleeper, Empty, ringVars,
          timerVars, sleepVars
    <2> QED
      BY <2>4, <2>5 DEF TaskInv
  <1>5. ASSUME NEW s \in Scancodes, AddScancode(s) PROVE TaskInv'
    <2>1. /\ pc' = AfterInterrupt
          /\ UNCHANGED <<tasks, kwaker, timerVars, sleepVars>>
      BY <1>5 DEF AddScancode
    <2>2. \/ Push(s) /\ ready' = Wake(ready, kwaker)
          \/ UNCHANGED <<ringVars, ready>>
      BY <1>5 DEF AddScancode
    <2>3. /\ ready' \in Seq(Tasks) /\ \A t : TaskQueued(t) => TaskQueued(t)'
          /\ Empty /\ kwaker = Reader => Empty' \/ TaskQueued(Reader)'
      <3>1. CASE Push(s) /\ ready' = Wake(ready, kwaker)
        BY <1>1, <1>3, <3>1, QueuedFacts
      <3>2. CASE UNCHANGED <<ringVars, ready>>
        BY <1>3, <3>2 DEF TaskQueued, ringVars, Empty
      <3> QED
        BY <2>2, <3>1, <3>2
    <2>4. /\ pc' # "halted"
          /\ pc' = pc \/ (pc' = "run" /\ pc = "halted")
      <3>1. pc' = AfterInterrupt
        BY <2>1
      <3>2. CASE pc = "halted"
        BY <3>1, <3>2 DEF AfterInterrupt
      <3>3. CASE pc # "halted"
        BY <3>1, <3>3 DEF AfterInterrupt
      <3> QED
        BY <3>2, <3>3
    <2>5. ReadyInv' /\ ClockInv' /\ WindowInv'
      BY <1>2, <2>1, <2>3, <2>4
      DEF ReadyInv, ClockInv, WindowInv, timerVars, sleepVars
    <2>6. NoLostWakeup'
      BY <1>1, <1>2, <2>1, <2>3, <2>4
      DEF NoLostWakeup, PollingReader, PollingSleeper, timerVars, sleepVars
    <2> QED
      BY <2>5, <2>6 DEF TaskInv
  <1>6. CASE TickTimer
    <2>1. /\ ticks < MaxTicks /\ ticks' = ticks + 1 /\ pc' = AfterInterrupt
          /\ UNCHANGED <<tasks, ringVars, kwaker, sleepVars, pressed>>
      BY <1>6 DEF TickTimer
    <2>2. \/ ticks + 1 < wake_at /\ UNCHANGED <<wake_at, twaker, ready>>
          \/ /\ ticks + 1 >= wake_at /\ wake_at' = Never /\ twaker' = None
             /\ ready' = Wake(ready, twaker)
      BY <1>1, <1>3, <1>6 DEF TickTimer
    <2>3. /\ pc' # "halted"
          /\ pc' = pc \/ (pc' = "run" /\ pc = "halted")
      <3>1. pc' = AfterInterrupt
        BY <2>1
      <3>2. CASE pc = "halted"
        BY <3>1, <3>2 DEF AfterInterrupt
      <3>3. CASE pc # "halted"
        BY <3>1, <3>3 DEF AfterInterrupt
      <3> QED
        BY <3>2, <3>3
    <2>4. /\ ready' \in Seq(Tasks) /\ \A t : TaskQueued(t) => TaskQueued(t)'
          /\ \/ UNCHANGED <<wake_at, twaker>> /\ ticks + 1 < wake_at
             \/ \A w : w = twaker /\ w # None => TaskQueued(w)'
      <3>1. CASE UNCHANGED <<wake_at, twaker, ready>> /\ ticks + 1 < wake_at
        BY <1>3, <3>1 DEF TaskQueued
      <3>2. CASE ready' = Wake(ready, twaker)
        <4>1. PICK w \in Tasks \cup {None} : w = twaker
          BY <1>3
        <4> QED
          BY <1>3, <3>2, <4>1, QueuedFacts
      <3> QED
        BY <2>2, <3>1, <3>2
    <2>5. ReadyInv' /\ ClockInv'
      BY <1>1, <1>2, <1>3, <2>1, <2>2, <2>4 DEF ReadyInv, ClockInv, sleepVars
    <2>6. \/ UNCHANGED <<wake_at, twaker>> /\ ticks + 1 < wake_at
          \/ twaker = Sleeper => TaskQueued(Sleeper)'
      BY <1>1, <2>4
    <2>7. WindowInv'
      BY <1>1, <1>2, <1>3, <2>1, <2>3, <2>4, <2>6 DEF WindowInv, sleepVars
    <2>8. NoLostWakeup'
      BY <1>1, <1>2, <1>3, <2>1, <2>3, <2>4, <2>6
      DEF NoLostWakeup, PollingReader, PollingSleeper, sleepVars, ringVars,
          Empty
    <2> QED
      BY <2>5, <2>7, <2>8 DEF TaskInv
  <1>7. CASE /\ UNCHANGED ready
             /\ \/ NothingReady \/ SleepIfIdle \/ FastPop \/ RegisterReader
                \/ Recheck \/ ForgetReader \/ StartSleep \/ CheckDeadline
                \/ RegisterSleeper \/ SetWakeAt \/ RecheckDeadline
                \/ ClearWakeAt \/ ForgetSleeper
    <2>1. \A t : TaskQueued(t)' <=> TaskQueued(t)
      BY <1>7 DEF TaskQueued
    <2>2. ReadyInv'
      BY <1>1, <1>2, <1>7
      DEF ReadyInv, NothingReady, SleepIfIdle, FastPop, RegisterReader,
          Recheck, ForgetReader, StartSleep, CheckDeadline, RegisterSleeper,
          SetWakeAt, RecheckDeadline, ClearWakeAt, ForgetSleeper
    <2>3. ClockInv'
      <3>1. CASE UNCHANGED <<timerVars, sleepVars>>
        BY <1>2, <1>7, <3>1
        DEF ClockInv, NothingReady, SleepIfIdle, FastPop, RegisterReader,
            Recheck, ForgetReader, StartSleep, CheckDeadline, RecheckDeadline,
            RegisterSleeper, SetWakeAt, ClearWakeAt, ForgetSleeper, timerVars,
            sleepVars
      <3>2. CASE StartSleep
        <4>1. /\ UNCHANGED <<kwaker, timerVars>>
              /\ \/ deadline' = ticks + SleepFor /\ asleep' = TRUE
                 \/ UNCHANGED sleepVars
          BY <3>2 DEF StartSleep
        <4>2. deadline' \in 0 .. MaxTicks + SleepFor
          BY <1>1, <1>3, <4>1 DEF sleepVars
        <4> QED
          BY <1>2, <4>1, <4>2 DEF ClockInv, timerVars, sleepVars
      <3>3. CASE CheckDeadline
        BY <1>2, <3>3 DEF ClockInv, CheckDeadline, timerVars, sleepVars, WakeUp
      <3>4. CASE RegisterSleeper
        BY <1>2, <3>4 DEF ClockInv, RegisterSleeper, sleepVars
      <3>5. CASE SetWakeAt
        BY <1>1, <1>2, <1>3, <3>5 DEF ClockInv, SetWakeAt, sleepVars
      <3>6. CASE ClearWakeAt
        BY <1>1, <1>2, <3>6 DEF ClockInv, ClearWakeAt, sleepVars
      <3>7. CASE ForgetSleeper
        BY <1>2, <3>7 DEF ClockInv, ForgetSleeper, WakeUp
      <3> QED
        BY <1>7, <3>1, <3>2, <3>3, <3>4, <3>5, <3>6, <3>7
        DEF NothingReady, SleepIfIdle, FastPop, RegisterReader, Recheck,
            ForgetReader, RecheckDeadline
    <2>4. WindowInv'
      BY <1>1, <1>2, <1>3, <1>7, <2>1
      DEF WindowInv, NothingReady, SleepIfIdle, FastPop, RegisterReader,
          Recheck, ForgetReader, StartSleep, CheckDeadline, RegisterSleeper,
          SetWakeAt, RecheckDeadline, ClearWakeAt, ForgetSleeper, timerVars,
          sleepVars, WakeUp
    <2>5. NoLostWakeup'
      BY <1>1, <1>2, <1>3, <1>7, <2>1
      DEF WindowInv, NoLostWakeup, PollingReader, PollingSleeper, Empty,
          NothingReady, SleepIfIdle, FastPop, RegisterReader,
          Recheck, ForgetReader, StartSleep, CheckDeadline, RegisterSleeper,
          SetWakeAt, RecheckDeadline, ClearWakeAt, ForgetSleeper, timerVars,
          sleepVars, WakeUp, ringVars, Pop
    <2> QED
      BY <2>2, <2>3, <2>4, <2>5 DEF TaskInv
  <1>8. CASE UNCHANGED runtimeVars
    BY <1>2, <1>8
    DEF runtimeVars, execVars, ringVars, timerVars, sleepVars, TaskInv, ReadyInv,
        ClockInv, WindowInv, NoLostWakeup, PollingReader, PollingSleeper,
        Empty, TaskQueued
  <1> QED
    BY <1>4, <1>5, <1>6, <1>7, <1>8
    DEF RuntimeNext, Executor, Interrupts, NothingReady, SleepIfIdle, FastPop,
        RegisterReader, Recheck, ForgetReader, StartSleep, CheckDeadline,
        RegisterSleeper, SetWakeAt, RecheckDeadline, ClearWakeAt, ForgetSleeper

(* The start: an empty ring, both tasks queued.                            *)
LEMMA AsyncInitHolds == RuntimeInit => AsyncIInv
  <1> SUFFICES ASSUME RuntimeInit PROVE AsyncIInv
    OBVIOUS
  <1>1. /\ Reader # Sleeper /\ None \notin {Reader, Sleeper}
        /\ Capacity \in Nat \ {0, 1} /\ SleepFor \in Nat /\ MaxTicks \in Nat
    BY AsyncAssumption
  <1>2. RingInv
    <2>1. head = 0 /\ tail = 0 /\ accepted = <<>> /\ read = <<>>
      BY DEF RuntimeInit
    <2>2. Held = 0
      BY <2>1 DEF Held
    <2>3. Len(accepted) = 0 /\ Len(read) = 0
      BY <2>1
    <2>4. buffer \in [0 .. Capacity - 1 -> Scancodes \cup {None}]
      BY DEF RuntimeInit
    <2>5. head \in 0 .. Capacity - 1 /\ tail \in 0 .. Capacity - 1
      BY <1>1, <2>1
    <2>6. accepted \in Seq(Scancodes) /\ read \in Seq(Scancodes)
      BY <2>1
    <2> QED
      BY <2>2, <2>3, <2>4, <2>5, <2>6 DEF RingInv
  <1>3. ready \in Seq(Tasks) /\ TaskQueued(Reader) /\ TaskQueued(Sleeper)
    <2>1. \/ ready = <<Reader, Sleeper>>
          \/ ready = <<Sleeper, Reader>>
      BY DEF RuntimeInit
    <2>2. ready \in Seq(Tasks) /\ Len(ready) = 2
      <3>1. <<Reader, Sleeper>> \in Seq(Tasks) /\ Len(<<Reader, Sleeper>>) = 2
        BY DEF Tasks
      <3>2. <<Sleeper, Reader>> \in Seq(Tasks) /\ Len(<<Sleeper, Reader>>) = 2
        BY DEF Tasks
      <3> QED
        BY <2>1, <3>1, <3>2, Zenon
    <2>3. \/ ready[1] = Reader /\ ready[2] = Sleeper
          \/ ready[1] = Sleeper /\ ready[2] = Reader
      BY <2>1
    <2>4. 1 \in 1 .. Len(ready) /\ 2 \in 1 .. Len(ready)
      BY <2>2
    <2> QED
      BY <2>2, <2>3, <2>4 DEF TaskQueued
  <1>4. ReadyInv
    BY <1>3 DEF RuntimeInit, ReadyInv, Tasks
  <1>5. ClockInv
    BY <1>1 DEF RuntimeInit, ClockInv, Never
  <1>6. pc = "run"
    BY DEF RuntimeInit
  <1> QED
    BY <1>2, <1>3, <1>4, <1>5, <1>6 DEF AsyncIInv, WindowInv, NoLostWakeup

(* The invariant of the runtime.                                           *)
LEMMA AsyncInvCorrect == RuntimeSpec => []AsyncIInv
  <1>1. AsyncIInv /\ [RuntimeNext]_runtimeVars => AsyncIInv'
    BY RingStep, TaskStep DEF AsyncIInv, TaskInv
  <1> QED
    BY AsyncInitHolds, <1>1, PTL DEF RuntimeSpec

(* Every scancode that add_scancode let into the ring is read once and in  *)
(* the order of the key presses, for every capacity of the ring and every  *)
(* interleaving of the keyboard interrupt with NextScancode::poll.         *)
THEOREM ReadCorrect == RuntimeSpec => []ReadInOrder
  <1>1. AsyncIInv => ReadInOrder
    BY RingImplies DEF AsyncIInv
  <1> QED
    BY AsyncInvCorrect, <1>1, PTL

(* No wake-up is lost: whatever interrupts come between the first look,    *)
(* the registration of the waker and the second look of the two polls, and *)
(* between the two looks of sleep_if_idle, a suspended task that has not   *)
(* been queued has nothing to do yet and its waker is in place.            *)
THEOREM WakeupCorrect == RuntimeSpec => []NoLostWakeup
  <1>1. AsyncIInv => NoLostWakeup
    BY DEF AsyncIInv
  <1> QED
    BY AsyncInvCorrect, <1>1, PTL
=============================================================================
