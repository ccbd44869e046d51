-------------------------------- MODULE Heap --------------------------------
(***************************************************************************)
(* The kernel heap: the linked-list allocator of                           *)
(* kernel/src/allocator/linked_list.rs behind the Locked wrapper, so every *)
(* operation is atomic.                                                    *)
(*                                                                         *)
(* Addresses and sizes are counted in words, the alignment of a ListNode.  *)
(* The free list is kept in address order, so it is the set of its         *)
(* regions: the predecessor of an address is the region with the greatest  *)
(* start up to it, and the first fit the fitting one with the least start. *)
(***************************************************************************)
EXTENDS Integers, FiniteSetsExt

CONSTANTS
    HeapStart, HeapSize,
    NodeSize,     \* size_of::<ListNode>(), two words
    Sizes,        \* layout sizes requested
    Aligns,       \* layout alignments requested
    MaxLive       \* bound: blocks allocated at a time

ASSUME HeapAssumption ==
    /\ HeapStart \in Nat /\ HeapSize \in Nat /\ NodeSize \in Nat \ {0}
    /\ HeapSize >= NodeSize
    /\ Sizes \subseteq Nat \ {0} /\ Aligns \subseteq Nat \ {0}
    /\ MaxLive \in Nat

VARIABLES
    free_list,         \* the regions on the list
    allocated_bytes,
    live,              \* the blocks callers hold: region and alignment
    skipped            \* history: the words in front of over-aligned blocks,
                       \* which the code leaves on no list

heapVars == <<free_list, allocated_bytes, live, skipped>>

Region(a, s) == [start |-> a, size |-> s]
End(r) == r.start + r.size
HeapEnd == HeapStart + HeapSize

align_up(a, align) == ((a + align - 1) \div align) * align

(* size_align: padded to the alignment, and never less than a node.        *)
SizeAlign(size, align) ==
    IF align_up(size, align) >= NodeSize THEN align_up(size, align)
    ELSE NodeSize

Predecessors(F, a) == {r \in F : r.start <= a}
Successors(F, a) == {r \in F : r.start > a}

(* The neighbours that add_free_region merges with: the one before when it *)
(* ends at a, the one after when it starts at a + s.                       *)
Left(F, a) == {r \in Predecessors(F, a) :
                 /\ End(r) = a
                 /\ \A q \in Predecessors(F, a) : q.start <= r.start}
Right(F, a, s) == {r \in Successors(F, a) :
                     /\ a + s = r.start
                     /\ \A q \in Successors(F, a) : r.start <= q.start}

(* Mutant: forgets to unlink the region it merged with on the right.       *)
AddFreeRegionKeepsRight(F, a, s) ==
    LET left  == Left(F, a)
        right == Right(F, a, s)
        from  == IF left = {} THEN a ELSE (CHOOSE r \in left : TRUE).start
        to    == IF right = {} THEN a + s ELSE End(CHOOSE r \in right : TRUE)
    IN  (F \ left) \cup {Region(from, to - from)}

add_free_region(F, a, s) ==
    LET left  == Left(F, a)
        right == Right(F, a, s)
        from  == IF left = {} THEN a ELSE (CHOOSE r \in left : TRUE).start
        to    == IF right = {} THEN a + s ELSE End(CHOOSE r \in right : TRUE)
    IN  (F \ (left \cup right)) \cup {Region(from, to - from)}

(* allocate_from: the request fits, and the rest behind it is nothing or   *)
(* can hold a node.                                                        *)
allocate_from(r, size, align) ==
    LET end == align_up(r.start, align) + size
    IN  end <= End(r) /\ (end = End(r) \/ End(r) - end >= NodeSize)

find_region(r, size, align) ==
    /\ r \in free_list
    /\ allocate_from(r, size, align)
    /\ \A q \in free_list :
          allocate_from(q, size, align) => r.start <= q.start

HeapInit ==
    /\ free_list = {Region(HeapStart, HeapSize)}
    /\ allocated_bytes = 0
    /\ live = {}
    /\ skipped = 0

(* allocate_layout: a request no region satisfies returns null and changes *)
(* nothing.                                                                *)
Allocate(layoutSize, align) ==
    LET size == SizeAlign(layoutSize, align) IN
    /\ Cardinality(live) < MaxLive                                  \* bound
    /\ \E r \in free_list :
        LET start == align_up(r.start, align)
            rest  == free_list \ {r}
            end   == start + size
        IN  /\ find_region(r, size, align)
            /\ free_list' = IF End(r) > end
                            THEN add_free_region(rest, end, End(r) - end)
                            ELSE rest
            /\ allocated_bytes' = allocated_bytes + size
            /\ live' = live \cup {[start |-> start, size |-> layoutSize,
                                   align |-> align]}
            /\ skipped' = skipped + (start - r.start)

Padded(b) == SizeAlign(b.size, b.align)

(* Mutant: returns the unpadded size to the list.                          *)
DeallocateUnpadded(b) ==
    /\ b \in live
    /\ allocated_bytes' = allocated_bytes - b.size
    /\ free_list' = add_free_region(free_list, b.start, b.size)
    /\ live' = live \ {b}
    /\ UNCHANGED skipped

Deallocate(b) ==
    /\ b \in live
    /\ allocated_bytes' = allocated_bytes - Padded(b)
    /\ free_list' = add_free_region(free_list, b.start, Padded(b))
    /\ live' = live \ {b}
    /\ UNCHANGED skipped

HeapNext ==
    \/ \E s \in Sizes, a \in Aligns : Allocate(s, a)
    \/ \E b \in live : Deallocate(b)

HeapSpec == HeapInit /\ [][HeapNext]_heapVars

-----------------------------------------------------------------------------
(* Properties.                                                             *)

Blocks == {Region(b.start, Padded(b)) : b \in live}
Disjoint(r, q) == End(r) <= q.start \/ End(q) <= r.start

(* No word is handed out twice, or handed out and free at once; blocks lie *)
(* in the heap and are aligned, and every free region can describe itself  *)
(* as a node.  "fusiona bloques contiguos": no two free regions touch, so  *)
(* the list holds no fragmentation that freeing could have undone.         *)
Exclusive ==
    /\ \A r, q \in free_list \cup Blocks : r # q => Disjoint(r, q)
    /\ \A r \in free_list \cup Blocks :
        r.start >= HeapStart /\ r.size >= NodeSize /\ End(r) <= HeapEnd
    /\ \A b \in live : b.start % b.align = 0
    /\ \A r, q \in free_list : End(r) # q.start

(* used() is the size of the live blocks, whatever the order of frees, and *)
(* as long as no block was aligned beyond the start of its region, free()  *)
(* is what the list holds, after any splits and merges.                    *)
Accounted ==
    /\ allocated_bytes = MapThenSumSet(LAMBDA r : r.size, Blocks)
    /\ skipped = 0 => HeapSize - allocated_bytes
                         = MapThenSumSet(LAMBDA r : r.size, free_list)

(* "assert_eq!(allocator.free(), allocator.sum_free_bytes())": what free() *)
(* counts in O(1) is on the list.  The code does not keep it: the words    *)
(* that allocate_layout skips to align a block go back to no list.         *)
FreeIsTheList ==
    HeapSize - allocated_bytes = MapThenSumSet(LAMBDA r : r.size, free_list)
=============================================================================
