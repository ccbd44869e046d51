------------------------------- MODULE Paging -------------------------------
(***************************************************************************)
(* The page tables and the frame allocator of the x86_64 kernel            *)
(* (kernel/src/memory.rs) and who uses them: the boot, which maps the      *)
(* heap, the program of init and the user stacks, and afterwards, behind   *)
(* MEMORY_CONTROLLER, the system calls mmap, munmap and spawn and the      *)
(* drivers' buffers and registers.  All threads share one address space.   *)
(*                                                                         *)
(* Pages are numbered.  The entries above the last level are pairs of a    *)
(* level and the number of the page divided by Fanout^level, so that the   *)
(* path of a page is arithmetic as in table_index.  A frame is its place   *)
(* in usable_frames(); the allocator hands them out in that order and      *)
(* takes none back.                                                        *)
(***************************************************************************)
EXTENDS Integers, Sequences, FiniteSets, SequencesExt

CONSTANTS
    Frames,       \* how many usable frames the memory map has
    Gaps,         \* places after which the next frame is not adjacent
    Fanout,       \* entries of a table, 512
    Huge,         \* entries the boot loader made huge pages
    Boots,        \* sequences of jobs the boot may have to do
    MmapBase,     \* the first page sys_mmap hands out
    PageLimit,    \* bound: pages below it are handed out
    MmapSizes,    \* page counts asked of mmap
    UserPages,    \* pages validate_user_ptr lets munmap name
    MmioPages,    \* pages at the physical offset of device registers
    DmaSizes      \* frame counts drivers ask for

Levels == 1 .. 3
Path(p) == {<<l, p \div Fanout ^ l>> : l \in Levels}

(* The jobs of the boot: the pages of the heap or of a stack, a segment of *)
(* the program with the flags its pages end with, a driver's buffer.       *)
PageJobs == [kind : {"heap", "stack"}, todo : Seq(Nat), pages : SUBSET Nat]
SegmentJobs == [kind : {"segment"}, todo : Seq(Nat), pages : SUBSET Nat,
                w : BOOLEAN, x : BOOLEAN]
BufferJobs == [kind : {"dma"}, todo : Seq(Nat), pages : SUBSET Nat,
               count : Nat \ {0}]
Jobs == UNION {Range(b) : b \in Boots}
PagesOf(k) == UNION {j.pages : j \in {i \in Jobs : i.kind = k}}

(* The heap, the program, the stacks, the registers and what mmap hands    *)
(* out have addresses of their own: HEAP_START, the base programs are      *)
(* linked at, USER_STACK_TOP, the physical offset, MMAP_BASE.              *)
ASSUME PagingAssumption ==
    /\ Frames \in Nat /\ Fanout \in Nat \ {0}
    /\ MmapBase \in Nat /\ PageLimit \in Nat
    /\ MmapSizes \subseteq Nat \ {0} /\ DmaSizes \subseteq Nat \ {0}
    /\ MmioPages \subseteq Nat \ (MmapBase .. PageLimit)
    /\ MmioPages \cap UserPages = {}
    /\ \A b \in Boots : b \in Seq(Jobs)
    /\ \A j \in Jobs :
        /\ j \in PageJobs \cup SegmentJobs \cup BufferJobs
        /\ Range(j.todo) \subseteq j.pages
        /\ j.pages \cap (MmapBase .. PageLimit) = {}
        /\ j \in PageJobs => j.todo # <<>>
    /\ PagesOf("heap") \cap PagesOf("segment") = {}

VARIABLES
    next,       \* FrameAllocator::next
    tables,     \* the entries above the last level: frame and USER bit
    leaf,       \* the entries of the last level: frame, USER, WRITABLE, X
    boot,       \* what the boot still has to do
    job,        \* the loop over pages under way, with the pages it has left
    mmapNext,   \* MMAP_NEXT
    owned,      \* history: pages mmap and spawn returned, not unmapped since
    leftover,   \* history: pages of calls that ran out of frames
    dma         \* history: frames given to devices

pagingVars ==
    <<next, tables, leaf, boot, job, mmapNext, owned, leftover, dma>>
history == <<owned, leftover, dma>>

NoJob == [kind |-> "none", todo |-> <<>>, pages |-> {}]
Panic == [kind |-> "panic", todo |-> <<>>, pages |-> {}]

Flags(u, w, x) == [user |-> u, w |-> w, x |-> x]
KernelData == Flags(FALSE, TRUE, TRUE)    \* PRESENT | WRITABLE
UserData == Flags(TRUE, TRUE, TRUE)       \* PRESENT | WRITABLE | USER
Entry(f, fl) == [frame |-> f, user |-> fl.user, w |-> fl.w, x |-> fl.x]

PagingInit ==
    /\ next = 0
    /\ tables = <<>> /\ leaf = <<>>
    /\ boot \in Boots
    /\ job = NoJob
    /\ mmapNext = MmapBase
    /\ owned = {} /\ leftover = {} /\ dma = {}

-----------------------------------------------------------------------------
(* Mapper                                                                  *)

Blocked(p) == Path(p) \cap Huge # {}

(* translate: a huge page ends the walk, and the page is mapped.           *)
Translated(p) == Blocked(p) \/ p \in DOMAIN leaf

(* The entries map meets before it stops at a huge page.                   *)
Walked(p) == {q \in Path(p) : \A h \in Path(p) \cap Huge : q[1] > h[1]}

(* The tables map has to create, from the top down, taking frames n, n + 1 *)
(* and so on; those it creates before the frames run out.                  *)
Missing(p) == IF Blocked(p) THEN {} ELSE Path(p) \ DOMAIN tables
Rank(p, q) == Cardinality({r \in Missing(p) : r[1] > q[1]})
Created(p, n) == {q \in Missing(p) : n + Rank(p, q) < Frames}

MapOk(p, n) ==
    ~Blocked(p) /\ Created(p, n) = Missing(p) /\ p \notin DOMAIN leaf

(* Mutant: the USER bit is not opened in tables that exist.                *)
MapClosed(p, f, fl, n) ==
    LET new == Created(p, n) IN
    /\ tables' = [q \in DOMAIN tables \cup new |->
                    IF q \in new
                    THEN [frame |-> n + Rank(p, q), user |-> fl.user]
                    ELSE tables[q]]
    /\ leaf' = IF MapOk(p, n)
               THEN [r \in DOMAIN leaf \cup {p} |->
                       IF r = p THEN Entry(f, fl) ELSE leaf[r]]
               ELSE leaf
    /\ next' = n + Cardinality(new) + (IF new = Missing(p) THEN 0 ELSE 1)

(* map: walks down creating the tables that are missing, opens the USER    *)
(* bit on the way, and fails at a huge page, when frames run out, leaving  *)
(* the tables it made, and on a page that is mapped.                       *)
Map(p, f, fl, n) ==
    LET new == Created(p, n) IN
    /\ tables' = [q \in DOMAIN tables \cup new |->
                    IF q \in new
                    THEN [frame |-> n + Rank(p, q), user |-> fl.user]
                    ELSE IF q \in Walked(p) /\ fl.user
                    THEN [tables[q] EXCEPT !.user = TRUE]
                    ELSE tables[q]]
    /\ leaf' = IF MapOk(p, n)
               THEN [r \in DOMAIN leaf \cup {p} |->
                       IF r = p THEN Entry(f, fl) ELSE leaf[r]]
               ELSE leaf
    /\ next' = n + Cardinality(new) + (IF new = Missing(p) THEN 0 ELSE 1)

(* unmap of several pages; a page that is not mapped is an error that      *)
(* munmap_user_pages drops.                                                *)
Unmap(P) ==
    leaf' = [p \in {r \in DOMAIN leaf : r \notin P \/ Blocked(r)} |-> leaf[p]]

-----------------------------------------------------------------------------
(* FrameAllocator                                                          *)

AllocatedOk(p) == next < Frames /\ MapOk(p, next + 1)

(* Mutant: the allocator advances after the tables have been made.         *)
AllocateAndMapTwice(p, fl) ==
    IF next < Frames
    THEN Map(p, next, fl, next)
    ELSE next' = next + 1 /\ UNCHANGED <<tables, leaf>>

(* allocate, then map the frame; allocate counts even when it has none.    *)
AllocateAndMap(p, fl) ==
    IF next < Frames
    THEN Map(p, next, fl, next + 1)
    ELSE next' = next + 1 /\ UNCHANGED <<tables, leaf>>

(* allocate_contiguous: skips frames up to a run of n adjacent ones, and   *)
(* gives up, staying there, when the frames end inside one.                *)
FirstRun(n) ==
    CHOOSE k \in next .. (next + Frames) :
        /\ \A i \in k .. (k + n - 2) : i < Frames - 1 => i \notin Gaps
        /\ \A j \in next .. (k - 1) :
              \E i \in j .. (j + n - 2) : i < Frames - 1 /\ i \in Gaps
AllocateContiguous(n) ==
    LET k == FirstRun(n) IN
    IF k + n <= Frames
    THEN next' = k + n /\ dma' = dma \cup (k .. (k + n - 1))
    ELSE next' = k /\ UNCHANGED dma

-----------------------------------------------------------------------------
(* Loops over pages: one action per page.                                  *)

NextJob ==
    /\ job = NoJob /\ boot # <<>>
    /\ boot' = Tail(boot)
    /\ job' = Head(boot)
    /\ UNCHANGED <<next, tables, leaf, mmapNext, history>>

Finish == job' = IF Tail(job.todo) = <<>> THEN NoJob
                 ELSE [job EXCEPT !.todo = Tail(@)]

(* init_heap and map_user_stack_at; the caller expects them to succeed.    *)
BootPage ==
    /\ job.kind \in {"heap", "stack"}
    /\ LET p == Head(job.todo) IN
        /\ AllocateAndMap(p, IF job.kind = "heap" THEN KernelData ELSE UserData)
        /\ IF AllocatedOk(p) THEN Finish ELSE job' = Panic
    /\ UNCHANGED <<boot, mmapNext, history>>

(* load_segment, first loop: pages another segment mapped are kept.        *)
SegmentPage ==
    /\ job.kind = "segment" /\ job.todo # <<>>
    /\ LET p == Head(job.todo) IN
        IF Translated(p)
        THEN /\ job' = [job EXCEPT !.todo = Tail(@)]
             /\ UNCHANGED <<next, tables, leaf>>
        ELSE /\ AllocateAndMap(p, UserData)
             /\ job' = IF AllocatedOk(p) THEN [job EXCEPT !.todo = Tail(@)]
                       ELSE Panic
    /\ UNCHANGED <<boot, mmapNext, history>>

(* load_segment, second loop: update_flags of every page of the segment.   *)
SegmentFlags ==
    /\ job.kind = "segment" /\ job.todo = <<>>
    /\ leaf' = [p \in DOMAIN leaf |->
                  IF p \in job.pages
                  THEN Entry(leaf[p].frame, Flags(TRUE, job.w, job.x))
                  ELSE leaf[p]]
    /\ job' = NoJob
    /\ UNCHANGED <<next, tables, boot, mmapNext, history>>

(* The buffers of a boot-time driver.                                      *)
BootDma ==
    /\ job.kind = "dma"
    /\ AllocateContiguous(job.count)
    /\ job' = NoJob
    /\ UNCHANGED <<tables, leaf, boot, mmapNext, owned, leftover>>

Panicked == job = Panic /\ UNCHANGED pagingVars

-----------------------------------------------------------------------------
(* After init_memory_controller.                                           *)

Ready == job = NoJob /\ boot = <<>>

(* sys_mmap, and sys_spawn for the stack of the new process: the addresses *)
(* are taken before the frames.                                            *)
Mmap(n) ==
    /\ Ready /\ mmapNext + n <= PageLimit                            \* bound
    /\ mmapNext' = mmapNext + n
    /\ job' = [kind |-> "mmap", pages |-> mmapNext .. (mmapNext + n - 1),
               todo |-> [i \in 1 .. n |-> mmapNext + i - 1]]
    /\ UNCHANGED <<next, tables, leaf, boot, history>>

(* Mutant: goes on to the next page when one failed.                       *)
MmapPageGoesOn ==
    /\ job.kind = "mmap"
    /\ LET p == Head(job.todo) IN
        /\ AllocateAndMap(p, UserData)
        /\ Finish
        /\ owned' = IF Tail(job.todo) = <<>> THEN owned \cup job.pages
                    ELSE owned
        /\ UNCHANGED leftover
    /\ UNCHANGED <<boot, mmapNext, dma>>

(* mmap_user_pages: ENOMEM at the first page without a frame or tables;    *)
(* the pages mapped before it stay mapped.                                 *)
MmapPage ==
    /\ job.kind = "mmap"
    /\ LET p == Head(job.todo) IN
        /\ AllocateAndMap(p, UserData)
        /\ IF AllocatedOk(p)
           THEN /\ Finish
                /\ owned' = IF Tail(job.todo) = <<>> THEN owned \cup job.pages
                            ELSE owned
                /\ UNCHANGED leftover
           ELSE /\ job' = NoJob
                /\ leftover' = leftover \cup {q \in job.pages : q < p}
                /\ UNCHANGED owned
    /\ UNCHANGED <<boot, mmapNext, dma>>

(* sys_munmap: any pages below the user limit, its own or not.             *)
Munmap(p, n) ==
    LET P == p .. (p + n - 1) IN
    /\ Ready /\ P \subseteq UserPages
    /\ Unmap(P)
    /\ owned' = owned \ P /\ leftover' = leftover \ P
    /\ UNCHANGED <<next, tables, boot, job, mmapNext, dma>>

(* allocate_dma_frame and allocate_dma_frames.                             *)
Dma(n) ==
    /\ Ready /\ next <= Frames                                       \* bound
    /\ IF n = 1
       THEN /\ next' = next + 1
            /\ dma' = IF next < Frames THEN dma \cup {next} ELSE dma
       ELSE AllocateContiguous(n)
    /\ UNCHANGED <<tables, leaf, boot, job, mmapNext, owned, leftover>>

(* ensure_mmio_mapped: the page of the registers is no usable frame.       *)
Mmio(p) ==
    /\ Ready /\ ~Translated(p) /\ next <= Frames                     \* bound
    /\ Map(p, Frames + p, KernelData, next)
    /\ UNCHANGED <<boot, job, mmapNext, history>>

PagingNext ==
    \/ NextJob \/ BootPage \/ SegmentPage \/ SegmentFlags \/ BootDma
    \/ Panicked
    \/ \E n \in MmapSizes : Mmap(n)
    \/ MmapPage
    \/ \E p \in UserPages, n \in MmapSizes : Munmap(p, n)
    \/ \E n \in DmaSizes : Dma(n)
    \/ \E p \in MmioPages : Mmio(p)

PagingSpec == PagingInit /\ [][PagingNext]_pagingVars

-----------------------------------------------------------------------------
(* Properties.                                                             *)

(* "Si frame ya esta en uso para otra cosa, se crea aliasing invisible     *)
(* para Rust": no frame is at once two pages, two tables, a page and a     *)
(* table, or either and a device's buffer, whatever ran out of frames and  *)
(* was unmapped on the way.                                                *)
OwnFrames ==
    /\ \A p, q \in DOMAIN leaf :
          leaf[p].frame = leaf[q].frame => p = q
    /\ \A p, q \in DOMAIN tables :
          tables[p].frame = tables[q].frame => p = q
    /\ \A p \in DOMAIN leaf, q \in DOMAIN tables :
          leaf[p].frame # tables[q].frame
    /\ \A d \in dma :
        /\ \A p \in DOMAIN leaf : leaf[p].frame # d
        /\ \A q \in DOMAIN tables : tables[q].frame # d

(* "la CPU exige el bit de usuario en TODOS los niveles del camino": every *)
(* table on the way to a user page exists and lets the user through, also  *)
(* when a kernel page made the table first.                                *)
UserPathIsOpen ==
    \A p \in DOMAIN leaf : \A q \in Path(p) :
        q \in DOMAIN tables /\ (leaf[p].user => tables[q].user)

(* mmap keeps its word: the pages it returned are mapped for the user      *)
(* until munmap takes them, and no other page of its range is mapped, but  *)
(* for those of calls that failed for want of frames in the middle, which  *)
(* nobody owns and nothing frees.                                          *)
MmapKeepsItsWord ==
    /\ \A p \in owned : p \in DOMAIN leaf /\ leaf[p].user /\ leaf[p].w
    /\ \A p \in DOMAIN leaf \cap (MmapBase .. PageLimit) :
          p \in owned \cup leftover \cup job.pages
=============================================================================
