------------------------------ MODULE MCKernel ------------------------------
(* The kernel under its entry points, in one run: the threads of the       *)
(* scheduler, the tasks of the executor, the heap, the page tables and the *)
(* spin locks.  Each has its own variables and no property here speaks of  *)
(* two of them, so each is explored with the others at rest.               *)
(*                                                                         *)
(* Memory: two entries to a table.  Pages 0 and 1 are the heap's, 2 to 4   *)
(* the program's, 5 the stack's, 6 to 11 mmap's; 12 and 13 lie under a     *)
(* huge page, 14 and 15 are registers.                                     *)
EXTENDS Scheduler, AsyncRuntime, Heap, Paging, SpinLock

VARIABLE moving    \* the part of the kernel this behaviour is about

Parts == {"threads", "tasks", "heap", "pages", "locks"}

vars == <<schedVars, runtimeVars, heapVars, pagingVars, spinVars, moving>>

(* The other parts while one of them moves.                                *)
ThreadsMove ==
    /\ moving = "threads"
    /\ UNCHANGED <<runtimeVars, heapVars, pagingVars, spinVars, moving>>
TasksMove ==
    /\ moving = "tasks"
    /\ UNCHANGED <<schedVars, heapVars, pagingVars, spinVars, moving>>
HeapMoves ==
    /\ moving = "heap"
    /\ UNCHANGED <<schedVars, runtimeVars, pagingVars, spinVars, moving>>
PagesMove ==
    /\ moving = "pages"
    /\ UNCHANGED <<schedVars, runtimeVars, heapVars, spinVars, moving>>
LocksMove ==
    /\ moving = "locks"
    /\ UNCHANGED <<schedVars, runtimeVars, heapVars, pagingVars, moving>>

Init ==
    /\ SchedInit /\ RuntimeInit /\ HeapInit /\ PagingInit /\ LockInit
    /\ moving \in Parts
    /\ moving # "tasks" => ready = <<Reader, Sleeper>>
    /\ moving # "pages" => boot = CHOOSE b \in Boots : TRUE
    /\ moving # "locks" => cur = CHOOSE k \in Kernel : TRUE

(* Threads and tasks alone may stop for good: a hung kernel, or a machine  *)
(* that waits for interrupts once their bounds are reached.                *)
Stopped == moving \in {"threads", "tasks"} /\ UNCHANGED vars

Next ==
    \/ ThreadsMove /\ SchedNext
    \/ TasksMove /\ RuntimeNext
    \/ HeapMoves /\ HeapNext
    \/ PagesMove /\ PagingNext
    \/ LocksMove /\ LockNext
    \/ Stopped

(* The fairness of SchedFairSpec and RuntimeFairSpec.                      *)
Spec ==
    /\ Init /\ [][Next]_vars
    /\ WF_vars(ThreadsMove /\ Activate) /\ WF_vars(ThreadsMove /\ Tick)
    /\ WF_vars(TasksMove /\ Executor)

Job(k, s) == [kind |-> k, todo |-> s, pages |-> Range(s)]
Segment(s, w, x) ==
    [kind |-> "segment", todo |-> s, pages |-> Range(s), w |-> w, x |-> x]
DmaJob(n) == [kind |-> "dma", todo |-> <<>>, pages |-> {}, count |-> n]

Apart == <<Segment(<<2>>, FALSE, TRUE), Segment(<<3, 4>>, TRUE, FALSE)>>
Sharing == <<Segment(<<2, 3>>, FALSE, TRUE), Segment(<<3, 4>>, TRUE, FALSE)>>

(* The last of the drivers' buffers leaves too few frames for the boot.    *)
MCBoots ==
    {<<Job("heap", <<0, 1>>)>> \o d \o program \o <<Job("stack", <<5>>)>> :
        d \in {<<>>, <<DmaJob(2)>>, <<DmaJob(6)>>},
        program \in {Apart, Sharing}}
MCHuge == {<<1, 6>>}
=============================================================================
