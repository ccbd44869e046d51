------------------------------ MODULE Scheduler ------------------------------
(***************************************************************************)
(* The round-robin preemptive scheduler of the antOS kernel                *)
(* (kernel/src/task/scheduler.rs with the TCB and PCB of task/pcb.rs).     *)
(*                                                                         *)
(* Every public function takes the global SCHEDULER lock with interrupts   *)
(* disabled, so each is one atomic action.  The machine has one CPU; its   *)
(* register file is abstracted to the number of steps that the thread it   *)
(* belongs to had taken when the registers were last loaded or advanced.   *)
(***************************************************************************)
EXTENDS Integers, Sequences

CONSTANTS
    MaxTid,    \* bound: threads are 0 .. MaxTid (NEXT_TID is a 64-bit counter)
    MaxPid,    \* bound: processes are 0 .. MaxPid
    Quantum,   \* DEFAULT_QUANTUM_TICKS
    Roots,     \* page table roots a process may be given (non-zero addresses)
    MaxWork,   \* bound: steps of its own a thread takes
    FullApi    \* FALSE: only the operations that the kernel calls today;
               \* TRUE: also spawn_thread, yield_current, exit_current and the
               \* blocking operations, public but called by tests alone

ASSUME SchedulerAssumption ==
    /\ MaxTid \in Nat /\ MaxPid \in Nat /\ MaxWork \in Nat
    /\ Quantum \in Nat \ {0}
    /\ Roots \subseteq Nat \ {0}
    /\ FullApi \in BOOLEAN

Tids == 0 .. MaxTid
Pids == 0 .. MaxPid
NoTid == -1
NoStack == -1
BootStack == 0     \* the stack the kernel boots on, never owned by the pool

VARIABLES
    tstate,        \* TCB.state; "none" while the id is not in the map
    tpid,          \* TCB.pid
    ksp,           \* TCB.kernel_sp
    slice,         \* TCB.time_slice
    saved,         \* TCB.context
    pstate,        \* PCB.state, "none" while the id is not in the map
    root,          \* PCB.page_table_root, 0 for none
    ready_queue, current, active,
    stack_pool,    \* recycled stack tops, reused last in first out
    nstacks,       \* owned_stacks is 1 .. nstacks
    pending,       \* pending_free_stack
    next_tid, next_pid,
    cr3,           \* the page table the CPU translates with
    rsp0,          \* the stack the next interrupt from ring 3 lands on
    ctx,           \* the CPU registers
    work,          \* history: the steps each thread has really taken
    hung           \* the CPU spins on a TCB lock that it holds itself

threadVars == <<tstate, tpid, ksp, slice, saved>>
procVars   == <<pstate, root>>
stackVars  == <<stack_pool, nstacks, pending>>
cpuVars    == <<cr3, rsp0, ctx>>
idVars     == <<next_tid, next_pid>>
schedVars == <<threadVars, procVars, ready_queue, current, active, stackVars,
          idVars, cpuVars, work, hung>>

ThreadStates == {"none", "Ready", "Running", "Blocked", "Terminated"}
Live(t) == tstate[t] \notin {"none", "Terminated"}

(* The boot code is what tick 0 captures as thread 0.                      *)
Runner == IF current = NoTid THEN 0 ELSE current

(* A terminated thread spins in `sti; hlt` and calls nothing.              *)
Executing == ~hung /\ tstate[Runner] # "Terminated"

SchedInit ==
    /\ tstate = [t \in Tids |-> "none"]
    /\ tpid = [t \in Tids |-> 0]
    /\ ksp = [t \in Tids |-> BootStack]
    /\ slice = [t \in Tids |-> Quantum]
    /\ saved = [t \in Tids |-> 0]
    /\ pstate = [p \in Pids |-> "none"]
    /\ root = [p \in Pids |-> 0]
    /\ ready_queue = <<>> /\ current = NoTid /\ active = FALSE
    /\ stack_pool = <<>> /\ nstacks = 0 /\ pending = NoStack
    /\ next_tid = 1 /\ next_pid = 1
    /\ cr3 = 0 /\ rsp0 = BootStack /\ ctx = 0
    /\ work = [t \in Tids |-> 0]
    /\ hung = FALSE

-----------------------------------------------------------------------------
(* Selecting and switching.                                                *)

(* The page table after a switch to a thread of process p: none is loaded  *)
(* for a process without a root.                                           *)
LoadRoot(p) == IF root[p] # 0 THEN root[p] ELSE cr3

(* Mutant: also skips the reload when it leaves a kernel thread.           *)
RootForSwitchLazy(n) ==
    IF current # NoTid /\ (tpid[n] = tpid[current] \/ root[tpid[current]] = 0)
    THEN cr3 ELSE LoadRoot(tpid[n])

(* pick_and_switch_next reloads it only when the process changes.          *)
RootForSwitch(n) ==
    IF current # NoTid /\ tpid[n] = tpid[current] THEN cr3 ELSE LoadRoot(tpid[n])

(* exit_current_syscall reloads it on every switch.                        *)
RootAfterExit(n) == LoadRoot(tpid[n])

(* drain_pending_stack, with pf the stack awaiting recycling.              *)
DrainPendingStack(pf) ==
    /\ stack_pool' = IF pf = NoStack THEN stack_pool ELSE Append(stack_pool, pf)
    /\ pending' = NoStack

(* Mutant: recycles although the CPU stays on the stack.                   *)
NoneReadyDrains(q, st, sl, sv, pf) ==
    /\ \A i \in 1 .. Len(q) : st[q[i]] # "Ready"
    /\ ready_queue' = <<>>
    /\ tstate' = st /\ slice' = sl /\ saved' = sv
    /\ DrainPendingStack(pf)
    /\ UNCHANGED <<current, cpuVars, hung>>

(* Nothing in q is ready: the queue is left empty and the CPU goes on with *)
(* the current thread.                                                     *)
NoneReady(q, st, sl, sv, pf) ==
    /\ \A i \in 1 .. Len(q) : st[q[i]] # "Ready"
    /\ ready_queue' = <<>>
    /\ tstate' = st /\ slice' = sl /\ saved' = sv /\ pending' = pf
    /\ UNCHANGED <<current, cpuVars, stack_pool, hung>>

(* Mutant: any ready entry.                                                *)
AnyReady(q, st, i) == st[q[i]] = "Ready"
(* The first ready entry of q is position i; the stale ones before it are  *)
(* dropped.  The pick holds that thread's TCB lock when it locks the       *)
(* current thread's to read its pid: if they are one thread it spins on    *)
(* itself for ever.                                                        *)
FirstReady(q, st, i) ==
    /\ st[q[i]] = "Ready"
    /\ \A j \in 1 .. i - 1 : st[q[j]] # "Ready"

SwitchTo(n, st, sl, sv, pf, page) ==
    /\ tstate' = [st EXCEPT ![n] = "Running"]
    /\ slice' = [sl EXCEPT ![n] = Quantum]
    /\ saved' = sv
    /\ ctx' = sv[n]
    /\ rsp0' = ksp[n]
    /\ cr3' = page
    /\ current' = n
    /\ DrainPendingStack(pf)
    /\ UNCHANGED hung

LockItself(st, sl, sv, pf) ==
    /\ hung' = TRUE
    /\ tstate' = st /\ slice' = sl /\ saved' = sv /\ pending' = pf
    /\ UNCHANGED <<current, cpuVars, stack_pool>>

(* pick_and_switch_next on the queue q, thread states st, slices sl, saved *)
(* contexts sv and pending stack pf that its caller leaves.                *)
PickAndSwitchNext(q, st, sl, sv, pf) ==
    \/ NoneReady(q, st, sl, sv, pf)
    \/ \E i \in 1 .. Len(q) :
        /\ FirstReady(q, st, i)
        /\ ready_queue' = SubSeq(q, i + 1, Len(q))
        /\ IF q[i] = current THEN LockItself(st, sl, sv, pf)
           ELSE SwitchTo(q[i], st, sl, sv, pf, RootForSwitch(q[i]))

(* The pick loop that exit_current_syscall has of its own: it does not     *)
(* look at the current thread.                                             *)
PickAfterExit(q, st, pf) ==
    \/ NoneReady(q, st, slice, saved, pf)
    \/ \E i \in 1 .. Len(q) :
        /\ FirstReady(q, st, i)
        /\ ready_queue' = SubSeq(q, i + 1, Len(q))
        /\ SwitchTo(q[i], st, slice, saved, pf, RootAfterExit(q[i]))

-----------------------------------------------------------------------------
(* Spawning.                                                               *)

(* alloc_kernel_stack, for the new thread t.  Every caller passes          *)
(* kernel_sp = 0.                                                          *)
AllocKernelStack(t) ==
    IF stack_pool # <<>>
    THEN /\ ksp' = [ksp EXCEPT ![t] = stack_pool[Len(stack_pool)]]
         /\ stack_pool' = SubSeq(stack_pool, 1, Len(stack_pool) - 1)
         /\ UNCHANGED nstacks
    ELSE /\ ksp' = [ksp EXCEPT ![t] = nstacks + 1]
         /\ nstacks' = nstacks + 1
         /\ UNCHANGED stack_pool

NewThread(t, p) ==
    /\ AllocKernelStack(t)
    /\ tstate' = [tstate EXCEPT ![t] = "Ready"]
    /\ tpid' = [tpid EXCEPT ![t] = p]
    /\ slice' = [slice EXCEPT ![t] = Quantum]
    /\ saved' = [saved EXCEPT ![t] = 0]
    /\ ready_queue' = Append(ready_queue, t)
    /\ next_tid' = t + 1
    /\ UNCHANGED <<current, active, pending, cpuVars, work, hung>>

SpawnProcess(r) ==
    /\ Executing
    /\ next_tid \in Tids /\ next_pid \in Pids       \* bounds
    /\ NewThread(next_tid, next_pid)
    /\ pstate' = [pstate EXCEPT ![next_pid] = "Ready"]
    /\ root' = [root EXCEPT ![next_pid] = r]
    /\ next_pid' = next_pid + 1

(* An unknown pid is refused; a terminated process is not.                 *)
SpawnThread(p) ==
    /\ FullApi /\ Executing
    /\ pstate[p] # "none"
    /\ next_tid \in Tids                            \* bound
    /\ NewThread(next_tid, p)
    /\ UNCHANGED <<procVars, next_pid>>

-----------------------------------------------------------------------------
(* Time.                                                                   *)

Activate ==
    /\ Executing
    /\ ~active
    /\ active' = TRUE
    /\ UNCHANGED <<threadVars, procVars, ready_queue, current, stackVars,
                   idVars, cpuVars, work, hung>>

(* The first tick captures the interrupted boot code as thread 0 of the    *)
(* process "kernel-main".                                                  *)
CaptureKernel ==
    /\ current = NoTid
    /\ tpid' = [tpid EXCEPT ![0] = 0]
    /\ ksp' = [ksp EXCEPT ![0] = BootStack]
    /\ pstate' = [pstate EXCEPT ![0] = "Ready"]
    /\ root' = [root EXCEPT ![0] = 0]
    /\ PickAndSwitchNext(Append(ready_queue, 0),
                         [tstate EXCEPT ![0] = "Ready"],
                         [slice EXCEPT ![0] = Quantum],
                         [saved EXCEPT ![0] = ctx],
                         pending)

(* Mutant: takes a tick off a slice that may be used up.                   *)
KeepRunningUnderflow(sl) ==
    /\ current # NoTid
    /\ tstate[current] = "Running"
    /\ ready_queue # <<>>
    /\ slice' = [sl EXCEPT ![current] = sl[current] - 1]
    /\ UNCHANGED <<tstate, saved, tpid, ksp, procVars, ready_queue, current,
                   stack_pool, pending, cpuVars, hung>>

(* The quantum rule, sl being the slices when the tick looks at them.      *)
KeepRunning(sl) ==
    /\ current # NoTid
    /\ tstate[current] = "Running"
    /\ \/ /\ sl[current] > 1 /\ ready_queue # <<>>
          /\ slice' = [sl EXCEPT ![current] = sl[current] - 1]
       \/ /\ ready_queue = <<>>
          /\ slice' = [sl EXCEPT ![current] = Quantum]
    /\ UNCHANGED <<tstate, saved, tpid, ksp, procVars, ready_queue, current,
                   stack_pool, pending, cpuVars, hung>>

(* Mutant: does not push the preempted thread back.                            *)
PreemptForgets(sl) ==
    /\ current # NoTid
    /\ tstate[current] = "Running"
    /\ sl[current] <= 1 /\ ready_queue # <<>>
    /\ PickAndSwitchNext(ready_queue,
                         [tstate EXCEPT ![current] = "Ready"],
                         [sl EXCEPT ![current] = Quantum],
                         [saved EXCEPT ![current] = ctx],
                         pending)
    /\ UNCHANGED <<tpid, ksp, procVars>>

(* Mutant: does not save the registers.                                        *)
PreemptUnsaved(sl) ==
    /\ current # NoTid
    /\ tstate[current] = "Running"
    /\ sl[current] <= 1 /\ ready_queue # <<>>
    /\ PickAndSwitchNext(Append(ready_queue, current),
                         [tstate EXCEPT ![current] = "Ready"],
                         [sl EXCEPT ![current] = Quantum],
                         saved,
                         pending)
    /\ UNCHANGED <<tpid, ksp, procVars>>

Preempt(sl) ==
    /\ current # NoTid
    /\ tstate[current] = "Running"
    /\ sl[current] <= 1 /\ ready_queue # <<>>
    /\ PickAndSwitchNext(Append(ready_queue, current),
                         [tstate EXCEPT ![current] = "Ready"],
                         [sl EXCEPT ![current] = Quantum],
                         [saved EXCEPT ![current] = ctx],
                         pending)
    /\ UNCHANGED <<tpid, ksp, procVars>>

(* The current thread terminated or blocked earlier: its context is not    *)
(* saved here.                                                             *)
Replace(sl) ==
    /\ current # NoTid
    /\ tstate[current] # "Running"
    /\ PickAndSwitchNext(ready_queue, tstate, sl, saved, pending)
    /\ UNCHANGED <<tpid, ksp, procVars>>

OnTick(sl) ==
    /\ CaptureKernel \/ KeepRunning(sl) \/ Preempt(sl) \/ Replace(sl)
    /\ UNCHANGED <<active, nstacks, idVars, work>>

Tick == active /\ ~hung /\ OnTick(slice)

(* Mutant: renews the quantum instead of ending it.                        *)
RenewCurrentQuantum ==
    /\ Executing
    /\ current # NoTid
    /\ slice' = [slice EXCEPT ![current] = Quantum]
    /\ UNCHANGED <<tstate, tpid, ksp, saved, procVars, ready_queue, current,
                   active, stackVars, idVars, cpuVars, work, hung>>

(* sys_yield and io_wait: the next tick will switch.                       *)
ExpireCurrentQuantum ==
    /\ Executing
    /\ current # NoTid
    /\ slice' = [slice EXCEPT ![current] = 1]
    /\ UNCHANGED <<tstate, tpid, ksp, saved, procVars, ready_queue, current,
                   active, stackVars, idVars, cpuVars, work, hung>>

YieldCurrent ==
    /\ FullApi /\ Executing /\ active
    /\ OnTick(IF current # NoTid /\ tstate[current] = "Running"
              THEN [slice EXCEPT ![current] = 0] ELSE slice)

(* The thread the registers belong to takes a step of its own.             *)
Work ==
    /\ Executing
    /\ work[Runner] < MaxWork                       \* bound
    /\ ctx' = ctx + 1
    /\ work' = [work EXCEPT ![Runner] = @ + 1]
    /\ UNCHANGED <<threadVars, procVars, ready_queue, current, active,
                   stackVars, idVars, cr3, rsp0, hung>>

-----------------------------------------------------------------------------
(* Terminating.                                                            *)

(* defer_recycle_stack: only a stack of the pool is recycled.              *)
DeferRecycleStack(s) == IF s \in 1 .. nstacks THEN s ELSE pending

AllTerminated(p, st) ==
    \A t \in Tids : st[t] # "none" /\ tpid[t] = p => st[t] = "Terminated"

(* Mutant: looks at the states from before the exit.                       *)
TerminateProcessStale(st) ==
    pstate' = IF AllTerminated(tpid[current], tstate)
              THEN [pstate EXCEPT ![tpid[current]] = "Terminated"] ELSE pstate

TerminateProcess(st) ==
    pstate' = IF AllTerminated(tpid[current], st)
              THEN [pstate EXCEPT ![tpid[current]] = "Terminated"] ELSE pstate

(* With no current thread, before the first switch, exit_current and       *)
(* block_current fall through to the pick, which is what a tick does then. *)
ExitCurrent ==
    /\ FullApi /\ Executing
    /\ current # NoTid
    /\ LET st == [tstate EXCEPT ![current] = "Terminated"] IN
       /\ TerminateProcess(st)
       /\ PickAndSwitchNext(ready_queue, st, slice, saved,
                            DeferRecycleStack(ksp[current]))
    /\ UNCHANGED <<tpid, ksp, root, active, nstacks, idVars, work>>

(* SYS_EXIT; when nothing is ready the thread halts until a tick.          *)
ExitCurrentSyscall ==
    /\ Executing
    /\ current # NoTid
    /\ active
    /\ LET st == [tstate EXCEPT ![current] = "Terminated"] IN
       /\ TerminateProcess(st)
       /\ PickAfterExit(ready_queue, st, DeferRecycleStack(ksp[current]))
    /\ UNCHANGED <<tpid, ksp, root, active, nstacks, idVars, work>>

-----------------------------------------------------------------------------
(* Blocking.                                                               *)

(* ready_queue.retain(|id| id != t): the queue holds t at most once        *)
(* (NoDuplicates below).                                                   *)
Retain(q, t) ==
    IF \E i \in 1 .. Len(q) : q[i] = t
    THEN LET i == CHOOSE k \in 1 .. Len(q) : q[k] = t
         IN  [j \in 1 .. Len(q) - 1 |-> IF j < i THEN q[j] ELSE q[j + 1]]
    ELSE q

BlockThread(t) ==
    /\ FullApi /\ Executing
    /\ tstate[t] \in {"Ready", "Running"}
    /\ tstate' = [tstate EXCEPT ![t] = "Blocked"]
    /\ ready_queue' = Retain(ready_queue, t)
    /\ UNCHANGED <<tpid, ksp, slice, saved, procVars, current, active,
                   stackVars, idVars, cpuVars, work, hung>>

BlockCurrent ==
    /\ FullApi /\ Executing
    /\ current # NoTid
    /\ IF tstate[current] = "Running"
       THEN PickAndSwitchNext(ready_queue,
                              [tstate EXCEPT ![current] = "Blocked"], slice,
                              [saved EXCEPT ![current] = ctx], pending)
       ELSE PickAndSwitchNext(ready_queue, tstate, slice, saved, pending)
    /\ UNCHANGED <<tpid, ksp, procVars, active, nstacks, idVars, work>>

(* A wakeup may come from an interrupt handler at any time.                *)
UnblockThread(t) ==
    /\ FullApi /\ ~hung
    /\ tstate[t] = "Blocked"
    /\ tstate' = [tstate EXCEPT ![t] = "Ready"]
    /\ slice' = [slice EXCEPT ![t] = Quantum]
    /\ ready_queue' = Append(ready_queue, t)
    /\ UNCHANGED <<tpid, ksp, saved, procVars, current, active, stackVars,
                   idVars, cpuVars, work, hung>>

-----------------------------------------------------------------------------
SchedNext ==
    \/ \E r \in Roots \cup {0} : SpawnProcess(r)
    \/ \E p \in Pids : SpawnThread(p)
    \/ Activate \/ Tick \/ ExpireCurrentQuantum \/ YieldCurrent \/ Work
    \/ ExitCurrent \/ ExitCurrentSyscall \/ BlockCurrent
    \/ \E t \in Tids : BlockThread(t) \/ UnblockThread(t)

SchedSpec == SchedInit /\ [][SchedNext]_schedVars

(* The boot code activates the scheduler, and the timer keeps ticking.     *)
SchedFairSpec == SchedSpec /\ WF_schedVars(Activate) /\ WF_schedVars(Tick)
-----------------------------------------------------------------------------
TypeOK ==
    /\ tstate \in [Tids -> ThreadStates]
    /\ tpid \in [Tids -> Pids]
    /\ ksp \in [Tids -> Nat]
    /\ slice \in [Tids -> Nat]
    /\ saved \in [Tids -> Nat]
    /\ pstate \in [Pids -> {"none", "Ready", "Terminated"}]
    /\ root \in [Pids -> Roots \cup {0}]
    /\ ready_queue \in Seq(Tids)
    /\ current \in Tids \cup {NoTid}
    /\ active \in BOOLEAN
    /\ stack_pool \in Seq(Nat)
    /\ nstacks \in Nat
    /\ pending \in Nat \cup {NoStack}
    /\ next_tid \in Nat \ {0}
    /\ next_pid \in Nat \ {0}
    /\ cr3 \in Roots \cup {0}
    /\ rsp0 \in Nat
    /\ ctx \in Nat
    /\ work \in [Tids -> Nat]
    /\ hung \in BOOLEAN

(* A thread waits in the queue at most once, whatever mixture of ticks,    *)
(* wakeups, blocks and exits put it there: the retain of block_thread and  *)
(* the fairness of the rotation rest on it.                                *)
NoDuplicates ==
    \A i, j \in 1 .. Len(ready_queue) : ready_queue[i] = ready_queue[j] => i = j

(* Every ready thread is in the queue and so can be picked again: no       *)
(* sequence of preemption, blocking, waking and exiting loses a thread.    *)
(* A queued thread that is not ready has terminated after it was woken.    *)
ReadyIsQueued ==
    /\ \A t \in Tids : tstate[t] = "Ready" /\ ~hung =>
            \E i \in 1 .. Len(ready_queue) : ready_queue[i] = t
    /\ \A i \in 1 .. Len(ready_queue) :
            tstate[ready_queue[i]] \in {"Ready", "Terminated"}

(* One CPU, one running thread: it is the one current_tid names.           *)
RunningIsCurrent == \A t \in Tids : tstate[t] = "Running" => t = current

(* The queue and the states tell the same story, under any order of the    *)
(* scheduler's operations: each ready thread stands in the queue exactly   *)
(* once, and the running thread is the current one.                        *)
QueueIsExact == NoDuplicates /\ ReadyIsQueued /\ RunningIsCurrent

(* The kernel stack of a live thread belongs to it alone.  Exiting only    *)
(* marks the stack as pending, a successful switch returns it to the pool, *)
(* and alloc_kernel_stack hands it out again: at no point of that cycle do *)
(* two live threads hold one stack, nor is a live one's in the pool.       *)
StacksAreExclusive ==
    \A t \in Tids : Live(t) =>
        /\ \A u \in Tids \ {t} : Live(u) => ksp[t] # ksp[u]
        /\ \A i \in 1 .. Len(stack_pool) : stack_pool[i] # ksp[t]

(* The stack the CPU stands on (TSS.RSP0) is never in the recycling pool,  *)
(* not even when its thread has exited and nothing else could be picked:   *)
(* pending_free_stack exists so that a spawn cannot reuse it under the CPU.*)
CpuStackNotPooled == \A i \in 1 .. Len(stack_pool) : stack_pool[i] # rsp0

(* A kernel stack is handed out again only once nobody uses it, neither a  *)
(* live thread nor the CPU.                                                *)
StacksAreSafe == StacksAreExclusive /\ CpuStackNotPooled

(* The current thread translates addresses through the page table of its   *)
(* own process, though the pick skips the reload within a process and a    *)
(* process without a table inherits whatever is loaded.                    *)
AddressSpaceIsOwn ==
    current # NoTid /\ root[tpid[current]] # 0 => cr3 = root[tpid[current]]

(* A process whose threads have all terminated is terminated itself: the   *)
(* check at each exit misses no interleaving of the threads' exits.        *)
NoZombieProcess ==
    \A p \in Pids : pstate[p] = "Ready" =>
        \E t \in Tids : Live(t) /\ tpid[t] = p

(* "Performs transparent context switch": a thread finds the registers it  *)
(* was interrupted with.  The CPU holds the progress of the thread that    *)
(* owns it, and the TCB of every other live thread holds that thread's.    *)
(* And the pick never spins on a TCB lock that it holds itself.            *)
ContextIsTransparent ==
    /\ ~hung
    /\ Executing => ctx = work[Runner]
    /\ \A t \in Tids : Live(t) /\ t # current => saved[t] = work[t]

Queued(t, u) ==
    \E i, j \in 1 .. Len(ready_queue) :
        i < j /\ ready_queue[i] = t /\ ready_queue[j] = u

(* Round robin: a thread is not dispatched while a ready one stands before *)
(* it in the queue, unless that one leaves the ready state in the step.    *)
NoOvertaking ==
    [][\A t, u \in Tids :
        tstate[t] = "Ready" /\ tstate[u] = "Ready" /\ Queued(t, u)
            /\ tstate'[u] = "Running" => tstate'[t] # "Ready"]_schedVars

(* Every ready thread runs eventually, as long as the timer ticks.         *)
EveryReadyThreadRuns ==
    \A t \in Tids : (tstate[t] = "Ready") ~> (tstate[t] = "Running")
=============================================================================
