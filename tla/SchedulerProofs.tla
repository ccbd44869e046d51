--------------------------- MODULE SchedulerProofs ---------------------------
(***************************************************************************)
(* Theorems about Scheduler, for any number of threads, processes and      *)
(* stacks.                                                                 *)
(***************************************************************************)
EXTENDS Scheduler, SequenceTheorems, TLAPS

(* The outcomes of both pick loops, on the queue q, states st, slices sl,  *)
(* contexts sv and pending stack pf that the caller leaves.                *)
Switched(q, st, sl, sv, pf, i) ==
    \/ SwitchTo(q[i], st, sl, sv, pf, RootForSwitch(q[i]))
    \/ SwitchTo(q[i], st, sl, sv, pf, RootAfterExit(q[i]))

Picked(q, st, sl, sv, pf) ==
    \/ NoneReady(q, st, sl, sv, pf)
    \/ \E i \in 1 .. Len(q) :
        /\ FirstReady(q, st, i)
        /\ ready_queue' = SubSeq(q, i + 1, Len(q))
        /\ \/ q[i] = current /\ LockItself(st, sl, sv, pf)
           \/ q[i] # current /\ Switched(q, st, sl, sv, pf, i)

(* Both pick loops of the scheduler have these outcomes.                   *)
LEMMA PickOutcome ==
    ASSUME NEW q, NEW st, NEW sl, NEW sv, NEW pf,
           PickAndSwitchNext(q, st, sl, sv, pf)
    PROVE  Picked(q, st, sl, sv, pf)
BY DEF PickAndSwitchNext, Picked, Switched

(* The loop of exit_current_syscall has the same outcomes: it cannot pick a *)
(* thread that has just terminated.                                        *)
LEMMA ExitOutcome ==
    ASSUME NEW q, NEW st, NEW pf, PickAfterExit(q, st, pf), st[current] # "Ready"
    PROVE  Picked(q, st, slice, saved, pf)
BY DEF PickAfterExit, Picked, Switched, FirstReady

(* What push_back does to a queue.                                         *)
LEMMA AppendFacts ==
    ASSUME NEW S, NEW q \in Seq(S), NEW e \in S
    PROVE  /\ Append(q, e) \in Seq(S)
           /\ Len(Append(q, e)) = Len(q) + 1
           /\ \A i \in 1 .. Len(q) : Append(q, e)[i] = q[i]
           /\ Append(q, e)[Len(q) + 1] = e
BY AppendProperties

(* What is left of a queue when the entries up to i have been popped.      *)
LEMMA SuffixFacts ==
    ASSUME NEW S, NEW q \in Seq(S), NEW i \in 1 .. Len(q)
    PROVE  /\ SubSeq(q, i + 1, Len(q)) \in Seq(S)
           /\ Len(SubSeq(q, i + 1, Len(q))) = Len(q) - i
           /\ \A j \in 1 .. Len(q) - i : SubSeq(q, i + 1, Len(q))[j] = q[i + j]
OBVIOUS

(* What is left of the stack pool when its last stack has been taken.      *)
LEMMA PrefixFacts ==
    ASSUME NEW S, NEW q \in Seq(S), q # <<>>
    PROVE  /\ Len(q) \in Nat \ {0}
           /\ SubSeq(q, 1, Len(q) - 1) \in Seq(S)
           /\ Len(SubSeq(q, 1, Len(q) - 1)) = Len(q) - 1
           /\ \A j \in 1 .. Len(q) - 1 : SubSeq(q, 1, Len(q) - 1)[j] = q[j]
           /\ q[Len(q)] \in S
<1>1. Len(q) \in Nat \ {0}
  BY EmptySeq
<1>2. Len(q) \in Nat /\ Len(q) >= 1
  BY <1>1
<1>3. SubSeq(q, 1, Len(q) - 1) \in Seq(S)
  BY <1>1
<1>4. Len(SubSeq(q, 1, Len(q) - 1)) = Len(q) - 1
  <2>1. CASE Len(q) = 1
    BY <2>1, SubSeqEmpty, EmptySeq
  <2>2. CASE Len(q) > 1
    BY <1>2, <2>2
  <2>3. \A n \in Nat : n >= 1 => n = 1 \/ n > 1
    OBVIOUS
  <2>4. Len(q) = 1 \/ Len(q) > 1
    BY <1>2, <2>3, Zenon
  <2> QED
    BY <2>1, <2>2, <2>4
<1>5. \A j \in 1 .. Len(q) - 1 : SubSeq(q, 1, Len(q) - 1)[j] = q[j]
  BY <1>1
<1>6. q[Len(q)] \in S
  BY <1>1
<1> QED
  BY <1>1, <1>3, <1>4, <1>5, <1>6

(* What retain does to a duplicate-free queue that holds t at position i.  *)
LEMMA RetainFacts ==
    ASSUME NEW S, NEW q \in Seq(S), NEW t, NEW i \in 1 .. Len(q), q[i] = t,
           \A j, k \in 1 .. Len(q) : q[j] = q[k] => j = k
    PROVE  /\ Retain(q, t) \in Seq(S)
           /\ Len(Retain(q, t)) = Len(q) - 1
           /\ \A j \in 1 .. Len(q) - 1 :
                Retain(q, t)[j] = IF j < i THEN q[j] ELSE q[j + 1]
<1>1. (CHOOSE k \in 1 .. Len(q) : q[k] = t) = i
  OBVIOUS
<1>2. Retain(q, t) = [j \in 1 .. Len(q) - 1 |-> IF j < i THEN q[j] ELSE q[j + 1]]
  BY <1>1 DEF Retain
<1>3. Retain(q, t) \in [1 .. Len(q) - 1 -> S]
  BY <1>2
<1> QED
  BY <1>2, <1>3

(* retain returns a queue of thread ids.                                   *)
LEMMA RetainType ==
    ASSUME NEW S, NEW q \in Seq(S), NEW t
    PROVE  Retain(q, t) \in Seq(S)
<1>1. CASE \E i \in 1 .. Len(q) : q[i] = t
  <2> DEFINE i == CHOOSE k \in 1 .. Len(q) : q[k] = t
  <2>1. i \in 1 .. Len(q)
    BY <1>1
  <2>2. Retain(q, t) = [j \in 1 .. Len(q) - 1 |-> IF j < i THEN q[j] ELSE q[j + 1]]
    BY <1>1 DEF Retain
  <2> HIDE DEF i
  <2>3. Retain(q, t) \in [1 .. Len(q) - 1 -> S]
    BY <2>1, <2>2
  <2> QED
    BY <2>1, <2>3
<1>2. CASE ~ \E i \in 1 .. Len(q) : q[i] = t
  BY <1>2 DEF Retain
<1> QED
  BY <1>1, <1>2

-----------------------------------------------------------------------------
(* Type correctness.                                                       *)

PickedTypes ==
    /\ tstate' \in [Tids -> ThreadStates]
    /\ slice' \in [Tids -> Nat]
    /\ saved' \in [Tids -> Nat]
    /\ ready_queue' \in Seq(Tids)
    /\ current' \in Tids \cup {NoTid}
    /\ stack_pool' \in Seq(Nat)
    /\ pending' \in Nat \cup {NoStack}
    /\ cr3' \in Roots \cup {0}
    /\ rsp0' \in Nat
    /\ ctx' \in Nat
    /\ hung' \in BOOLEAN

(* The pick keeps the types, given well-typed arguments.                   *)
LEMMA PickType ==
    ASSUME TypeOK,
           NEW q \in Seq(Tids), NEW st \in [Tids -> ThreadStates],
           NEW sl \in [Tids -> Nat], NEW sv \in [Tids -> Nat],
           NEW pf \in Nat \cup {NoStack},
           Picked(q, st, sl, sv, pf)
    PROVE  PickedTypes
<1>1. CASE NoneReady(q, st, sl, sv, pf)
  BY <1>1 DEF NoneReady, TypeOK, cpuVars, PickedTypes
<1>2. ASSUME NEW i \in 1 .. Len(q),
             ready_queue' = SubSeq(q, i + 1, Len(q)),
             LockItself(st, sl, sv, pf) \/ Switched(q, st, sl, sv, pf, i)
      PROVE  PickedTypes
  <2>1. ready_queue' \in Seq(Tids)
    BY <1>2, SuffixFacts
  <2>2. q[i] \in Tids
    BY ElementOfSeq
  <2>3. CASE LockItself(st, sl, sv, pf)
    BY <2>1, <2>3 DEF LockItself, TypeOK, cpuVars, PickedTypes
  <2>4. ASSUME NEW page \in Roots \cup {0},
               SwitchTo(q[i], st, sl, sv, pf, page)
        PROVE  PickedTypes
    <3>1. stack_pool' \in Seq(Nat) /\ pending' \in Nat \cup {NoStack}
      BY <2>4, AppendFacts DEF SwitchTo, DrainPendingStack, TypeOK, NoStack
    <3>2. /\ tstate' \in [Tids -> ThreadStates]
          /\ slice' \in [Tids -> Nat]
          /\ saved' \in [Tids -> Nat]
      BY <2>2, <2>4, SchedulerAssumption DEF SwitchTo, ThreadStates
    <3>3. current' \in Tids \cup {NoTid} /\ cr3' \in Roots \cup {0}
      BY <2>2, <2>4 DEF SwitchTo
    <3>4. rsp0' \in Nat /\ ctx' \in Nat /\ hung' \in BOOLEAN
      BY <2>2, <2>4 DEF SwitchTo, TypeOK
    <3> QED
      BY <2>1, <3>1, <3>2, <3>3, <3>4 DEF PickedTypes
  <2>5. /\ RootForSwitch(q[i]) \in Roots \cup {0}
        /\ RootAfterExit(q[i]) \in Roots \cup {0}
    BY <2>2 DEF RootForSwitch, RootAfterExit, LoadRoot, TypeOK
  <2> QED
    BY <1>2, <2>3, <2>4, <2>5 DEF Switched
<1> QED
  BY <1>1, <1>2 DEF Picked

(* alloc_kernel_stack takes the pool's last stack or makes a fresh one.    *)
LEMMA AllocOutcome ==
    ASSUME TypeOK, NEW t \in Tids, AllocKernelStack(t)
    PROVE  \/ /\ Len(stack_pool) \in Nat \ {0}
              /\ ksp' = [ksp EXCEPT ![t] = stack_pool[Len(stack_pool)]]
              /\ stack_pool[Len(stack_pool)] \in Nat
              /\ stack_pool' \in Seq(Nat)
              /\ Len(stack_pool') = Len(stack_pool) - 1
              /\ \A i \in 1 .. Len(stack_pool) - 1 : stack_pool'[i] = stack_pool[i]
              /\ nstacks' = nstacks
           \/ /\ ksp' = [ksp EXCEPT ![t] = nstacks + 1]
              /\ nstacks' = nstacks + 1
              /\ stack_pool' = stack_pool
<1>1. stack_pool \in Seq(Nat)
  BY DEF TypeOK
<1>2. CASE stack_pool # <<>>
  <2>1. /\ ksp' = [ksp EXCEPT ![t] = stack_pool[Len(stack_pool)]]
        /\ stack_pool' = SubSeq(stack_pool, 1, Len(stack_pool) - 1)
        /\ nstacks' = nstacks
    BY <1>2, Zenon DEF AllocKernelStack
  <2>2. /\ Len(stack_pool) \in Nat \ {0}
        /\ SubSeq(stack_pool, 1, Len(stack_pool) - 1) \in Seq(Nat)
        /\ Len(SubSeq(stack_pool, 1, Len(stack_pool) - 1)) = Len(stack_pool) - 1
        /\ \A j \in 1 .. Len(stack_pool) - 1 :
              SubSeq(stack_pool, 1, Len(stack_pool) - 1)[j] = stack_pool[j]
        /\ stack_pool[Len(stack_pool)] \in Nat
    BY <1>1, <1>2, PrefixFacts, Zenon
  <2> QED
    BY <2>1, <2>2, Zenon
<1>3. CASE stack_pool = <<>>
  BY <1>3, Zenon DEF AllocKernelStack
<1> QED
  BY <1>2, <1>3

(* A new thread keeps the types.                                           *)
LEMMA NewThreadType ==
    ASSUME TypeOK, NEW t \in Tids, t # 0, NEW p \in Pids, NewThread(t, p)
    PROVE  /\ tstate' \in [Tids -> ThreadStates]
           /\ tpid' \in [Tids -> Pids]
           /\ ksp' \in [Tids -> Nat]
           /\ slice' \in [Tids -> Nat]
           /\ saved' \in [Tids -> Nat]
           /\ ready_queue' \in Seq(Tids)
           /\ stack_pool' \in Seq(Nat)
           /\ nstacks' \in Nat
           /\ next_tid' \in Nat \ {0}
<1>1. ready_queue' \in Seq(Tids)
  BY AppendFacts DEF NewThread, TypeOK
<1>2. ksp' \in [Tids -> Nat] /\ stack_pool' \in Seq(Nat) /\ nstacks' \in Nat
  <2>1. AllocKernelStack(t) /\ ksp \in [Tids -> Nat] /\ nstacks \in Nat
    BY DEF NewThread, TypeOK
  <2>2. stack_pool \in Seq(Nat)
    BY DEF TypeOK
  <2>3. \/ /\ \E s \in Nat : ksp' = [ksp EXCEPT ![t] = s]
           /\ stack_pool' \in Seq(Nat)
           /\ nstacks' = nstacks
        \/ /\ ksp' = [ksp EXCEPT ![t] = nstacks + 1]
           /\ nstacks' = nstacks + 1
           /\ stack_pool' = stack_pool
    BY <2>1, AllocOutcome, Zenon
  <2> QED
    BY <2>1, <2>2, <2>3
<1>3. /\ tstate' \in [Tids -> ThreadStates]
      /\ tpid' \in [Tids -> Pids]
      /\ slice' \in [Tids -> Nat]
      /\ saved' \in [Tids -> Nat]
  BY SchedulerAssumption DEF NewThread, TypeOK, ThreadStates
<1>4. next_tid' \in Nat \ {0}
  BY SchedulerAssumption DEF NewThread, Tids
<1> QED
  BY <1>1, <1>2, <1>3, <1>4

(* A tick keeps the types.                                                 *)
LEMMA OnTickType ==
    ASSUME TypeOK, NEW sl \in [Tids -> Nat], OnTick(sl)
    PROVE  TypeOK'
<1>0. 0 \in Tids /\ 0 \in Pids
  BY SchedulerAssumption DEF Tids, Pids
<1>1. CASE CaptureKernel
  <2> DEFINE q == Append(ready_queue, 0)
             st == [tstate EXCEPT ![0] = "Ready"]
             sl0 == [slice EXCEPT ![0] = Quantum]
             sv == [saved EXCEPT ![0] = ctx]
  <2>1. q \in Seq(Tids)
    BY <1>0, AppendFacts DEF TypeOK
  <2>2. /\ st \in [Tids -> ThreadStates] /\ sl0 \in [Tids -> Nat]
        /\ sv \in [Tids -> Nat] /\ pending \in Nat \cup {NoStack}
    BY <1>0, SchedulerAssumption DEF TypeOK, ThreadStates
  <2>3. Picked(q, st, sl0, sv, pending)
    BY <1>1, PickOutcome DEF CaptureKernel
  <2> HIDE DEF q, st, sl0, sv
  <2>4. PickedTypes
    BY <2>1, <2>2, <2>3, PickType
  <2> QED
    BY <1>0, <1>1, <2>4
    DEF OnTick, CaptureKernel, PickedTypes, TypeOK, idVars, BootStack
<1>2. CASE KeepRunning(sl)
  <2>1. current \in Tids
    BY <1>2 DEF KeepRunning, TypeOK
  <2>2. slice' \in [Tids -> Nat]
    BY <1>2, <2>1, SchedulerAssumption DEF KeepRunning
  <2> QED
    BY <1>2, <2>2 DEF OnTick, KeepRunning, TypeOK, idVars, procVars, cpuVars
<1>3. CASE Preempt(sl)
  <2> DEFINE q == Append(ready_queue, current)
             st == [tstate EXCEPT ![current] = "Ready"]
             sl0 == [sl EXCEPT ![current] = Quantum]
             sv == [saved EXCEPT ![current] = ctx]
  <2>0. current \in Tids
    BY <1>3 DEF Preempt, TypeOK
  <2>1. q \in Seq(Tids)
    BY <2>0, AppendFacts DEF TypeOK
  <2>2. /\ st \in [Tids -> ThreadStates] /\ sl0 \in [Tids -> Nat]
        /\ sv \in [Tids -> Nat] /\ pending \in Nat \cup {NoStack}
    BY <2>0, SchedulerAssumption DEF TypeOK, ThreadStates
  <2>3. Picked(q, st, sl0, sv, pending)
    BY <1>3, PickOutcome DEF Preempt
  <2> HIDE DEF q, st, sl0, sv
  <2>4. PickedTypes
    BY <2>1, <2>2, <2>3, PickType
  <2> QED
    BY <1>3, <2>4 DEF OnTick, Preempt, PickedTypes, TypeOK, idVars, procVars
<1>4. CASE Replace(sl)
  <2>1. Picked(ready_queue, tstate, sl, saved, pending)
    BY <1>4, PickOutcome DEF Replace
  <2>2. PickedTypes
    BY <2>1, PickType DEF TypeOK
  <2> QED
    BY <1>4, <2>2 DEF OnTick, Replace, PickedTypes, TypeOK, idVars, procVars
<1> QED
  BY <1>1, <1>2, <1>3, <1>4 DEF OnTick

(* An exit of the current thread, by either path, keeps the types.         *)
LEMMA ExitType ==
    ASSUME TypeOK, current # NoTid,
           NEW st, st = [tstate EXCEPT ![current] = "Terminated"],
           Picked(ready_queue, st, slice, saved, DeferRecycleStack(ksp[current]))
    PROVE  PickedTypes
<1>1. current \in Tids
  BY DEF TypeOK
<1>2. st \in [Tids -> ThreadStates]
  BY <1>1 DEF TypeOK, ThreadStates
<1>3. DeferRecycleStack(ksp[current]) \in Nat \cup {NoStack}
  BY <1>1 DEF DeferRecycleStack, TypeOK
<1> QED
  BY <1>2, <1>3, PickType DEF TypeOK

(* The state of the current thread's process keeps its type.               *)
LEMMA TerminateType ==
    ASSUME TypeOK, current # NoTid, NEW st, TerminateProcess(st)
    PROVE  pstate' \in [Pids -> {"none", "Ready", "Terminated"}]
BY DEF TerminateProcess, TypeOK

(* The types are an inductive invariant.                                   *)
LEMMA TypeStep ==
    ASSUME TypeOK, [SchedNext]_schedVars
    PROVE  TypeOK'
<1>0. 0 \in Tids /\ 0 \in Pids
  BY SchedulerAssumption DEF Tids, Pids
<1>1. ASSUME NEW r \in Roots \cup {0}, SpawnProcess(r)
      PROVE  TypeOK'
  <2>1. next_tid \in Tids /\ next_tid # 0 /\ next_pid \in Pids
    BY <1>1 DEF SpawnProcess, TypeOK
  <2>2. NewThread(next_tid, next_pid)
    BY <1>1 DEF SpawnProcess
  <2>3. /\ pstate' \in [Pids -> {"none", "Ready", "Terminated"}]
        /\ root' \in [Pids -> Roots \cup {0}]
        /\ next_pid' \in Nat \ {0}
    BY <1>1, <2>1 DEF SpawnProcess, TypeOK
  <2> QED
    BY <2>1, <2>2, <2>3, NewThreadType DEF NewThread, TypeOK, cpuVars
<1>2. ASSUME NEW p \in Pids, SpawnThread(p)
      PROVE  TypeOK'
  <2>1. next_tid \in Tids /\ next_tid # 0
    BY <1>2 DEF SpawnThread, TypeOK
  <2>2. NewThread(next_tid, p)
    BY <1>2 DEF SpawnThread
  <2> QED
    BY <1>2, <2>1, <2>2, NewThreadType
    DEF SpawnThread, NewThread, TypeOK, cpuVars, procVars
<1>3. CASE Activate
  BY <1>3 DEF Activate, TypeOK, threadVars, procVars, stackVars, idVars, cpuVars
<1>4. CASE Tick
  BY <1>4, OnTickType DEF Tick, TypeOK
<1>5. CASE ExpireCurrentQuantum
  <2>1. slice' \in [Tids -> Nat]
    BY <1>5 DEF ExpireCurrentQuantum, TypeOK
  <2> QED
    BY <1>5, <2>1
    DEF ExpireCurrentQuantum, TypeOK, procVars, stackVars, idVars, cpuVars
<1>6. CASE YieldCurrent
  <2> DEFINE sl == IF current # NoTid /\ tstate[current] = "Running"
                   THEN [slice EXCEPT ![current] = 0] ELSE slice
  <2>1. sl \in [Tids -> Nat]
    BY DEF TypeOK
  <2>2. OnTick(sl)
    BY <1>6 DEF YieldCurrent
  <2> HIDE DEF sl
  <2> QED
    BY <2>1, <2>2, OnTickType
<1>7. CASE Work
  <2>1. Runner \in Tids
    BY <1>0 DEF Runner, TypeOK
  <2>2. ctx' \in Nat /\ work' \in [Tids -> Nat]
    BY <1>7, <2>1 DEF Work, TypeOK
  <2> QED
    BY <1>7, <2>2 DEF Work, TypeOK, threadVars, procVars, stackVars, idVars
<1>8. CASE ExitCurrent
  <2> DEFINE st == [tstate EXCEPT ![current] = "Terminated"]
  <2>1. /\ Picked(ready_queue, st, slice, saved, DeferRecycleStack(ksp[current]))
        /\ TerminateProcess(st)
        /\ current # NoTid
    BY <1>8, PickOutcome DEF ExitCurrent
  <2>2. PickedTypes /\ pstate' \in [Pids -> {"none", "Ready", "Terminated"}]
    BY <2>1, ExitType, TerminateType
  <2> QED
    BY <1>8, <2>2 DEF ExitCurrent, PickedTypes, TypeOK, idVars
<1>9. CASE ExitCurrentSyscall
  <2> DEFINE st == [tstate EXCEPT ![current] = "Terminated"]
  <2>1. /\ Picked(ready_queue, st, slice, saved, DeferRecycleStack(ksp[current]))
        /\ TerminateProcess(st)
        /\ current # NoTid
    BY <1>9, ExitOutcome DEF ExitCurrentSyscall, TypeOK
  <2>2. PickedTypes /\ pstate' \in [Pids -> {"none", "Ready", "Terminated"}]
    BY <2>1, ExitType, TerminateType
  <2> QED
    BY <1>9, <2>2 DEF ExitCurrentSyscall, PickedTypes, TypeOK, idVars
<1>10. CASE BlockCurrent
  <2> DEFINE st == [tstate EXCEPT ![current] = "Blocked"]
             sv == [saved EXCEPT ![current] = ctx]
  <2>1. st \in [Tids -> ThreadStates] /\ sv \in [Tids -> Nat]
    BY DEF TypeOK, ThreadStates
  <2>2. \/ Picked(ready_queue, st, slice, sv, pending)
        \/ Picked(ready_queue, tstate, slice, saved, pending)
    BY <1>10, PickOutcome DEF BlockCurrent
  <2> HIDE DEF st, sv
  <2>3. PickedTypes
    BY <2>1, <2>2, PickType DEF TypeOK
  <2> QED
    BY <1>10, <2>3 DEF BlockCurrent, PickedTypes, TypeOK, idVars, procVars
<1>11. ASSUME NEW t \in Tids, BlockThread(t)
       PROVE  TypeOK'
  <2>1. tstate' \in [Tids -> ThreadStates] /\ ready_queue' \in Seq(Tids)
    BY <1>11, RetainType DEF BlockThread, TypeOK, ThreadStates
  <2> QED
    BY <1>11, <2>1 DEF BlockThread, TypeOK, procVars, stackVars, idVars, cpuVars
<1>12. ASSUME NEW t \in Tids, UnblockThread(t)
       PROVE  TypeOK'
  <2>1. /\ tstate' \in [Tids -> ThreadStates]
        /\ slice' \in [Tids -> Nat]
        /\ ready_queue' \in Seq(Tids)
    BY <1>12, AppendFacts, SchedulerAssumption
    DEF UnblockThread, TypeOK, ThreadStates
  <2> QED
    BY <1>12, <2>1 DEF UnblockThread, TypeOK, procVars, stackVars, idVars, cpuVars
<1>13. CASE UNCHANGED schedVars
  BY <1>13
  DEF schedVars, TypeOK, threadVars, procVars, stackVars, idVars, cpuVars
<1> QED
  BY <1>1, <1>2, <1>3, <1>4, <1>5, <1>6, <1>7, <1>8, <1>9, <1>10, <1>11,
     <1>12, <1>13
  DEF SchedNext

(* The initial state is well typed.                                        *)
LEMMA InitType == ASSUME SchedInit PROVE TypeOK
<1>1. 0 \in Pids /\ Quantum \in Nat
  BY SchedulerAssumption DEF Pids
<1>2. ready_queue \in Seq(Tids) /\ stack_pool \in Seq(Nat)
  BY DEF SchedInit
<1>3. /\ tstate \in [Tids -> ThreadStates] /\ tpid \in [Tids -> Pids]
      /\ ksp \in [Tids -> Nat] /\ slice \in [Tids -> Nat]
      /\ saved \in [Tids -> Nat] /\ work \in [Tids -> Nat]
      /\ pstate \in [Pids -> {"none", "Ready", "Terminated"}]
      /\ root \in [Pids -> Roots \cup {0}]
  BY <1>1 DEF SchedInit, ThreadStates, BootStack
<1>4. /\ current \in Tids \cup {NoTid} /\ pending \in Nat \cup {NoStack}
      /\ active \in BOOLEAN /\ hung \in BOOLEAN
  BY DEF SchedInit
<1>5. /\ nstacks \in Nat /\ rsp0 \in Nat /\ ctx \in Nat
      /\ next_tid \in Nat \ {0} /\ next_pid \in Nat \ {0}
      /\ cr3 \in Roots \cup {0}
  BY DEF SchedInit, BootStack
<1> QED
  BY <1>2, <1>3, <1>4, <1>5 DEF TypeOK

(* Every variable of the scheduler keeps its type in every behaviour: in   *)
(* particular time_slice never underflows.                                 *)
THEOREM TypeCorrect == SchedSpec => []TypeOK
BY InitType, TypeStep, PTL DEF SchedSpec

-----------------------------------------------------------------------------
(* The inductive invariant.                                                *)

QNoDup(q) == \A i, j \in 1 .. Len(q) : q[i] = q[j] => i = j

QReady(q, st) ==
    /\ \A t \in Tids : st[t] = "Ready" => \E i \in 1 .. Len(q) : q[i] = t
    /\ \A i \in 1 .. Len(q) : st[q[i]] \in {"Ready", "Terminated"}

(* Identifiers are handed out in order, and thread 0 is the boot code.     *)
IdInv ==
    /\ tpid[0] = 0 /\ ksp[0] = BootStack /\ root[0] = 0
    /\ \A t \in Tids : t >= next_tid => tstate[t] = "none"
    /\ \A p \in Pids : p >= next_pid => pstate[p] = "none"
    /\ current = NoTid <=> tstate[0] = "none"
    /\ current # NoTid => tstate[current] # "none"
    /\ \A t \in Tids : tstate[t] # "none" => pstate[tpid[t]] # "none"

(* Where a kernel stack can be: with one live thread, in the pool, or      *)
(* pending under a current thread that has terminated.                     *)
PoolInv ==
    /\ QNoDup(stack_pool)
    /\ \A i \in 1 .. Len(stack_pool) : stack_pool[i] \in 1 .. nstacks
    /\ \A t \in Tids : Live(t) =>
        ksp[t] \in 0 .. nstacks /\ (ksp[t] = BootStack => t = 0)

PendingInv ==
    /\ pending # NoStack =>
        /\ current # NoTid
        /\ tstate[current] = "Terminated"
        /\ pending = ksp[current]
        /\ pending \in 1 .. nstacks
        /\ \A i \in 1 .. Len(stack_pool) : stack_pool[i] # pending
        /\ \A t \in Tids : Live(t) => ksp[t] # pending
    /\ current # NoTid /\ tstate[current] = "Terminated" =>
        ksp[current] = BootStack \/ ksp[current] = pending
    /\ rsp0 = IF current = NoTid THEN BootStack ELSE ksp[current]

IInv ==
    /\ TypeOK
    /\ IdInv
    /\ NoDuplicates /\ ReadyIsQueued /\ RunningIsCurrent
    /\ StacksAreExclusive /\ PoolInv /\ PendingInv
    /\ AddressSpaceIsOwn
    /\ NoZombieProcess

-----------------------------------------------------------------------------
(* What a caller of the pick has established, and what the pick makes of   *)
(* it.  A thread is alive in st if it is neither "none" nor "Terminated".  *)

Alive(st, t) == st[t] \notin {"none", "Terminated"}

PickPre(q, st, pf) ==
    /\ q \in Seq(Tids) /\ st \in [Tids -> ThreadStates]
    /\ pf \in Nat \cup {NoStack}
    /\ QNoDup(q) /\ QReady(q, st)
    /\ \A t \in Tids : st[t] # "Running"
    /\ current = NoTid => st[0] = "Ready"
    /\ st[0] # "none"
    /\ \A t \in Tids : t # 0 => (st[t] = "none" <=> tstate[t] = "none")
    /\ \A t \in Tids : Alive(st, t) => Live(t) \/ t = 0
    /\ pf # NoStack =>
        /\ current # NoTid
        /\ st[current] = "Terminated"
        /\ pf = ksp[current]
        /\ pf \in 1 .. nstacks
        /\ \A i \in 1 .. Len(stack_pool) : stack_pool[i] # pf
        /\ \A t \in Tids : Alive(st, t) => ksp[t] # pf
    /\ current # NoTid /\ st[current] = "Terminated" =>
        ksp[current] = BootStack \/ ksp[current] = pf

Kept == tpid' = tpid /\ ksp' = ksp /\ root' = root /\ nstacks' = nstacks
            /\ next_tid' = next_tid /\ next_pid' = next_pid

(* The pick changes the thread states in one place only: the picked thread *)
(* goes from ready to running and becomes the current one.                 *)
LEMMA PickStates ==
    ASSUME TypeOK, NEW q, NEW st, NEW sl, NEW sv, NEW pf,
           PickPre(q, st, pf), Picked(q, st, sl, sv, pf)
    PROVE  /\ \A t \in Tids : tstate'[t] = "Running" => st[t] = "Ready" /\ t = current'
           /\ \A t \in Tids : tstate'[t] # "Running" => tstate'[t] = st[t]
           /\ current' \in Tids
           /\ current' # current => tstate'[current'] = "Running"
           /\ current' = current => tstate' = st
<1>0. 0 \in Tids
  BY SchedulerAssumption DEF Tids
<1>1. CASE NoneReady(q, st, sl, sv, pf)
  <2>1. current # NoTid
    BY <1>0, <1>1 DEF NoneReady, PickPre, QReady
  <2> QED
    BY <1>1, <2>1 DEF NoneReady, PickPre, TypeOK
<1>2. ASSUME NEW i \in 1 .. Len(q), q[i] = current, LockItself(st, sl, sv, pf)
      PROVE  /\ tstate' = st /\ current' = current /\ current \in Tids
  BY <1>2, ElementOfSeq DEF LockItself, PickPre
<1>3. ASSUME NEW i \in 1 .. Len(q), FirstReady(q, st, i),
             Switched(q, st, sl, sv, pf, i), q[i] # current
      PROVE  /\ q[i] \in Tids /\ st[q[i]] = "Ready"
             /\ current' = q[i] /\ tstate' = [st EXCEPT ![q[i]] = "Running"]
  BY <1>3, ElementOfSeq DEF Switched, SwitchTo, FirstReady, PickPre
<1>4. st \in [Tids -> ThreadStates] /\ \A t \in Tids : st[t] # "Running"
  BY DEF PickPre
<1>5. CASE \E i \in 1 .. Len(q) : q[i] = current /\ LockItself(st, sl, sv, pf)
  BY <1>2, <1>4, <1>5
<1>6. CASE \E i \in 1 .. Len(q) :
            FirstReady(q, st, i) /\ q[i] # current /\ Switched(q, st, sl, sv, pf, i)
  BY <1>3, <1>4, <1>6
<1> QED
  BY <1>1, <1>5, <1>6 DEF Picked

(* The pick leaves the queue duplicate-free and loses no ready thread.     *)
LEMMA PickQueue ==
    ASSUME IInv, NEW q, NEW st, NEW sl, NEW sv, NEW pf,
           PickPre(q, st, pf), Picked(q, st, sl, sv, pf)
    PROVE  NoDuplicates' /\ ReadyIsQueued' /\ RunningIsCurrent'
<1>0. TypeOK /\ q \in Seq(Tids) /\ QNoDup(q) /\ QReady(q, st)
  BY DEF IInv, PickPre
<1>1. RunningIsCurrent'
  BY <1>0, PickStates DEF RunningIsCurrent
<1>2. CASE NoneReady(q, st, sl, sv, pf)
  <2>1. ready_queue' = <<>> /\ tstate' = st
    BY <1>2 DEF NoneReady
  <2>2. \A t \in Tids : st[t] # "Ready"
    BY <1>0, <1>2 DEF NoneReady, QReady
  <2> QED
    BY <1>1, <2>1, <2>2 DEF NoDuplicates, ReadyIsQueued
<1>3. ASSUME NEW i \in 1 .. Len(q), FirstReady(q, st, i),
             ready_queue' = SubSeq(q, i + 1, Len(q))
      PROVE  /\ Len(q) \in Nat /\ Len(ready_queue') = Len(q) - i
             /\ \A j \in 1 .. Len(q) - i : ready_queue'[j] = q[i + j]
             /\ NoDuplicates'
             /\ \A t \in Tids : st[t] = "Ready" /\ t # q[i] =>
                    \E j \in 1 .. Len(ready_queue') : ready_queue'[j] = t
             /\ \A j \in 1 .. Len(ready_queue') : ready_queue'[j] # q[i] /\
                    ready_queue'[j] \in Tids /\
                    st[ready_queue'[j]] \in {"Ready", "Terminated"}
  <2>1. /\ Len(q) \in Nat /\ Len(ready_queue') = Len(q) - i
        /\ \A j \in 1 .. Len(q) - i : ready_queue'[j] = q[i + j]
    BY <1>0, <1>3, SuffixFacts
  <2>2. NoDuplicates'
    BY <1>0, <2>1 DEF NoDuplicates, QNoDup
  <2>3. ASSUME NEW t \in Tids, st[t] = "Ready", t # q[i]
        PROVE  \E j \in 1 .. Len(ready_queue') : ready_queue'[j] = t
    <3>1. PICK k \in 1 .. Len(q) : q[k] = t
      BY <1>0, <2>3 DEF QReady
    <3>2. k > i
      BY <1>3, <2>1, <2>3, <3>1 DEF FirstReady
    <3>3. k - i \in 1 .. Len(q) - i /\ i + (k - i) = k
      BY <2>1, <3>2
    <3> QED
      BY <2>1, <3>1, <3>3
  <2>4. \A j \in 1 .. Len(ready_queue') : ready_queue'[j] # q[i] /\
            ready_queue'[j] \in Tids /\
            st[ready_queue'[j]] \in {"Ready", "Terminated"}
    <3> SUFFICES ASSUME NEW j \in 1 .. Len(ready_queue')
                 PROVE  q[i + j] # q[i] /\ q[i + j] \in Tids /\
                        st[q[i + j]] \in {"Ready", "Terminated"}
      BY <2>1
    <3>1. i + j \in 1 .. Len(q) /\ i + j # i
      BY <2>1
    <3> QED
      BY <1>0, <3>1 DEF QNoDup, QReady
  <2> QED
    BY <2>1, <2>2, <2>3, <2>4
<1>4. ASSUME NEW i \in 1 .. Len(q), FirstReady(q, st, i),
             ready_queue' = SubSeq(q, i + 1, Len(q)), LockItself(st, sl, sv, pf)
      PROVE  NoDuplicates' /\ ReadyIsQueued'
  <2>1. tstate' = st /\ hung' = TRUE
    BY <1>4 DEF LockItself
  <2> QED
    BY <1>3, <1>4, <2>1 DEF ReadyIsQueued
<1>5. ASSUME NEW i \in 1 .. Len(q), FirstReady(q, st, i),
             ready_queue' = SubSeq(q, i + 1, Len(q)), Switched(q, st, sl, sv, pf, i)
      PROVE  NoDuplicates' /\ ReadyIsQueued'
  <2>1. q[i] \in Tids /\ st \in [Tids -> ThreadStates]
    BY <1>0, ElementOfSeq DEF PickPre
  <2>2. tstate' = [st EXCEPT ![q[i]] = "Running"]
    BY <1>5 DEF Switched, SwitchTo
  <2>3. \A t \in Tids : tstate'[t] = IF t = q[i] THEN "Running" ELSE st[t]
    BY <2>1, <2>2
  <2>4. /\ NoDuplicates'
        /\ \A t \in Tids : st[t] = "Ready" /\ t # q[i] =>
                \E j \in 1 .. Len(ready_queue') : ready_queue'[j] = t
        /\ \A j \in 1 .. Len(ready_queue') : ready_queue'[j] # q[i] /\
                ready_queue'[j] \in Tids /\
                st[ready_queue'[j]] \in {"Ready", "Terminated"}
    BY <1>3, <1>5, Zenon
  <2>5. \A j \in 1 .. Len(ready_queue') :
            tstate'[ready_queue'[j]] \in {"Ready", "Terminated"}
    BY <2>3, <2>4, Zenon
  <2>6. \A t \in Tids : tstate'[t] = "Ready" => st[t] = "Ready" /\ t # q[i]
    BY <2>3
  <2> QED
    BY <2>4, <2>5, <2>6, Zenon DEF ReadyIsQueued
<1> QED
  BY <1>1, <1>2, <1>4, <1>5 DEF Picked

(* The pick recycles the pending stack only when it leaves it.             *)
LEMMA PickStacks ==
    ASSUME IInv, NEW q, NEW st, NEW sl, NEW sv, NEW pf,
           PickPre(q, st, pf), Picked(q, st, sl, sv, pf), Kept
    PROVE  StacksAreExclusive' /\ PoolInv' /\ PendingInv'
<1>0. /\ TypeOK /\ stack_pool \in Seq(Nat) /\ nstacks \in Nat
      /\ ksp' = ksp /\ nstacks' = nstacks /\ ksp[0] = BootStack
  BY DEF IInv, TypeOK, Kept, IdInv
<1>1. \A t \in Tids : Live(t)' => Alive(st, t)
  BY <1>0, PickStates DEF Live, Alive
<1>2. /\ \A t, u \in Tids : Alive(st, t) /\ Alive(st, u) /\ t # u => ksp[t] # ksp[u]
      /\ \A t \in Tids : Alive(st, t) =>
            /\ ksp[t] \in 0 .. nstacks
            /\ ksp[t] = BootStack => t = 0
            /\ \A i \in 1 .. Len(stack_pool) : stack_pool[i] # ksp[t]
  <2>1. \A t \in Tids : Alive(st, t) => Live(t) \/ t = 0
    BY DEF PickPre
  <2>2. \A t \in Tids : Live(t) =>
            /\ ksp[t] \in 0 .. nstacks
            /\ ksp[t] = BootStack => t = 0
            /\ \A i \in 1 .. Len(stack_pool) : stack_pool[i] # ksp[t]
            /\ \A u \in Tids : Live(u) /\ u # t => ksp[t] # ksp[u]
    BY DEF IInv, PoolInv, StacksAreExclusive
  <2>3. \A i \in 1 .. Len(stack_pool) : stack_pool[i] # BootStack
    BY <1>0 DEF IInv, PoolInv, BootStack
  <2> QED
    BY <1>0, <2>1, <2>2, <2>3 DEF BootStack
<1>3. pf \in Nat \cup {NoStack} /\ current' \in Tids
  BY <1>0, PickStates DEF PickPre
<1>4. CASE NoneReady(q, st, sl, sv, pf) \/ LockItself(st, sl, sv, pf)
  <2>1. /\ stack_pool' = stack_pool /\ pending' = pf /\ current' = current
        /\ tstate' = st /\ rsp0' = rsp0
    BY <1>4 DEF NoneReady, LockItself, cpuVars
  <2>2. StacksAreExclusive'
    BY <1>0, <1>1, <1>2, <2>1 DEF StacksAreExclusive
  <2>3. PoolInv'
    BY <1>0, <1>1, <1>2, <2>1 DEF PoolInv, IInv, QNoDup
  <2>4. PendingInv'
    BY <1>0, <1>1, <1>3, <2>1 DEF PendingInv, IInv, PickPre
  <2> QED
    BY <2>2, <2>3, <2>4
<1>5. ASSUME NEW i \in 1 .. Len(q), q[i] # current, FirstReady(q, st, i),
             Switched(q, st, sl, sv, pf, i)
      PROVE  StacksAreExclusive' /\ PoolInv' /\ PendingInv'
  <2>1. /\ stack_pool' = IF pf = NoStack THEN stack_pool ELSE Append(stack_pool, pf)
        /\ pending' = NoStack
        /\ current' = q[i] /\ rsp0' = ksp[q[i]]
    BY <1>5 DEF Switched, SwitchTo, DrainPendingStack
  <2>2. tstate'[current'] = "Running" /\ current' # NoTid
    BY <1>0, <1>3, <1>5, <2>1, PickStates DEF TypeOK, NoTid, Tids
  <2>3. PendingInv'
    BY <1>0, <2>1, <2>2 DEF PendingInv
  <2>4. CASE pf = NoStack
    <3>1. StacksAreExclusive'
      BY <1>0, <1>1, <1>2, <2>1, <2>4 DEF StacksAreExclusive
    <3>2. PoolInv'
      BY <1>0, <1>1, <1>2, <2>1, <2>4 DEF PoolInv, IInv, QNoDup
    <3> QED
      BY <2>3, <3>1, <3>2
  <2>5. CASE pf # NoStack
    <3>1. /\ Len(stack_pool) \in Nat
          /\ Len(stack_pool') = Len(stack_pool) + 1
          /\ \A k \in 1 .. Len(stack_pool) : stack_pool'[k] = stack_pool[k]
          /\ stack_pool'[Len(stack_pool) + 1] = pf
      BY <1>0, <1>3, <2>1, <2>5, AppendFacts, LenProperties
    <3>2. /\ pf \in 1 .. nstacks
          /\ \A k \in 1 .. Len(stack_pool) : stack_pool[k] # pf
          /\ \A t \in Tids : Alive(st, t) => ksp[t] # pf
      BY <2>5 DEF PickPre
    <3>3. \A k \in 1 .. Len(stack_pool') :
            k \in 1 .. Len(stack_pool) \/ k = Len(stack_pool) + 1
      BY <3>1
    <3>4. StacksAreExclusive'
      BY <1>0, <1>1, <1>2, <3>1, <3>2, <3>3 DEF StacksAreExclusive
    <3>5. QNoDup(stack_pool)
      BY DEF IInv, PoolInv
    <3>6. QNoDup(stack_pool)'
      BY <3>1, <3>2, <3>3, <3>5 DEF QNoDup
    <3>7. \A k \in 1 .. Len(stack_pool') : stack_pool'[k] \in 1 .. nstacks
      BY <3>1, <3>2, <3>3 DEF IInv, PoolInv
    <3>8. PoolInv'
      BY <1>0, <1>1, <1>2, <3>6, <3>7 DEF PoolInv
    <3> QED
      BY <2>3, <3>4, <3>8
  <2> QED
    BY <2>4, <2>5
<1> QED
  BY <1>4, <1>5 DEF Picked

(* The pick loads the page table of the thread it picks.                   *)
LEMMA PickAddress ==
    ASSUME IInv, NEW q, NEW st, NEW sl, NEW sv, NEW pf,
           PickPre(q, st, pf), Picked(q, st, sl, sv, pf), Kept
    PROVE  AddressSpaceIsOwn'
<1>0. tpid' = tpid /\ root' = root
  BY DEF Kept
<1>1. CASE NoneReady(q, st, sl, sv, pf) \/ LockItself(st, sl, sv, pf)
  BY <1>0, <1>1 DEF NoneReady, LockItself, cpuVars, AddressSpaceIsOwn, IInv
<1>2. ASSUME NEW i \in 1 .. Len(q), Switched(q, st, sl, sv, pf, i)
      PROVE  AddressSpaceIsOwn'
  <2>1. /\ current' = q[i]
        /\ cr3' = RootForSwitch(q[i]) \/ cr3' = RootAfterExit(q[i])
    BY <1>2 DEF Switched, SwitchTo
  <2> QED
    BY <1>0, <2>1
    DEF AddressSpaceIsOwn, IInv, RootForSwitch, RootAfterExit, LoadRoot
<1> QED
  BY <1>1, <1>2 DEF Picked

(* The pick keeps the identifiers in order.                                *)
LEMMA PickIds ==
    ASSUME IInv, NEW q, NEW st, NEW sl, NEW sv, NEW pf,
           PickPre(q, st, pf), Picked(q, st, sl, sv, pf), Kept,
           \A p \in Pids : pstate'[p] = "none" <=> pstate[p] = "none" /\ p # 0
    PROVE  IdInv'
<1>0. /\ TypeOK /\ 0 \in Tids /\ 0 \in Pids /\ NoTid \notin Tids
      /\ tpid[0] = 0 /\ ksp[0] = BootStack /\ root[0] = 0
  BY SchedulerAssumption DEF IInv, IdInv, Tids, Pids, NoTid
<1>1. current' \in Tids /\ \A t \in Tids : tstate'[t] = "none" <=> st[t] = "none"
  BY <1>0, PickStates
<1>2. st[0] # "none" /\ \A t \in Tids : t # 0 => (st[t] = "none" <=> tstate[t] = "none")
  BY DEF PickPre
<1>3. \A t \in Tids : t >= next_tid => t # 0
  BY <1>0 DEF TypeOK, Tids
<1>4. \A t \in Tids : t >= next_tid => tstate'[t] = "none"
  BY <1>1, <1>2, <1>3 DEF IInv, IdInv
<1>5. \A p \in Pids : p >= next_pid => pstate'[p] = "none"
  <2>1. \A p \in Pids : p >= next_pid => p # 0
    BY <1>0 DEF TypeOK, Pids
  <2> QED
    BY <2>1 DEF IInv, IdInv
<1>6. tstate'[current'] # "none"
  <2>1. CASE current' # current
    BY <1>0, <2>1, PickStates
  <2>2. CASE current' = current
    BY <1>0, <1>1, <1>2, <2>2 DEF IInv, IdInv
  <2> QED
    BY <2>1, <2>2
<1>7. \A t \in Tids : tstate'[t] # "none" => pstate'[tpid[t]] # "none"
  BY <1>0, <1>1, <1>2 DEF IInv, IdInv, TypeOK
<1> QED
  BY <1>0, <1>1, <1>2, <1>4, <1>5, <1>6, <1>7 DEF IdInv, Kept

-----------------------------------------------------------------------------
(* Pushing a thread that becomes ready, and dropping one that blocks.      *)

(* push_back of a thread that becomes ready keeps the queue consistent.    *)
LEMMA PushReady ==
    ASSUME IInv, ~hung, NEW t \in Tids, tstate[t] \notin {"Ready", "Terminated"},
           NEW q, q = Append(ready_queue, t),
           NEW st, st = [tstate EXCEPT ![t] = "Ready"]
    PROVE  q \in Seq(Tids) /\ QNoDup(q) /\ QReady(q, st)
<1>0. /\ ready_queue \in Seq(Tids) /\ tstate \in [Tids -> ThreadStates]
      /\ QNoDup(ready_queue) /\ QReady(ready_queue, tstate)
  BY DEF IInv, TypeOK, NoDuplicates, QNoDup, ReadyIsQueued, QReady
<1>1. /\ q \in Seq(Tids) /\ Len(ready_queue) \in Nat
      /\ Len(q) = Len(ready_queue) + 1
      /\ \A i \in 1 .. Len(ready_queue) : q[i] = ready_queue[i]
      /\ q[Len(ready_queue) + 1] = t
  BY <1>0, AppendFacts, LenProperties
<1>2. \A i \in 1 .. Len(q) : i \in 1 .. Len(ready_queue) \/ i = Len(ready_queue) + 1
  BY <1>1
<1>3. \A i \in 1 .. Len(ready_queue) :
        ready_queue[i] # t /\ ready_queue[i] \in Tids
  BY <1>0, ElementOfSeq DEF QReady
<1>4. QNoDup(q)
  BY <1>0, <1>1, <1>2, <1>3 DEF QNoDup
<1>5. \A u \in Tids : st[u] = IF u = t THEN "Ready" ELSE tstate[u]
  BY <1>0
<1>6. ASSUME NEW u \in Tids, st[u] = "Ready"
      PROVE  \E i \in 1 .. Len(q) : q[i] = u
  <2>1. CASE u = t
    BY <1>1, <2>1
  <2>2. CASE u # t
    <3>1. PICK i \in 1 .. Len(ready_queue) : ready_queue[i] = u
      BY <1>0, <1>5, <1>6, <2>2 DEF QReady
    <3>2. i \in 1 .. Len(q)
      BY <1>1
    <3> QED
      BY <1>1, <3>1, <3>2
  <2> QED
    BY <2>1, <2>2
<1>7. ASSUME NEW i \in 1 .. Len(q)
      PROVE  st[q[i]] \in {"Ready", "Terminated"}
  <2>1. CASE i = Len(ready_queue) + 1
    BY <1>1, <1>5, <2>1
  <2>2. CASE i \in 1 .. Len(ready_queue)
    BY <1>0, <1>1, <1>3, <1>5, <2>2 DEF QReady
  <2> QED
    BY <1>2, <2>1, <2>2
<1> QED
  BY <1>1, <1>4, <1>6, <1>7 DEF QReady

(* retain keeps exactly the other entries.                                 *)
LEMMA DropBlocked ==
    ASSUME NEW q \in Seq(Tids), QNoDup(q), NEW t
    PROVE  /\ QNoDup(Retain(q, t))
           /\ \A j \in 1 .. Len(Retain(q, t)) :
                \E k \in 1 .. Len(q) : Retain(q, t)[j] = q[k] /\ q[k] # t
           /\ \A k \in 1 .. Len(q) : q[k] # t =>
                \E j \in 1 .. Len(Retain(q, t)) : Retain(q, t)[j] = q[k]
<1>1. CASE ~ \E i \in 1 .. Len(q) : q[i] = t
  BY <1>1 DEF Retain
<1>2. ASSUME NEW i \in 1 .. Len(q), q[i] = t
      PROVE  /\ QNoDup(Retain(q, t))
             /\ \A j \in 1 .. Len(Retain(q, t)) :
                  \E k \in 1 .. Len(q) : Retain(q, t)[j] = q[k] /\ q[k] # t
             /\ \A k \in 1 .. Len(q) : q[k] # t =>
                  \E j \in 1 .. Len(Retain(q, t)) : Retain(q, t)[j] = q[k]
  <2> DEFINE r == Retain(q, t)
             src(j) == IF j < i THEN j ELSE j + 1
  <2>0. Len(q) \in Nat
    BY LenProperties
  <2>1. /\ Len(r) = Len(q) - 1
        /\ \A j \in 1 .. Len(q) - 1 : r[j] = IF j < i THEN q[j] ELSE q[j + 1]
    BY <1>2, RetainFacts DEF QNoDup
  <2>2. \A j \in 1 .. Len(q) - 1 : src(j) \in 1 .. Len(q) /\ src(j) # i
    BY <2>0
  <2>3. \A j \in 1 .. Len(q) - 1 : r[j] = q[src(j)]
    BY <2>1
  <2>4. \A j, k \in 1 .. Len(q) - 1 : src(j) = src(k) => j = k
    BY <2>0
  <2>5. \A k \in 1 .. Len(q) : k # i => \E j \in 1 .. Len(q) - 1 : src(j) = k
    <3> SUFFICES ASSUME NEW k \in 1 .. Len(q), k # i
                 PROVE  \E j \in 1 .. Len(q) - 1 : src(j) = k
      OBVIOUS
    <3>1. CASE k < i
      BY <2>0, <3>1
    <3>2. CASE k > i
      <4>1. k - 1 \in 1 .. Len(q) - 1 /\ src(k - 1) = k
        BY <2>0, <3>2
      <4> QED
        BY <4>1
    <3> QED
      BY <2>0, <3>1, <3>2
  <2> HIDE DEF src
  <2>6. QNoDup(r)
    BY <2>1, <2>2, <2>3, <2>4 DEF QNoDup
  <2>7. \A j \in 1 .. Len(r) : \E k \in 1 .. Len(q) : r[j] = q[k] /\ q[k] # t
    BY <1>2, <2>1, <2>2, <2>3 DEF QNoDup
  <2>8. \A k \in 1 .. Len(q) : q[k] # t => \E j \in 1 .. Len(r) : r[j] = q[k]
    BY <1>2, <2>1, <2>3, <2>5
  <2> QED
    BY <2>6, <2>7, <2>8
<1> QED
  BY <1>1, <1>2

-----------------------------------------------------------------------------
(* The callers of the pick establish its precondition.                     *)

(* Consequences of the invariant in the form the proofs below use.         *)
LEMMA InvFacts ==
    ASSUME IInv
    PROVE  /\ TypeOK /\ 0 \in Tids /\ 0 \in Pids /\ NoTid \notin Tids
           /\ ready_queue \in Seq(Tids) /\ tstate \in [Tids -> ThreadStates]
           /\ ksp \in [Tids -> Nat] /\ nstacks \in Nat
           /\ pending \in Nat \cup {NoStack}
           /\ current \in Tids \cup {NoTid}
           /\ current = NoTid <=> tstate[0] = "none"
           /\ current # NoTid => tstate[current] # "none"
           /\ QNoDup(ready_queue)
           /\ ~hung => QReady(ready_queue, tstate)
           /\ \A t \in Tids : tstate[t] = "Running" => t = current
<1>1. 0 \in Tids /\ 0 \in Pids /\ NoTid \notin Tids
  BY SchedulerAssumption DEF Tids, Pids, NoTid
<1>2. QNoDup(ready_queue) /\ (~hung => QReady(ready_queue, tstate))
  BY DEF IInv, NoDuplicates, QNoDup, ReadyIsQueued, QReady
<1> QED
  BY <1>1, <1>2 DEF IInv, TypeOK, IdInv, RunningIsCurrent

(* The first tick, which captures the boot code as thread 0.               *)
LEMMA PreCapture ==
    ASSUME IInv, ~hung, current = NoTid
    PROVE  PickPre(Append(ready_queue, 0), [tstate EXCEPT ![0] = "Ready"], pending)
<1> DEFINE q == Append(ready_queue, 0)
           st == [tstate EXCEPT ![0] = "Ready"]
<1>1. tstate[0] = "none"
  BY InvFacts
<1>2. q \in Seq(Tids) /\ QNoDup(q) /\ QReady(q, st)
  BY <1>1, InvFacts, PushReady
<1>3. pending = NoStack
  BY DEF IInv, PendingInv
<1>4. st \in [Tids -> ThreadStates]
  BY InvFacts DEF ThreadStates
<1>5. \A t \in Tids : st[t] = IF t = 0 THEN "Ready" ELSE tstate[t]
  BY InvFacts
<1>6. 0 \in Tids /\ \A t \in Tids : tstate[t] # "Running"
  BY InvFacts
<1> HIDE DEF q, st
<1>7. PickPre(q, st, pending)
  BY <1>2, <1>3, <1>4, <1>5, <1>6 DEF PickPre, Alive, Live
<1> QED
  BY <1>7 DEF q, st

(* A tick that ends the quantum of the running thread.                     *)
LEMMA PrePreempt ==
    ASSUME IInv, ~hung, current # NoTid, tstate[current] = "Running"
    PROVE  PickPre(Append(ready_queue, current),
                   [tstate EXCEPT ![current] = "Ready"], pending)
<1> DEFINE q == Append(ready_queue, current)
           st == [tstate EXCEPT ![current] = "Ready"]
<1>1. current \in Tids
  BY InvFacts
<1>2. q \in Seq(Tids) /\ QNoDup(q) /\ QReady(q, st)
  BY <1>1, PushReady
<1>3. pending = NoStack
  BY DEF IInv, PendingInv
<1>4. st \in [Tids -> ThreadStates]
  BY InvFacts DEF ThreadStates
<1>5. \A t \in Tids : st[t] = IF t = current THEN "Ready" ELSE tstate[t]
  BY InvFacts
<1>6. 0 \in Tids /\ tstate[0] # "none" /\
        \A t \in Tids : tstate[t] = "Running" => t = current
  BY InvFacts
<1> HIDE DEF q, st
<1>7. PickPre(q, st, pending)
  BY <1>1, <1>2, <1>3, <1>4, <1>5, <1>6 DEF PickPre, Alive, Live
<1> QED
  BY <1>7 DEF q, st

(* A tick that finds the current thread blocked, woken or terminated.      *)
LEMMA PreReplace ==
    ASSUME IInv, ~hung, current # NoTid, tstate[current] # "Running"
    PROVE  PickPre(ready_queue, tstate, pending)
<1>1. /\ pending # NoStack =>
            /\ tstate[current] = "Terminated"
            /\ pending = ksp[current]
            /\ pending \in 1 .. nstacks
            /\ \A i \in 1 .. Len(stack_pool) : stack_pool[i] # pending
            /\ \A t \in Tids : Live(t) => ksp[t] # pending
      /\ tstate[current] = "Terminated" =>
            ksp[current] = BootStack \/ ksp[current] = pending
  BY DEF IInv, PendingInv
<1> QED
  BY <1>1, InvFacts DEF PickPre, Alive, Live

(* block_current, from the running thread.                                 *)
LEMMA PreBlock ==
    ASSUME IInv, ~hung, current # NoTid, tstate[current] = "Running"
    PROVE  PickPre(ready_queue, [tstate EXCEPT ![current] = "Blocked"], pending)
<1> DEFINE st == [tstate EXCEPT ![current] = "Blocked"]
<1>1. current \in Tids /\ ready_queue \in Seq(Tids)
  BY InvFacts
<1>2. pending = NoStack
  BY DEF IInv, PendingInv
<1>3. st \in [Tids -> ThreadStates]
  BY InvFacts DEF ThreadStates
<1>4. \A t \in Tids : st[t] = IF t = current THEN "Blocked" ELSE tstate[t]
  BY InvFacts
<1>5. 0 \in Tids /\ tstate[0] # "none" /\ QNoDup(ready_queue) /\
        \A t \in Tids : tstate[t] = "Running" => t = current
  BY InvFacts
<1>6. QReady(ready_queue, st)
  <2>1. QReady(ready_queue, tstate)
    BY InvFacts
  <2>2. \A i \in 1 .. Len(ready_queue) : ready_queue[i] \in Tids
    BY <1>1, ElementOfSeq
  <2> HIDE DEF st
  <2> QED
    BY <1>4, <2>1, <2>2 DEF QReady
<1> HIDE DEF st
<1>7. PickPre(ready_queue, st, pending)
  BY <1>1, <1>2, <1>3, <1>4, <1>5, <1>6 DEF PickPre, Alive, Live
<1> QED
  BY <1>7 DEF st

(* exit_current and exit_current_syscall.                                  *)
LEMMA PreExit ==
    ASSUME IInv, ~hung, current # NoTid, tstate[current] # "Terminated"
    PROVE  PickPre(ready_queue, [tstate EXCEPT ![current] = "Terminated"],
                   DeferRecycleStack(ksp[current]))
<1> DEFINE st == [tstate EXCEPT ![current] = "Terminated"]
           pf == DeferRecycleStack(ksp[current])
<1>1. current \in Tids /\ ready_queue \in Seq(Tids) /\ Live(current)
  BY InvFacts DEF Live
<1>2. pending = NoStack
  BY DEF IInv, PendingInv
<1>3. st \in [Tids -> ThreadStates]
  BY InvFacts DEF ThreadStates
<1>4. \A t \in Tids : st[t] = IF t = current THEN "Terminated" ELSE tstate[t]
  BY InvFacts
<1>5. 0 \in Tids /\ tstate[0] # "none" /\ QNoDup(ready_queue) /\
        \A t \in Tids : tstate[t] = "Running" => t = current
  BY InvFacts
<1>6. QReady(ready_queue, st)
  <2>1. QReady(ready_queue, tstate)
    BY InvFacts
  <2>2. \A i \in 1 .. Len(ready_queue) : ready_queue[i] \in Tids
    BY <1>1, ElementOfSeq
  <2> HIDE DEF st
  <2> QED
    BY <1>4, <2>1, <2>2 DEF QReady
<1>7. /\ ksp[current] \in 0 .. nstacks /\ nstacks \in Nat
      /\ \A i \in 1 .. Len(stack_pool) : stack_pool[i] # ksp[current]
      /\ \A t \in Tids : Live(t) /\ t # current => ksp[t] # ksp[current]
  BY <1>1, InvFacts DEF IInv, PoolInv, StacksAreExclusive
<1>8. /\ pf = IF ksp[current] \in 1 .. nstacks THEN ksp[current] ELSE NoStack
      /\ ksp[current] \notin 1 .. nstacks => ksp[current] = BootStack
  BY <1>2, <1>7 DEF DeferRecycleStack, BootStack
<1>9. pf \in Nat \cup {NoStack}
  BY <1>7, <1>8
<1>10. \A t \in Tids : Alive(st, t) => Live(t) /\ t # current
  BY <1>1, <1>4 DEF Alive, Live
<1> HIDE DEF st, pf
<1>11. /\ pf # NoStack => pf = ksp[current] /\ pf \in 1 .. nstacks
       /\ ksp[current] = BootStack \/ ksp[current] = pf
  BY <1>8
<1>12. PickPre(ready_queue, st, pf)
  BY <1>1, <1>3, <1>4, <1>5, <1>6, <1>7, <1>9, <1>10, <1>11 DEF PickPre
<1> QED
  BY <1>12 DEF st, pf

-----------------------------------------------------------------------------
(* Every step keeps the invariant.                                         *)

(* A step that ends in a pick, with the process states it leaves.          *)
LEMMA PickStep ==
    ASSUME IInv, TypeOK', NEW q, NEW st, NEW sl, NEW sv, NEW pf,
           PickPre(q, st, pf), Picked(q, st, sl, sv, pf), Kept,
           \A p \in Pids : pstate'[p] = "none" <=> pstate[p] = "none" /\ p # 0,
           \A p \in Pids : pstate'[p] = "Ready" =>
                \E t \in Tids : Alive(st, t) /\ tpid[t] = p
    PROVE  IInv'
<1>1. \A t \in Tids : Alive(st, t) => Live(t)'
  BY PickStates DEF IInv, Alive, Live
<1>2. NoZombieProcess'
  BY <1>1 DEF NoZombieProcess, Kept
<1> QED
  BY <1>2, PickQueue, PickStacks, PickAddress, PickIds DEF IInv

(* A step that creates the thread t = next_tid in process p.               *)
LEMMA SpawnStep ==
    ASSUME IInv, TypeOK', ~hung, NEW t \in Tids, t = next_tid, NEW p \in Pids,
           NewThread(t, p), root'[0] = root[0],
           \A r \in Pids : pstate'[r] = IF r = p THEN pstate'[p] ELSE pstate[r],
           \A r \in Pids : r # p => root'[r] = root[r],
           pstate'[p] # "none",
           next_pid' >= next_pid,
           \A r \in Pids : r >= next_pid' => r # p,
           pstate[p] = "none" \/ root'[p] = root[p]
    PROVE  IInv'
<1>0. t # 0 /\ tstate[t] = "none" /\ ~Live(t)
  BY DEF IInv, IdInv, TypeOK, Live
<1>1. /\ tstate' = [tstate EXCEPT ![t] = "Ready"]
      /\ tpid' = [tpid EXCEPT ![t] = p]
      /\ ready_queue' = Append(ready_queue, t)
      /\ next_tid' = t + 1
      /\ current' = current /\ pending' = pending /\ hung' = hung
      /\ cr3' = cr3 /\ rsp0' = rsp0
  BY DEF NewThread, cpuVars
<1>2. \A u \in Tids : tstate'[u] = IF u = t THEN "Ready" ELSE tstate[u]
  BY <1>1, InvFacts
<1>3. \A u \in Tids : tpid'[u] = IF u = t THEN p ELSE tpid[u]
  BY <1>1 DEF IInv, TypeOK
<1>4. NoDuplicates' /\ ReadyIsQueued'
  <2>1. QNoDup(ready_queue') /\ QReady(ready_queue', tstate')
    BY <1>0, <1>1, PushReady
  <2> QED
    BY <2>1 DEF QNoDup, QReady, NoDuplicates, ReadyIsQueued
<1>5. RunningIsCurrent'
  BY <1>1, <1>2 DEF IInv, RunningIsCurrent
<1>6. current # t /\ (current # NoTid => current \in Tids)
  BY <1>0, InvFacts
<1>7. AddressSpaceIsOwn'
  <2>1. current # NoTid => tpid'[current] = tpid[current] /\ tpid[current] \in Pids
                           /\ pstate[tpid[current]] # "none"
    BY <1>3, <1>6 DEF IInv, TypeOK, IdInv
  <2>2. current # NoTid => root'[tpid[current]] = root[tpid[current]]
    BY <2>1
  <2> QED
    BY <1>1, <2>1, <2>2 DEF AddressSpaceIsOwn, IInv
<1>8. NoZombieProcess'
  <2> SUFFICES ASSUME NEW r \in Pids, pstate'[r] = "Ready"
               PROVE  \E u \in Tids : Live(u)' /\ tpid'[u] = r
    BY DEF NoZombieProcess
  <2>1. CASE r = p
    <3>1. Live(t)' /\ tpid'[t] = p
      BY <1>2, <1>3 DEF Live
    <3> QED
      BY <2>1, <3>1
  <2>2. CASE r # p
    <3>1. PICK u \in Tids : Live(u) /\ tpid[u] = r
      BY <2>2 DEF IInv, NoZombieProcess
    <3> QED
      BY <1>0, <1>2, <1>3, <3>1 DEF Live
  <2> QED
    BY <2>1, <2>2
<1>9. \A u \in Tids : Live(u)' => u = t \/ Live(u)
  BY <1>2 DEF Live
<1>10. \E s \in 1 .. nstacks' :
        /\ ksp' = [ksp EXCEPT ![t] = s]
        /\ nstacks' \in Nat /\ nstacks' >= nstacks
        /\ \A u \in Tids : Live(u) => ksp[u] # s
        /\ pending # s
        /\ QNoDup(stack_pool')
        /\ \A i \in 1 .. Len(stack_pool') :
            /\ stack_pool'[i] # s
            /\ stack_pool'[i] \in 1 .. nstacks
            /\ \E j \in 1 .. Len(stack_pool) : stack_pool'[i] = stack_pool[j]
  <2>0. AllocKernelStack(t) /\ TypeOK /\ nstacks \in Nat /\ stack_pool \in Seq(Nat)
    BY DEF NewThread, IInv, TypeOK
  <2>1. /\ QNoDup(stack_pool)
        /\ \A i \in 1 .. Len(stack_pool) : stack_pool[i] \in 1 .. nstacks
        /\ \A i \in 1 .. Len(stack_pool) : stack_pool[i] # pending
        /\ \A u \in Tids : Live(u) =>
              /\ ksp[u] \in 0 .. nstacks
              /\ \A i \in 1 .. Len(stack_pool) : stack_pool[i] # ksp[u]
        /\ pending # NoStack => pending \in 1 .. nstacks
    BY <2>0 DEF IInv, PoolInv, StacksAreExclusive, PendingInv, NoStack
  <2>2. CASE /\ Len(stack_pool) \in Nat \ {0}
             /\ ksp' = [ksp EXCEPT ![t] = stack_pool[Len(stack_pool)]]
             /\ Len(stack_pool') = Len(stack_pool) - 1
             /\ \A i \in 1 .. Len(stack_pool) - 1 : stack_pool'[i] = stack_pool[i]
             /\ nstacks' = nstacks
    <3>1. /\ Len(stack_pool) \in 1 .. Len(stack_pool)
          /\ \A i \in 1 .. Len(stack_pool') :
                i \in 1 .. Len(stack_pool) /\ i # Len(stack_pool)
                /\ stack_pool'[i] = stack_pool[i]
      BY <2>2
    <3> DEFINE s == stack_pool[Len(stack_pool)]
    <3>2. s \in 1 .. nstacks' /\ ksp' = [ksp EXCEPT ![t] = s]
      BY <2>1, <2>2, <3>1
    <3>3. pending # s /\ \A u \in Tids : Live(u) => ksp[u] # s
      BY <2>1, <3>1
    <3>0. \A i, j \in 1 .. Len(stack_pool) : stack_pool[i] = stack_pool[j] => i = j
      BY <2>1 DEF QNoDup
    <3>4. QNoDup(stack_pool')
      <4> SUFFICES ASSUME NEW i \in 1 .. Len(stack_pool'),
                          NEW j \in 1 .. Len(stack_pool'),
                          stack_pool'[i] = stack_pool'[j]
                   PROVE  i = j
        BY DEF QNoDup
      <4>1. /\ i \in 1 .. Len(stack_pool) /\ stack_pool'[i] = stack_pool[i]
            /\ j \in 1 .. Len(stack_pool) /\ stack_pool'[j] = stack_pool[j]
        BY <3>1, Zenon
      <4> QED
        BY <3>0, <4>1, Zenon
    <3>5. ASSUME NEW i \in 1 .. Len(stack_pool')
          PROVE  /\ stack_pool'[i] # s /\ stack_pool'[i] \in 1 .. nstacks
                 /\ \E j \in 1 .. Len(stack_pool) : stack_pool'[i] = stack_pool[j]
      <4>1. /\ i \in 1 .. Len(stack_pool) /\ i # Len(stack_pool)
            /\ stack_pool'[i] = stack_pool[i]
        BY <3>1, Zenon
      <4> QED
        BY <2>1, <3>0, <3>1, <4>1, Zenon
    <3>6. nstacks' \in Nat /\ nstacks' >= nstacks
      BY <2>0, <2>2
    <3> HIDE DEF s
    <3> QED
      BY <3>2, <3>3, <3>4, <3>5, <3>6, Zenon
  <2>3. CASE /\ ksp' = [ksp EXCEPT ![t] = nstacks + 1]
             /\ nstacks' = nstacks + 1
             /\ stack_pool' = stack_pool
    <3> DEFINE s == nstacks + 1
    <3>1. s \in 1 .. nstacks' /\ ksp' = [ksp EXCEPT ![t] = s]
      BY <2>0, <2>3
    <3>2. /\ pending # s /\ s \notin 0 .. nstacks
          /\ \A u \in Tids : Live(u) => ksp[u] # s
          /\ \A i \in 1 .. Len(stack_pool') : stack_pool'[i] # s
      BY <2>0, <2>1, <2>3 DEF NoStack
    <3>3. nstacks' \in Nat /\ nstacks' >= nstacks
      BY <2>0, <2>3
    <3> HIDE DEF s
    <3> QED
      BY <2>1, <2>3, <3>1, <3>2, <3>3
  <2> QED
    BY <2>0, <2>2, <2>3, AllocOutcome, Zenon
<1>11. PICK s \in 1 .. nstacks' :
        /\ \A u \in Tids : ksp'[u] = IF u = t THEN s ELSE ksp[u]
        /\ nstacks' \in Nat /\ nstacks' >= nstacks
        /\ \A u \in Tids : Live(u) => ksp[u] # s
        /\ pending # s
        /\ QNoDup(stack_pool')
        /\ \A i \in 1 .. Len(stack_pool') :
            /\ stack_pool'[i] # s
            /\ stack_pool'[i] \in 1 .. nstacks
            /\ \E j \in 1 .. Len(stack_pool) : stack_pool'[i] = stack_pool[j]
  BY <1>10, InvFacts
<1>12. StacksAreExclusive'
  BY <1>9, <1>11 DEF StacksAreExclusive, IInv
<1>13. PoolInv'
  <2>1. \A i \in 1 .. Len(stack_pool') : stack_pool'[i] \in 1 .. nstacks'
    BY <1>11, InvFacts
  <2>2. \A u \in Tids : Live(u) => ksp[u] \in 0 .. nstacks /\ (ksp[u] = BootStack => u = 0)
    BY DEF IInv, PoolInv
  <2>3. \A u \in Tids : Live(u)' =>
            ksp'[u] \in 0 .. nstacks' /\ (ksp'[u] = BootStack => u = 0)
    BY <1>9, <1>11, <2>2, InvFacts DEF BootStack
  <2> QED
    BY <1>11, <2>1, <2>3 DEF PoolInv
<1>14. PendingInv'
  <2>1. current # NoTid => tstate'[current] = tstate[current] /\ ksp'[current] = ksp[current]
    BY <1>2, <1>6, <1>11
  <2>2. rsp0' = IF current' = NoTid THEN BootStack ELSE ksp'[current']
    BY <1>1, <2>1 DEF IInv, PendingInv
  <2>3. current' # NoTid /\ tstate'[current'] = "Terminated" =>
            ksp'[current'] = BootStack \/ ksp'[current'] = pending'
    BY <1>1, <2>1 DEF IInv, PendingInv
  <2>4. ASSUME pending # NoStack
        PROVE  /\ current # NoTid /\ tstate'[current] = "Terminated"
               /\ pending = ksp'[current]
               /\ pending \in 1 .. nstacks'
               /\ \A i \in 1 .. Len(stack_pool') : stack_pool'[i] # pending
               /\ \A u \in Tids : Live(u)' => ksp'[u] # pending
    <3>1. /\ current # NoTid /\ tstate[current] = "Terminated"
          /\ pending = ksp[current] /\ pending \in 1 .. nstacks
          /\ \A i \in 1 .. Len(stack_pool) : stack_pool[i] # pending
          /\ \A u \in Tids : Live(u) => ksp[u] # pending
      BY <2>4 DEF IInv, PendingInv
    <3>2. pending \in 1 .. nstacks'
      BY <1>11, <3>1, InvFacts
    <3> QED
      BY <1>9, <1>11, <2>1, <3>1, <3>2
  <2> QED
    BY <1>1, <2>2, <2>3, <2>4 DEF PendingInv
<1>15. IdInv'
  <2>1. \A u \in Tids : u >= next_tid' => tstate'[u] = "none"
    BY <1>1, <1>2 DEF IInv, IdInv, TypeOK, Tids
  <2>2. \A r \in Pids : r >= next_pid' => pstate'[r] = "none"
    BY DEF IInv, IdInv, TypeOK, Pids
  <2>3. tpid'[0] = 0 /\ ksp'[0] = BootStack /\ root'[0] = 0 /\ tstate'[0] = tstate[0]
    BY <1>0, <1>2, <1>3, <1>11, InvFacts DEF IInv, IdInv
  <2>4. current # NoTid => tstate'[current] # "none"
    BY <1>2, <1>6 DEF IInv, IdInv
  <2>5. \A u \in Tids : tstate'[u] # "none" => pstate'[tpid'[u]] # "none"
    BY <1>2, <1>3 DEF IInv, IdInv, TypeOK
  <2> QED
    BY <1>1, <2>1, <2>2, <2>3, <2>4, <2>5 DEF IInv, IdInv
<1> QED
  BY <1>4, <1>5, <1>7, <1>8, <1>12, <1>13, <1>14, <1>15 DEF IInv

(* A step that changes slices, registers or the active flag only.          *)
LEMMA QuietStep ==
    ASSUME IInv, TypeOK', Kept,
           tstate' = tstate, pstate' = pstate, ready_queue' = ready_queue,
           current' = current, stack_pool' = stack_pool, pending' = pending,
           cr3' = cr3, rsp0' = rsp0, hung' = hung
    PROVE  IInv'
<1>1. \A t \in Tids : Live(t)' <=> Live(t)
  BY DEF Live
<1>2. IdInv' /\ NoDuplicates' /\ ReadyIsQueued' /\ RunningIsCurrent'
  BY DEF IInv, Kept, IdInv, NoDuplicates, ReadyIsQueued, RunningIsCurrent
<1>3. StacksAreExclusive' /\ PoolInv' /\ PendingInv'
  BY <1>1 DEF IInv, Kept, StacksAreExclusive, PoolInv, PendingInv, QNoDup
<1>4. AddressSpaceIsOwn' /\ NoZombieProcess'
  BY <1>1 DEF IInv, Kept, AddressSpaceIsOwn, NoZombieProcess
<1> QED
  BY <1>2, <1>3, <1>4 DEF IInv

(* A thread moves between the ready and the blocked state; nothing else    *)
(* but the queue changes.                                                  *)
LEMMA WakeStep ==
    ASSUME IInv, TypeOK', Kept, NEW t \in Tids, Live(t), NEW new,
           new \in {"Ready", "Blocked"},
           tstate' = [tstate EXCEPT ![t] = new],
           pstate' = pstate, current' = current, stack_pool' = stack_pool,
           pending' = pending, cr3' = cr3, rsp0' = rsp0, hung' = hung,
           QNoDup(ready_queue'), QReady(ready_queue', tstate')
    PROVE  IInv'
<1>1. \A u \in Tids : tstate'[u] = IF u = t THEN new ELSE tstate[u]
  BY InvFacts
<1>2. \A u \in Tids : Live(u)' <=> Live(u)
  BY <1>1 DEF Live
<1>3. \A u \in Tids : /\ tstate'[u] = "none" <=> tstate[u] = "none"
                      /\ tstate'[u] = "Terminated" <=> tstate[u] = "Terminated"
  BY <1>1 DEF Live
<1>4. current # NoTid => current \in Tids
  BY InvFacts
<1>5. IdInv'
  BY <1>3, <1>4, InvFacts DEF IInv, Kept, IdInv
<1>6. NoDuplicates' /\ ReadyIsQueued' /\ RunningIsCurrent'
  BY <1>1
  DEF IInv, QNoDup, QReady, NoDuplicates, ReadyIsQueued, RunningIsCurrent
<1>7. StacksAreExclusive' /\ PoolInv'
  BY <1>2 DEF IInv, Kept, StacksAreExclusive, PoolInv, QNoDup
<1>8. PendingInv'
  BY <1>2, <1>3, <1>4 DEF IInv, Kept, PendingInv
<1>9. AddressSpaceIsOwn' /\ NoZombieProcess'
  BY <1>2 DEF IInv, Kept, AddressSpaceIsOwn, NoZombieProcess
<1> QED
  BY <1>5, <1>6, <1>7, <1>8, <1>9 DEF IInv

(* A tick, or a yield with the slices sl.                                  *)
LEMMA OnTickStep ==
    ASSUME IInv, TypeOK', ~hung, NEW sl, OnTick(sl)
    PROVE  IInv'
<1>0. /\ 0 \in Tids /\ 0 \in Pids /\ tpid \in [Tids -> Pids]
      /\ ksp \in [Tids -> Nat] /\ root \in [Pids -> Roots \cup {0}]
      /\ pstate \in [Pids -> {"none", "Ready", "Terminated"}]
      /\ tpid[0] = 0 /\ ksp[0] = BootStack /\ root[0] = 0
      /\ tstate \in [Tids -> ThreadStates]
  BY InvFacts DEF IInv, IdInv, TypeOK
<1>1. CASE CaptureKernel
  <2> DEFINE st == [tstate EXCEPT ![0] = "Ready"]
  <2>1. Kept
    BY <1>0, <1>1 DEF OnTick, CaptureKernel, Kept, idVars
  <2>2. /\ \A p \in Pids : pstate'[p] = IF p = 0 THEN "Ready" ELSE pstate[p]
        /\ current = NoTid
    BY <1>0, <1>1 DEF CaptureKernel
  <2>3. \A t \in Tids : st[t] = IF t = 0 THEN "Ready" ELSE tstate[t]
    BY <1>0
  <2>4. PickPre(Append(ready_queue, 0), st, pending)
    BY <2>2, PreCapture
  <2>5. Picked(Append(ready_queue, 0), st, [slice EXCEPT ![0] = Quantum],
               [saved EXCEPT ![0] = ctx], pending)
    BY <1>1, PickOutcome DEF CaptureKernel
  <2> HIDE DEF st
  <2>6. \A p \in Pids : pstate'[p] = "none" <=> pstate[p] = "none" /\ p # 0
    BY <2>2
  <2>7. \A p \in Pids : pstate'[p] = "Ready" =>
            \E t \in Tids : Alive(st, t) /\ tpid[t] = p
    <3> SUFFICES ASSUME NEW p \in Pids, pstate'[p] = "Ready"
                 PROVE  \E t \in Tids : Alive(st, t) /\ tpid[t] = p
      OBVIOUS
    <3>1. CASE p = 0
      BY <1>0, <2>3, <3>1 DEF Alive
    <3>2. CASE p # 0
      BY <2>2, <2>3, <3>2 DEF Alive, Live, IInv, NoZombieProcess
    <3> QED
      BY <3>1, <3>2
  <2> QED
    BY <2>1, <2>4, <2>5, <2>6, <2>7, PickStep
<1>2. CASE KeepRunning(sl)
  BY <1>2, QuietStep DEF OnTick, KeepRunning, Kept, idVars, procVars, cpuVars
<1>3. current # NoTid => \A p \in Pids : p = 0 => pstate[p] # "none"
  BY <1>0, InvFacts DEF IInv, IdInv
<1>4. CASE Preempt(sl)
  <2> DEFINE st == [tstate EXCEPT ![current] = "Ready"]
  <2>1. Kept /\ pstate' = pstate /\ current # NoTid /\ tstate[current] = "Running"
    BY <1>4 DEF OnTick, Preempt, Kept, idVars, procVars
  <2>2. current \in Tids
    BY <2>1, InvFacts
  <2>3. \A t \in Tids : Live(t) => Alive(st, t)
    BY <1>0, <2>2 DEF Live, Alive
  <2>4. PickPre(Append(ready_queue, current), st, pending)
    BY <2>1, PrePreempt
  <2>5. Picked(Append(ready_queue, current), st, [sl EXCEPT ![current] = Quantum],
               [saved EXCEPT ![current] = ctx], pending)
    BY <1>4, PickOutcome DEF Preempt
  <2> HIDE DEF st
  <2>6. \A p \in Pids : pstate'[p] = "Ready" =>
            \E t \in Tids : Alive(st, t) /\ tpid[t] = p
    BY <2>1, <2>3 DEF IInv, NoZombieProcess
  <2> QED
    BY <1>3, <2>1, <2>4, <2>5, <2>6, PickStep
<1>5. CASE Replace(sl)
  <2>1. Kept /\ pstate' = pstate /\ current # NoTid /\ tstate[current] # "Running"
    BY <1>5 DEF OnTick, Replace, Kept, idVars, procVars
  <2>2. PickPre(ready_queue, tstate, pending)
    BY <2>1, PreReplace
  <2>3. Picked(ready_queue, tstate, sl, saved, pending)
    BY <1>5, PickOutcome DEF Replace
  <2>4. \A p \in Pids : pstate'[p] = "Ready" =>
            \E t \in Tids : Alive(tstate, t) /\ tpid[t] = p
    BY <2>1 DEF IInv, NoZombieProcess, Alive, Live
  <2> QED
    BY <1>3, <2>1, <2>2, <2>3, <2>4, PickStep
<1> QED
  BY <1>1, <1>2, <1>4, <1>5 DEF OnTick

(* An exit, by either path.                                                *)
LEMMA ExitStep ==
    ASSUME IInv, TypeOK', ~hung, Kept, current # NoTid,
           tstate[current] # "Terminated",
           NEW st, st = [tstate EXCEPT ![current] = "Terminated"],
           TerminateProcess(st),
           Picked(ready_queue, st, slice, saved, DeferRecycleStack(ksp[current]))
    PROVE  IInv'
<1>0. /\ current \in Tids /\ tpid[current] \in Pids
      /\ pstate \in [Pids -> {"none", "Ready", "Terminated"}]
      /\ pstate[tpid[current]] # "none" /\ 0 \in Pids /\ 0 \in Tids
      /\ pstate[0] # "none"
  BY InvFacts DEF IInv, IdInv, TypeOK
<1>1. \A t \in Tids : st[t] = IF t = current THEN "Terminated" ELSE tstate[t]
  BY <1>0, InvFacts
<1>2. PickPre(ready_queue, st, DeferRecycleStack(ksp[current]))
  BY PreExit
<1>3. \A p \in Pids : pstate'[p] =
        IF p = tpid[current] /\ AllTerminated(p, st) THEN "Terminated" ELSE pstate[p]
  BY <1>0 DEF TerminateProcess
<1>4. \A p \in Pids : pstate'[p] = "none" <=> pstate[p] = "none" /\ p # 0
  BY <1>0, <1>3
<1>5. \A p \in Pids : pstate'[p] = "Ready" =>
        \E t \in Tids : Alive(st, t) /\ tpid[t] = p
  <2> SUFFICES ASSUME NEW p \in Pids, pstate'[p] = "Ready"
               PROVE  \E t \in Tids : Alive(st, t) /\ tpid[t] = p
    OBVIOUS
  <2>1. CASE p = tpid[current]
    BY <1>3, <2>1 DEF AllTerminated, Alive
  <2>2. CASE p # tpid[current]
    <3>1. PICK t \in Tids : Live(t) /\ tpid[t] = p
      BY <1>3, <2>2 DEF IInv, NoZombieProcess
    <3> QED
      BY <1>1, <2>2, <3>1 DEF Alive, Live
  <2> QED
    BY <2>1, <2>2
<1> QED
  BY <1>2, <1>4, <1>5, PickStep

(* Every step of the scheduler keeps the invariant.                        *)
LEMMA InvStep ==
    ASSUME IInv, [SchedNext]_schedVars
    PROVE  IInv'
<1>0. TypeOK /\ TypeOK'
  BY TypeStep DEF IInv
<1>1. ASSUME NEW r \in Roots \cup {0}, SpawnProcess(r)
      PROVE  IInv'
  <2>1. /\ next_tid \in Tids /\ next_pid \in Pids /\ ~hung
        /\ NewThread(next_tid, next_pid)
        /\ pstate' = [pstate EXCEPT ![next_pid] = "Ready"]
        /\ root' = [root EXCEPT ![next_pid] = r]
        /\ next_pid' = next_pid + 1
    BY <1>1 DEF SpawnProcess, Executing
  <2>0. next_pid # 0 /\ 0 \in Pids /\ next_pid \in Nat /\ next_pid >= next_pid
    BY <1>0, <2>1, InvFacts DEF TypeOK
  <2>2. /\ next_pid # 0 /\ 0 \in Pids /\ next_pid \in Nat
        /\ pstate[next_pid] = "none"
    BY <2>0, <2>1 DEF IInv, IdInv
  <2>3. \A p \in Pids : /\ pstate'[p] = IF p = next_pid THEN "Ready" ELSE pstate[p]
                        /\ p # next_pid => root'[p] = root[p]
                        /\ p >= next_pid' => p # next_pid
    BY <1>0, <2>1, <2>2 DEF TypeOK, Pids
  <2>4. next_pid' >= next_pid /\ root'[0] = root[0]
    BY <2>1, <2>2, <2>3
  <2> QED
    BY <1>0, <2>1, <2>2, <2>3, <2>4, SpawnStep
<1>2. ASSUME NEW p \in Pids, SpawnThread(p)
      PROVE  IInv'
  <2>1. /\ next_tid \in Tids /\ ~hung /\ pstate[p] # "none"
        /\ NewThread(next_tid, p)
        /\ pstate' = pstate /\ root' = root /\ next_pid' = next_pid
    BY <1>2 DEF SpawnThread, Executing, procVars
  <2>2. \A r \in Pids : r >= next_pid' => r # p
    BY <2>1 DEF IInv, IdInv
  <2>3. next_pid' >= next_pid
    BY <1>0, <2>1 DEF TypeOK
  <2> QED
    BY <1>0, <2>1, <2>2, <2>3, SpawnStep
<1>3. CASE Activate
  BY <1>0, <1>3, QuietStep
  DEF Activate, Kept, threadVars, procVars, stackVars, idVars, cpuVars
<1>4. CASE Tick
  BY <1>0, <1>4, OnTickStep DEF Tick
<1>5. CASE ExpireCurrentQuantum
  BY <1>0, <1>5, QuietStep
  DEF ExpireCurrentQuantum, Kept, procVars, stackVars, idVars, cpuVars
<1>6. CASE YieldCurrent
  BY <1>0, <1>6, OnTickStep DEF YieldCurrent, Executing
<1>7. CASE Work
  BY <1>0, <1>7, QuietStep
  DEF Work, Kept, threadVars, procVars, stackVars, idVars
<1>8. ASSUME ExitCurrent \/ ExitCurrentSyscall
      PROVE  IInv'
  <2> DEFINE st == [tstate EXCEPT ![current] = "Terminated"]
  <2>1. /\ ~hung /\ current # NoTid /\ tstate[current] # "Terminated"
        /\ Kept /\ TerminateProcess(st)
    BY <1>8
    DEF ExitCurrent, ExitCurrentSyscall, Executing, Runner, Kept, idVars
  <2>2. st[current] # "Ready"
    BY <2>1, InvFacts
  <2>3. Picked(ready_queue, st, slice, saved, DeferRecycleStack(ksp[current]))
    BY <1>8, <2>2, PickOutcome, ExitOutcome DEF ExitCurrent, ExitCurrentSyscall
  <2> QED
    BY <1>0, <2>1, <2>3, ExitStep
<1>9. CASE BlockCurrent
  <2>1. /\ ~hung /\ current # NoTid /\ Kept /\ pstate' = pstate
    BY <1>9 DEF BlockCurrent, Executing, Kept, idVars, procVars
  <2>2. \A p \in Pids : p = 0 => pstate[p] # "none"
    BY <2>1, InvFacts DEF IInv, IdInv
  <2>3. CASE tstate[current] = "Running"
    <3> DEFINE st == [tstate EXCEPT ![current] = "Blocked"]
    <3>1. PickPre(ready_queue, st, pending)
      BY <2>1, <2>3, PreBlock
    <3>2. Picked(ready_queue, st, slice, [saved EXCEPT ![current] = ctx], pending)
      BY <1>9, <2>3, PickOutcome DEF BlockCurrent
    <3>3. \A t \in Tids : Live(t) => Alive(st, t)
      BY InvFacts DEF Live, Alive
    <3> HIDE DEF st
    <3>4. \A p \in Pids : pstate'[p] = "Ready" =>
              \E t \in Tids : Alive(st, t) /\ tpid[t] = p
      BY <2>1, <3>3 DEF IInv, NoZombieProcess
    <3> QED
      BY <1>0, <2>1, <2>2, <3>1, <3>2, <3>4, PickStep
  <2>4. CASE tstate[current] # "Running"
    <3>1. PickPre(ready_queue, tstate, pending)
      BY <2>1, <2>4, PreReplace
    <3>2. Picked(ready_queue, tstate, slice, saved, pending)
      BY <1>9, <2>4, PickOutcome DEF BlockCurrent
    <3>3. \A p \in Pids : pstate'[p] = "Ready" =>
              \E t \in Tids : Alive(tstate, t) /\ tpid[t] = p
      BY <2>1 DEF IInv, NoZombieProcess, Alive, Live
    <3> QED
      BY <1>0, <2>1, <2>2, <3>1, <3>2, <3>3, PickStep
  <2> QED
    BY <2>3, <2>4
<1>10. ASSUME NEW t \in Tids, BlockThread(t)
       PROVE  IInv'
  <2>1. /\ ~hung /\ Kept /\ Live(t)
        /\ tstate' = [tstate EXCEPT ![t] = "Blocked"]
        /\ ready_queue' = Retain(ready_queue, t)
        /\ pstate' = pstate /\ current' = current /\ stack_pool' = stack_pool
        /\ pending' = pending /\ cr3' = cr3 /\ rsp0' = rsp0 /\ hung' = hung
    BY <1>10
    DEF BlockThread, Executing, Live, Kept, procVars, stackVars, idVars, cpuVars
  <2>2. \A u \in Tids : tstate'[u] = IF u = t THEN "Blocked" ELSE tstate[u]
    BY <2>1, InvFacts
  <2>3. /\ ready_queue \in Seq(Tids) /\ QNoDup(ready_queue)
        /\ QReady(ready_queue, tstate)
    BY <2>1, InvFacts
  <2>4. /\ QNoDup(ready_queue')
        /\ \A j \in 1 .. Len(ready_queue') :
              \E k \in 1 .. Len(ready_queue) :
                  ready_queue'[j] = ready_queue[k] /\ ready_queue[k] # t
        /\ \A k \in 1 .. Len(ready_queue) : ready_queue[k] # t =>
              \E j \in 1 .. Len(ready_queue') : ready_queue'[j] = ready_queue[k]
    <3> DEFINE r == Retain(ready_queue, t)
    <3>1. /\ QNoDup(r)
          /\ \A j \in 1 .. Len(r) : \E k \in 1 .. Len(ready_queue) :
                  r[j] = ready_queue[k] /\ ready_queue[k] # t
          /\ \A k \in 1 .. Len(ready_queue) : ready_queue[k] # t =>
                  \E j \in 1 .. Len(r) : r[j] = ready_queue[k]
      BY <2>3, DropBlocked
    <3>2. ready_queue' = r
      BY <2>1
    <3> HIDE DEF r
    <3> QED
      BY <3>1, <3>2
  <2>5. \A k \in 1 .. Len(ready_queue) : ready_queue[k] \in Tids
    BY <2>3, ElementOfSeq
  <2>6. QReady(ready_queue', tstate')
    <3>1. ASSUME NEW u \in Tids, tstate'[u] = "Ready"
          PROVE  \E j \in 1 .. Len(ready_queue') : ready_queue'[j] = u
      <4>1. tstate[u] = "Ready" /\ u # t
        BY <2>2, <3>1
      <4>2. PICK k \in 1 .. Len(ready_queue) : ready_queue[k] = u
        BY <2>3, <4>1 DEF QReady
      <4> QED
        BY <2>4, <4>1, <4>2
    <3>2. ASSUME NEW j \in 1 .. Len(ready_queue')
          PROVE  tstate'[ready_queue'[j]] \in {"Ready", "Terminated"}
      BY <2>2, <2>3, <2>4, <2>5 DEF QReady
    <3> QED
      BY <3>1, <3>2 DEF QReady
  <2> QED
    BY <1>0, <2>1, <2>4, <2>6, WakeStep
<1>11. ASSUME NEW t \in Tids, UnblockThread(t)
       PROVE  IInv'
  <2>1. /\ ~hung /\ Kept /\ Live(t) /\ tstate[t] = "Blocked"
        /\ tstate' = [tstate EXCEPT ![t] = "Ready"]
        /\ ready_queue' = Append(ready_queue, t)
        /\ pstate' = pstate /\ current' = current /\ stack_pool' = stack_pool
        /\ pending' = pending /\ cr3' = cr3 /\ rsp0' = rsp0 /\ hung' = hung
    BY <1>11
    DEF UnblockThread, Live, Kept, procVars, stackVars, idVars, cpuVars
  <2>2. QNoDup(ready_queue') /\ QReady(ready_queue', tstate')
    BY <2>1, PushReady
  <2> QED
    BY <1>0, <2>1, <2>2, WakeStep
<1>12. CASE UNCHANGED schedVars
  BY <1>0, <1>12, QuietStep
  DEF schedVars, Kept, threadVars, procVars, stackVars, idVars, cpuVars
<1> QED
  BY <1>1, <1>2, <1>3, <1>4, <1>5, <1>6, <1>7, <1>8, <1>9, <1>10, <1>11, <1>12
  DEF SchedNext

(* The initial state satisfies the invariant.                              *)
LEMMA InitInv == ASSUME SchedInit PROVE IInv
<1>0. 0 \in Tids /\ 0 \in Pids
  BY SchedulerAssumption DEF Tids, Pids
<1>1. TypeOK
  BY InitType
<1>2. /\ \A t \in Tids : tstate[t] = "none" /\ tpid[t] = 0 /\ ksp[t] = BootStack
      /\ \A p \in Pids : pstate[p] = "none" /\ root[p] = 0
      /\ Len(ready_queue) = 0 /\ Len(stack_pool) = 0
      /\ current = NoTid /\ pending = NoStack /\ rsp0 = BootStack
  BY DEF SchedInit
<1>3. \A t \in Tids : ~Live(t)
  BY <1>2 DEF Live
<1>4. 1 .. Len(ready_queue) = {} /\ 1 .. Len(stack_pool) = {}
  BY <1>2
<1>5. NoDuplicates /\ ReadyIsQueued /\ RunningIsCurrent
  BY <1>2, <1>4 DEF NoDuplicates, ReadyIsQueued, RunningIsCurrent
<1>6. StacksAreExclusive /\ PoolInv /\ PendingInv
  BY <1>2, <1>3, <1>4 DEF StacksAreExclusive, PoolInv, PendingInv, QNoDup
<1>7. IdInv /\ AddressSpaceIsOwn /\ NoZombieProcess
  BY <1>0, <1>2 DEF IdInv, AddressSpaceIsOwn, NoZombieProcess
<1> QED
  BY <1>1, <1>5, <1>6, <1>7 DEF IInv

(* The inductive invariant holds in every reachable state.                 *)
THEOREM Invariance == SchedSpec => []IInv
BY InitInv, InvStep, PTL DEF SchedSpec

(* Whatever the order of spawns, ticks, yields, exits, blocks and wakeups, *)
(* the ready queue holds every ready thread and holds it once, and the     *)
(* running thread is the one current_tid names.                            *)
THEOREM QueueCorrect == SchedSpec => []QueueIsExact
<1>1. IInv => QueueIsExact
  BY DEF IInv, QueueIsExact
<1> QED
  BY <1>1, Invariance, PTL

(* The stack the CPU would next land on is never up for reuse, also when   *)
(* its thread has exited and no other thread could be picked.              *)
LEMMA CpuStack == ASSUME IInv PROVE CpuStackNotPooled
<1>1. \A i \in 1 .. Len(stack_pool) : stack_pool[i] \in 1 .. nstacks
  BY DEF IInv, PoolInv
<1>2. \A i \in 1 .. Len(stack_pool) : stack_pool[i] # BootStack
  BY <1>1, InvFacts DEF BootStack
<1>3. rsp0 = IF current = NoTid THEN BootStack ELSE ksp[current]
  BY DEF IInv, PendingInv
<1>4. CASE current = NoTid
  BY <1>2, <1>3, <1>4 DEF CpuStackNotPooled
<1>5. CASE current # NoTid /\ Live(current)
  BY <1>3, <1>5, InvFacts DEF CpuStackNotPooled, IInv, StacksAreExclusive
<1>6. CASE current # NoTid /\ tstate[current] = "Terminated"
  <2>1. ksp[current] \in Nat
    BY <1>6, InvFacts
  <2>2. ksp[current] = BootStack \/ (pending # NoStack /\ ksp[current] = pending)
    BY <1>6, <2>1 DEF IInv, PendingInv, NoStack
  <2>3. pending # NoStack =>
          \A i \in 1 .. Len(stack_pool) : stack_pool[i] # pending
    BY DEF IInv, PendingInv
  <2> QED
    BY <1>2, <1>3, <1>6, <2>2, <2>3 DEF CpuStackNotPooled
<1> QED
  BY <1>4, <1>5, <1>6, InvFacts DEF Live

(* No two live threads share a kernel stack, and no stack that a live      *)
(* thread or the CPU uses is in the recycling pool.                        *)
THEOREM StackCorrect == SchedSpec => []StacksAreSafe
<1>1. IInv => StacksAreSafe
  BY CpuStack DEF IInv, StacksAreSafe
<1> QED
  BY <1>1, Invariance, PTL

(* The current thread always runs in the address space of its process.     *)
THEOREM AddressSpaceCorrect == SchedSpec => []AddressSpaceIsOwn
<1>1. IInv => AddressSpaceIsOwn
  BY DEF IInv
<1> QED
  BY <1>1, Invariance, PTL

(* A process with no live thread left is marked terminated.                *)
THEOREM ProcessCorrect == SchedSpec => []NoZombieProcess
<1>1. IInv => NoZombieProcess
  BY DEF IInv
<1> QED
  BY <1>1, Invariance, PTL

-----------------------------------------------------------------------------
(* The order of the queue.                                                 *)

(* The pick takes the first ready entry of a queue that begins with the    *)
(* ready queue: who stood before it there is not ready any more.           *)
LEMMA PickOrder ==
    ASSUME TypeOK, NEW q, NEW st, NEW sl, NEW sv, NEW pf,
           PickPre(q, st, pf), Picked(q, st, sl, sv, pf),
           Len(ready_queue) <= Len(q),
           \A i \in 1 .. Len(ready_queue) : q[i] = ready_queue[i],
           NEW t \in Tids, NEW u \in Tids, Queued(t, u), tstate'[u] = "Running"
    PROVE  tstate'[t] # "Ready"
<1>0. /\ q \in Seq(Tids) /\ QNoDup(q) /\ st \in [Tids -> ThreadStates]
      /\ \A v \in Tids : st[v] # "Running"
      /\ Len(q) \in Nat /\ Len(ready_queue) \in Nat
  BY LenProperties DEF PickPre, TypeOK
<1>1. PICK a, b \in 1 .. Len(ready_queue) :
        a < b /\ ready_queue[a] = t /\ ready_queue[b] = u
  BY DEF Queued
<1>2. a \in 1 .. Len(q) /\ b \in 1 .. Len(q) /\ q[a] = t /\ q[b] = u
  BY <1>0, <1>1
<1>3. PICK i \in 1 .. Len(q) : FirstReady(q, st, i) /\ u = q[i]
                               /\ tstate' = [st EXCEPT ![q[i]] = "Running"]
  BY <1>0 DEF Picked, NoneReady, LockItself, Switched, SwitchTo
<1>4. i = b
  BY <1>0, <1>2, <1>3 DEF QNoDup
<1>5. a \in 1 .. i - 1 /\ t # u
  BY <1>0, <1>1, <1>2, <1>4 DEF QNoDup
<1>6. st[t] # "Ready"
  BY <1>2, <1>3, <1>5 DEF FirstReady
<1> QED
  BY <1>0, <1>3, <1>5, <1>6

(* A tick dispatches nobody before a ready thread that stood in front.     *)
LEMMA OnTickOrder ==
    ASSUME IInv, ~hung, NEW sl, OnTick(sl), NEW t \in Tids, NEW u \in Tids,
           tstate[u] = "Ready", Queued(t, u), tstate'[u] = "Running"
    PROVE  tstate'[t] # "Ready"
<1>0. /\ TypeOK /\ ready_queue \in Seq(Tids) /\ Len(ready_queue) \in Nat
      /\ 0 \in Tids /\ current \in Tids \cup {NoTid}
  BY InvFacts, LenProperties
<1>1. CASE CaptureKernel
  <2>1. current = NoTid
    BY <1>1 DEF CaptureKernel
  <2>2. PickPre(Append(ready_queue, 0), [tstate EXCEPT ![0] = "Ready"], pending)
    BY <2>1, PreCapture
  <2>3. Picked(Append(ready_queue, 0), [tstate EXCEPT ![0] = "Ready"],
               [slice EXCEPT ![0] = Quantum], [saved EXCEPT ![0] = ctx], pending)
    BY <1>1, PickOutcome DEF CaptureKernel
  <2>4. /\ Len(ready_queue) <= Len(Append(ready_queue, 0))
        /\ \A i \in 1 .. Len(ready_queue) :
              Append(ready_queue, 0)[i] = ready_queue[i]
    BY <1>0, AppendFacts
  <2> QED
    BY <1>0, <2>2, <2>3, <2>4, PickOrder
<1>2. CASE KeepRunning(sl)
  BY <1>2 DEF KeepRunning
<1>3. CASE Preempt(sl)
  <2>1. current # NoTid /\ tstate[current] = "Running" /\ current \in Tids
    BY <1>0, <1>3 DEF Preempt
  <2>2. PickPre(Append(ready_queue, current),
                [tstate EXCEPT ![current] = "Ready"], pending)
    BY <2>1, PrePreempt
  <2>3. Picked(Append(ready_queue, current), [tstate EXCEPT ![current] = "Ready"],
               [sl EXCEPT ![current] = Quantum],
               [saved EXCEPT ![current] = ctx], pending)
    BY <1>3, PickOutcome DEF Preempt
  <2>4. /\ Len(ready_queue) <= Len(Append(ready_queue, current))
        /\ \A i \in 1 .. Len(ready_queue) :
              Append(ready_queue, current)[i] = ready_queue[i]
    BY <1>0, <2>1, AppendFacts
  <2> QED
    BY <1>0, <2>2, <2>3, <2>4, PickOrder
<1>4. CASE Replace(sl)
  <2>1. current # NoTid /\ tstate[current] # "Running"
    BY <1>4 DEF Replace
  <2>2. PickPre(ready_queue, tstate, pending)
    BY <2>1, PreReplace
  <2>3. Picked(ready_queue, tstate, sl, saved, pending)
    BY <1>4, PickOutcome DEF Replace
  <2> QED
    BY <1>0, <2>2, <2>3, PickOrder
<1> QED
  BY <1>1, <1>2, <1>3, <1>4 DEF OnTick

(* Nor does any other step of the scheduler.                               *)
LEMMA StepOrder ==
    ASSUME IInv, [SchedNext]_schedVars, NEW t \in Tids, NEW u \in Tids,
           tstate[u] = "Ready", Queued(t, u), tstate'[u] = "Running"
    PROVE  tstate'[t] # "Ready"
<1>0. /\ TypeOK /\ ready_queue \in Seq(Tids) /\ Len(ready_queue) \in Nat
      /\ tstate \in [Tids -> ThreadStates]
  BY InvFacts, LenProperties
<1>1. CASE Tick
  BY <1>1, OnTickOrder DEF Tick
<1>2. CASE YieldCurrent
  BY <1>2, OnTickOrder DEF YieldCurrent, Executing
<1>3. ASSUME NEW st, NEW sl, NEW sv, NEW pf, PickPre(ready_queue, st, pf),
             Picked(ready_queue, st, sl, sv, pf)
      PROVE  tstate'[t] # "Ready"
  BY <1>0, <1>3, PickOrder
<1>4. CASE ExitCurrent \/ ExitCurrentSyscall
  <2> DEFINE st == [tstate EXCEPT ![current] = "Terminated"]
  <2>1. ~hung /\ current # NoTid /\ tstate[current] # "Terminated"
    BY <1>4 DEF ExitCurrent, ExitCurrentSyscall, Executing, Runner
  <2>2. st[current] # "Ready"
    BY <2>1, InvFacts
  <2>3. Picked(ready_queue, st, slice, saved, DeferRecycleStack(ksp[current]))
    BY <1>4, <2>2, PickOutcome, ExitOutcome DEF ExitCurrent, ExitCurrentSyscall
  <2>4. PickPre(ready_queue, st, DeferRecycleStack(ksp[current]))
    BY <2>1, PreExit
  <2> QED
    BY <1>3, <2>3, <2>4
<1>5. CASE BlockCurrent
  <2>1. ~hung /\ current # NoTid
    BY <1>5 DEF BlockCurrent, Executing
  <2>2. CASE tstate[current] = "Running"
    <3>1. PickPre(ready_queue, [tstate EXCEPT ![current] = "Blocked"], pending)
      BY <2>1, <2>2, PreBlock
    <3>2. Picked(ready_queue, [tstate EXCEPT ![current] = "Blocked"], slice,
                 [saved EXCEPT ![current] = ctx], pending)
      BY <1>5, <2>2, PickOutcome DEF BlockCurrent
    <3> QED
      BY <1>3, <3>1, <3>2
  <2>3. CASE tstate[current] # "Running"
    <3>1. PickPre(ready_queue, tstate, pending)
      BY <2>1, <2>3, PreReplace
    <3>2. Picked(ready_queue, tstate, slice, saved, pending)
      BY <1>5, <2>3, PickOutcome DEF BlockCurrent
    <3> QED
      BY <1>3, <3>1, <3>2
  <2> QED
    BY <2>2, <2>3
<1>6. ASSUME NEW r \in Roots \cup {0}, SpawnProcess(r) PROVE FALSE
  BY <1>0, <1>6 DEF SpawnProcess, NewThread
<1>7. ASSUME NEW p \in Pids, SpawnThread(p) PROVE FALSE
  BY <1>0, <1>7 DEF SpawnThread, NewThread
<1>8. CASE Activate \/ ExpireCurrentQuantum \/ Work \/ UNCHANGED schedVars
  BY <1>8 DEF Activate, ExpireCurrentQuantum, Work, schedVars, threadVars
<1>9. ASSUME NEW v \in Tids, BlockThread(v) \/ UnblockThread(v) PROVE FALSE
  BY <1>0, <1>9 DEF BlockThread, UnblockThread
<1> QED
  BY <1>1, <1>2, <1>4, <1>5, <1>6, <1>7, <1>8, <1>9 DEF SchedNext

(* Round robin, for any number of threads: in no step of the scheduler,    *)
(* picks after a yield, a block or an exit included, is a thread           *)
(* dispatched while a ready one stands before it in the queue.             *)
THEOREM OrderCorrect == SchedSpec => NoOvertaking
<1> DEFINE InOrder ==
        \A t, u \in Tids :
            tstate[t] = "Ready" /\ tstate[u] = "Ready" /\ Queued(t, u)
                /\ tstate'[u] = "Running" => tstate'[t] # "Ready"
<1>1. IInv /\ [SchedNext]_schedVars => InOrder
  BY StepOrder
<1> QED
  BY <1>1, Invariance, PTL DEF SchedSpec, NoOvertaking

-----------------------------------------------------------------------------
(* The registers.  With the operations the kernel calls today no thread is *)
(* blocked, the queue holds ready threads only, and whoever waits has its  *)
(* progress in its TCB.                                                    *)

ContextInv ==
    /\ ~hung
    /\ \A t \in Tids : tstate[t] # "Blocked"
    /\ current # NoTid => tstate[current] \in {"Running", "Terminated"}
    /\ \A i \in 1 .. Len(ready_queue) : tstate[ready_queue[i]] = "Ready"
    /\ current = NoTid => ctx = work[0]
    /\ current # NoTid /\ tstate[current] = "Running" => ctx = work[current]
    /\ \A t \in Tids : Live(t) /\ t # current => saved[t] = work[t]
    /\ \A t \in Tids : tstate[t] = "none" /\ t # 0 => work[t] = 0

(* What a caller of the pick has made sure of.  A current thread that is   *)
(* ready again stands behind somebody else, so the pick does not meet it.  *)
ContextPre(q, st, sv) ==
    /\ \A t \in Tids : st[t] # "Blocked"
    /\ \A i \in 1 .. Len(q) : st[q[i]] = "Ready"
    /\ \A t \in Tids : Alive(st, t) => sv[t] = work[t]
    /\ \A t \in Tids : st[t] = "none" /\ t # 0 => work[t] = 0
    /\ current # NoTid =>
        \/ st[current] = "Terminated"
        \/ st[current] = "Ready" /\ Len(q) >= 1 /\ q[1] # current

(* The pick hands the CPU the progress of the thread it picks, and never   *)
(* picks the thread that runs.                                             *)
LEMMA PickContext ==
    ASSUME IInv, ~hung, NEW q, NEW st, NEW sl, NEW sv, NEW pf,
           PickPre(q, st, pf), ContextPre(q, st, sv),
           Picked(q, st, sl, sv, pf), work' = work
    PROVE  ContextInv'
<1>0. /\ TypeOK /\ q \in Seq(Tids) /\ Len(q) \in Nat /\ QNoDup(q)
      /\ st \in [Tids -> ThreadStates] /\ NoTid \notin Tids
      /\ \A t \in Tids : st[t] # "Running"
      /\ \A i \in 1 .. Len(q) : q[i] \in Tids
  BY InvFacts, LenProperties, ElementOfSeq DEF PickPre
<1>1. CASE NoneReady(q, st, sl, sv, pf)
  <2>1. /\ ready_queue' = <<>> /\ tstate' = st /\ saved' = sv
        /\ current' = current /\ hung' = hung
    BY <1>1 DEF NoneReady
  <2>2. current \in Tids
    BY <1>0, <2>1, PickStates
  <2>3. ~(1 <= Len(q))
    BY <1>0, <1>1 DEF NoneReady, ContextPre
  <2>4. st[current] = "Terminated"
    BY <1>0, <2>2, <2>3 DEF ContextPre
  <2>5. 1 .. Len(ready_queue') = {}
    BY <2>1
  <2> QED
    BY <1>0, <2>1, <2>2, <2>4, <2>5 DEF ContextInv, ContextPre, Alive, Live
<1>2. ASSUME NEW i \in 1 .. Len(q), FirstReady(q, st, i), q[i] = current
      PROVE  FALSE
  <2>1. st[current] = "Ready" /\ q[1] # current /\ 1 \in 1 .. Len(q)
    BY <1>0, <1>2 DEF ContextPre, FirstReady
  <2>2. 1 \in 1 .. i - 1
    BY <1>0, <1>2, <2>1
  <2> QED
    BY <1>2, <2>1, <2>2 DEF FirstReady, ContextPre
<1>3. ASSUME NEW i \in 1 .. Len(q), ready_queue' = SubSeq(q, i + 1, Len(q)),
             Switched(q, st, sl, sv, pf, i), FirstReady(q, st, i)
      PROVE  ContextInv'
  <2>1. /\ tstate' = [st EXCEPT ![q[i]] = "Running"] /\ saved' = sv
        /\ ctx' = sv[q[i]] /\ current' = q[i] /\ hung' = hung
    BY <1>3 DEF Switched, SwitchTo
  <2>2. q[i] \in Tids /\ st[q[i]] = "Ready" /\ sv[q[i]] = work[q[i]]
    BY <1>0, <1>3 DEF FirstReady, ContextPre, Alive
  <2>3. \A t \in Tids : tstate'[t] = IF t = q[i] THEN "Running" ELSE st[t]
    BY <1>0, <2>1, <2>2
  <2>4. \A j \in 1 .. Len(ready_queue') :
            tstate'[ready_queue'[j]] = "Ready"
    <3> SUFFICES ASSUME NEW j \in 1 .. Len(ready_queue')
                 PROVE  tstate'[ready_queue'[j]] = "Ready"
      OBVIOUS
    <3>1. ready_queue'[j] = q[i + j] /\ i + j \in 1 .. Len(q) /\ i + j # i
      BY <1>0, <1>3, SuffixFacts
    <3>2. q[i + j] # q[i] /\ q[i + j] \in Tids /\ st[q[i + j]] = "Ready"
      BY <1>0, <3>1 DEF QNoDup, ContextPre
    <3> QED
      BY <2>3, <3>1, <3>2
  <2>5. \A t \in Tids : Live(t)' /\ t # current' => saved'[t] = work'[t]
    BY <2>1, <2>3 DEF Live, Alive, ContextPre
  <2>6. \A t \in Tids : /\ tstate'[t] # "Blocked"
                        /\ tstate'[t] = "none" /\ t # 0 => work'[t] = 0
    BY <2>3 DEF ContextPre
  <2>7. current' # NoTid /\ tstate'[current'] = "Running"
            /\ ctx' = work'[current'] /\ ~hung'
    BY <1>0, <2>1, <2>2, <2>3
  <2> QED
    BY <2>4, <2>5, <2>6, <2>7 DEF ContextInv
<1> QED
  BY <1>1, <1>2, <1>3 DEF Picked

(* A tick saves the registers of the thread it preempts before it picks.   *)
LEMMA OnTickContext ==
    ASSUME IInv, ContextInv, NEW sl, OnTick(sl)
    PROVE  ContextInv'
<1>0. /\ TypeOK /\ ready_queue \in Seq(Tids) /\ Len(ready_queue) \in Nat
      /\ 0 \in Tids /\ current \in Tids \cup {NoTid} /\ NoTid \notin Tids
      /\ tstate \in [Tids -> ThreadStates] /\ saved \in [Tids -> Nat]
      /\ \A i \in 1 .. Len(ready_queue) : ready_queue[i] \in Tids
      /\ ~hung /\ work' = work
      /\ \A t \in Tids : tstate[t] = "Running" => t = current
      /\ current = NoTid <=> tstate[0] = "none"
  BY InvFacts, LenProperties, ElementOfSeq DEF ContextInv, OnTick, TypeOK
<1>1. ASSUME NEW c \in Tids, NEW q, q = Append(ready_queue, c),
             NEW st, st = [tstate EXCEPT ![c] = "Ready"],
             NEW sv, sv = [saved EXCEPT ![c] = ctx], ctx = work[c],
             tstate[c] \notin {"Ready", "Terminated"},
             current # NoTid => current = c /\ ready_queue # <<>>
      PROVE  ContextPre(q, st, sv)
  <2>1. /\ Len(q) = Len(ready_queue) + 1
        /\ \A i \in 1 .. Len(ready_queue) : q[i] = ready_queue[i]
        /\ q[Len(ready_queue) + 1] = c
    BY <1>0, <1>1, AppendFacts
  <2>2. \A t \in Tids : /\ st[t] = IF t = c THEN "Ready" ELSE tstate[t]
                        /\ sv[t] = IF t = c THEN ctx ELSE saved[t]
    BY <1>0, <1>1
  <2>3. \A i \in 1 .. Len(q) :
            i \in 1 .. Len(ready_queue) \/ i = Len(ready_queue) + 1
    BY <1>0, <2>1
  <2>4. \A i \in 1 .. Len(q) : st[q[i]] = "Ready"
    BY <1>0, <1>1, <2>1, <2>2, <2>3 DEF ContextInv
  <2>5. \A t \in Tids : Alive(st, t) => sv[t] = work[t]
    BY <1>0, <1>1, <2>2 DEF Alive, Live, ContextInv
  <2>6. current # NoTid => st[current] = "Ready" /\ Len(q) >= 1 /\ q[1] # current
    <3> SUFFICES ASSUME current # NoTid PROVE Len(q) >= 1 /\ q[1] # c
      BY <1>1, <2>2
    <3>1. 1 \in 1 .. Len(ready_queue)
      BY <1>0, <1>1, EmptySeq
    <3>2. q[1] = ready_queue[1] /\ tstate[ready_queue[1]] = "Ready"
      BY <2>1, <3>1 DEF ContextInv
    <3> QED
      BY <1>0, <1>1, <2>1, <3>2
  <2> QED
    BY <2>2, <2>4, <2>5, <2>6 DEF ContextPre, ContextInv
<1>2. CASE CaptureKernel
  <2>1. current = NoTid /\ ctx = work[0] /\ tstate[0] = "none"
    BY <1>0, <1>2 DEF CaptureKernel, ContextInv
  <2>2. PickPre(Append(ready_queue, 0), [tstate EXCEPT ![0] = "Ready"], pending)
    BY <1>0, <2>1, PreCapture
  <2>3. Picked(Append(ready_queue, 0), [tstate EXCEPT ![0] = "Ready"],
               [slice EXCEPT ![0] = Quantum], [saved EXCEPT ![0] = ctx], pending)
    BY <1>2, PickOutcome DEF CaptureKernel
  <2>4. ContextPre(Append(ready_queue, 0), [tstate EXCEPT ![0] = "Ready"],
                   [saved EXCEPT ![0] = ctx])
    BY <1>0, <1>1, <2>1
  <2> QED
    BY <1>0, <2>2, <2>3, <2>4, PickContext
<1>3. CASE KeepRunning(sl)
  BY <1>0, <1>3 DEF KeepRunning, ContextInv, cpuVars, Live
<1>4. CASE Preempt(sl)
  <2>1. /\ current # NoTid /\ tstate[current] = "Running" /\ current \in Tids
        /\ ctx = work[current] /\ ready_queue # <<>>
    BY <1>0, <1>4 DEF Preempt, ContextInv
  <2>2. PickPre(Append(ready_queue, current),
                [tstate EXCEPT ![current] = "Ready"], pending)
    BY <1>0, <2>1, PrePreempt
  <2>3. Picked(Append(ready_queue, current), [tstate EXCEPT ![current] = "Ready"],
               [sl EXCEPT ![current] = Quantum],
               [saved EXCEPT ![current] = ctx], pending)
    BY <1>4, PickOutcome DEF Preempt
  <2>4. ContextPre(Append(ready_queue, current),
                   [tstate EXCEPT ![current] = "Ready"],
                   [saved EXCEPT ![current] = ctx])
    BY <1>1, <2>1
  <2> QED
    BY <1>0, <2>2, <2>3, <2>4, PickContext
<1>5. CASE Replace(sl)
  <2>1. current # NoTid /\ tstate[current] # "Running"
    BY <1>5 DEF Replace
  <2>2. PickPre(ready_queue, tstate, pending)
    BY <1>0, <2>1, PreReplace
  <2>3. Picked(ready_queue, tstate, sl, saved, pending)
    BY <1>5, PickOutcome DEF Replace
  <2>4. ContextPre(ready_queue, tstate, saved)
    BY <2>1 DEF ContextPre, ContextInv, Alive, Live
  <2> QED
    BY <1>0, <2>2, <2>3, <2>4, PickContext
<1> QED
  BY <1>2, <1>3, <1>4, <1>5 DEF OnTick

(* SYS_EXIT leaves the registers of a thread that will not run again.      *)
LEMMA ExitContext ==
    ASSUME IInv, ContextInv, ExitCurrentSyscall
    PROVE  ContextInv'
<1> DEFINE st == [tstate EXCEPT ![current] = "Terminated"]
           pf == DeferRecycleStack(ksp[current])
<1>1. /\ ~hung /\ current # NoTid /\ tstate[current] = "Running"
      /\ work' = work
  BY DEF ExitCurrentSyscall, Executing, Runner, ContextInv
<1>2. /\ current \in Tids /\ ready_queue \in Seq(Tids)
      /\ tstate \in [Tids -> ThreadStates]
      /\ \A i \in 1 .. Len(ready_queue) : ready_queue[i] \in Tids
  BY <1>1, InvFacts, ElementOfSeq
<1>3. \A t \in Tids : st[t] = IF t = current THEN "Terminated" ELSE tstate[t]
  BY <1>2
<1>4. Picked(ready_queue, st, slice, saved, pf)
  BY <1>2, <1>3, ExitOutcome DEF ExitCurrentSyscall
<1>5. PickPre(ready_queue, st, pf)
  BY <1>1, PreExit
<1> HIDE DEF st, pf
<1>6. ContextPre(ready_queue, st, saved)
  BY <1>1, <1>2, <1>3 DEF ContextPre, ContextInv, Alive, Live
<1> QED
  BY <1>1, <1>4, <1>5, <1>6, PickContext

(* A new thread starts with the context it was given.                      *)
LEMMA SpawnContext ==
    ASSUME IInv, ContextInv, NEW r \in Roots \cup {0}, SpawnProcess(r)
    PROVE  ContextInv'
<1> DEFINE t == next_tid
<1>1. /\ t \in Tids /\ NewThread(t, next_pid) /\ t # 0 /\ t \in Nat /\ t >= t
  BY InvFacts DEF SpawnProcess, TypeOK
<1>2. /\ tstate[t] = "none" /\ work[t] = 0
      /\ ready_queue \in Seq(Tids) /\ tstate \in [Tids -> ThreadStates]
      /\ saved \in [Tids -> Nat] /\ current # t /\ current \in Tids \cup {NoTid}
      /\ \A i \in 1 .. Len(ready_queue) : ready_queue[i] \in Tids
  <2>1. tstate[t] = "none"
    BY <1>1 DEF IInv, IdInv
  <2>2. work[t] = 0
    BY <1>1, <2>1 DEF ContextInv
  <2>3. current # t
    BY <1>1, <2>1, InvFacts
  <2>4. ready_queue \in Seq(Tids) /\ tstate \in [Tids -> ThreadStates]
        /\ saved \in [Tids -> Nat] /\ current \in Tids \cup {NoTid}
    BY InvFacts DEF TypeOK
  <2> QED
    BY <2>1, <2>2, <2>3, <2>4, ElementOfSeq
<1>3. /\ tstate' = [tstate EXCEPT ![t] = "Ready"]
      /\ saved' = [saved EXCEPT ![t] = 0]
      /\ ready_queue' = Append(ready_queue, t)
      /\ current' = current /\ ctx' = ctx /\ work' = work /\ hung' = hung
  BY <1>1 DEF NewThread, cpuVars
<1> HIDE DEF t
<1>4. \A u \in Tids : /\ tstate'[u] = IF u = t THEN "Ready" ELSE tstate[u]
                      /\ saved'[u] = IF u = t THEN 0 ELSE saved[u]
  BY <1>2, <1>3
<1>5. \A i \in 1 .. Len(ready_queue') : tstate'[ready_queue'[i]] = "Ready"
  <2>1. /\ Len(ready_queue) \in Nat /\ Len(ready_queue') = Len(ready_queue) + 1
        /\ \A i \in 1 .. Len(ready_queue) : ready_queue'[i] = ready_queue[i]
        /\ ready_queue'[Len(ready_queue) + 1] = t
    BY <1>1, <1>2, <1>3, AppendFacts, LenProperties
  <2>2. \A i \in 1 .. Len(ready_queue') :
            i \in 1 .. Len(ready_queue) \/ i = Len(ready_queue) + 1
    BY <2>1
  <2>3. \A i \in 1 .. Len(ready_queue) : tstate'[ready_queue[i]] = "Ready"
    BY <1>2, <1>4 DEF ContextInv
  <2>4. tstate'[t] = "Ready"
    BY <1>1, <1>4
  <2> QED
    BY <2>1, <2>2, <2>3, <2>4
<1>6. \A u \in Tids : Live(u)' /\ u # current' => saved'[u] = work'[u]
  BY <1>2, <1>3, <1>4 DEF Live, ContextInv
<1>7. \A u \in Tids : /\ tstate'[u] # "Blocked"
                      /\ tstate'[u] = "none" /\ u # 0 => work'[u] = 0
  BY <1>3, <1>4 DEF ContextInv
<1>8. current # NoTid => tstate'[current] = tstate[current]
  BY <1>2, <1>4
<1> QED
  BY <1>3, <1>5, <1>6, <1>7, <1>8 DEF ContextInv

(* The thread that takes a step is the one the registers belong to.        *)
LEMMA WorkContext ==
    ASSUME IInv, ContextInv, Work
    PROVE  ContextInv'
<1>0. /\ work \in [Tids -> Nat] /\ 0 \in Tids /\ Runner \in Tids
      /\ NoTid \notin Tids /\ current \in Tids \cup {NoTid}
  BY InvFacts DEF TypeOK, Runner
<1>1. /\ ctx = work[Runner] /\ (current # NoTid => Runner = current)
      /\ (current = NoTid => Runner = 0)
  BY DEF Work, Executing, Runner, ContextInv
<1>2. /\ ctx' = ctx + 1 /\ tstate' = tstate /\ saved' = saved
      /\ ready_queue' = ready_queue /\ current' = current /\ hung' = hung
      /\ \A t \in Tids : work'[t] = IF t = Runner THEN work[t] + 1 ELSE work[t]
  BY <1>0 DEF Work, threadVars
<1>3. \A t \in Tids : Live(t)' /\ t # current' => saved'[t] = work'[t]
  <2> SUFFICES ASSUME NEW t \in Tids, Live(t), t # current
               PROVE  saved[t] = work'[t]
    BY <1>2 DEF Live
  <2>1. t # Runner
    BY <1>1, InvFacts DEF Live
  <2> QED
    BY <1>2, <2>1 DEF ContextInv
<1>4. \A t \in Tids : tstate'[t] = "none" /\ t # 0 => work'[t] = 0
  BY <1>1, <1>2, InvFacts DEF ContextInv
<1>5. ctx' = work'[Runner]
  BY <1>0, <1>1, <1>2
<1> QED
  BY <1>1, <1>2, <1>3, <1>4, <1>5 DEF ContextInv

(* Every step of the kernel of today keeps it.                             *)
LEMMA ContextStep ==
    ASSUME ~FullApi, IInv, ContextInv, [SchedNext]_schedVars
    PROVE  ContextInv'
<1>1. CASE Tick
  BY <1>1, OnTickContext DEF Tick
<1>2. CASE Activate \/ ExpireCurrentQuantum \/ UNCHANGED schedVars
  BY <1>2
  DEF Activate, ExpireCurrentQuantum, schedVars, threadVars, cpuVars, ContextInv, Live
<1> QED
  BY <1>1, <1>2, SpawnContext, WorkContext, ExitContext
  DEF SchedNext, SpawnThread, YieldCurrent, ExitCurrent, BlockCurrent, BlockThread,
      UnblockThread

(* "Performs transparent context switch", for any number of threads and    *)
(* any quantum: with the operations the kernel calls today a thread always *)
(* finds its registers as it left them, and the pick never waits for a TCB *)
(* lock that it holds.                                                     *)
THEOREM ContextCorrect ==
    ASSUME ~FullApi
    PROVE  SchedSpec => []ContextIsTransparent
<1>1. SchedInit => ContextInv
  <2> SUFFICES ASSUME SchedInit PROVE ContextInv
    OBVIOUS
  <2>1. 0 \in Tids /\ 1 .. Len(ready_queue) = {}
    BY SchedulerAssumption DEF SchedInit, Tids
  <2> QED
    BY <2>1 DEF SchedInit, ContextInv, Live
<1>2. IInv /\ ContextInv /\ [SchedNext]_schedVars => ContextInv'
  BY ContextStep
<1>3. ContextInv => ContextIsTransparent
  <2> SUFFICES ASSUME ContextInv PROVE Executing => ctx = work[Runner]
    BY DEF ContextInv, ContextIsTransparent
  <2> QED
    BY DEF ContextInv, Executing, Runner
<1> QED
  BY <1>1, <1>2, <1>3, Invariance, PTL DEF SchedSpec
=============================================================================
