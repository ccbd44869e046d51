------------------------- MODULE SyscallEntryProofs -------------------------
(***************************************************************************)
(* Proofs about SyscallEntry, for every set of threads and any number of   *)
(* calls: one stack and one USER_RSP are enough as long as no call halts,  *)
(* or the scheduler is not running, or one thread alone makes calls.       *)
(*                                                                         *)
(* MaskedReturnsToItself is not inductive: whether a thread goes back to   *)
(* where it was depends on what the shared stack held while it was in the  *)
(* kernel, and on who else was there.                                      *)
(***************************************************************************)
EXTENDS SyscallEntry, TLAPS

InKernel == {"handler", "halted", "return"}
OnPath(t) == mode[t] \in {"entry", "leaving"} \cup InKernel

(* What the path relies on.  Before Activate a program that halts is       *)
(* resumed itself.                                                         *)
Quiet == ~halts \/ ~started \/ \E t \in UserThreads : Alone(t)

(* A thread on the path has made a call; one not yet spawned is as Start   *)
(* would leave it; kernel_main is never on the path.                       *)
StartInv ==
    /\ mode[KernelMain] = "user"
    /\ \A t \in UserThreads :
        /\ OnPath(t) => made[t] # 0
        /\ mode[t] = "none" => made[t] = 0 /\ pc[t] = <<t, 0>> /\ sp[t] = t

(* As long as nobody has halted, or the scheduler does not run, only the   *)
(* thread the CPU runs is on the path; in the first case it is masked.     *)
CpuInv ==
    /\ ~halts \/ ~started => \A t \in UserThreads : OnPath(t) => t = onCpu
    /\ ~halts => \A t \in UserThreads : OnPath(t) => ~intr[t] /\ mode[t] # "halted"
    /\ ~halts => irqStack # "user"

(* What stands on the shared stack and in the registers is the caller's.   *)
PathInv ==
    Quiet => \A t \in UserThreads :
        /\ Undisturbed(t)
        /\ OnPath(t) => sp[t] = t
        /\ mode[t] \in {"entry", "leaving"} => rcx[t] = <<t, made[t]>>
        /\ mode[t] \in InKernel => frame = <<t, made[t]>> /\ user_rsp = t

(* Whoever will jump through RCX or the shared stack finds an address      *)
(* there, not the empty value they start with.                             *)
JumpInv ==
    \A t \in UserThreads :
        /\ mode[t] \in {"entry", "leaving"} => rcx[t] \in Addresses
        /\ mode[t] \in InKernel => frame \in Addresses

IInv == SyscallTypeOK /\ StartInv /\ JumpInv /\ CpuInv /\ PathInv

-----------------------------------------------------------------------------
(* The invariant: one lemma per action.                                    *)

(* The initial states.                                                     *)
LEMMA InvInit == SyscallInit => IInv
  <1> SUFFICES ASSUME SyscallInit PROVE IInv
    OBVIOUS
  <1> USE SyscallAssumption DEF SyscallInit
  <1>1. \A t \in UserThreads : <<t, 0>> \in Addresses
    BY DEF Addresses
  <1>2. SyscallTypeOK
    <2>1. 0 \in 0 .. MaxCalls
      OBVIOUS
    <2>2. /\ mode \in [Everyone -> Modes] /\ intr \in [Everyone -> BOOLEAN]
          /\ call \in [UserThreads -> CallNames]
      BY DEF Everyone, Modes, CallNames
    <2>3. made \in [UserThreads -> 0 .. MaxCalls] /\ pc \in [UserThreads -> Addresses]
      BY <1>1, <2>1
    <2>4. /\ rcx \in [UserThreads -> Addresses \cup {NoAddress}]
          /\ sp \in [UserThreads -> Everyone]
      BY DEF Everyone
    <2> QED BY <2>2, <2>3, <2>4 DEF SyscallTypeOK, Everyone
  <1>3. \A t \in UserThreads : mode[t] = "none" /\ ~OnPath(t)
    BY DEF Everyone, OnPath, InKernel
  <1>4. StartInv
    BY <1>3 DEF StartInv, Everyone
  <1>5. JumpInv /\ CpuInv /\ PathInv
    BY <1>3 DEF JumpInv, CpuInv, PathInv, Undisturbed, OnPath, InKernel
  <1> QED BY <1>2, <1>4, <1>5 DEF IInv

(* The boot code enters a program when nobody else is on the path.         *)
LEMMA EnterInv ==
    ASSUME NEW t \in UserThreads, IInv, Enter(t) PROVE IInv'
  <1> USE SyscallAssumption DEF IInv
  <1>1. SyscallTypeOK'
    BY DEF SyscallTypeOK, JumpInv, Enter, Start, Everyone, Addresses,
        NoAddress,
           Modes, InKernel
  <1>2. StartInv'
    BY DEF SyscallTypeOK, StartInv, Enter, Start, Everyone, OnPath, InKernel
  <1>3. JumpInv'
    BY DEF SyscallTypeOK, JumpInv, Enter, Start, Everyone, Addresses, InKernel
  <1>4. CpuInv'
    BY DEF SyscallTypeOK, CpuInv, StartInv, Enter, Start, Everyone, OnPath,
        InKernel
  <1>5. PathInv'
    BY DEF SyscallTypeOK, PathInv, CpuInv, StartInv, Enter, Start, Everyone,
        OnPath,
           InKernel, Quiet, Alone, Undisturbed
  <1> QED BY <1>1, <1>2, <1>3, <1>4, <1>5

(* kernel_main spawns a thread that has done nothing yet.                  *)
LEMMA KernelSpawnInv ==
    ASSUME NEW t \in UserThreads, IInv, KernelSpawn(t) PROVE IInv'
  <1> USE SyscallAssumption DEF IInv
  <1>1. SyscallTypeOK'
    BY DEF SyscallTypeOK, JumpInv, KernelSpawn, Start, Everyone, Addresses,
        NoAddress,
           Modes, InKernel
  <1>2. StartInv'
    BY DEF SyscallTypeOK, StartInv, KernelSpawn, Start, Everyone, OnPath,
        InKernel
  <1>3. JumpInv'
    BY DEF SyscallTypeOK, JumpInv, KernelSpawn, Start, Everyone, Addresses,
        InKernel
  <1>4. CpuInv'
    BY DEF SyscallTypeOK, CpuInv, StartInv, KernelSpawn, Start, Everyone,
        OnPath,
           InKernel
  <1>5. PathInv'
    BY DEF SyscallTypeOK, PathInv, CpuInv, StartInv, KernelSpawn, Start,
        Everyone,
           OnPath, InKernel, Quiet, Alone, Undisturbed
  <1> QED BY <1>1, <1>2, <1>3, <1>4, <1>5

(* The scheduler starts between two programs.                              *)
LEMMA ActivateInv ==
    ASSUME IInv, Activate PROVE IInv'
  <1> USE SyscallAssumption DEF IInv
  <1>1. SyscallTypeOK'
    BY DEF SyscallTypeOK, JumpInv, Activate, threadVars, Everyone, Addresses,
           NoAddress, Modes, InKernel
  <1>2. StartInv'
    BY DEF SyscallTypeOK, StartInv, Activate, threadVars, Everyone, OnPath,
        InKernel
  <1>3. JumpInv'
    BY DEF SyscallTypeOK, JumpInv, Activate, threadVars, Everyone, Addresses,
        InKernel
  <1>4. CpuInv'
    BY DEF SyscallTypeOK, CpuInv, StartInv, Activate, threadVars, Everyone,
        OnPath,
           InKernel
  <1>5. PathInv'
    BY DEF SyscallTypeOK, PathInv, CpuInv, StartInv, Activate, threadVars,
        Everyone,
           OnPath, InKernel, Quiet, Alone, Undisturbed
  <1> QED BY <1>1, <1>2, <1>3, <1>4, <1>5

(* Whoever makes a call masks interrupts, and nobody else is inside.       *)
LEMMA SyscallInv ==
    ASSUME NEW t \in CallMakers, NEW c \in Calls, IInv, SyscallInsn(t, c) PROVE IInv'
  <1> USE SyscallAssumption DEF IInv
  <1>1. SyscallTypeOK'
    BY DEF SyscallTypeOK, JumpInv, SyscallInsn, Everyone, Addresses,
        NoAddress, Modes,
           InKernel
  <1>2. StartInv'
    BY DEF SyscallTypeOK, StartInv, SyscallInsn, Everyone, OnPath, InKernel
  <1>3. JumpInv'
    BY DEF SyscallTypeOK, JumpInv, SyscallInsn, Everyone, Addresses, InKernel
  <1>4. CpuInv'
    BY DEF SyscallTypeOK, CpuInv, StartInv, SyscallInsn, Everyone, OnPath,
        InKernel
  <1>5. PathInv'
    BY DEF SyscallTypeOK, PathInv, CpuInv, StartInv, SyscallInsn, Everyone,
        OnPath,
           InKernel, Quiet, Alone, Undisturbed
  <1> QED BY <1>1, <1>2, <1>3, <1>4, <1>5

(* The stub writes USER_RSP and the stack: nobody else needs them.         *)
LEMMA EntryInv ==
    ASSUME NEW t \in CallMakers, IInv, EntryStub(t) PROVE IInv'
  <1> USE SyscallAssumption DEF IInv
  <1>1. SyscallTypeOK'
    BY DEF SyscallTypeOK, JumpInv, EntryStub, Everyone, Addresses, NoAddress,
        Modes,
           InKernel
  <1>2. StartInv'
    BY DEF SyscallTypeOK, StartInv, EntryStub, Everyone, OnPath, InKernel
  <1>3. JumpInv'
    BY DEF SyscallTypeOK, JumpInv, EntryStub, Everyone, Addresses, InKernel
  <1>4. CpuInv'
    BY DEF SyscallTypeOK, CpuInv, StartInv, EntryStub, Everyone, OnPath,
        InKernel
  <1>5. PathInv'
    BY DEF SyscallTypeOK, PathInv, CpuInv, StartInv, EntryStub, Everyone,
        OnPath,
           InKernel, Quiet, Alone, Undisturbed
  <1> QED BY <1>1, <1>2, <1>3, <1>4, <1>5

(* A handler that neither waits nor switches changes nothing shared.       *)
LEMMA HandlePlainInv ==
    ASSUME NEW t \in CallMakers, IInv, HandlePlain(t) PROVE IInv'
  <1> USE SyscallAssumption DEF IInv
  <1>1. SyscallTypeOK'
    BY DEF SyscallTypeOK, JumpInv, HandlePlain, Everyone, Addresses,
        NoAddress, Modes,
           InKernel
  <1>2. StartInv'
    BY DEF SyscallTypeOK, StartInv, HandlePlain, Everyone, OnPath, InKernel
  <1>3. JumpInv'
    BY DEF SyscallTypeOK, JumpInv, HandlePlain, Everyone, Addresses, InKernel
  <1>4. CpuInv'
    BY DEF SyscallTypeOK, CpuInv, StartInv, HandlePlain, Everyone, OnPath,
        InKernel
  <1>5. PathInv'
    BY DEF SyscallTypeOK, PathInv, CpuInv, StartInv, HandlePlain, Everyone,
        OnPath,
           InKernel, Quiet, Alone, Undisturbed
  <1> QED BY <1>1, <1>2, <1>3, <1>4, <1>5

(* From the first halt on, Quiet is what is left.                          *)
LEMMA HandleYieldInv ==
    ASSUME NEW t \in CallMakers, IInv, HandleYield(t) PROVE IInv'
  <1> USE SyscallAssumption DEF IInv
  <1>1. SyscallTypeOK'
    BY DEF SyscallTypeOK, JumpInv, HandleYield, Everyone, Addresses,
        NoAddress, Modes,
           InKernel
  <1>2. StartInv'
    BY DEF SyscallTypeOK, StartInv, HandleYield, Everyone, OnPath, InKernel
  <1>3. JumpInv'
    BY DEF SyscallTypeOK, JumpInv, HandleYield, Everyone, Addresses, InKernel
  <1>4. CpuInv'
    BY DEF SyscallTypeOK, CpuInv, StartInv, HandleYield, Everyone, OnPath,
        InKernel
  <1>5. PathInv'
    BY DEF SyscallTypeOK, PathInv, CpuInv, StartInv, HandleYield, Everyone,
        OnPath,
           InKernel, Quiet, Alone, Undisturbed
  <1> QED BY <1>1, <1>2, <1>3, <1>4, <1>5

(* What was pushed is popped.                                              *)
LEMMA PopFrameInv ==
    ASSUME NEW t \in CallMakers, IInv, PopFrame(t) PROVE IInv'
  <1> USE SyscallAssumption DEF IInv
  <1>1. SyscallTypeOK'
    BY DEF SyscallTypeOK, JumpInv, PopFrame, Everyone, Addresses, NoAddress,
        Modes,
           InKernel
  <1>2. StartInv'
    BY DEF SyscallTypeOK, StartInv, PopFrame, Everyone, OnPath, InKernel
  <1>3. JumpInv'
    BY DEF SyscallTypeOK, JumpInv, PopFrame, Everyone, Addresses, InKernel
  <1>4. CpuInv'
    BY DEF SyscallTypeOK, CpuInv, StartInv, PopFrame, Everyone, OnPath,
        InKernel
  <1>5. PathInv'
    BY DEF SyscallTypeOK, PathInv, CpuInv, StartInv, PopFrame, Everyone,
        OnPath,
           InKernel, Quiet, Alone, Undisturbed
  <1> QED BY <1>1, <1>2, <1>3, <1>4, <1>5

(* The thread is back where it called.                                     *)
LEMMA SysretInv ==
    ASSUME NEW t \in CallMakers, IInv, SysretInsn(t) PROVE IInv'
  <1> USE SyscallAssumption DEF IInv
  <1>1. SyscallTypeOK'
    BY DEF SyscallTypeOK, JumpInv, SysretInsn, Everyone, Addresses, NoAddress,
        Modes,
           InKernel
  <1>2. StartInv'
    BY DEF SyscallTypeOK, StartInv, SysretInsn, Everyone, OnPath, InKernel
  <1>3. JumpInv'
    BY DEF SyscallTypeOK, JumpInv, SysretInsn, Everyone, Addresses, InKernel
  <1>4. CpuInv'
    BY DEF SyscallTypeOK, CpuInv, StartInv, SysretInsn, Everyone, OnPath,
        InKernel
  <1>5. PathInv'
    BY DEF SyscallTypeOK, PathInv, CpuInv, StartInv, SysretInsn, Everyone,
        OnPath,
           InKernel, Quiet, Alone, Undisturbed
  <1> QED BY <1>1, <1>2, <1>3, <1>4, <1>5

(* A new thread starts at its own entry.                                   *)
LEMMA HandleSpawnInv ==
    ASSUME NEW t \in CallMakers, NEW u \in UserThreads, IInv, HandleSpawn(t, u)
    PROVE  IInv'
  <1> USE SyscallAssumption DEF IInv
  <1>1. SyscallTypeOK'
    BY DEF SyscallTypeOK, JumpInv, HandleSpawn, Everyone, Addresses,
        NoAddress, Modes,
           InKernel
  <1>2. StartInv'
    BY DEF SyscallTypeOK, StartInv, HandleSpawn, Everyone, OnPath, InKernel
  <1>3. JumpInv'
    BY DEF SyscallTypeOK, JumpInv, HandleSpawn, Everyone, Addresses, InKernel
  <1>4. CpuInv'
    BY DEF SyscallTypeOK, CpuInv, StartInv, HandleSpawn, Everyone, OnPath,
        InKernel
  <1>5. PathInv'
    BY DEF SyscallTypeOK, PathInv, CpuInv, StartInv, HandleSpawn, Everyone,
        OnPath,
           InKernel, Quiet, Alone, Undisturbed
  <1> QED BY <1>1, <1>2, <1>3, <1>4, <1>5

(* The path is empty when another thread is resumed.                       *)
LEMMA HandleExitInv ==
    ASSUME NEW t \in CallMakers, NEW u \in Everyone, IInv, HandleExit(t, u)
    PROVE  IInv'
  <1> USE SyscallAssumption DEF IInv
  <1>1. SyscallTypeOK'
    BY DEF SyscallTypeOK, JumpInv, HandleExit, Runnable, Everyone, Addresses,
           NoAddress, Modes, InKernel
  <1>2. StartInv'
    BY DEF SyscallTypeOK, StartInv, HandleExit, Runnable, Everyone, OnPath,
        InKernel
  <1>3. JumpInv'
    BY DEF SyscallTypeOK, JumpInv, HandleExit, Runnable, Everyone, Addresses,
        InKernel
  <1>4. CpuInv'
    BY DEF SyscallTypeOK, CpuInv, StartInv, HandleExit, Runnable, Everyone,
        OnPath,
           InKernel
  <1>5. PathInv'
    BY DEF SyscallTypeOK, PathInv, CpuInv, StartInv, HandleExit, Runnable,
        Everyone,
           OnPath, InKernel, Quiet, Alone, Undisturbed
  <1> QED BY <1>1, <1>2, <1>3, <1>4, <1>5

(* A program that faults was not on the path.                              *)
LEMMA FaultInv ==
    ASSUME NEW t \in UserThreads, IInv, Fault(t) PROVE IInv'
  <1> USE SyscallAssumption DEF IInv
  <1>1. SyscallTypeOK'
    BY DEF SyscallTypeOK, JumpInv, Fault, Everyone, Addresses, NoAddress,
        Modes,
           InKernel
  <1>2. StartInv'
    BY DEF SyscallTypeOK, StartInv, Fault, Everyone, OnPath, InKernel
  <1>3. JumpInv'
    BY DEF SyscallTypeOK, JumpInv, Fault, Everyone, Addresses, InKernel
  <1>4. CpuInv'
    BY DEF SyscallTypeOK, CpuInv, StartInv, Fault, Everyone, OnPath, InKernel
  <1>5. PathInv'
    BY DEF SyscallTypeOK, PathInv, CpuInv, StartInv, Fault, Everyone, OnPath,
           InKernel, Quiet, Alone, Undisturbed
  <1> QED BY <1>1, <1>2, <1>3, <1>4, <1>5

(* A thread on the path is not interrupted before somebody has halted.     *)
LEMMA TickInv ==
    ASSUME NEW t \in Everyone, IInv, Tick(t) PROVE IInv'
  <1> USE SyscallAssumption DEF IInv
  <1>1. SyscallTypeOK'
    BY DEF SyscallTypeOK, JumpInv, Tick, Runnable, OnUserStack, Everyone,
        Addresses,
           NoAddress, Modes, InKernel
  <1>2. StartInv'
    BY DEF SyscallTypeOK, StartInv, Tick, Runnable, OnUserStack, Everyone,
        OnPath,
           InKernel
  <1>3. JumpInv'
    BY DEF SyscallTypeOK, JumpInv, Tick, Runnable, OnUserStack, Everyone,
        Addresses,
           InKernel
  <1>4. CpuInv'
    BY DEF SyscallTypeOK, CpuInv, StartInv, Tick, Runnable, OnUserStack,
        Everyone,
           OnPath, InKernel
  <1>5. PathInv'
    BY DEF SyscallTypeOK, PathInv, CpuInv, StartInv, Tick, Runnable,
        OnUserStack,
           Everyone, OnPath, InKernel, Quiet, Alone, Undisturbed
  <1> QED BY <1>1, <1>2, <1>3, <1>4, <1>5

(* Every step keeps the invariant.                                         *)
LEMMA InvStep == IInv /\ [SyscallNext]_syscallVars => IInv'
  <1> SUFFICES ASSUME IInv, [SyscallNext]_syscallVars PROVE IInv'
    OBVIOUS
  <1>1. ASSUME NEW t \in UserThreads, Enter(t) \/ KernelSpawn(t) \/ Fault(t) PROVE IInv'
    BY <1>1, EnterInv, KernelSpawnInv, FaultInv
  <1>2. CASE Activate
    BY <1>2, ActivateInv
  <1>3. ASSUME NEW t \in CallMakers, NEW c \in Calls, SyscallInsn(t, c) PROVE IInv'
    BY <1>3, SyscallInv
  <1>4. ASSUME NEW t \in CallMakers,
               \/ EntryStub(t) \/ HandlePlain(t) \/ HandleYield(t)
               \/ PopFrame(t) \/ SysretInsn(t)
        PROVE  IInv'
    BY <1>4, EntryInv, HandlePlainInv, HandleYieldInv, PopFrameInv, SysretInv
  <1>5. ASSUME NEW t \in CallMakers, NEW u \in UserThreads, HandleSpawn(t, u)
        PROVE  IInv'
    BY <1>5, HandleSpawnInv
  <1>6. ASSUME NEW t \in CallMakers, NEW u \in Everyone, HandleExit(t, u)
        PROVE  IInv'
    BY <1>6, HandleExitInv
  <1>7. ASSUME NEW t \in Everyone, Tick(t) PROVE IInv'
    BY <1>7, TickInv
  <1>8. CASE UNCHANGED syscallVars
    BY <1>8 DEF syscallVars, threadVars, IInv, SyscallTypeOK, StartInv,
        JumpInv, CpuInv,
         PathInv, OnPath, Quiet, Alone, Undisturbed
  <1> QED BY <1>1, <1>2, <1>3, <1>4, <1>5, <1>6, <1>7, <1>8 DEF SyscallNext

(* The invariant holds in every reachable state.                           *)
LEMMA InvCorrect == SyscallSpec => []IInv
  BY InvInit, InvStep, PTL DEF SyscallSpec

-----------------------------------------------------------------------------
(* `sysretq` never jumps to something that is not an address a call left,  *)
(* whatever threads overwrite each other's.                                *)
THEOREM TypeCorrect == SyscallSpec => []SyscallTypeOK
  <1>1. IInv => SyscallTypeOK
    BY DEF IInv
  <1> QED BY <1>1, InvCorrect, PTL

(* "RCX and R11 carry the return address; sysretq needs them intact", for  *)
(* any number of threads and calls: every thread returns to where it       *)
(* called on its own stack until a call has halted, and after that as long *)
(* as one thread alone makes calls; and until then no interrupt fires in   *)
(* ring 0 on a user stack.                                                 *)
THEOREM ReturnCorrect == SyscallSpec => []MaskedReturnsToItself
  <1>1. IInv => MaskedReturnsToItself
    BY DEF IInv, CpuInv, PathInv, Quiet, MaskedReturnsToItself
  <1> QED BY <1>1, InvCorrect, PTL
=============================================================================
