---------------------------- MODULE SyscallEntry ----------------------------
(***************************************************************************)
(* The x86_64 system call path (kernel/src/arch/x86_64/userspace.rs): the  *)
(* `syscall` instruction with interrupts masked by FMASK, the entry stub   *)
(* that parks the user stack pointer in the static USER_RSP and its return *)
(* address on the one kernel stack all threads share, the dispatcher, and  *)
(* `sysretq`.  The timer interrupt may switch threads whenever IF is set.  *)
(*                                                                         *)
(* A user address is the pair of the thread it belongs to and the number   *)
(* of calls that thread had made there; a stack pointer is the thread      *)
(* whose stack it points into.  Which ready thread a switch picks is the   *)
(* business of module Scheduler and left open here.                        *)
(***************************************************************************)
EXTENDS Integers, FiniteSets

CONSTANTS
    UserThreads,  \* the threads that run in ring 3
    CallMakers,   \* those whose program makes system calls
    KernelMain,   \* kernel_main: the boot code, then the scheduler's thread 0
    Calls,        \* families of system calls the programs use
    MaxCalls      \* bound: calls made by one thread

CallNames == {"plain", "yield", "waitpid", "spawn", "exit"}

ASSUME SyscallAssumption ==
    /\ CallMakers \subseteq UserThreads /\ KernelMain \notin UserThreads
    /\ Calls \subseteq CallNames
    /\ MaxCalls \in Nat

VARIABLES
    mode,       \* where the thread is on the path
    call,       \* the system call it is in
    made,       \* history: how many calls it has made
    pc, sp,     \* its user program counter and stack pointer
    rcx,        \* the return address in its registers
    intr,       \* IF in its (saved) RFLAGS
    frame,      \* the return address on top of the shared syscall stack
    user_rsp,   \* USER_RSP
    onCpu,      \* the thread the CPU runs
    started,    \* scheduler::is_active
    irqStack,   \* where the last interrupt pushed its frame
    halts       \* history: some call has halted with IF set

threadVars == <<mode, call, made, pc, sp, rcx, intr>>
syscallVars == <<threadVars, frame, user_rsp, onCpu, started, irqStack, halts>>

Everyone == UserThreads \cup {KernelMain}
Addresses == UserThreads \X (0 .. MaxCalls)
NoAddress == <<KernelMain, 0>>

(* none: not spawned.  entry: in ring 0 on the user stack, before the stub *)
(* has switched stacks.  handler: dispatched.  halted: in `sti; hlt`.      *)
(* return: back from the dispatcher.  leaving: in ring 0 on the user stack *)
(* again, before `sysretq`.  dead: exited.                                 *)
Modes == {"none", "user", "entry", "handler", "halted", "return", "leaving",
          "dead"}
OnUserStack == {"entry", "leaving"}
Runnable(t) == mode[t] \notin {"none", "dead"}

SyscallInit ==
    /\ mode = [t \in Everyone |-> IF t = KernelMain THEN "user" ELSE "none"]
    /\ call = [t \in UserThreads |-> "plain"]
    /\ made = [t \in UserThreads |-> 0]
    /\ pc = [t \in UserThreads |-> <<t, 0>>]
    /\ sp = [t \in UserThreads |-> t]
    /\ rcx = [t \in UserThreads |-> NoAddress]
    /\ intr = [t \in Everyone |-> TRUE]
    /\ frame = NoAddress /\ user_rsp = KernelMain
    /\ onCpu = KernelMain /\ started = FALSE /\ irqStack = "kernel"
    /\ halts = FALSE

-----------------------------------------------------------------------------
(* Threads start.                                                          *)

Start(t) ==
    /\ mode' = [mode EXCEPT ![t] = "user"]
    /\ made' = [made EXCEPT ![t] = 0]
    /\ pc' = [pc EXCEPT ![t] = <<t, 0>>]
    /\ sp' = [sp EXCEPT ![t] = t]

(* enter: before the scheduler runs, the boot code drops to ring 3 and     *)
(* waits there for the program to die.                                     *)
Enter(t) ==
    /\ ~started /\ onCpu = KernelMain
    /\ mode[t] \in {"none", "dead"}
    /\ Start(t)
    /\ intr' = [intr EXCEPT ![t] = TRUE]
    /\ onCpu' = t
    /\ UNCHANGED <<call, rcx, frame, user_rsp, started, irqStack, halts>>

(* scheduler::init, after the programs that enter ran to their ends.       *)
Activate ==
    /\ ~started /\ onCpu = KernelMain
    /\ started' = TRUE
    /\ UNCHANGED <<threadVars, frame, user_rsp, onCpu, irqStack, halts>>

(* kernel_main spawns its user processes.                                  *)
KernelSpawn(t) ==
    /\ started /\ onCpu = KernelMain
    /\ mode[t] = "none"
    /\ Start(t)
    /\ UNCHANGED <<call, rcx, intr, frame, user_rsp, onCpu, started,
                   irqStack, halts>>

-----------------------------------------------------------------------------
(* The path.                                                               *)

(* Mutant: FMASK leaves IF alone.                                          *)
SyscallUnmasked(t, c) ==
    /\ onCpu = t /\ mode[t] = "user"
    /\ made[t] < MaxCalls
    /\ mode' = [mode EXCEPT ![t] = "entry"]
    /\ call' = [call EXCEPT ![t] = c]
    /\ made' = [made EXCEPT ![t] = @ + 1]
    /\ rcx' = [rcx EXCEPT ![t] = <<t, made[t] + 1>>]
    /\ UNCHANGED <<pc, sp, intr, frame, user_rsp, onCpu, started, irqStack,
                   halts>>

(* The `syscall` instruction: RCX takes the return address, IF is cleared. *)
SyscallInsn(t, c) ==
    /\ onCpu = t /\ mode[t] = "user"
    /\ made[t] < MaxCalls                                           \* bound
    /\ mode' = [mode EXCEPT ![t] = "entry"]
    /\ call' = [call EXCEPT ![t] = c]
    /\ made' = [made EXCEPT ![t] = @ + 1]
    /\ rcx' = [rcx EXCEPT ![t] = <<t, made[t] + 1>>]
    /\ intr' = [intr EXCEPT ![t] = FALSE]
    /\ UNCHANGED <<pc, sp, frame, user_rsp, onCpu, started, irqStack, halts>>

(* The stub: saves the user stack pointer, switches to the shared stack    *)
(* and pushes the return address at its top.                               *)
EntryStub(t) ==
    /\ onCpu = t /\ mode[t] = "entry"
    /\ user_rsp' = sp[t]
    /\ frame' = rcx[t]
    /\ mode' = [mode EXCEPT ![t] = "handler"]
    /\ UNCHANGED <<call, made, pc, sp, rcx, intr, onCpu, started,
                   irqStack, halts>>

(* The handlers that neither wait nor switch: write, read, getpid, mmap,   *)
(* munmap, the channel and file system calls, sysinfo, launch_desktop.     *)
HandlePlain(t) ==
    /\ onCpu = t /\ mode[t] = "handler" /\ call[t] = "plain"
    /\ mode' = [mode EXCEPT ![t] = "return"]
    /\ UNCHANGED <<call, made, pc, sp, rcx, intr, frame, user_rsp, onCpu,
                   started, irqStack, halts>>

(* sys_spawn, the path resolving and memory sufficing or not.              *)
HandleSpawn(t, u) ==
    /\ onCpu = t /\ mode[t] = "handler" /\ call[t] = "spawn"
    /\ \/ /\ mode[u] = "none"
          /\ mode' = [mode EXCEPT ![t] = "return", ![u] = "user"]
       \/ mode' = [mode EXCEPT ![t] = "return"]
    /\ UNCHANGED <<call, made, pc, sp, rcx, intr, frame, user_rsp, onCpu,
                   started, irqStack, halts>>

(* sys_yield, and sys_waitpid, which is sys_yield whatever its argument:   *)
(* `sti; hlt` on the shared stack.  An inactive scheduler makes waitpid    *)
(* return at once.                                                         *)
HandleYield(t) ==
    /\ onCpu = t /\ mode[t] = "handler" /\ call[t] \in {"yield", "waitpid"}
    /\ IF call[t] = "waitpid" /\ ~started
       THEN /\ mode' = [mode EXCEPT ![t] = "return"]
            /\ UNCHANGED <<intr, halts>>
       ELSE /\ mode' = [mode EXCEPT ![t] = "halted"]
            /\ intr' = [intr EXCEPT ![t] = TRUE]
            /\ halts' = TRUE
    /\ UNCHANGED <<call, made, pc, sp, rcx, frame, user_rsp, onCpu, started,
                   irqStack>>

(* SYS_EXIT.  Under the scheduler another runnable thread is resumed       *)
(* (kernel_main never exits); before it, return_to_kernel goes back into   *)
(* enter.                                                                  *)
HandleExit(t, next) ==
    /\ onCpu = t /\ mode[t] = "handler" /\ call[t] = "exit"
    /\ next # t /\ Runnable(next)
    /\ started \/ next = KernelMain
    /\ mode' = [mode EXCEPT ![t] = "dead"]
    /\ intr' = [intr EXCEPT ![t] = TRUE]
    /\ onCpu' = next
    /\ UNCHANGED <<call, made, pc, sp, rcx, frame, user_rsp, started,
                   irqStack, halts>>

(* A fault in ring 3 kills the program: fault, return_to_kernel.  Under    *)
(* the scheduler that jump is into an enter that has returned, and is not  *)
(* modelled.                                                               *)
Fault(t) ==
    /\ onCpu = t /\ mode[t] = "user" /\ ~started
    /\ mode' = [mode EXCEPT ![t] = "dead"]
    /\ onCpu' = KernelMain
    /\ UNCHANGED <<call, made, pc, sp, rcx, intr, frame, user_rsp, started,
                   irqStack, halts>>

(* `pop r11; pop rcx; mov rsp, USER_RSP`: back on what USER_RSP says is    *)
(* the user stack, still in ring 0.                                        *)
PopFrame(t) ==
    /\ onCpu = t /\ mode[t] = "return"
    /\ rcx' = [rcx EXCEPT ![t] = frame]
    /\ sp' = [sp EXCEPT ![t] = user_rsp]
    /\ mode' = [mode EXCEPT ![t] = "leaving"]
    /\ UNCHANGED <<call, made, pc, intr, frame, user_rsp, onCpu, started,
                   irqStack, halts>>

SysretInsn(t) ==
    /\ onCpu = t /\ mode[t] = "leaving"
    /\ pc' = [pc EXCEPT ![t] = rcx[t]]
    /\ intr' = [intr EXCEPT ![t] = TRUE]
    /\ mode' = [mode EXCEPT ![t] = "user"]
    /\ UNCHANGED <<call, made, sp, rcx, frame, user_rsp, onCpu, started,
                   irqStack, halts>>

(* A timer interrupt.  It lands on the stack of the thread's kernel side   *)
(* unless the thread is in ring 0 on its user stack; `hlt` ends; with the  *)
(* scheduler active another runnable thread may be resumed.                *)
Tick(next) ==
    /\ intr[onCpu]
    /\ next = onCpu \/ (started /\ Runnable(next))
    /\ irqStack' = IF mode[onCpu] \in OnUserStack THEN "user" ELSE "kernel"
    /\ mode' = [mode EXCEPT ![onCpu] = IF @ = "halted" THEN "return" ELSE @]
    /\ onCpu' = next
    /\ UNCHANGED <<call, made, pc, sp, rcx, intr, frame, user_rsp, started,
                   halts>>

SyscallNext ==
    \/ \E t \in UserThreads : Enter(t) \/ KernelSpawn(t) \/ Fault(t)
    \/ Activate
    \/ \E t \in CallMakers, c \in Calls : SyscallInsn(t, c)
    \/ \E t \in CallMakers :
           \/ EntryStub(t) \/ HandlePlain(t) \/ HandleYield(t)
           \/ PopFrame(t) \/ SysretInsn(t)
           \/ \E u \in UserThreads : HandleSpawn(t, u)
           \/ \E u \in Everyone : HandleExit(t, u)
    \/ \E t \in Everyone : Tick(t)

SyscallSpec == SyscallInit /\ [][SyscallNext]_syscallVars

-----------------------------------------------------------------------------
(* Properties.                                                             *)

(* Every part of the path has a value of its kind: in particular what      *)
(* `sysretq` jumps to is a user address that some call has left.           *)
SyscallTypeOK ==
    /\ mode \in [Everyone -> Modes]
    /\ call \in [UserThreads -> CallNames]
    /\ made \in [UserThreads -> 0 .. MaxCalls]
    /\ pc \in [UserThreads -> Addresses]
    /\ sp \in [UserThreads -> Everyone]
    /\ rcx \in [UserThreads -> Addresses \cup {NoAddress}]
    /\ intr \in [Everyone -> BOOLEAN]
    /\ frame \in Addresses \cup {NoAddress}
    /\ user_rsp \in Everyone
    /\ onCpu \in Everyone /\ started \in BOOLEAN
    /\ irqStack \in {"kernel", "user"} /\ halts \in BOOLEAN

(* A thread in ring 3 goes on right after its own last system call, on its *)
(* own stack.                                                              *)
Undisturbed(t) == mode[t] = "user" => pc[t] = <<t, made[t]>> /\ sp[t] = t

(* No thread but t has made a call.                                        *)
Alone(t) == \A u \in UserThreads \ {t} : made[u] = 0

(* "RCX and R11 carry the return address; sysretq needs them intact": the  *)
(* one stack and the one USER_RSP that syscall_entry gives all threads are *)
(* enough as long as IF stays masked from `syscall` to `sysretq`, and for  *)
(* calls that halt as long as one thread alone makes calls.  "without      *)
(* clearing it an interrupt could fire while RSP still points to the user  *)
(* stack": until a call has halted, none fires on a user stack in ring 0.  *)
MaskedReturnsToItself ==
    /\ ~halts \/ (\E t \in UserThreads : Alone(t)) =>
           \A t \in UserThreads : Undisturbed(t)
    /\ ~halts => irqStack # "user"

(* The same of every call, sys_yield and sys_waitpid included.             *)
ReturnsToItself == \A t \in UserThreads : Undisturbed(t)

=============================================================================
