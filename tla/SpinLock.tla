------------------------------ MODULE SpinLock ------------------------------
(***************************************************************************)
(* The kernel's only lock (kernel/src/sync.rs) on its only processor: a    *)
(* flag to spin on, taken with interrupts off.  Threads run in the kernel  *)
(* with interrupts on, or inside a system call with interrupts masked by   *)
(* the entry; an interrupt handler runs on top of the thread it stopped,   *)
(* takes locks of its own and may return to another thread.                *)
(*                                                                         *)
(* Guards are dropped in the reverse of the order they were taken, which   *)
(* is how every caller uses them, and no caller takes a lock it holds,     *)
(* except the panic handler, which only tries.                             *)
(***************************************************************************)
EXTENDS Naturals, Sequences

CONSTANTS
    Kernel,      \* threads that run in the kernel with interrupts on
    Callers,     \* threads that make system calls
    Isr,         \* the interrupt handler
    Locks,
    Console,     \* console::CONSOLE, which the panic handler tries
    NoOne,
    MaxNested    \* bound: guards one context holds at a time

Threads == Kernel \cup Callers
Contexts == Threads \cup {Isr}

ASSUME SpinAssumption ==
    /\ Kernel # {} /\ Kernel \cap Callers = {}
    /\ Isr \notin Threads /\ NoOne \notin Contexts
    /\ Console \in Locks
    /\ MaxNested \in Nat

VARIABLES
    locked,     \* SpinLock::locked
    ie,         \* the interrupt flag of the processor
    cur,        \* the thread scheduled
    inIsr,      \* the handler runs on top of it
    guards,     \* the SpinGuards of each context: lock, restore_interrupts
    step,       \* where in lock() or drop() the context is
    want,       \* the lock it is taking
    keep,       \* restore_interrupts, read before the flag is cleared
    calling     \* threads inside a system call

spinVars == <<locked, ie, cur, inIsr, guards, step, want, keep, calling>>
lockVars == <<locked, guards, step, want, keep>>

running == IF inIsr THEN Isr ELSE cur

LockInit ==
    /\ locked = [l \in Locks |-> FALSE]
    /\ ie = TRUE /\ cur \in Kernel /\ inIsr = FALSE
    /\ guards = [c \in Contexts |-> <<>>]
    /\ step = [c \in Contexts |-> "run"]
    /\ want = [c \in Contexts |-> Console]
    /\ keep = [c \in Contexts |-> FALSE]
    /\ calling = {}

Held(c) == {guards[c][i].lock : i \in DOMAIN guards[c]}
At(c, s) == running = c /\ step[c] = s
Goto(c, s) == step' = [step EXCEPT ![c] = s]

-----------------------------------------------------------------------------
(* lock                                                                    *)

(* restore_interrupts = interrupts_enabled().                              *)
Save(c, l) ==
    /\ At(c, "run")
    /\ c \in Callers => c \in calling
    /\ l \notin Held(c) /\ Len(guards[c]) < MaxNested                \* bound
    /\ want' = [want EXCEPT ![c] = l]
    /\ keep' = [keep EXCEPT ![c] = ie]
    /\ Goto(c, "saved")
    /\ UNCHANGED <<locked, ie, cur, inIsr, guards, calling>>

(* Mutant: the flag is left alone.                                         *)
MaskForgotten(c) ==
    /\ At(c, "saved")
    /\ Goto(c, "masked")
    /\ UNCHANGED <<locked, ie, cur, inIsr, guards, want, keep, calling>>

(* disable_interrupts().                                                   *)
Mask(c) ==
    /\ At(c, "saved")
    /\ ie' = FALSE
    /\ Goto(c, "masked")
    /\ UNCHANGED <<locked, cur, inIsr, guards, want, keep, calling>>

(* compare_exchange_weak; while the lock is taken it spins.                *)
Acquire(c) ==
    /\ At(c, "masked")
    /\ ~locked[want[c]]
    /\ locked' = [locked EXCEPT ![want[c]] = TRUE]
    /\ guards' = [guards EXCEPT ![c] =
                    Append(@, [lock |-> want[c], restore |-> keep[c]])]
    /\ Goto(c, "run")
    /\ UNCHANGED <<ie, cur, inIsr, want, keep, calling>>

-----------------------------------------------------------------------------
(* SpinGuard::drop                                                         *)

Innermost(c) == guards[c][Len(guards[c])]

Release(c) ==
    /\ At(c, "run") /\ guards[c] # <<>>
    /\ locked' = [locked EXCEPT ![Innermost(c).lock] = FALSE]
    /\ Goto(c, "released")
    /\ UNCHANGED <<ie, cur, inIsr, guards, want, keep, calling>>

(* Mutant: the flag stays cleared.                                         *)
RestoreForgotten(c) ==
    /\ At(c, "released")
    /\ guards' = [guards EXCEPT ![c] = SubSeq(@, 1, Len(@) - 1)]
    /\ Goto(c, "run")
    /\ UNCHANGED <<locked, ie, cur, inIsr, want, keep, calling>>

(* Mutant: the flag is set whatever it was.                                *)
RestoreAlways(c) ==
    /\ At(c, "released")
    /\ ie' = TRUE
    /\ guards' = [guards EXCEPT ![c] = SubSeq(@, 1, Len(@) - 1)]
    /\ Goto(c, "run")
    /\ UNCHANGED <<locked, cur, inIsr, want, keep, calling>>

(* Interrupts come back after the lock is free, and only if they were on.  *)
Restore(c) ==
    /\ At(c, "released")
    /\ ie' = (ie \/ Innermost(c).restore)
    /\ guards' = [guards EXCEPT ![c] = SubSeq(@, 1, Len(@) - 1)]
    /\ Goto(c, "run")
    /\ UNCHANGED <<locked, cur, inIsr, want, keep, calling>>

-----------------------------------------------------------------------------
(* The processor.                                                          *)

Interrupt ==
    /\ ie /\ ~inIsr
    /\ inIsr' = TRUE /\ ie' = FALSE
    /\ UNCHANGED <<lockVars, cur, calling>>

(* iretq or eret, to the thread that was stopped or, from the timer's      *)
(* handler, to another one.                                                *)
Return(t) ==
    /\ At(Isr, "run") /\ guards[Isr] = <<>>
    /\ inIsr' = FALSE /\ ie' = TRUE /\ cur' = t
    /\ UNCHANGED <<lockVars, calling>>

(* The entry of a system call masks interrupts, the return brings back     *)
(* the caller's flags.  The `sti; hlt` of a yield, after which the call    *)
(* takes no lock, is the same step as the return.                          *)
Syscall(t) ==
    /\ At(t, "run") /\ t \in Callers \ calling
    /\ calling' = calling \cup {t} /\ ie' = FALSE
    /\ UNCHANGED <<lockVars, cur, inIsr>>

Sysret(t) ==
    /\ At(t, "run") /\ t \in calling /\ guards[t] = <<>>
    /\ calling' = calling \ {t} /\ ie' = TRUE
    /\ UNCHANGED <<lockVars, cur, inIsr>>

-----------------------------------------------------------------------------
(* The panic handler: interrupts off, one try at the console's lock, which *)
(* the context that panicked may hold itself, and a halt for good.         *)
PanicReport(c) ==
    /\ At(c, "run")
    /\ ie' = FALSE
    /\ want' = [want EXCEPT ![c] = Console]
    /\ Goto(c, "trying")
    /\ UNCHANGED <<locked, cur, inIsr, guards, keep, calling>>

(* try_lock *)
TryLock(c) ==
    /\ At(c, "trying")
    /\ IF locked[Console]
       THEN UNCHANGED <<locked, guards>> /\ Goto(c, "halted")
       ELSE /\ locked' = [locked EXCEPT ![Console] = TRUE]
            /\ guards' = [guards EXCEPT ![c] =
                            Append(@, [lock |-> Console, restore |-> ie])]
            /\ Goto(c, "printing")
    /\ UNCHANGED <<ie, cur, inIsr, want, keep, calling>>

(* The guard falls when the message is written; interrupts stay off.       *)
Printed(c) ==
    /\ At(c, "printing")
    /\ locked' = [locked EXCEPT ![Console] = FALSE]
    /\ ie' = (ie \/ Innermost(c).restore)
    /\ guards' = [guards EXCEPT ![c] = SubSeq(@, 1, Len(@) - 1)]
    /\ Goto(c, "halted")
    /\ UNCHANGED <<cur, inIsr, want, keep, calling>>

Halted(c) == At(c, "halted") /\ UNCHANGED spinVars

LockNext ==
    \/ Interrupt
    \/ \E t \in Threads : Return(t) \/ Syscall(t) \/ Sysret(t)
    \/ \E c \in Contexts :
        \/ \E l \in Locks : Save(c, l)
        \/ Mask(c) \/ Acquire(c) \/ Release(c) \/ Restore(c)
        \/ PanicReport(c) \/ TryLock(c) \/ Printed(c) \/ Halted(c)

LockSpec == LockInit /\ [][LockNext]_spinVars

-----------------------------------------------------------------------------
(* Properties.                                                             *)

(* "Sin esto, una interrupcion que salte mientras sostenemos el cerrojo y  *)
(* cuyo manejador intente tomarlo cuelga la maquina para siempre": no      *)
(* context reaches the compare_exchange of a lock that is taken, by        *)
(* whatever thread, call or handler it was interrupted.                    *)
NeverSpins == \A c \in Contexts : step[c] = "masked" => ~locked[want[c]]

(* "Si al entrar las interrupciones estaban activas, hay que volver a      *)
(* activarlas al salir - y solo entonces": a thread that runs outside      *)
(* every guard, system call and handler has its interrupts on, and one     *)
(* that holds a guard, is in a call or in a handler has them off.          *)
InterruptsComeBack ==
    step[running] \in {"run", "saved"} =>
        (ie <=> ~inIsr /\ guards[cur] = <<>> /\ cur \notin calling)

(* The lock implements Mutex: a lock is held from the exchange that set    *)
(* its flag to the store that clears it.                                   *)
Holds(c, l) ==
    \E i \in DOMAIN guards[c] :
        /\ guards[c][i].lock = l
        /\ ~(step[c] = "released" /\ i = Len(guards[c]))
holder ==
    [l \in Locks |-> IF \E c \in Contexts : Holds(c, l)
                     THEN CHOOSE c \in Contexts : Holds(c, l)
                     ELSE NoOne]
Abstract == INSTANCE Mutex

(* sync.rs: "lock() garantiza que solo un hilo tiene la referencia         *)
(* interior a la vez", and neither a handler nor another thread runs until *)
(* the guard is gone: a critical section is one step of the kernel.        *)
ImplementsMutex == Abstract!Spec
=============================================================================
