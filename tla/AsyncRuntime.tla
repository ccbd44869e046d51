---------------------------- MODULE AsyncRuntime ----------------------------
(***************************************************************************)
(* The cooperative executor of the kernel (task/executor.rs) with its two  *)
(* event sources: the scancode ring (task/keyboard.rs) and the one-slot    *)
(* timer (task/timer.rs).  Two tasks run on it: Reader awaits scancodes in *)
(* a loop, Sleeper sleeps MaxRounds times and ends.                        *)
(*                                                                         *)
(* A SpinLock section runs with interrupts off and is one step; between    *)
(* two sections, and between two atomic accesses, the keyboard and timer   *)
(* interrupts may fire.                                                    *)
(***************************************************************************)
EXTENDS Integers, Sequences

CONSTANTS
    Reader, Sleeper,   \* task identifiers
    None,
    Scancodes,
    Capacity,          \* CAPACITY of the scancode ring
    SleepFor,          \* ticks of one sleep
    MaxKeys,           \* bound: keyboard interrupts
    MaxTicks,          \* bound: timer interrupts
    MaxRounds          \* bound: sleeps of Sleeper

ASSUME AsyncAssumption ==
    /\ Reader # Sleeper /\ None \notin {Reader, Sleeper}
    /\ Capacity \in Nat \ {0, 1}
    /\ {SleepFor, MaxKeys, MaxTicks, MaxRounds} \subseteq Nat

Tasks == {Reader, Sleeper}
Never == MaxTicks + SleepFor + 1     \* u64::MAX in WAKE_AT

VARIABLES
    tasks, ready,              \* Executor
    pc,                        \* where the executor, or the poll it is in, is
    buffer, head, tail,        \* ScancodeQueue
    kwaker,                    \* keyboard::WAKER
    ticks, wake_at, twaker,    \* timer::TICKS, WAKE_AT, WAKER
    deadline, asleep, rounds,  \* the future of Sleeper
    pressed,                   \* history: keyboard interrupts
    accepted, read             \* history: scancodes that entered, and left

execVars  == <<tasks, ready, pc>>
ringVars  == <<buffer, head, tail, accepted, read>>
timerVars == <<ticks, wake_at, twaker>>
sleepVars == <<deadline, asleep, rounds>>
runtimeVars == <<execVars, ringVars, kwaker, timerVars, sleepVars, pressed>>

RuntimeInit ==
    /\ tasks = Tasks
    /\ ready \in {<<Reader, Sleeper>>, <<Sleeper, Reader>>}
    /\ pc = "run"
    /\ buffer \in [0 .. Capacity - 1 -> {None}] /\ head = 0 /\ tail = 0
    /\ kwaker = None
    /\ ticks = 0 /\ wake_at = Never /\ twaker = None
    /\ deadline = 0 /\ asleep = FALSE /\ rounds = 0
    /\ pressed = 0
    /\ accepted = <<>> /\ read = <<>>

(* TaskWaker::wake_by_ref, on the queue q.                                 *)
Wake(q, w) == IF w = None THEN q ELSE Append(q, w)

-----------------------------------------------------------------------------
(* The executor.                                                           *)

PollOf(t) == IF t = Reader THEN "k_pop"
             ELSE IF asleep THEN "s_check" ELSE "s_start"

(* run_ready_tasks: one turn of the loop.  An id whose task is gone was    *)
(* woken late and is skipped.                                              *)
RunReadyTask ==
    /\ pc = "run" /\ ready # <<>>
    /\ ready' = Tail(ready)
    /\ pc' = IF Head(ready) \in tasks THEN PollOf(Head(ready)) ELSE "run"
    /\ UNCHANGED <<tasks, ringVars, kwaker, timerVars, sleepVars, pressed>>

NothingReady ==
    /\ pc = "run" /\ ready = <<>>
    /\ pc' = "idle"
    /\ UNCHANGED <<tasks, ready, ringVars, kwaker, timerVars, sleepVars,
                   pressed>>

(* sleep_if_idle: looks again with interrupts off, and `sti; hlt` lets     *)
(* none in between the look and the halt.                                  *)
SleepIfIdle ==
    /\ pc = "idle"
    /\ pc' = IF ready = <<>> THEN "halted" ELSE "run"
    /\ UNCHANGED <<tasks, ready, ringVars, kwaker, timerVars, sleepVars,
                   pressed>>

(* Every interrupt ends the halt; run calls run_ready_tasks again.         *)
AfterInterrupt == IF pc = "halted" THEN "run" ELSE pc

-----------------------------------------------------------------------------
(* The keyboard.                                                           *)

Full  == (tail + 1) % Capacity = head
Empty == head = tail

(* Mutant: lets the last slot be taken.                                    *)
PushUnchecked(s) ==
    /\ buffer' = [buffer EXCEPT ![tail] = s]
    /\ tail' = (tail + 1) % Capacity
    /\ accepted' = Append(accepted, s)
    /\ UNCHANGED <<head, read>>

Push(s) ==
    /\ ~Full
    /\ buffer' = [buffer EXCEPT ![tail] = s]
    /\ tail' = (tail + 1) % Capacity
    /\ accepted' = Append(accepted, s)
    /\ UNCHANGED <<head, read>>

Pop ==
    /\ ~Empty
    /\ read' = Append(read, buffer[head])
    /\ head' = (head + 1) % Capacity
    /\ UNCHANGED <<buffer, tail, accepted>>

(* add_scancode, in the keyboard interrupt: a full ring drops the scancode *)
(* and wakes nobody; the waker is cloned, not taken.                       *)
AddScancode(s) ==
    /\ pressed < MaxKeys                                            \* bound
    /\ pressed' = pressed + 1
    /\ pc' = AfterInterrupt
    /\ \/ Push(s) /\ ready' = Wake(ready, kwaker)
       \/ Full /\ UNCHANGED <<ringVars, ready>>
    /\ UNCHANGED <<tasks, kwaker, timerVars, sleepVars>>

(* NextScancode::poll, one action per critical section.  After Ready the   *)
(* task handles the scancode and awaits the next within the same poll.     *)
FastPop ==
    /\ pc = "k_pop"
    /\ \/ Pop /\ UNCHANGED pc
       \/ Empty /\ pc' = "k_register" /\ UNCHANGED ringVars
    /\ UNCHANGED <<tasks, ready, kwaker, timerVars, sleepVars, pressed>>

RegisterReader ==
    /\ pc = "k_register"
    /\ kwaker' = Reader
    /\ pc' = "k_recheck"
    /\ UNCHANGED <<tasks, ready, ringVars, timerVars, sleepVars, pressed>>

(* Mutant: goes to sleep without the second look.                          *)
RecheckNever ==
    /\ pc = "k_recheck"
    /\ pc' = "run"
    /\ UNCHANGED <<tasks, ready, ringVars, kwaker, timerVars, sleepVars,
                   pressed>>

Recheck ==
    /\ pc = "k_recheck"
    /\ \/ Pop /\ pc' = "k_clear"
       \/ Empty /\ pc' = "run" /\ UNCHANGED ringVars        \* Poll::Pending
    /\ UNCHANGED <<tasks, ready, kwaker, timerVars, sleepVars, pressed>>

ForgetReader ==
    /\ pc = "k_clear"
    /\ kwaker' = None
    /\ pc' = "k_pop"
    /\ UNCHANGED <<tasks, ready, ringVars, timerVars, sleepVars, pressed>>

-----------------------------------------------------------------------------
(* The timer.                                                              *)

(* tick, in the timer interrupt.                                           *)
TickTimer ==
    /\ ticks < MaxTicks                                             \* bound
    /\ ticks' = ticks + 1
    /\ pc' = AfterInterrupt
    /\ IF ticks + 1 < wake_at
       THEN UNCHANGED <<wake_at, twaker, ready>>
       ELSE /\ wake_at' = Never
            /\ twaker' = None
            /\ ready' = Wake(ready, twaker)
    /\ UNCHANGED <<tasks, ringVars, kwaker, sleepVars, pressed>>

(* sleep(SleepFor), or the end of the task.                                *)
StartSleep ==
    /\ pc = "s_start"
    /\ IF rounds < MaxRounds
       THEN /\ deadline' = ticks + SleepFor
            /\ asleep' = TRUE /\ rounds' = rounds + 1
            /\ pc' = "s_check"
            /\ UNCHANGED tasks
       ELSE /\ tasks' = tasks \ {Sleeper}                    \* Poll::Ready
            /\ pc' = "run"
            /\ UNCHANGED sleepVars
    /\ UNCHANGED <<ready, ringVars, kwaker, timerVars, pressed>>

(* Sleep::poll: look, set WAKER, set WAKE_AT, look again, clear both.      *)
WakeUp == asleep' = FALSE /\ UNCHANGED <<deadline, rounds>>

CheckDeadline ==
    /\ pc = "s_check"
    /\ IF ticks >= deadline
       THEN pc' = "s_start" /\ WakeUp
       ELSE pc' = "s_waker" /\ UNCHANGED sleepVars
    /\ UNCHANGED <<tasks, ready, ringVars, kwaker, timerVars, pressed>>

RegisterSleeper ==
    /\ pc = "s_waker"
    /\ twaker' = Sleeper
    /\ pc' = "s_wake_at"
    /\ UNCHANGED <<tasks, ready, ringVars, kwaker, ticks, wake_at, sleepVars,
                   pressed>>

SetWakeAt ==
    /\ pc = "s_wake_at"
    /\ wake_at' = deadline
    /\ pc' = "s_recheck"
    /\ UNCHANGED <<tasks, ready, ringVars, kwaker, ticks, twaker, sleepVars,
                   pressed>>

(* Mutant: no second look at the clock.                                    *)
RecheckDeadlineNever ==
    /\ pc = "s_recheck"
    /\ pc' = "run"
    /\ UNCHANGED <<tasks, ready, ringVars, kwaker, timerVars, sleepVars,
                   pressed>>

RecheckDeadline ==
    /\ pc = "s_recheck"
    /\ pc' = IF ticks >= deadline THEN "s_clear_at" ELSE "run"
    /\ UNCHANGED <<tasks, ready, ringVars, kwaker, timerVars, sleepVars,
                   pressed>>

ClearWakeAt ==
    /\ pc = "s_clear_at"
    /\ wake_at' = Never
    /\ pc' = "s_clear"
    /\ UNCHANGED <<tasks, ready, ringVars, kwaker, ticks, twaker, sleepVars,
                   pressed>>

ForgetSleeper ==
    /\ pc = "s_clear"
    /\ twaker' = None
    /\ pc' = "s_start" /\ WakeUp
    /\ UNCHANGED <<tasks, ready, ringVars, kwaker, ticks, wake_at, pressed>>

-----------------------------------------------------------------------------
Executor ==
    \/ RunReadyTask \/ NothingReady \/ SleepIfIdle
    \/ FastPop \/ RegisterReader \/ Recheck \/ ForgetReader
    \/ StartSleep \/ CheckDeadline \/ RegisterSleeper \/ SetWakeAt
    \/ RecheckDeadline \/ ClearWakeAt \/ ForgetSleeper

Interrupts == TickTimer \/ \E s \in Scancodes : AddScancode(s)

RuntimeNext == Executor \/ Interrupts

RuntimeSpec == RuntimeInit /\ [][RuntimeNext]_runtimeVars

(* The CPU executes: whatever the executor is doing goes on.  Nothing is   *)
(* assumed of the devices.                                                 *)
RuntimeFairSpec == RuntimeSpec /\ WF_runtimeVars(Executor)

-----------------------------------------------------------------------------
(* Properties.                                                             *)

PollingReader == pc \in {"k_pop", "k_register", "k_recheck", "k_clear"}
PollingSleeper ==
    pc \in {"s_start", "s_check", "s_waker", "s_wake_at", "s_recheck",
            "s_clear_at", "s_clear"}
TaskQueued(t) == \E i \in 1 .. Len(ready) : ready[i] = t

RuntimeTypeOK ==
    /\ tasks \subseteq Tasks /\ ready \in Seq(Tasks)
    /\ pc \in {"run", "idle", "halted"} \/ PollingReader \/ PollingSleeper
    /\ buffer \in [0 .. Capacity - 1 -> Scancodes \cup {None}]
    /\ head \in 0 .. Capacity - 1 /\ tail \in 0 .. Capacity - 1
    /\ kwaker \in {Reader, None} /\ twaker \in {Sleeper, None}
    /\ ticks \in 0 .. MaxTicks
    /\ wake_at \in 0 .. Never
    /\ deadline \in 0 .. MaxTicks + SleepFor
    /\ asleep \in BOOLEAN /\ rounds \in 0 .. MaxRounds
    /\ pressed \in 0 .. MaxKeys
    /\ accepted \in Seq(Scancodes) /\ read \in Seq(Scancodes)

(* What the ring holds, oldest first.                                      *)
Contents == [i \in 1 .. (tail - head) % Capacity |->
                buffer[(head + i - 1) % Capacity]]

(* A scancode that entered the ring is read exactly once and in order.     *)
ReadInOrder == read \o Contents = accepted

(* "esa pulsacion se pierde y la tarea duerme para siempre": a suspended   *)
(* reader that nobody has queued has an empty ring, and its waker is with  *)
(* the keyboard.  The same race in Sleep::poll: a suspended sleeper that   *)
(* nobody has queued sleeps before its deadline, and the timer will wake   *)
(* it then.  And sleep_if_idle never halts the CPU with a task queued.     *)
NoLostWakeup ==
    /\ ~PollingReader /\ ~TaskQueued(Reader) => Empty /\ kwaker = Reader
    /\ Sleeper \in tasks /\ ~PollingSleeper /\ ~TaskQueued(Sleeper)
        => /\ asleep /\ ticks < deadline
           /\ twaker = Sleeper /\ wake_at = deadline
    /\ pc = "halted" => ready = <<>>

(* Every scancode in the ring is read, and an expired sleep ends, as long  *)
(* as the CPU executes.                                                    *)
EveryoneIsServed ==
    /\ \A n \in 1 .. MaxKeys : Len(accepted) >= n ~> Len(read) >= n
    /\ (asleep /\ ticks >= deadline) ~> ~asleep
=============================================================================
