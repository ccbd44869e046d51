# Verification of antOS

TLA+ models of antOS, model-checked with TLC; every safety property that holds is also
proved with TLAPS, for every value of the constants. antOS is an operating system with two halves that are
written in Rust and share no code:

* the **kernel** (`src/kernel/src`): boot, paging, a heap, a preemptive scheduler for
  ring-3 processes, a cooperative executor for kernel tasks, system calls, IPC channels,
  drivers and a small user interface, for x86_64 and aarch64;
* the **daemon** `antosd` (`src/system/antosd/src`): it turns an intent into a plan of
  capabilities, shows it, snapshots what the plan writes, executes it in an enclosure and
  records it in a journal so that it can be undone; on top of that, an agent runtime, a
  pipeline of agent roles (antFlow), and the tools of a development machine.

`PROJECT.json` is the index: components, runs, mutants, the map from definitions to
source lines, findings, hazards, theorems.

## 1. Inventory

### Kernel

| Part | State | Operations | Interacts with | What is hard, and what makes it right |
|---|---|---|---|---|
| Scheduler (`task/scheduler.rs`, `pcb.rs`) | TCB and PCB maps, ready queue, current, pool of kernel stacks, one stack waiting to be recycled | spawn, tick, yield, block, unblock, exit, terminate | timer interrupt, system calls, CR3, the TSS | a thread that exits still stands on its stack; a switch may skip the page table; a TCB lock can be held twice. Each ready thread is queued once and runs; no stack is used twice; a thread runs in its own address space |
| System call path (`arch/x86_64/userspace.rs`) | `USER_RSP`, one kernel stack for all | enter, dispatch, `sysretq`, return to the kernel | scheduler, interrupts | the path is safe only while IF stays masked. A thread returns to where it called |
| Async executor (`task/{executor,keyboard,timer}.rs`) | task map, ready queue, scancode ring, one timer slot, wakers | run loop, polls, two interrupt handlers | interrupts at every unlock | lost wake-ups, halting with work queued. Every key and every sleep is served |
| Spin lock (`sync.rs`) | a flag, the interrupt flag it restores | lock, try_lock, drop | everything, the panic handler | an interrupt at any instruction, nested guards. Nobody spins; interrupts come back |
| Heap (`allocator/linked_list.rs`) | free list, allocated bytes | allocate, deallocate | everything | splitting, merging, alignment. Blocks are disjoint; nothing is lost |
| Paging (`memory.rs`, `elf.rs`, `userspace.rs`) | page tables, the next frame, the next page of mmap | map, unmap, mmap, munmap, DMA buffers, device registers, program segments | system calls, heap, drivers | failure midway, frames never given back, flags of tables made for somebody else. Every frame has one use; what mmap returned is mapped |
| IPC channels (`ipc/channel.rs`) | queues of at most 32 messages | create, send, receive | system calls | limits, truncation |
| Input (`input/*.rs`, `ui/compositor.rs`) | ring of 256 events, modifiers, dead keys, LEDs, focus, the intent bar | push, pop, update, repeat, dispatch | PS/2, USB, virtio, compositor, `SYS_READ` | two consumers of one ring, drops when full, repeats the kernel pushes itself. No modifier sticks; a key that is up stops repeating |
| Drivers (`drivers/**`) | rings and queues shared with hardware | submit, complete | PCI, interrupts | ownership of ring entries (cycle bit, indices) |
| File systems, ELF, console, UI, ACPI, boot | tables built once, pixels | read, parse, draw | | sequential |

### Daemon

| Part | State | Operations | Interacts with | What is hard, and what makes it right |
|---|---|---|---|---|
| Intent session (`session.rs`, `journal.rs`, `snapshot.rs`, `grants.rs`, `blast.rs`, `cli/commands/undo.rs`) | workspace, `journal.jsonl`, `snapshots/`, `grants.json`, the mutation lock | plan, gate, snapshot, run, record; undo, undo by ticket; grant, revoke | clients, other processes, the enclosure | failure midway, a crash between two files, undo while sessions run. The workspace is what the journal tells |
| Agent runtime (`agent/mod.rs`, `ipc/transport.rs`) | steps, nudges, failure counts, the run's snapshot | a loop of turns and tool calls | model, client, enclosure, journal | a client that answers late, twice, or leaves; a model that loops. Budgets hold, and a run can be undone |
| antFlow (`flow/mod.rs`, `flow/pipeline.rs`) | task per ticket, file per task, worktree | start, advance, rewind, fail, approve | agents, developers, restarts | answers between two critical sections. What waits for approval was tested and audited as it is |
| IPC (`ipc/*.rs`) | connections, one mutation lock | some sixty requests | all | which request takes the lock |
| Changes of a plan (`exec/*.rs`, `preview.rs`) | an overlay of pending changes, the diff shown, the disk | compute, render, apply, put back | session, editors | steps that change each other's files, files edited meanwhile. What is shown is what happens |
| Grants and the tray (`grants.rs`, `notification.rs`) | one JSON file each, a cache per process | grant, revoke, check; notify, act, clear | commands, sessions, flow engine | whole files loaded, changed and saved by several processes, a death in between |
| Services, packages, collaboration, mesh, vault, time machine, autopilot, WebAssembly | JSON files and processes | see the plan | | whole files loaded, changed and saved by several processes |
| Planners, providers, git, CI, LSP, web, installer, command line | | | external programs | clients and parsers |

Every component, the ones left out included, is in `PROJECT.json` with its reason.

## 2. Modules

`MCKernel` runs Scheduler (with the operations the kernel calls), AsyncRuntime, SpinLock,
Heap and Paging; `MCEntries` runs SyscallEntry and Input; `MCFiles` runs PlanChanges,
GrantFile and NotificationTray. The parts of such a run have no variable in common and no
property speaks of two of them, so each is explored with the others at rest (`moving`): the
run asks the same of each part as a run of its own would.

### Scheduler (`Scheduler.tla`, `MCScheduler.tla`, `MCKernel.tla`, `SchedulerProofs.tla`)

One variable per field of the TCB, the PCB and `Scheduler`, and the CPU (`cr3`, `rsp0`,
registers). Every public function runs under the global lock with interrupts off, so each
is one action: `SpawnProcess`, `SpawnThread`, `Activate`, `Tick` (capture of the boot
thread, accounting, preemption), `ExpireCurrentQuantum`, `YieldCurrent`, `ExitCurrent`,
`ExitCurrentSyscall`, the blocking operations and termination. The pick discards queue entries
that are not ready, as the code does, and hangs where the code would lock a TCB that it
already holds. Registers are abstracted to a count of the thread's own steps, which is
what it takes to say that a context switch is transparent. `FullApi` tells apart what the
kernel calls today from what only tests call.

### SyscallEntry (`SyscallEntry.tla`, `MCEntries.tla`, `MCSyscallEntry.tla`, `SyscallEntryProofs.tla`)

The path of a call, one action for each stretch between two points where an interrupt can
come: entry on the user stack, the stub's switch to the one shared stack, the handler,
`sti; hlt` in yield and waitpid, the way out; a fault in ring 3 ends the thread. A return
address is the pair of thread and number of the call. Which thread a switch picks is left open (it is the scheduler's
business), so the properties hold for every policy.

### AsyncRuntime (`AsyncRuntime.tla`, `MCKernel.tla`, `KernelProofs.tla`)

The executor's loop and the two futures, one action per critical section or atomic access,
with the keyboard and timer handlers free to fire in between.

### SpinLock (`SpinLock.tla`, `Mutex.tla`, `MCKernel.tla`, `SpinLockProofs.tla`)

`lock()` and `drop()` instruction by instruction: the flag is read, cleared, the exchange
made, the lock freed, the flag brought back. Threads with interrupts on, threads inside a
system call and the interrupt handler share one processor; the handler may return to
another thread; a panic at any moment tries the console's lock and halts. `Mutex` is the
abstract specification: a lock has one holder, and the processor is not taken from it.
`ImplementsMutex` is what entitles the other kernel modules to treat a critical section as
one action.

### Heap and Paging (`Heap.tla`, `Paging.tla`, `MCKernel.tla`, `KernelProofs.tla`)

The address-ordered free list as a set of regions; `find_region` is the first fit,
`add_free_region` merges on both sides, `Allocate` returns to the list what the code
returns, and what it does not return is lost in the model too (`skipped` counts it).

Paging is the kernel's one address space: the entries of every level, with their user and
write bits, the pages at the bottom, and the frame allocator, a counter over the memory
map. A job (map the heap, a segment of a program, the stack, an mmap) takes one page per
step, so that it can run out of frames in the middle of a page's path; `owned` are the
pages mmap has answered for and `leftover` those of calls that failed. The boot's order of
jobs, with device buffers before the program or none, is a constant.

### Input (`Input.tla`, `EventQueue.tla`, `MCEntries.tla`, `InputProofs.tla`)

Keys go down and up, the driver pushes what fits, `AutoRepeat` pushes into the same ring.
The two consumers, each with a `KeyboardState` of its own, are `drain_ascii` behind
`SYS_READ` and `dispatch_pending_inputs` behind `SYS_YIELD` and the idle loop; the loop of
either is one action per event and cannot be interrupted. The compositor's focus, its
clicks and the keys of the intent bar are in the dispatch. The ring is head, tail and
count; `EventQueue` is the queue it implements. `missed` (releases a consumer never saw)
and `ghost` (repeats behind a release) are history.

### PlanChanges, GrantFile, NotificationTray (`MCFiles.tla`, `DaemonProofs.tla`)

What the daemon does to files. `PlanChanges`: a plan of up to three steps is computed
against an overlay, rendered with the renderer's own overlay, approved, applied change by
change and put back if a change is refused or meets an input/output error, while somebody
may edit the files. `GrantFile`: the
commands and the secret capabilities load, change and save the file, in which saving is
emptying and then writing; sessions check it before they ask. `NotificationTray`: a file, a
cache per process, the action that lists, decides and writes in three critical sections.
Processes die anywhere in between.

### IntentSession (`IntentSession.tla`, `MCIntentSession.tla`, `IntentSessionProofs.tla`)

Sessions of the daemon, which take `WORKSPACE_MUTATION_LOCK`; sessions of the command line
and undo, which are other processes and share only files. A path's content is the session
that wrote it. Each stage of `intent_session`, each file write of undo, the client's
departure, a crash of the daemon and a change of the grant are actions. The tier of a plan
is derived as in `required_tier`, network and system included. `journal::rewrite` is an
`fs::write`, which empties the file and then writes it: two actions (`UndoTruncates`,
`UndoWrites`), and the command may die before, between and after them (`UndoDies`). An error
of the question to the client, of an append or of a restore leaves the session where the
`?` of the code leaves it (`ErrorLeaves`). `undo --ticket` without a record to take back
only removes the worktree, and rewrites the journal all the same. `Plans` is what planners may propose; which sessions are the
daemon's is chosen at the start (`Homes`); `events` remembers the disturbances.

### AgentRun (`AgentRun.tla`, `MCAgentRun.tla`, `AgentRunProofs.tla`)

The loop of `agent::run` with `execute_tool` and `structured_finish`: turns of several
calls, the skip of what follows a finish, the stop check, the budget, the gate, the
incremental snapshot, the free retry and the cut of a loop. The client's lines are a queue
that two readers share: `should_stop`, which takes one line and drops it unless it is a
stop, and `on_proposal`, which takes one line and counts anything but a yes as a no. An
error of a send, when the client is gone, of a snapshot or of the record leaves the run. A
call has a policy (snapshot, unnecessary, never) and a set of paths, the directories it
makes on the way included; a directory is the set of files below it, which is what it takes
to see a snapshot whose entries are nested. A tool marked unnecessary writes its scratch
(`test.run` its `target`) without a snapshot, in a dry run too, as the code does. `whole`
remembers what tools wrote that came to their end.

### FlowEngine (`FlowEngine.tla`, `MCFlowEngine.tla`, `DaemonProofs.tla`)

One ticket: the task in memory, its file, the worktree and the pipeline's program counter.
Each critical section of `FlowEngine.state` is an action; developers' answers, starts of
other clients and restarts of the daemon fall in between, and `met` remembers which kinds
did. Agents are nondeterministic. The worktree has, for each file, whether it is clean,
modified, new or deleted, which `git diff HEAD` tells apart; a Coder that is declined or
fails leaves what it has edited; `undo --ticket` and `git.worktree_cleanup` remove the
worktree at any moment (`RemoveWorktree`); the script goes on when no worktree could be made.

## 3. What the runs show

Passing runs:

| Run | Bounds | Shows |
|---|---|---|
| `scheduler_api` | 3 threads beside the kernel's, 2 processes, quantum 2 | all public operations in every order: `TypeOK`, `QueueIsExact` (each ready thread queued once, the running one current), `StacksAreSafe` (no kernel stack in use is handed out), `NoZombieProcess`, and the action property `NoOvertaking` (first in, first out) |
| `kernel` | threads: the calls the kernel makes, two page tables, threads that work; tasks: 3 keys of 2 kinds, ring of 3 (which keeps 2), 5 ticks, 2 sleeps; heap of 14 words, 4 blocks, two alignments; pages: 19 frames with two gaps, tables of 2 entries, 3 levels of path, mmap of 1 to 3 pages, DMA of 1 or 2 frames, one huge entry, boots with and without device buffers, segments apart or sharing a page; locks: 2 kernel threads, 1 caller, the handler, 3 locks, 2 nested guards | threads: `ContextIsTransparent` (a switch changes nothing the thread sees, and none hangs), `AddressSpaceIsOwn` and, with fairness, `EveryReadyThreadRuns`; tasks: `NoLostWakeup` (also: no halt with work queued), `ReadInOrder` and, with fairness, `EveryoneIsServed`; heap: `Exclusive` (blocks and regions disjoint, regions merged), `Accounted`; pages: `OwnFrames`, `UserPathIsOpen`, `MmapKeepsItsWord`; locks: `NeverSpins`, `InterruptsComeBack`, the refinement `ImplementsMutex` |
| `entries` | calls: 3 threads, 2 of which make 2 calls each, every kind of call, faults; input: ring of 3, reads of 2 bytes, four users: Ctrl and K, both Ctrl keys, Super and Escape with clicks, two typing keys | `MaskedReturnsToItself`; `ModifiersAreReal`, `RepeatsEnd`, the refinement `ImplementsQueue` |
| `session` | 2 sessions, both the daemon's or one of them a command's, 2 paths, 2 undos, one crash, death of an undo or error, one change of the grant | `CoveredBySnapshot`, `SessionEnds`, `WorkspaceIsJournal` |
| `files` | plans of at most 3 steps of 10 kinds over 4 paths and 3 disks, 1 edit; 2 processes and 1 session on 2 capabilities, clock to 4; 2 processes, 3 notifications, at most 2 kept | `PreviewIsResult`, `FailedLeavesNothing`, `GrantsAreExact`, `TrayIsExact` |
| `agent` | 2 files and a scratch directory, real and dry runs, turns of at most 2 calls, 2 steps, 1 nudge, a loop cut at 2 failures, one repeated answer, one stop | `BudgetIsKept`, `UndoTakesAllBack`, `WrittenIsRecorded`, `ApprovedWasShown`, `RunEnds` |
| `flow` | 2 files, 2 retries, 2 starts, 1 answer, 1 restart, 1 removal of the worktree | `ReadyIsAudited`, `PipelineEnds`, `LabelsAreHonest` |

The bounds are the least at which the cases of interest happen. Three threads are needed
for a queue in which one overtakes another and for a stack that is recycled while its old
owner is still the CPU's; a heap of 14 words holds a block with free neighbours on both
sides; the scancode ring wraps and overflows; two sessions over two paths let a later plan
cover an earlier one in part and be undone before or after it, and let two processes meet;
two steps with a free retry let a call fail often enough to be cut within the budget; 19
frames are enough for a boot and a few mmaps and too few for all of them, so every job also
fails in the middle, and each gap falls inside a buffer some driver asks for; a ring of 3
wraps, fills and drops a release; three steps let one undo what another shows. `scheduler_api`
explores states that differ only in registers and work once (`VIEW Control`): no guard and
no property of that run looks at them, `ContextIsTransparent` in `kernel` does. `files` uses
symmetry of its notifications and checks no liveness; it also stops exploring (`StillKnown`) where two writers have overlapped: `GrantsAreExact`
and `TrayIsExact` say nothing from then on, and the flags that tell never fall again.

**Conditions.** Some of these properties hold only as long as something does not happen,
because the code makes no provision for it. The models take those steps all the same and
keep a history variable that tells whether one was taken, so each property names exactly
what the code relies on:

| Property | Holds until | Because |
|---|---|---|
| `MaskedReturnsToItself` | a call halts (the part about return addresses also when one thread alone makes calls) | `sti; hlt` in `sys_yield` and `sys_waitpid` gives up the shared stack and `USER_RSP`, and IF stays set on the way out |
| `ContextIsTransparent` | the kernel calls `block_thread` or `block_current` (it does not today) | a thread that is woken while still current is picked by the pick that holds its lock; `block_thread` saves no registers |
| `Accounted` | of `used()` always; of `free()` until words are skipped to align a block | `allocate_layout` returns only what is left behind a block, not in front of it (`heap_free` below) |
| `MmapKeepsItsWord` | exact, but for `leftover` pages | an mmap that runs out of frames leaves the pages it mapped, and nobody owns them |
| `ModifiersAreReal` | a release is missed | a full ring drops it, or the other consumer took it |
| `RepeatsEnd` | a release is missed, or a repeat stood behind it in the ring | reading that repeat arms the key again |
| `WorkspaceIsJournal` | two processes overlap, the daemon crashes, an undo dies after its restore, a record or restore fails with an error, or `undo --ticket` goes below another intent's plan | the lock is one process's; the record is written after the run; the rewrite empties the file first; snapshots are whole files. Nothing repairs any of it at the next start |
| `PreviewIsResult` | of a file that somebody edits meanwhile, or that a step changed in a way the overlay forgets (a patch, a deletion of its directory) before another step | the overlay of pending changes keeps whole writes and deletions of files only |
| `FailedLeavesNothing` | of a file that somebody edits meanwhile | the snapshot is whole files |
| `GrantsAreExact` | two commands overlap | each loads, changes and saves the whole file; a grant is good at the moment it is looked at, not when the person answers |
| `TrayIsExact` | somebody writes from a list that another thread or process has changed since | a cache is filled once, and an action lists and writes in two critical sections |
| `WrittenIsRecorded` | an error leaves the run (the client is gone, a snapshot or the record fails), or no tool came to its end | the record is the last thing a run does, and only when some tool succeeded; a dry run makes none |
| `UndoTakesAllBack` | a step's entry lies inside or around one of an earlier step (a directory and a file below it, in either order); never of the scratch of tools that keep no snapshot | `snapshot.rs:113` restores first to last what `snapshot.rs:72` compared as whole paths, and the later entry holds the middle of the run |
| `ApprovedWasShown` | an answer is left over from an earlier proposal | `transport.rs:250` reads one line, and does not first empty what waited before `transport.rs:242` sent |
| `ReadyIsAudited` | a start without provider meets a running pipeline, or a command removes the worktree | the start takes no lock and resets the task; the removals do not look at the task |
| `LabelsAreHonest` | any request meets a running pipeline | answers take no lock either; the label is set in a second critical section |

`CoveredBySnapshot`, the two refinements and what is not in the table have no condition.

**Violations.** Five runs end in one. Each states what a line of the repository says, and has
its finding, with the line quoted, in `PROJECT.json`:

| Run | Property | What the code does |
|---|---|---|
| `syscall_yield` | `ReturnsToItself` | a second thread's call overwrites the return address and `USER_RSP` of one that halted in yield |
| `heap_free` | `FreeIsTheList` | the words skipped in front of an aligned block are on no list and in `free()`, although the tests compare `free()` with the sum of the list |
| `flow_plan` | `PlanIsKept` | the Auditor's rule looks at the `+++ b/` lines of `git diff HEAD`: a file the Coder created or deleted outside `files_to_touch` passes it, although such a diff is said to be rejected whatever the model says |
| `journal` | `ReversalsAreTold` | `undo --ticket` appends its `Reverted` records and then rewrites the journal, which is said to be append-only, from the copy it read before |
| `dry_run` | `DryRunIsDry` | tools marked unnecessary, `test.run` and `project.run`, run and write in a dry run |

**Observations** made while modelling, which no run turns into a finding because no line of
the repository promises otherwise, or because the property above already names the case:

* Flow: an approval takes any state (`flow/mod.rs:334`), so that a task nobody tested or
  audited can become `Merged`, before, during or after its pipeline.
* Undo: a record that another process appends between undo's read and its rewrite is lost.
* Session: the check for grants looks at the tiers of the capabilities and not at the tier
  the blast radius raised the plan to (`session.rs:143`).
* Paging: two segments of an ELF file that share a page end with the flags of the last
  (`elf.rs:332`); `munmap` is not limited to pages of `mmap`; nothing frees what a failed
  `mmap` left.
* Input: a dispatch behind `SYS_YIELD` swallows the shell's keys although
  `compositor.rs:234` says they return through `drain_ascii`; releases handed on by
  `drain_ascii` never reach the compositor, so its Ctrl may stick; releasing one Ctrl
  or Shift key clears both; each `KeyboardState` toggles Caps Lock and its LED for itself; a character of several bytes may be cut at the end of the
  caller's buffer; Enter in the intent bar ignores the error of a full channel
  (`compositor.rs:222`).
* Plans: planning migrates the legacy declaration file, before anything is approved.
* Grants: a process that dies while it saves leaves a file that does not parse, with which
  the commands fail and sessions see no grant; two overlapping commands lose a revocation.
* Tray: `notification.rs:56` says the tray is persisted atomically, but `fs::write` can be
  torn, and a torn file is read as an empty one; a process that dies between the decision
  and the write leaves the notification unread; the 51st notification is dropped.
* Spin lock: on aarch64 the halt after a panic may take the console's lock.

### Fairness

* Scheduler: weak fairness of `Activate` and `Tick`. The boot code activates the scheduler
  and the timer is periodic; nothing is assumed of threads.
* AsyncRuntime: weak fairness of the executor's steps, which is the CPU. None of keys or
  ticks: they may stop coming, and a sleep must end only if its ticks come.
* IntentSession: weak fairness of a session's own steps, in which a client that is shown a
  plan answers it or its departure counts as a no.
* AgentRun: weak fairness of the run (a provider's call returns, its HTTP client has a
  timeout) and of the client's answer to a proposal: the socket has no timeout there, so
  without it a run may wait for ever.
* FlowEngine: weak fairness of the pipeline's steps.
* SyscallEntry, Heap, SpinLock, Paging, Input, PlanChanges, GrantFile, NotificationTray: safety only. That a
  lock is obtained at once is the safety property `NeverSpins`.

`kernel`, `entries` and `files` check for deadlock. In `kernel` the threads and the tasks
may stop (`Stopped`: a kernel that hung, a machine that halts once the interrupts' bounds
are used up); heap, pages and locks may not. `CHECK_DEADLOCK FALSE` is said where the
system itself stops: threads that have all exited, a run that is done, a task that is closed.

## 4. Proofs

`SchedulerProofs` proves, for every number of threads, processes and ticks and any set of
page tables, `TypeCorrect`, `QueueCorrect`, `StackCorrect`, `AddressSpaceCorrect` and
`ProcessCorrect`, from `SchedulerAssumption` alone. None of the invariants is inductive by
itself; `IInv` adds

* `IdInv`: identifiers not yet given out are in no map, queue or process;
* `PoolInv`: the pool holds distinct stacks that were really allocated, and none that a
  live thread, the CPU or `pending` has. Without it a spawn could hand out a stack in use;
* `PendingInv`: where the CPU stands. Between an exit and the next successful pick the CPU
  is on the stack that waits to be recycled, `rsp0` follows the current thread, and the
  pending stack is nobody's. This is what lets the drain at the next pick be proved safe.

The proof follows the code: lemmas about the pick (`PickStates`, `PickQueue`, `PickStacks`,
`PickAddress`) say what `pick_and_switch_next` makes of any queue it is called with, the
`Pre...` lemmas show that each caller establishes what the pick needs, and `InvStep` puts
one action after the other. Facts about sequences (`AppendFacts`, `SuffixFacts`,
`RetainFacts`) are stated once.

`OrderCorrect` proves `NoOvertaking` as an action property from the same invariant: a step
that dispatches a thread leaves no thread ready that was ready and before it in the queue.
`ContextCorrect` proves `ContextIsTransparent` under `~FullApi`, the operations the kernel
calls today, which is also the setting of the run that checks it: with the full interface a
thread that is blocked while it runs and unblocked again stands in the queue as the current
one, and the pick would wait for a TCB lock it holds. `ContextInv` adds that nobody is
blocked, that the queue holds ready threads only and that whoever waits has its progress in
its TCB.

`SyscallEntryProofs` proves `TypeCorrect` and `ReturnCorrect` (`MaskedReturnsToItself`) for
every set of threads and calls. What makes one shared stack enough is `CpuInv`: as long as
no call has halted, or the scheduler does not run, only the thread the CPU runs is on the
path, and in the first case it is masked; then what stands on the shared stack and in
`USER_RSP` is the caller's (`PathInv`). `ReturnsToItself`, the same without that condition,
is the property that the code violates (section 3).

`SpinLockProofs` proves `SpinCorrect`, `FlagCorrect` and `MutexCorrect`, for every set of
threads and locks and any depth of nesting, from `SpinAssumption` alone. Neither property is
inductive: whether a lock is free depends on who was interrupted where. `IInv` says

* `Idle`: whoever does not run holds no guard, is in no call, and stands at most between
  reading the flag and clearing it, in which case the flag it read was on;
* `FlagInv`: which guard of the context that runs remembers an enabled flag (the outermost,
  outside calls and handlers) and that interrupts are off from the `cli` on;
* `LockInv`: the locks taken are exactly those of the guards of the context that runs, each
  once, but for the one whose guard is falling;
* `CallInv`: a thread of ring 3 has no guard outside a call.

The refinement follows from `HolderFacts`: in such a state the holder of a lock that is
taken is the context that runs. The exchange maps to `Enter`, the store to `Leave`, an
interrupt and its return to `TakeOver`, everything else to a stutter.

`KernelProofs` is about what the kernel runs on.

* Heap, `HeapCorrect` and `AccountCorrect`, for every heap, node size and set of layouts
  (`HeapAssumption`: the heap holds at least a node). `HeapInv` tells two blocks with the
  same region apart, which `Exclusive` cannot, and asks of free regions that they do not
  even touch; all that linking does is in the lemma `AddFreeRegion`. `Accounted` (what is
  used always, what is free until words are skipped) needs sums
  over finite sets: `SumExists`, `SumUnique` and `SumAdds` show that the total of
  `MapThenSumSet` does not depend on the order in which it picks. Induction over the size
  of a set is stated as the absence of a least counterexample (`NoLeast`), so no induction
  theorem with an operator for a parameter is needed.
* Paging, `FramesCorrect`, `PathsCorrect` and `MmapCorrect`, for any number of frames, any
  gaps and huge pages, any order of boot. `FramesInv`: every frame in use comes before
  `next`, but for registers, which are past the usable ones. `PathInv`: while segments are
  loaded, the pages closed to the user are the heap's. `MmapInv`: how far the loop of
  `mmap_user_pages` has come. `PagingAssumption` says where the code puts things: the heap
  at `HEAP_START`, programs from 0x400000 to `USER_STACK_TOP`, device registers at the
  physical offset and mmap from `MMAP_BASE` on are ranges that do not meet.
* AsyncRuntime, `ReadCorrect` and `WakeupCorrect`, for every capacity of the ring and any
  number of keys and ticks. `RingInv` is the ring slot by slot; `WindowInv` says what holds
  in the windows of the two polls, between the look at the queue or clock and the
  registration of the waker, in which the interrupt may come.

`InputProofs` proves `QueueCorrect`, that the ring implements `EventQueue` (a ring that is
full refuses the event, as the queue does), `ModifiersCorrect` and `RepeatsCorrect`, for
every capacity and keyboard. The properties need `PressInv`: a press still in the queue is
of a key that is held, or its release follows in the queue, or it is one of the losses that
the properties except.

`IntentSessionProofs` proves `TypeCorrect`, `SnapshotCorrect` and `WorkspaceCorrect` for any
number of sessions, plans, undos and crashes. `SnapInv` asks of what the snapshots hold what
`CoveredBySnapshot` asks of the workspace, because a restore brings it back, and holds
through every disturbance; `AloneInv`, while nothing disturbs, that the records in force
tell what every path holds and the snapshot of each what the records before it tell. The
records in force are the journal's, or during an undo those of its copy: between the two
halves of a rewrite the file is empty.
`ChainReverted`: taking back the last record leaves what the others tell.

`DaemonProofs` is about the parts of the daemon that keep files.

* `GrantsCorrect`: while no two commands overlap, a copy nobody has overtaken is the truth,
  and while one is saved the file does not parse (`CopyInv`).
* `TrayCorrect`: whatever a process holds as up to date is the tray (`CopiesAreTray`).
* `FlowTypeCorrect`, `ReadyCorrect`, `LabelsCorrect`, for any files, retries and requests.
  `AuditInv` says at every point of the pipeline whether the worktree is there and was green
  as it is, and that the diff a task carries is of that worktree; it holds while no start
  meets a pipeline that runs and nobody removes the worktree. `LabelInv`: only the
  transition just made may still lack its label, and an agent made it.
* `FailCorrect`, `PreviewCorrect`, for any plan and disk. `RadiusInv`: steps and changes stay
  within the blast radius, which is what the snapshot holds, and the disk outside of it is
  the snapshot's. `BlindInv` and `OverlayInv` relate the overlay to what the person has been
  shown. `TraceInv` is where an induction over the changes would be: some sequence of disks
  leads from the disk the diffs start from to what is shown, change by change; rendering
  extends it and applying follows it, so the witness carries the induction along.
  `PlanAssumption` says that the two names of a declaration lie in one directory, which is
  how `fs.rs` builds them, and that disks and plans have their types.

`AgentRunProofs` proves `TypeCorrect`, `BudgetCorrect`, `EndCorrect`,
`RecordCorrect`, `UndoCorrect` and `ApprovalCorrect` for every budget, every set of turns and
every client. The budget needs `Charged`: a step is charged before its tool is tried, so
what is given back for malformed arguments is never a step whose tool ran; and `Spent`:
beyond `max_steps` there is the finish only, and no turn after it. `EndCorrect`, that
nothing is written or proposed after the end, is an action property that no run repeats; it
needs `Over`, which says where the loop can be once a flag is set or a stop was read: never
before a tool. `UndoCorrect` needs `SnapInv`: each path is captured once, and what an entry
holds was untouched when it was captured unless an earlier entry holds it too; where no
entry lies inside another one, as the property supposes, a restore takes all back.
`RecordCorrect` says of every run of which one tool came to its end, whatever else failed
midway, that it has its record and that the record's snapshot holds all that was changed.
`ApprovalCorrect` needs `LinesInv`: where in the stream a yes to an earlier proposal can
still be.

The assumptions on constants are named in the module that declares them, and TLC evaluates
each one in the run of its module. Besides types and bounds they say only what is listed
above and: identifiers for nobody (`None`, `Kernel`, "old") are no thread, key or session.

Only model-checked: liveness (`EveryReadyThreadRuns`, `EveryoneIsServed`, `SessionEnds`,
`RunEnds`, `PipelineEnds`), because fairness and ENABLED are beyond the prover, and the
five violations. `Scheduler` with the full interface is model-checked, and
proved but for `ContextIsTransparent`.

## 5. Limits of the models

* Scheduler: one CPU; priorities are never read by the code and are left out. An exit with
  no current thread falls through to the pick, which is what a tick does then.
* SyscallEntry: what the data calls compute is left out; x86_64 only. A fault in ring 3 that
  finds the kernel's `enter` already returned, and so jumps to a dead frame, is left out.
* IntentSession: the restore of a snapshot is one step; a crash falls before or after it and
  not between two of its files. One capability of tier grant. The branch of undo that rolls
  a system configuration back is left out.
* AgentRun: a tool's snapshot and its execution are one step, and a crash of the daemon in
  between is in IntentSession. A line that arrives in pieces, which `should_stop` loses, is
  not modelled. Grants are part of a call's kind.
* SpinLock: one CPU, which is what the kernel runs on; no caller takes a lock it holds.
* Paging: the contents of pages and the translation cache are left out; x86_64 only. The
  change of a segment's flags does not look for a huge page on its way, nor does the code's;
  no boot puts a program under one.
* Input: layouts and dead keys are tables and left out; characters take one byte; a repeat
  is due when the clock says so. The compositor is always there. On aarch64 the poll of the
  virtio devices also pushes between the repeat and the read loop, which here is a push
  before the call.
* PlanChanges: a file is the set of its items; changes that run commands and the truncation
  of long diffs are left out. One directory: the missing ancestors a write adds to the blast
  radius are at most that one.
* GrantFile, NotificationTray: a write is torn or whole; the directory is always there. A
  grant that has run out is told from others when it is looked at, not when the file is
  loaded. A process of the tray has one action under way at a time; two threads of the
  daemon in `handle_action` are modelled by two processes.
* FlowEngine: one ticket; the worktree's contents are one status per file. What `antos undo`
  takes back inside a worktree is left out; commands that remove it are not.

Not modelled at all: drivers' registers, drawing, parsing, clients of external programs;
`PROJECT.json` gives the reason for each component.

## 6. Plan

Done: the scheduler, system calls, executor, spin lock, memory and input of the kernel; the
sessions, changes, grants, tray, agents and flow of the daemon. Next, in this order:

1. `Crdt` (`collab.rs`): replicas that insert and delete, messages in any order; they
   converge. Abstract specification: a set of operations.
2. `ServiceManager`, `PkgLifecycle`, `TimeMachine`, `Update`: several files and processes
   changed one after the other, with a crash between any two.
3. `IpcChannel`: limits and truncation, ownership.
4. `XhciRing`, then the storage queues: producer and consumer with a cycle bit.
5. Composition: FlowEngine with AgentRun's outcomes in place of its free choice; SyscallEntry
   over Scheduler's pick.

Every safety property of the runs has its theorem. Proofs to come: a type invariant of each
module of the kernel and of Input as a theorem of its own, and the steps that a proof of
liveness by hand would need (what decreases with each step of a pipeline, a session and a
run).
