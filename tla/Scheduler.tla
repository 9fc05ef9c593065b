------------------------------ MODULE Scheduler ------------------------------
(***************************************************************************)
(* The preemptive multi-core scheduler: sched.rs (GlobalScheduler and      *)
(* Scheduler), process.rs (Task, Stack) and syscall.rs (sleep and exit),   *)
(* driven by the per-core tick of LocalTimer (bcm/timers.rs).              *)
(*                                                                         *)
(* Every section that holds the SCHEDULER spin lock is one action.         *)
(* GlobalScheduler::switch takes the lock once to deschedule the current   *)
(* task and then once per turn of the loop around Scheduler::schedule, so  *)
(* a core between the two is in a state of its own, "pick", in which the   *)
(* other cores may take the lock.  The handlers run with IRQs masked, so a *)
(* core takes no tick while it is in "pick".                               *)
(*                                                                         *)
(* Core 0 creates the tasks and never gets a scheduler tick; Cores are the *)
(* other cores, whose local timer kmain2 starts.                           *)
(***************************************************************************)
EXTENDS Integers, Sequences, FiniteSets

CONSTANTS
    Cores,       \* the cores with a scheduler tick (1, 2 and 3 on the board)
    NumTasks,    \* how many tasks kernel_main adds
    KernelPids,  \* pids of the tasks added with add_kernel_process
    NumStacks,   \* how many stacks of Stack::SIZE the heap has room for
    Syscalls,    \* the syscall numbers (x8) that user tasks put in `svc`
    ResetTpidr,  \* what TPIDR_EL0 may hold on a core that has run no task
    MaxStep      \* bound: how far a task's own computation is followed

(* add_task numbers the tasks from 2: last_id starts at 1 and is           *)
(* incremented before use.                                                 *)
Pids == 2 .. NumTasks + 1

ASSUME SchedulerConstants ==
    /\ NumTasks \in Nat
    /\ NumStacks \in Nat
    /\ MaxStep \in Nat
    /\ KernelPids \subseteq Pids
    /\ Syscalls \subseteq Nat
    /\ ResetTpidr \subseteq Nat

(* No reset value is the pid of a task: deschedule looks the current task  *)
(* up by TPIDR_EL0 alone.                                                  *)
ASSUME ResetIsNoPid == ResetTpidr \cap Pids = {}

VARIABLES
    processes,  \* Scheduler.processes, a deque of pids, front first
    last_id,    \* Scheduler.last_id; 0 for None
    state,      \* Task.state; "NONE" before the task is added
    counter,    \* Task.counter, an i8
    priority,   \* Task.priority, an i8
    context,    \* Task.context, the saved exception frame
    stack,      \* Task.stack, a block of the heap; 0 for none
    heap,       \* the stack-sized blocks that ALLOCATOR has handed out
    due,        \* sleeping tasks whose target_time has passed
    adder,      \* core 0: "adding", "new" (a task in hand), "done" or "panicked"
    pc,         \* per core: "idle", "run", "pick", "parked", "wedged" or "stuck"
    ec          \* per core: the frame the core runs from or returns to

taskVars == <<processes, last_id, state, counter, priority, context, stack, heap, due>>
coreVars == <<pc, ec>>
vars == <<taskVars, adder, coreVars>>

(***************************************************************************)
(* An exception frame: the TPIDR_EL0 it restores, how far the code it      *)
(* belongs to has computed (the general registers, elr and sp), and what   *)
(* the sleep syscall left in x0 and x7: "asked" while they still hold the  *)
(* argument, "slept" once the poll function stored its result.             *)
(***************************************************************************)
Frame == [tpidr : Nat, step : 0 .. MaxStep, x : {"none", "asked", "slept"}]

FreshFrame(t) == [tpidr |-> t, step |-> 0, x |-> "none"]

Stacks == 1 .. NumStacks

Init ==
    /\ processes = << >>
    /\ last_id = 0
    /\ state = [p \in Pids |-> "NONE"]
    /\ counter = [p \in Pids |-> 0]
    /\ priority = [p \in Pids |-> 1]
    /\ context = [p \in Pids |-> FreshFrame(0)]
    /\ stack = [p \in Pids |-> 0]
    /\ heap = {}
    /\ due = {}
    /\ adder = "adding"
    /\ pc = [c \in Cores |-> "idle"]
    /\ \E reset \in [Cores -> ResetTpidr] : ec = [c \in Cores |-> FreshFrame(reset[c])]

-----------------------------------------------------------------------------
(* The SCHEDULER lock can be taken: no core is stuck holding it.           *)
LockFree == \A c \in Cores : pc[c] \notin {"wedged", "stuck"}

(* Faulty variant: the ids start at 1.                                     *)
NextPidFromOne == last_id + 1

(* Scheduler::add_task: last_id.get_or_insert(1), then incremented.        *)
NextPid == IF last_id = 0 THEN 2 ELSE last_id + 1

(* kernel_main has a task left to add.                                     *)
MoreTasks == NumTasks > 0 /\ last_id <= NumTasks

(* Task::new in add_process, on core 0: the first free block becomes the   *)
(* stack of the task to be added.                                          *)
NewTask ==
    /\ adder = "adding"
    /\ MoreTasks
    /\ \E b \in Stacks \ heap :
          /\ \A f \in Stacks \ heap : b <= f
          /\ heap' = heap \cup {b}
          /\ stack' = [stack EXCEPT ![NextPid] = b]
    /\ adder' = "new"
    /\ UNCHANGED <<processes, last_id, state, counter, priority, context, due, coreVars>>

(* Stack::new finds no block: the `expect` panics while the guard of       *)
(* ALLOCATOR.lock() is alive, and the panic handler parks core 0 for good. *)
(* From here on nobody gets that lock again.                               *)
NewTaskOutOfMemory ==
    /\ adder = "adding"
    /\ MoreTasks
    /\ Stacks \subseteq heap
    /\ adder' = "panicked"
    /\ UNCHANGED <<taskVars, coreVars>>

(* Scheduler::add_task: the task gets the next pid and is appended.        *)
AddTask ==
    /\ adder = "new"
    /\ LockFree
    /\ last_id' = NextPid
    /\ state' = [state EXCEPT ![NextPid] = "READY"]
    /\ context' = [context EXCEPT ![NextPid] = FreshFrame(NextPid)]
    /\ processes' = Append(processes, NextPid)
    /\ adder' = "adding"
    /\ UNCHANGED <<counter, priority, stack, heap, due, coreVars>>

(* kernel_main has added its tasks and goes on to its final loop.          *)
AddingDone ==
    /\ adder = "adding"
    /\ ~MoreTasks
    /\ adder' = "done"
    /\ UNCHANGED <<taskVars, coreVars>>

-----------------------------------------------------------------------------
(* Faulty variants: the task is put back at the front; it is not removed.  *)
MoveToFront(q, i) ==
    <<q[i]>> \o SubSeq(q, 1, i - 1) \o SubSeq(q, i + 1, Len(q))

CopyToBack(q, i) == Append(q, q[i])

(* The deque after `remove(i)` and `push_back` of the removed task.        *)
MoveToBack(q, i) ==
    SubSeq(q, 1, i - 1) \o SubSeq(q, i + 1, Len(q)) \o <<q[i]>>

(* Faulty variant: the frame is not saved.                                 *)
SavedNot(p, frame) == context

(* The saved frames after `*running.context = *ec`.                        *)
Saved(p, frame) == [context EXCEPT ![p] = frame]

(* Scheduler::deschedule: the task that TPIDR_EL0 names loses one tick of  *)
(* its counter.  A tick (READY) that leaves some of it changes nothing     *)
(* else and the core goes on (`return false`); otherwise the task is       *)
(* stored in state new with the given frame and moved to the back, and the *)
(* core goes on to the loop around schedule.  cnt is the counter before    *)
(* the call.  If no task has that pid the core goes on to the loop too.    *)
deschedule(c, new, frame, cnt) ==
    \/ /\ \A i \in 1 .. Len(processes) : processes[i] # frame.tpidr
       /\ pc' = [pc EXCEPT ![c] = "pick"]
       /\ UNCHANGED <<processes, state, counter, context>>
    \/ \E i \in 1 .. Len(processes) :
          /\ processes[i] = frame.tpidr
          /\ IF new = "READY" /\ cnt[frame.tpidr] - 1 > 0
             THEN /\ counter' = [cnt EXCEPT ![frame.tpidr] = @ - 1]
                  /\ UNCHANGED <<processes, state, context, pc>>
             ELSE /\ counter' = [cnt EXCEPT ![frame.tpidr] = 1]
                  /\ state' = [state EXCEPT ![frame.tpidr] = new]
                  /\ context' = Saved(frame.tpidr, frame)
                  /\ processes' = MoveToBack(processes, i)
                  /\ pc' = [pc EXCEPT ![c] = "pick"]

(* LocalTimer's handler, first half: timer_tick, i.e. switch(READY) up to  *)
(* the release of the lock after deschedule.                               *)
Tick(c) ==
    /\ pc[c] \in {"idle", "run"}
    /\ LockFree
    /\ deschedule(c, "READY", ec[c], counter)
    /\ UNCHANGED <<last_id, priority, stack, heap, due, adder, ec>>

(* A user task's `svc`: exceptions from the kernel tasks (EL1h) go to      *)
(* current_elx_synchronous, which panics.                                  *)
Calls(c, number) ==
    /\ pc[c] = "run"
    /\ ec[c].tpidr \notin KernelPids
    /\ number \in Syscalls

(* syscall 1, sleep_task: switch(WAITING(polling_fn)) up to the release    *)
(* of the lock after deschedule.                                           *)
Sleep(c) ==
    /\ Calls(c, 1)
    /\ LockFree
    /\ adder # "panicked"
    /\ ec' = [ec EXCEPT ![c].x = "asked"]
    /\ deschedule(c, "WAITING", [ec[c] EXCEPT !.x = "asked"], counter)
    /\ UNCHANGED <<last_id, priority, stack, heap, due, adder>>

(* The same call after core 0 panicked inside ALLOCATOR: the Box of the    *)
(* poll function is never allocated, the core spins with IRQs masked.      *)
SleepParked(c) ==
    /\ Calls(c, 1)
    /\ adder = "panicked"
    /\ pc' = [pc EXCEPT ![c] = "parked"]
    /\ UNCHANGED <<taskVars, adder, ec>>

(* Faulty variant: the stack is leaked.                                    *)
DeallocatedNot(p) == heap

(* The heap after Task::exit gave back the stack of task p.                *)
Deallocated(p) == heap \ {stack[p]}

(* syscall 2, exit_task: Task::exit gives the stack back to ALLOCATOR, and *)
(* deschedule(ZOMBIE) moves the task to the back.                          *)
Exit(c) ==
    /\ Calls(c, 2)
    /\ LockFree
    /\ adder # "panicked"
    /\ heap' = Deallocated(ec[c].tpidr)
    /\ priority' = [priority EXCEPT ![ec[c].tpidr] = 0]
    /\ deschedule(c, "ZOMBIE", ec[c], [counter EXCEPT ![ec[c].tpidr] = 0])
    /\ UNCHANGED <<last_id, stack, due, adder, ec>>

(* The same call after core 0 panicked inside ALLOCATOR: the core spins on *)
(* that lock for ever, holding the SCHEDULER lock.                         *)
ExitWedged(c) ==
    /\ Calls(c, 2)
    /\ LockFree
    /\ adder = "panicked"
    /\ state' = [state EXCEPT ![ec[c].tpidr] = "ZOMBIE"]
    /\ counter' = [counter EXCEPT ![ec[c].tpidr] = 0]
    /\ priority' = [priority EXCEPT ![ec[c].tpidr] = 0]
    /\ pc' = [pc EXCEPT ![c] = "wedged"]
    /\ UNCHANGED <<processes, last_id, context, stack, heap, due, adder, ec>>

(* Any other syscall: handle returns Err and the exception vector panics;  *)
(* the core is parked with the task on it.                                 *)
UnknownSyscall(c) ==
    /\ \E number \in Syscalls \ {1, 2} : Calls(c, number)
    /\ pc' = [pc EXCEPT ![c] = "parked"]
    /\ UNCHANGED <<taskVars, adder, ec>>

-----------------------------------------------------------------------------
(* Faulty variants: a running, or an exited, task counts as ready.         *)
is_ready_running(p) ==
    state[p] \in {"READY", "RUNNING"} \/ (state[p] = "WAITING" /\ p \in due)

is_ready_zombie(p) ==
    state[p] \in {"READY", "ZOMBIE"} \/ (state[p] = "WAITING" /\ p \in due)

(* Task::is_ready: a sleeping task is asked through its poll function.     *)
is_ready(p) == state[p] = "READY" \/ (state[p] = "WAITING" /\ p \in due)

(* Faulty variant: the frame is copied before the poll function stores.    *)
PolledLate(p) == context[p]

(* The frame that schedule restores: the poll function of a sleeping task  *)
(* has stored the elapsed time in it.                                      *)
Polled(p) == IF state[p] = "WAITING" THEN [context[p] EXCEPT !.x = "slept"] ELSE context[p]

(* Faulty variant: the counter is not halved.                              *)
PassedOverWithoutDecay(S) ==
    [p \in Pids |-> IF p \in S /\ state[p] = "WAITING"
                    THEN counter[p] + priority[p]
                    ELSE counter[p]]

(* The counters after schedule passed over the tasks of set S.             *)
PassedOver(S) ==
    [p \in Pids |-> IF p \in S /\ state[p] = "WAITING"
                    THEN (counter[p] \div 2) + priority[p]
                    ELSE counter[p]]

(* The deque after i - 1 tasks were taken from the front and put back at   *)
(* the end, and the i-th taken and put back at the front.                  *)
Rotate(q, i) == SubSeq(q, i, Len(q)) \o SubSeq(q, 1, i - 1)

(* Scheduler::schedule finds no task that is ready and returns 0.          *)
ScheduleNone(c) ==
    /\ pc[c] = "pick"
    /\ LockFree
    /\ \A i \in 1 .. Len(processes) : ~is_ready(processes[i])
    /\ counter' = PassedOver({processes[i] : i \in 1 .. Len(processes)})
    /\ UNCHANGED <<processes, last_id, state, priority, context, stack, heap, due, adder, coreVars>>

(* Faulty variant: the first id is taken for none.                         *)
LoopEndsLate(old) == old > 2

(* The loop around schedule ends when schedule returns more than 0.        *)
LoopEnds(old) == old > 0

(* is_ready drops the poll function of a task that has slept, which gives  *)
(* its Box back to ALLOCATOR.                                              *)
DropsPollFn(p) == state[p] = "WAITING"

(* Scheduler::schedule restores the first ready task and returns the       *)
(* TPIDR_EL0 of the frame it overwrites; the loop ends if that is not 0.   *)
Schedule(c) ==
    /\ pc[c] = "pick"
    /\ LockFree
    /\ \E i \in 1 .. Len(processes) :
          /\ is_ready(processes[i])
          /\ \A j \in 1 .. i - 1 : ~is_ready(processes[j])
          /\ DropsPollFn(processes[i]) => adder # "panicked"
          /\ processes' = Rotate(processes, i)
          /\ counter' = PassedOver({processes[j] : j \in 1 .. i - 1})
          /\ state' = [state EXCEPT ![processes[i]] = "RUNNING"]
          /\ context' = [context EXCEPT ![processes[i]] = Polled(processes[i])]
          /\ ec' = [ec EXCEPT ![c] = Polled(processes[i])]
          /\ due' = due \ {processes[i]}
          /\ pc' = [pc EXCEPT ![c] = IF LoopEnds(ec[c].tpidr) THEN "run" ELSE "pick"]
    /\ UNCHANGED <<last_id, priority, stack, heap, adder>>

(* The same call after core 0 panicked inside ALLOCATOR, with a task that  *)
(* has slept first: the core spins on that lock inside is_ready and holds  *)
(* the SCHEDULER lock for ever, so nobody sees the deque again.            *)
ScheduleStuck(c) ==
    /\ pc[c] = "pick"
    /\ LockFree
    /\ adder = "panicked"
    /\ \E i \in 1 .. Len(processes) :
          /\ is_ready(processes[i])
          /\ \A j \in 1 .. i - 1 : ~is_ready(processes[j])
          /\ DropsPollFn(processes[i])
    /\ pc' = [pc EXCEPT ![c] = "stuck"]
    /\ UNCHANGED <<taskVars, adder, ec>>

-----------------------------------------------------------------------------
(* The task on the core computes; its registers take new values.           *)
Execute(c) ==
    /\ pc[c] = "run"
    /\ ec[c].step < MaxStep
    /\ ec' = [ec EXCEPT ![c].step = @ + 1, ![c].x = "none"]
    /\ UNCHANGED <<taskVars, adder, pc>>

(* The system timer passes the target_time of a sleeping task.             *)
Elapse(p) ==
    /\ state[p] = "WAITING"
    /\ p \notin due
    /\ due' = due \cup {p}
    /\ UNCHANGED <<processes, last_id, state, counter, priority, context, stack, heap, adder, coreVars>>

CoreStep(c) ==
    \/ Tick(c)
    \/ Sleep(c)
    \/ SleepParked(c)
    \/ Exit(c)
    \/ ExitWedged(c)
    \/ UnknownSyscall(c)
    \/ ScheduleNone(c)
    \/ Schedule(c)
    \/ ScheduleStuck(c)
    \/ Execute(c)

Next ==
    \/ NewTask
    \/ NewTaskOutOfMemory
    \/ AddTask
    \/ AddingDone
    \/ \E c \in Cores : CoreStep(c)
    \/ \E p \in Pids : Elapse(p)

Spec == Init /\ [][Next]_vars

(* The code's scheduling: the local timer of a core fires again and again  *)
(* while IRQs are unmasked, a core in the loop around schedule takes the   *)
(* SCHEDULER lock again and again, core 0 goes on, and time passes.  Tasks *)
(* promise nothing: they may compute for ever, sleep or exit.              *)
Fairness ==
    /\ WF_vars(NewTask) /\ WF_vars(AddTask)
    /\ \A c \in Cores : WF_vars(Tick(c)) /\ WF_vars(Schedule(c))
    /\ \A p \in Pids : WF_vars(Elapse(p))

FairSpec == Spec /\ Fairness
-----------------------------------------------------------------------------
(* Type correctness.  Counters and priorities are i8 values.               *)
TypeOK ==
    /\ processes \in Seq(Pids)
    /\ last_id \in {0} \cup Pids
    /\ state \in [Pids -> {"NONE", "READY", "RUNNING", "WAITING", "ZOMBIE"}]
    /\ counter \in [Pids -> -128 .. 127]
    /\ priority \in [Pids -> -128 .. 127]
    /\ context \in [Pids -> Frame]
    /\ stack \in [Pids -> {0} \cup Stacks]
    /\ heap \subseteq Stacks
    /\ due \subseteq Pids
    /\ adder \in {"adding", "new", "done", "panicked"}
    /\ pc \in [Cores -> {"idle", "run", "pick", "parked", "wedged", "stuck"}]
    /\ ec \in [Cores -> Frame]

(* Core c executes task p, or stopped for good in the middle of it.        *)
OnCore(c, p) == pc[c] \in {"run", "parked", "wedged"} /\ ec[c].tpidr = p

(* No task runs on two cores, and the state in the deque agrees with what  *)
(* the core does: switch releases the lock between deschedule and          *)
(* schedule, and nothing but the RUNNING state keeps another core away.    *)
OneCorePerTask ==
    \A c \in Cores, p \in Pids :
        OnCore(c, p) =>
            /\ state[p] = IF pc[c] = "wedged" THEN "ZOMBIE" ELSE "RUNNING"
            /\ \A d \in Cores \ {c} : ~OnCore(d, p)

(* A task in state RUNNING is on a core: a RUNNING task that no core       *)
(* executes is skipped by every later schedule and never runs again.       *)
RunningIsOnACore ==
    \A p \in Pids : state[p] = "RUNNING" => \E c \in Cores : OnCore(c, p)

(* A task that schedule marked RUNNING is in the frame of some core.       *)
NoTaskLost ==
    \A p \in Pids : state[p] = "RUNNING" => \E c \in Cores : ec[c].tpidr = p

(* The deque holds every task that was added, once, whatever the           *)
(* interleaving of add_task, remove / push_back and the rotations.         *)
QueueExact ==
    /\ {processes[i] : i \in 1 .. Len(processes)} = 2 .. last_id
    /\ \A i, j \in 1 .. Len(processes) : i # j => processes[i] # processes[j]

(* The stack of a task that may still run is its own block of the heap:    *)
(* exit gives a block back once, and never one that is in use again.       *)
HoldsStack(p) ==
    \/ p \in 2 .. last_id /\ state[p] # "ZOMBIE"
    \/ \E c \in Cores : pc[c] = "wedged" /\ ec[c].tpidr = p
    \/ adder = "new" /\ p = NextPid

StackOwnership ==
    /\ heap = {stack[p] : p \in {q \in Pids : HoldsStack(q)}}
    /\ \A p, q \in Pids : HoldsStack(p) /\ HoldsStack(q) /\ p # q => stack[p] # stack[q]

(* Between two tasks of equal standing a slice is one tick: no sequence of *)
(* ticks, sleeps and polls gives a task a counter that survives a tick, so *)
(* the `return false` of deschedule is never taken.                        *)
SliceIsOneTick == \A p \in Pids : counter[p] \in 0 .. 1

(* A task goes on after sleep only with the poll function's result in its  *)
(* registers, also when it was preempted in between.                       *)
SleepHonoured == \A c \in Cores : pc[c] = "run" => ec[c].x # "asked"

(* The inductive invariant behind these: the task table agrees with        *)
(* last_id, and a core that is not choosing a task holds the frame of a    *)
(* task of the table, or the frame it had at reset.                        *)
TaskTable ==
    /\ \A p \in Pids : state[p] = "NONE" <=> p \notin 2 .. last_id
    /\ \A p \in 2 .. last_id : context[p].tpidr = p
    /\ \A p \in Pids : priority[p] \in 0 .. 1
    /\ adder = "new" => NextPid \in Pids

CoreTable ==
    \A c \in Cores :
        /\ pc[c] = "idle" => ec[c].tpidr \in ResetTpidr
        /\ pc[c] \in {"run", "parked", "wedged"} => ec[c].tpidr \in 2 .. last_id

SchedInv ==
    /\ TypeOK
    /\ QueueExact
    /\ SliceIsOneTick
    /\ TaskTable
    /\ CoreTable
    /\ OneCorePerTask

(* How far a task has computed, wherever its registers are.                *)
StepOf(p) ==
    IF \E c \in Cores : OnCore(c, p)
    THEN ec[CHOOSE c \in Cores : OnCore(c, p)].step
    ELSE context[p].step

(* A task never loses computation: whatever core it moves to, it goes on   *)
(* from the frame it was interrupted in.                                   *)
ProgressKept ==
    [][\A p \in 2 .. last_id : StepOf(p)' \in {StepOf(p), StepOf(p) + 1}]_vars

(* The tasks in front of p in the deque.                                   *)
Ahead(p) ==
    {processes[j] : j \in {k \in 1 .. Len(processes) :
        \E i \in 1 .. Len(processes) : processes[i] = p /\ k < i}}

(* Round robin: while a task is READY nobody gets in front of it, and only *)
(* a task in front of it is started.  A started task is in front only      *)
(* until it stops, so it overtakes a READY task at most once.              *)
BoundedBypass ==
    [][\A p \in Pids :
          state[p] = "READY" /\ state'[p] = "READY" =>
             /\ Ahead(p)' \subseteq Ahead(p)
             /\ \A q \in Pids : state[q] # "RUNNING" /\ state'[q] = "RUNNING" => q \in Ahead(p)
             /\ \A q \in Pids : state[q] = "RUNNING" /\ state'[q] # "RUNNING" => q \notin Ahead(p)']_vars

(* An exited task never runs again and its stack is not given back twice.  *)
ZombieIsFinal ==
    [][\A p \in Pids : state[p] = "ZOMBIE" =>
          /\ state'[p] = "ZOMBIE"
          /\ \A c \in Cores : ~OnCore(c, p)' \/ OnCore(c, p)]_vars

(* What the code promises in terms of TaskPool: the state of a task, and   *)
(* the task each core executes.                                            *)
PoolStatus(p) ==
    CASE state[p] = "NONE"    -> "absent"
      [] state[p] = "READY"   -> "ready"
      [] state[p] = "RUNNING" -> "running"
      [] state[p] = "WAITING" -> "asleep"
      [] state[p] = "ZOMBIE"  -> "exited"

PoolOn(c) == IF pc[c] \in {"run", "parked"} THEN ec[c].tpidr ELSE 0

Pool == INSTANCE TaskPool WITH
            Tasks  <- Pids,
            Nobody <- 0,
            status <- [p \in Pids |-> PoolStatus(p)],
            on     <- [c \in Cores |-> PoolOn(c)]

(* The scheduler implements the pool: each locked section is one atomic    *)
(* hand-over or changes nothing that the pool sees.                        *)
ImplementsPool == Pool!PoolSpec

(* No starvation: a task that is ready, or sleeps, runs again.             *)
EveryTaskRuns ==
    \A p \in Pids : state[p] \in {"READY", "WAITING"} ~> \E c \in Cores : OnCore(c, p)
=============================================================================
