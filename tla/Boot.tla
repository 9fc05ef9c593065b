--------------------------------- MODULE Boot ---------------------------------
(***************************************************************************)
(* Bringing up the four cores: _start, kinit, start2, kmain2 and the       *)
(* Coordinator of cpu.rs, kernel_init and kernel_main of main.rs, the      *)
(* per-core mmu::core_setup, and the first interrupts of each local timer, *)
(* whose handler LocalIC::handle_pending_irqs calls under the read lock of *)
(* the handler tables that LocalIC::register_handler writes.               *)
(*                                                                         *)
(* The scheduler is reduced to the number of tasks that are ready and the  *)
(* number asleep; module Scheduler has the rest.                           *)
(***************************************************************************)
EXTENDS Integers, FiniteSets

CONSTANTS
    Cores,      \* all cores
    Core0,      \* the core that boots the kernel
    Barrier,    \* the count that set_ready_and_wait waits for
    NumTasks,   \* the tasks that kernel_main adds
    UsbResults, \* what USB.initialize may find: "link", "nolink", "absent"
    Prompt      \* whether the timing assumption PromptBoot is made

Secondary == Cores \ {Core0}

ASSUME BootConstants ==
    /\ IsFiniteSet(Cores)
    /\ Core0 \in Cores
    /\ Barrier = Cardinality(Cores)
    /\ NumTasks \in Nat
    /\ UsbResults \subseteq {"link", "nolink", "absent"}
    /\ Prompt \in BOOLEAN

VARIABLES
    pc,         \* per core: the next step of its boot code
    slot,       \* cores whose word of the spin table holds an entry address
    tables,     \* populate_tt_entries has filled the translation tables
    mmu,        \* cores whose MMU is on
    usb,        \* what USB.initialize found, or "unknown"
    scheduler,  \* SCHEDULER holds Some(scheduler)
    coord,      \* CORE_COORD, the AtomicUsize
    handlers,   \* cores with a local timer handler in LocalIC.handler_tables
    readers,    \* cores that hold the read lock of handler_tables
    armed,      \* cores whose local timer runs and is routed to them
    irq,        \* cores that have IRQs unmasked
    ready,      \* tasks in the deque that may be started
    asleep,     \* tasks in the deque that sleep
    toAdd       \* tasks that kernel_main has not added yet

vars == <<pc, slot, tables, mmu, usb, scheduler, coord, handlers, readers,
          armed, irq, ready, asleep, toAdd>>

(* The word of a held core in the spin table is 0, so the firmware's stub  *)
(* keeps it waiting; core 0 has run kinit (bss zeroed, EL1 entered).       *)
Init ==
    /\ pc = [c \in Cores |-> IF c = Core0 THEN "mmu_init" ELSE "held"]
    /\ slot = {}
    /\ tables = FALSE
    /\ mmu = {}
    /\ usb = "unknown"
    /\ scheduler = FALSE
    /\ coord = 0
    /\ handlers = {}
    /\ readers = {}
    /\ armed = {}
    /\ irq = {}
    /\ ready = 0
    /\ asleep = 0
    /\ toAdd = NumTasks

Goto(c, from, to) == pc[c] = from /\ pc' = [pc EXCEPT ![c] = to]

-----------------------------------------------------------------------------
(* Core 0: kernel_init.                                                    *)

(* Faulty variant: the tables stay empty.                                  *)
MmuInitSkipped ==
    /\ Goto(Core0, "mmu_init", "wake")
    /\ UNCHANGED <<slot, tables, mmu, usb, scheduler, coord, handlers, readers, armed, irq, ready, asleep, toAdd>>

(* memory::mmu::mmu().init().                                              *)
MmuInit ==
    /\ Goto(Core0, "mmu_init", "wake")
    /\ tables' = TRUE
    /\ UNCHANGED <<slot, mmu, usb, scheduler, coord, handlers, readers, armed, irq, ready, asleep, toAdd>>

(* wake_up_secondary_cores: the entry addresses are stored, then `sev`.    *)
WakeSecondaries ==
    /\ Goto(Core0, "wake", "await_wake")
    /\ slot' = Secondary
    /\ UNCHANGED <<tables, mmu, usb, scheduler, coord, handlers, readers, armed, irq, ready, asleep, toAdd>>

(* wake_up_secondary_cores returns once every word is 0 again.             *)
SecondariesAwake ==
    /\ Goto(Core0, "await_wake", "core_setup")
    /\ slot = {}
    /\ UNCHANGED <<slot, tables, mmu, usb, scheduler, coord, handlers, readers, armed, irq, ready, asleep, toAdd>>

(* memory::mmu::core_setup, on any core: it walks the tables from here on. *)
CoreSetup(c) ==
    /\ Goto(c, "core_setup", IF c = Core0 THEN "init_usb" ELSE "arrive")
    /\ mmu' = mmu \cup {c}
    /\ UNCHANGED <<slot, tables, usb, scheduler, coord, handlers, readers, armed, irq, ready, asleep, toAdd>>

(* The drivers and ALLOCATOR are initialised and the peripheral handlers   *)
(* registered, then USB.initialize() and ETH.initialize() are called.      *)
InitUsb ==
    /\ Goto(Core0, "init_usb", "check_eth")
    /\ \E r \in UsbResults : usb' = r
    /\ UNCHANGED <<slot, tables, mmu, scheduler, coord, handlers, readers, armed, irq, ready, asleep, toAdd>>

(* assert!(USB.is_eth_available()): without a controller core 0 panics.    *)
EthAvailable ==
    /\ Goto(Core0, "check_eth", IF usb = "absent" THEN "parked" ELSE "await_link")
    /\ UNCHANGED <<slot, tables, mmu, usb, scheduler, coord, handlers, readers, armed, irq, ready, asleep, toAdd>>

(* while !USB.is_eth_link_up(): a link that is down may come up.           *)
LinkComesUp ==
    /\ usb = "nolink"
    /\ usb' = "link"
    /\ UNCHANGED <<pc, slot, tables, mmu, scheduler, coord, handlers, readers, armed, irq, ready, asleep, toAdd>>

LinkUp ==
    /\ Goto(Core0, "await_link", "init_scheduler")
    /\ usb = "link"
    /\ UNCHANGED <<slot, tables, mmu, usb, scheduler, coord, handlers, readers, armed, irq, ready, asleep, toAdd>>

(* Faulty variant: the scheduler is not created.                           *)
InitSchedulerSkipped ==
    /\ Goto(Core0, "init_scheduler", "arrive")
    /\ UNCHANGED <<slot, tables, mmu, usb, scheduler, coord, handlers, readers, armed, irq, ready, asleep, toAdd>>

(* SCHEDULER.init().                                                       *)
InitScheduler ==
    /\ Goto(Core0, "init_scheduler", "arrive")
    /\ scheduler' = TRUE
    /\ UNCHANGED <<slot, tables, mmu, usb, coord, handlers, readers, armed, irq, ready, asleep, toAdd>>

-----------------------------------------------------------------------------
(* Secondary cores: start2 and kmain2.                                     *)

(* The stub sees a nonzero word and jumps to start2.                       *)
LeaveStub(c) ==
    /\ Goto(c, "held", "clear_slot")
    /\ c \in slot
    /\ UNCHANGED <<slot, tables, mmu, usb, scheduler, coord, handlers, readers, armed, irq, ready, asleep, toAdd>>

(* Faulty variant: the acknowledgement is missing.                         *)
ClearSlotSkipped(c) ==
    /\ Goto(c, "clear_slot", "core_setup")
    /\ UNCHANGED <<slot, tables, mmu, usb, scheduler, coord, handlers, readers, armed, irq, ready, asleep, toAdd>>

(* kmain2 acknowledges by storing 0 in its word.                           *)
ClearSlot(c) ==
    /\ Goto(c, "clear_slot", "core_setup")
    /\ slot' = slot \ {c}
    /\ UNCHANGED <<tables, mmu, usb, scheduler, coord, handlers, readers, armed, irq, ready, asleep, toAdd>>

(* Faulty variant: the loop ends one core early.                           *)
AllArrivedButOne == coord >= Barrier - 1

(* Coordinator::set_ready_and_wait: the fetch_add, on any core.  The       *)
(* secondary cores have masked FIQs and IRQs before it.                    *)
Arrive(c) ==
    /\ Goto(c, "arrive", "barrier")
    /\ coord' = coord + 1
    /\ UNCHANGED <<slot, tables, mmu, usb, scheduler, handlers, readers, armed, irq, ready, asleep, toAdd>>

(* The condition that ends its loop, and the step out of it.               *)
AllArrived == coord >= Barrier

PassBarrier(c) ==
    /\ Goto(c, "barrier", IF c = Core0 THEN "add_tasks" ELSE "register")
    /\ AllArrived
    /\ UNCHANGED <<slot, tables, mmu, usb, scheduler, coord, handlers, readers, armed, irq, ready, asleep, toAdd>>

(* init_core_timer: LocalIC::register_handler, under the write lock.       *)
RegisterHandler(c) ==
    /\ Goto(c, "register", "arm")
    /\ readers = {}
    /\ handlers' = handlers \cup {c}
    /\ UNCHANGED <<slot, tables, mmu, usb, scheduler, coord, readers, armed, irq, ready, asleep, toAdd>>

(* LocalIC::enable and LocalTimer::tick.                                   *)
ArmTimer(c) ==
    /\ Goto(c, "arm", "unmask")
    /\ armed' = armed \cup {c}
    /\ UNCHANGED <<slot, tables, mmu, usb, scheduler, coord, handlers, readers, irq, ready, asleep, toAdd>>

(* local_irq_unmask, then kmain2's final loop.                             *)
Unmask(c) ==
    /\ Goto(c, "unmask", "idle")
    /\ irq' = irq \cup {c}
    /\ UNCHANGED <<slot, tables, mmu, usb, scheduler, coord, handlers, readers, armed, ready, asleep, toAdd>>

-----------------------------------------------------------------------------
(* kernel_main on core 0.                                                  *)

AddTask ==
    /\ pc[Core0] = "add_tasks"
    /\ toAdd > 0
    /\ ready' = ready + 1
    /\ toAdd' = toAdd - 1
    /\ UNCHANGED <<pc, slot, tables, mmu, usb, scheduler, coord, handlers, readers, armed, irq, asleep>>

UnmaskCore0 ==
    /\ Goto(Core0, "add_tasks", "idle")
    /\ toAdd = 0
    /\ irq' = irq \cup {Core0}
    /\ UNCHANGED <<slot, tables, mmu, usb, scheduler, coord, handlers, readers, armed, ready, asleep, toAdd>>

-----------------------------------------------------------------------------
(* Interrupts of the local timers.                                         *)

(* Timing: between the barrier and its unmasking of IRQs a core takes far  *)
(* less than the 200 ms of the first tick, so no tick finds another core   *)
(* on that way.  Nothing in the code enforces it.                          *)
PromptBoot == Prompt => Secondary \subseteq armed

(* The exception masks IRQs; handle_pending_irqs takes the read lock.  A   *)
(* core without a handler, or without a scheduler, panics there.           *)
TakeTick(c) ==
    /\ c \in irq \cap armed
    /\ pc[c] \in {"idle", "task"}
    /\ PromptBoot
    /\ irq' = irq \ {c}
    /\ readers' = readers \cup {c}
    /\ pc' = [pc EXCEPT ![c] = IF c \in handlers /\ scheduler THEN "pick" ELSE "parked"]
    /\ ready' = IF c \in handlers /\ scheduler /\ pc[c] = "task" THEN ready + 1 ELSE ready
    /\ UNCHANGED <<slot, tables, mmu, usb, scheduler, coord, handlers, armed, asleep, toAdd>>

(* schedule finds a task: the handler re-arms the timer, the read lock is  *)
(* released and the task is entered with IRQs unmasked.                    *)
Pick(c) ==
    /\ Goto(c, "pick", "task")
    /\ ready > 0
    /\ ready' = ready - 1
    /\ readers' = readers \ {c}
    /\ irq' = irq \cup {c}
    /\ UNCHANGED <<slot, tables, mmu, usb, scheduler, coord, handlers, armed, asleep, toAdd>>

(* The task on the core calls sleep: the loop around schedule runs in the  *)
(* syscall, with IRQs masked and without the read lock.                    *)
TaskSleeps(c) ==
    /\ Goto(c, "task", "pick")
    /\ asleep' = asleep + 1
    /\ irq' = irq \ {c}
    /\ UNCHANGED <<slot, tables, mmu, usb, scheduler, coord, handlers, readers, armed, ready, toAdd>>

TaskWakes ==
    /\ asleep > 0
    /\ asleep' = asleep - 1
    /\ ready' = ready + 1
    /\ UNCHANGED <<pc, slot, tables, mmu, usb, scheduler, coord, handlers, readers, armed, irq, toAdd>>

Core0Step ==
    \/ MmuInit \/ WakeSecondaries \/ SecondariesAwake \/ InitUsb
    \/ EthAvailable \/ LinkComesUp \/ LinkUp \/ InitScheduler
    \/ AddTask \/ UnmaskCore0

SecondaryStep(c) ==
    \/ LeaveStub(c) \/ ClearSlot(c)
    \/ RegisterHandler(c) \/ ArmTimer(c) \/ Unmask(c)

AnyCoreStep(c) ==
    \/ CoreSetup(c) \/ Arrive(c) \/ PassBarrier(c)
    \/ TakeTick(c) \/ Pick(c) \/ TaskSleeps(c)

Next ==
    \/ Core0Step
    \/ \E c \in Secondary : SecondaryStep(c)
    \/ \E c \in Cores : AnyCoreStep(c)
    \/ TaskWakes

Spec == Init /\ [][Next]_vars

(* Every core keeps executing its boot code, local timers fire, time       *)
(* passes, the link comes up.  A core that waits for the write lock, or in *)
(* the loop around schedule, tries all the time, so it succeeds if it can  *)
(* again and again.                                                        *)
Fairness ==
    /\ WF_vars(Core0Step)
    /\ \A c \in Secondary :
          /\ WF_vars(LeaveStub(c) \/ ClearSlot(c) \/ ArmTimer(c) \/ Unmask(c))
          /\ SF_vars(RegisterHandler(c))
    /\ \A c \in Cores :
          /\ WF_vars(CoreSetup(c) \/ Arrive(c) \/ PassBarrier(c))
          /\ WF_vars(TakeTick(c))
          /\ SF_vars(Pick(c))
    /\ WF_vars(TaskWakes)

FairSpec == Spec /\ Fairness

-----------------------------------------------------------------------------
Labels ==
    {"mmu_init", "wake", "await_wake", "core_setup", "init_usb", "check_eth",
     "await_link", "init_scheduler", "arrive", "barrier", "add_tasks", "held", "clear_slot",
     "register", "arm", "unmask", "idle", "pick", "task", "parked"}

(* Type correctness.                                                       *)
TypeOK ==
    /\ pc \in [Cores -> Labels]
    /\ slot \subseteq Cores
    /\ tables \in BOOLEAN
    /\ mmu \subseteq Cores
    /\ usb \in {"unknown", "link", "nolink", "absent"}
    /\ scheduler \in BOOLEAN
    /\ coord \in 0 .. Barrier
    /\ handlers \subseteq Cores
    /\ readers \subseteq Cores
    /\ armed \subseteq Cores
    /\ irq \subseteq Cores
    /\ ready \in Nat
    /\ asleep \in Nat
    /\ toAdd \in 0 .. NumTasks

(* No core turns its MMU on before core 0 has filled the tables it walks.  *)
MmuNeedsTables == mmu # {} => tables

(* The steps of a core after set_ready_and_wait.                           *)
PastBarrier == {"add_tasks", "register", "arm", "unmask", "idle", "pick", "task"}

(* cpu.rs: "wait for shceduler to be initialized by core 0 before starting *)
(* timers".  A core is past the barrier only if every core is at it, so a  *)
(* tick always finds a scheduler, and a handler, or it would panic with    *)
(* the SCHEDULER lock held.                                                *)
NoEarlyTick ==
    \A c \in Cores :
        /\ pc[c] \in PastBarrier =>
              /\ scheduler
              /\ \A d \in Cores : d \in mmu /\ pc[d] \in PastBarrier \cup {"barrier"}
        /\ c \in irq \cap armed => c \in handlers

(* No core panics while it boots with an Ethernet controller present.      *)
NoBootPanic == usb # "absent" => \A c \in Cores : pc[c] # "parked"

(* The inductive invariant behind these: what each step of the boot code   *)
(* has behind it, and CORE_COORD counting the cores that came to the       *)
(* barrier.                                                                *)
Arrived == {c \in Cores : pc[c] \in PastBarrier \cup {"barrier"}}

BootOrder ==
    /\ ~tables => /\ pc[Core0] = "mmu_init" /\ slot = {} /\ mmu = {}
                  /\ \A c \in Secondary : pc[c] = "held"
    /\ pc[Core0] \in {"arrive", "barrier"} \cup PastBarrier => scheduler
    /\ Core0 \notin armed
    /\ pc[Core0] \notin {"held", "clear_slot", "register", "arm", "unmask"}
    /\ \A c \in Cores :
          /\ pc[c] \in {"init_usb", "check_eth", "await_link", "init_scheduler", "arrive", "barrier"}
                        \cup PastBarrier => c \in mmu
          /\ pc[c] = "arm" \/ c \in armed => c \in handlers
          /\ pc[c] = "parked" => c = Core0 /\ usb = "absent"

BarrierCount ==
    /\ coord = Cardinality(Arrived)
    /\ \A c \in Cores : pc[c] \in PastBarrier => Arrived = Cores

BootInv == TypeOK /\ BootOrder /\ BarrierCount

(* Every secondary core comes to run tasks: none waits for ever for the    *)
(* barrier or for the write lock of the handler tables.                    *)
BootCompletes ==
    <>(\A c \in Secondary : c \in armed) /\ \A c \in Secondary : []<>(pc[c] = "task")

(* main.rs: "Unable to initialize Ethernet controller; skipping": the      *)
(* kernel goes on without a controller.                                    *)
BootsWithoutEthernet == usb = "absent" ~> pc[Core0] = "idle"
=============================================================================
