----------------------------- MODULE KernelTimer -----------------------------
(***************************************************************************)
(* The kernel timers of USPi's environment, timer.c, and their two users:  *)
(* poll_ethernet of net.rs, which starts itself again through              *)
(* start_kernel_timer of uspi.rs, and the host controller driver, which    *)
(* delays the report request of a device that has nothing to report.       *)
(*                                                                         *)
(* The timers tick in the Timer3 interrupt on core 0.  handle_pending_irqs *)
(* unmasks FIQs around the handler, and the interrupt of the USB           *)
(* controller is an FIQ, while EnterCritical masks IRQs only: the driver   *)
(* may start a timer between any two accesses that TimerPollKernelTimers   *)
(* or TimerStartKernelTimer makes to the table.  m_KernelTimer is          *)
(* volatile, so the accesses are those of the source.  Accesses that an    *)
(* FIQ cannot come between with an effect, because it never writes to a    *)
(* slot in use, share an action.                                           *)
(***************************************************************************)
EXTENDS Integers, FiniteSets

CONSTANTS
    NumSlots,   \* KERNEL_TIMERS
    Hids,       \* devices whose report request is repeated
    TickMod,    \* m_nTicks is unsigned: it counts modulo this
    EthDelays,  \* delays of poll_ethernet, in ticks
    HidDelays   \* intervals of the devices, in ticks

None == "none"
Slots == 1 .. NumSlots

(* uspi.rs and the drivers ask for less than half of the counter's range.  *)
ASSUME KernelTimerConstants ==
    /\ NumSlots \in Nat
    /\ IsFiniteSet(Hids) /\ None \notin Hids
    /\ Cardinality(Hids) < NumSlots
    /\ TickMod \in Nat /\ TickMod > 1
    /\ EthDelays \cup HidDelays \subseteq {d \in Nat : 2 * d + 2 < TickMod}

VARIABLES
    slots,        \* m_KernelTimer: handler, m_nElapsesAt and m_pParam
    ticks,        \* m_nTicks
    initialized,  \* TimerGet has connected the Timer3 interrupt
    hid,          \* per device: its transaction is "busy" or in "delay"
    pc,           \* the next access of the base context
    k,            \* hTimer of TimerPollKernelTimers
    n,            \* hTimer of TimerStartKernelTimer
    handler,      \* pHandler of TimerPollKernelTimers
    arg,          \* the parameter it has loaded
    main,         \* kernel_main makes the call, with FIQs masked
    left          \* history: ticks until the network poll is due, -1 if it is late

vars == <<slots, ticks, initialized, hid, pc, k, n, handler, arg, main, left>>

(* A slot of the static table before TimerGet, and after a timer fired:    *)
(* only m_pHandler says that it is free.                                   *)
EmptySlot == [handler |-> None, elapses |-> 0, param |-> None]

Init ==
    /\ slots = [s \in Slots |-> EmptySlot]
    /\ ticks = 0
    /\ initialized = FALSE
    /\ hid = [h \in Hids |-> "busy"]
    /\ pc = "boot"
    /\ k = 1 /\ n = 1
    /\ handler = None /\ arg = None
    /\ main = FALSE
    /\ left = 0

(* Faulty variant: the times are compared as they are.                     *)
ElapsedUnsigned(s) == slots[s].elapses <= ticks

(* (int) (m_nElapsesAt - m_nTicks) <= 0.                                   *)
Elapsed(s) ==
    LET diff == (slots[s].elapses - ticks) % TickMod IN diff = 0 \/ 2 * diff >= TickMod

Free(s) == slots[s].handler = None

-----------------------------------------------------------------------------
(* The interrupt handler of the USB controller, an FIQ.                    *)

(* kernel_init unmasks FIQs for the USB drivers and masks them again at    *)
(* its end; after that they are unmasked while a peripheral's handler      *)
(* runs, that of Timer3 or, in the final loop of core 0, that of the UART. *)
FiqUnmasked == ~main

(* The table after the first free slot was filled in; a full table stays   *)
(* as it is, the failure is logged and nobody tests the result.            *)
StartedFor(h, d) ==
    IF \E s \in Slots : Free(s)
    THEN [slots EXCEPT ![CHOOSE s \in Slots : Free(s) /\ \A f \in Slots : Free(f) => s <= f] =
            [handler |-> "hid", elapses |-> (ticks + d) % TickMod, param |-> h]]
    ELSE slots

(* NAK or NYET for a periodic request: TimerStartKernelTimer for the       *)
(* device's interval, from start to end.                                   *)
Delay(h) ==
    /\ FiqUnmasked
    /\ hid[h] = "busy"
    /\ hid' = [hid EXCEPT ![h] = "delay"]
    /\ initialized' = TRUE
    /\ \E d \in HidDelays : slots' = StartedFor(h, d)
    /\ UNCHANGED <<ticks, pc, k, n, handler, arg, main, left>>

-----------------------------------------------------------------------------
(* The base context.                                                       *)

Goto(from, to) == pc = from /\ pc' = to

(* kernel_main starts the network poll, with IRQs and FIQs masked.         *)
MainStarts ==
    /\ Goto("boot", "scan")
    /\ main' = TRUE /\ initialized' = TRUE
    /\ UNCHANGED <<slots, ticks, hid, k, n, handler, arg, left>>

(* TimerInterruptHandler up to the loop of TimerPollKernelTimers.          *)
Tick ==
    /\ Goto("idle", "poll")
    /\ initialized
    /\ ticks' = (ticks + 1) % TickMod
    /\ left' = IF left = -1 THEN -1 ELSE left - 1
    /\ UNCHANGED <<slots, initialized, hid, k, n, handler, arg, main>>

(* The loop goes on to the next slot: there is no timer, or it is not due. *)
PollSkips ==
    /\ Goto("poll", "poll")
    /\ k \in Slots
    /\ Free(k) \/ ~Elapsed(k)
    /\ k' = k + 1
    /\ UNCHANGED <<slots, ticks, initialized, hid, n, handler, arg, main, left>>

(* Faulty variant: the slot is not freed.                                  *)
PollTakesKept ==
    /\ Goto("poll", "param")
    /\ k \in Slots
    /\ ~Free(k) /\ Elapsed(k)
    /\ handler' = slots[k].handler
    /\ UNCHANGED <<slots, ticks, initialized, hid, k, n, arg, main, left>>

(* A timer is due: its slot is freed by clearing m_pHandler ...            *)
PollTakes ==
    /\ Goto("poll", "param")
    /\ k \in Slots
    /\ ~Free(k) /\ Elapsed(k)
    /\ handler' = slots[k].handler
    /\ slots' = [slots EXCEPT ![k].handler = None]
    /\ UNCHANGED <<ticks, initialized, hid, k, n, arg, main, left>>

(* ... and only then m_pParam is loaded for the call.                      *)
LoadParam ==
    /\ Goto("param", IF handler = "eth" THEN "eth" ELSE "restart")
    /\ arg' = IF handler = "eth" THEN None ELSE slots[k].param
    /\ handler' = None
    /\ UNCHANGED <<slots, ticks, initialized, hid, k, n, main, left>>

(* DWHCIDeviceTimerHandler: the transaction of the request is started.     *)
Restart ==
    /\ Goto("restart", "poll")
    /\ hid' = [hid EXCEPT ![arg] = "busy"]
    /\ arg' = None /\ k' = k + 1
    /\ UNCHANGED <<slots, ticks, initialized, n, handler, main, left>>

(* Faulty variant: poll_ethernet does not start itself again.              *)
PollEthernetOnce ==
    /\ Goto("eth", "poll")
    /\ k' = k + 1
    /\ UNCHANGED <<slots, ticks, initialized, hid, n, handler, arg, main, left>>

(* poll_ethernet has polled the interface and asks for the next time.      *)
PollEthernet ==
    /\ Goto("eth", "scan")
    /\ UNCHANGED <<slots, ticks, initialized, hid, k, n, handler, arg, main, left>>

(* TimerStartKernelTimer: one test of the loop, which ends at a free slot  *)
(* or past the table.                                                      *)
ScanSlot ==
    /\ Goto("scan", IF Free(n) \/ n = NumSlots THEN "store" ELSE "scan")
    /\ n' = IF Free(n) THEN n ELSE n + 1
    /\ UNCHANGED <<slots, ticks, initialized, hid, k, handler, arg, main, left>>

(* The slot that was found free is filled in; if there was none the call   *)
(* fails, and nobody tests the result.  The final loop of core 0 follows,  *)
(* or the next slot of the poll.                                           *)
StoreTimer ==
    /\ Goto("store", IF main THEN "idle" ELSE "poll")
    /\ \E d \in EthDelays :
          /\ slots' = IF n \in Slots
                      THEN [slots EXCEPT ![n] =
                              [handler |-> "eth", elapses |-> (ticks + d) % TickMod, param |-> None]]
                      ELSE slots
          /\ left' = d
    /\ k' = IF main THEN k ELSE k + 1
    /\ n' = 1 /\ main' = FALSE
    /\ UNCHANGED <<ticks, initialized, hid, handler, arg>>

(* The end of the loop, and of the interrupt.                              *)
PollDone ==
    /\ Goto("poll", "idle")
    /\ k \notin Slots
    /\ k' = 1
    /\ UNCHANGED <<slots, ticks, initialized, hid, n, handler, arg, main, left>>

BaseStep ==
    \/ MainStarts \/ PollSkips \/ PollTakes \/ LoadParam \/ Restart \/ PollEthernet
    \/ ScanSlot \/ StoreTimer \/ PollDone

Next ==
    \/ BaseStep
    \/ Tick
    \/ \E h \in Hids : Delay(h)

Spec == Init /\ [][Next]_vars

(* Core 0 executes its code, poll_ethernet returns, and Timer3 matches     *)
(* again and again.  The devices promise nothing.                          *)
FairSpec == Spec /\ WF_vars(BaseStep) /\ WF_vars(Tick)

-----------------------------------------------------------------------------
(* Properties.                                                             *)

(* Type correctness: no handle leaves the table.                           *)
TypeOK ==
    /\ slots \in [Slots -> [handler : {None, "eth", "hid"}, elapses : 0 .. TickMod - 1,
                            param : Hids \cup {None}]]
    /\ ticks \in 0 .. TickMod - 1
    /\ initialized \in BOOLEAN /\ main \in BOOLEAN
    /\ hid \in [Hids -> {"busy", "delay"}]
    /\ pc \in {"boot", "idle", "poll", "param", "restart", "eth", "scan", "store"}
    /\ k \in 1 .. NumSlots + 1 /\ n \in 1 .. NumSlots + 1
    /\ handler \in {None, "eth", "hid"}
    /\ arg \in Hids \cup {None}
    /\ left \in Int /\ left >= -1
    /\ pc = "scan" => n \in Slots
    /\ pc = "restart" => arg \in Hids

Pending == {s \in Slots : slots[s].handler = "eth"}

(* The base context is between taking the network poll's timer and         *)
(* starting it again.                                                      *)
InHand == handler = "eth" \/ pc \in {"eth", "scan", "store"}

(* The network poll always has exactly one timer, or is being called,      *)
(* whatever the FIQ does to the table: it is never lost and never doubled. *)
EthPollKept ==
    IF pc = "boot" \/ InHand THEN Pending = {} ELSE \E s \in Slots : Pending = {s}

(* The network poll comes when it was asked for and not before, also when  *)
(* m_nTicks wraps; a delay of 0 may wait for the next tick.                *)
EthOnTime ==
    /\ \A s \in Pending : /\ slots[s].elapses = (ticks + left) % TickMod
                          /\ left >= IF pc = "idle" THEN 0 ELSE -1
    /\ handler = "eth" \/ pc = "eth" => left <= 0

(* The table is never full when a timer is started, if it has one slot     *)
(* more than there are devices: every timer but one belongs to a device    *)
(* that waits for it, or stands for one that was overwritten.              *)
TimersFit ==
    /\ pc = "store" => n \in Slots
    /\ \A h \in Hids : hid[h] = "busy" /\ FiqUnmasked => \E s \in Slots : Free(s)

(* The network is polled again and again.                                  *)
EthPolled == []<>(pc = "eth")

(* The assertion in DWHCIDeviceTimerHandler: the request of a timer that   *)
(* fires is in its periodic delay.                                         *)
DelayedWhenFired == pc = "restart" => hid[arg] = "delay"
=============================================================================
