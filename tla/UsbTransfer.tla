----------------------------- MODULE UsbTransfer -----------------------------
(***************************************************************************)
(* The transfers of the USB host controller driver, dwhcidevice.c of USPi, *)
(* with the stage data of dwhcixferstagedata.c and the frame schedulers,   *)
(* as the kernel runs them on core 0.                                      *)
(*                                                                         *)
(* Two contexts share the driver.  The base context is kernel_init or the  *)
(* handler of the Timer3 interrupt: it submits blocking requests, starts   *)
(* the report requests of keyboards, mice and the like while devices are   *)
(* configured, and runs the driver's kernel timers.  The interrupt handler *)
(* is an FIQ (ConnectInterrupt in uspi.rs): it runs to completion, and it  *)
(* may start between any two accesses of the base context, those between   *)
(* uspi_EnterCritical and uspi_LeaveCritical included, because these mask  *)
(* IRQs only.                                                              *)
(***************************************************************************)
EXTENDS Integers, Sequences, FiniteSets

CONSTANTS
    NumChannels,  \* m_nChannels
    Hids,         \* function drivers that keep a report request in flight
    SplitUrbs,    \* requests to devices that a hub reaches by split transactions
    Requests,     \* blocking requests made: "data", "none" (control), "bulk"
    MaxPackets    \* packets of a data stage

Main == "main"    \* the request on the stack of the base context
None == "none"
Urbs == Hids \cup {Main}
Channels == 0 .. NumChannels - 1

ASSUME UsbConstants ==
    /\ NumChannels \in Nat \ {0}
    /\ IsFiniteSet(Hids) /\ {Main, None} \cap Hids = {}
    /\ SplitUrbs \subseteq Urbs
    /\ Requests \subseteq {"data", "none", "bulk"}
    /\ MaxPackets \in Nat \ {0}

VARIABLES
    allocated,  \* m_nChannelAllocated
    allmask,    \* DWHCI_HOST_ALLCHAN_INT_MASK
    stage,      \* m_StageData
    chan,       \* per channel: its registers and what the controller does
    waiting,    \* m_bWaiting
    status,     \* m_bStatus of the blocking request
    nextPid,    \* m_NextPID of the control endpoint that Main uses
    pc,         \* the next step of the base context
    urb,        \* the request the base context submits
    req,        \* the kind of the blocking request
    todo,       \* its stages still to come: is it a status stage?
    n,          \* nChannel of the base context
    reg,        \* the value it has loaded
    fiq,        \* channels the interrupt handler has still to serve
    timers,     \* channels with a running kernel timer
    configured, \* HIDs whose report request has been started
    booted      \* core 0 has unmasked IRQs: kernel timers run

base == <<waiting, status, pc, urb, req, todo, n, reg, configured, booted>>
hcd == <<allocated, allmask, stage, nextPid, timers>>
vars == <<base, hcd, chan, fiq>>

IsSplit(u) == u \in SplitUrbs
IsPeriodic(u) == u \in Hids

States == {"nosplit", "start", "complete", "delay"}
SchedStates == {"unknown", "start", "started", "completing", "retry", "done", "failed"}
Bits == {"xfer", "ack", "nak", "nyet", "err", "halted"}

(* A channel whose stage data _DWHCITransferStageData has cleared.         *)
FreeStage == [urb |-> None, statusStage |-> FALSE, state |-> "nosplit", sub |-> "disable",
              packets |-> 0, sched |-> "unknown", tries |-> 0]

(* A channel of the controller after reset: not enabled, no bit pending.   *)
IdleChannel == [enable |-> FALSE, disable |-> FALSE, int |-> {}, mask |-> {}, split |-> "no"]

Init ==
    /\ allocated = {} /\ allmask = {}
    /\ stage = [c \in Channels |-> FreeStage]
    /\ chan = [c \in Channels |-> IdleChannel]
    /\ waiting = FALSE /\ status = 0
    /\ nextPid = "setup"
    /\ pc = "idle" /\ urb = Main /\ req = "none" /\ todo = <<>>
    /\ n = 0 /\ reg = {}
    /\ fiq = {} /\ timers = {} /\ configured = {} /\ booted = FALSE

-----------------------------------------------------------------------------
(* Operations on one channel, used by both contexts.                       *)

(* DWHCITransferStageDataGetStatusMask.                                    *)
StatusMask(u) ==
    {"xfer", "halted", "err"}
        \cup IF IsSplit(u) \/ IsPeriodic(u) THEN {"ack", "nak", "nyet"} ELSE {}

(* DWHCIDeviceStartChannel: the pending bits are cleared, the registers    *)
(* programmed, the mask opened and the channel enabled.                    *)
StartChannel(st, ch) ==
    [st |-> [st EXCEPT !.sub = "transaction"],
     ch |-> [ch EXCEPT !.enable = TRUE, !.disable = FALSE, !.int = {},
                       !.mask = StatusMask(st.urb),
                       !.split = IF ~IsSplit(st.urb) THEN "no"
                                 ELSE IF st.state = "complete" THEN "complete" ELSE "start"]]

(* Faulty variant: the channel is programmed while it may be enabled.      *)
StartTransactionAtOnce(st, ch) == StartChannel(st, ch)

(* DWHCIDeviceStartTransaction: a channel that is still enabled is disabled *)
(* first; its halt starts the transaction.                                 *)
StartTransaction(st, ch) ==
    IF ch.enable
    THEN [st |-> [st EXCEPT !.sub = "disable"],
          ch |-> [ch EXCEPT !.disable = TRUE, !.mask = {"halted"}]]
    ELSE StartChannel(st, ch)

(* The stage begins, or begins again after a delay: a split one asks the   *)
(* frame scheduler for a start split.                                      *)
Begun(st) == IF IsSplit(st.urb) THEN [st EXCEPT !.state = "start", !.sched = "start"]
             ELSE [st EXCEPT !.state = "nosplit"]

(* DWHCITransferStageData, the constructor.                                *)
NewStage(u, isStatus, packets) ==
    [FreeStage EXCEPT !.urb = u, !.statusStage = isStatus, !.packets = packets]

(* DWHCIDeviceAllocateChannel as the handler runs it, where nothing        *)
(* interrupts it: the lowest channel that is not in use.                   *)
FirstFree(used) ==
    LET free == Channels \ used IN CHOOSE c \in free : \A d \in free : c <= d

-----------------------------------------------------------------------------
(* The base context.  Each action is one access to shared state.  Its      *)
(* local variables go back to their first values when they are dead, and   *)
(* so does the status that a stage has returned.                           *)

Goto(from, to) == fiq = {} /\ pc = from /\ pc' = to

(* DWHCIDeviceSubmitBlockingRequest for a control or a bulk transfer.      *)
SubmitBlocking(r) ==
    /\ Goto("idle", "submit")
    /\ urb' = Main /\ req' = r /\ status' = 0
    /\ todo' = CASE r = "data" -> <<FALSE, FALSE, TRUE>>
                 [] r = "none" -> <<FALSE, TRUE>>
                 [] r = "bulk" -> <<FALSE>>
    /\ UNCHANGED <<hcd, chan, fiq, waiting, n, reg, configured, booted>>

(* The StartRequest of a driver's Configure, during enumeration.           *)
SubmitAsync(h) ==
    /\ Goto("idle", "scan")
    /\ ~booted /\ h \notin configured
    /\ configured' = configured \cup {h}
    /\ urb' = h /\ todo' = <<FALSE>> /\ n' = 0
    /\ UNCHANGED <<hcd, chan, fiq, waiting, status, req, reg, booted>>

(* DWHCIDeviceTransferStage up to the call of TransferStageAsync.          *)
TransferStage ==
    /\ Goto("submit", "scan")
    /\ waiting' = TRUE /\ n' = 0
    /\ UNCHANGED <<hcd, chan, fiq, status, urb, req, todo, reg, configured, booted>>

(* DWHCIDeviceAllocateChannel: one test of the loop.                       *)
ScanChannel ==
    /\ n \in Channels
    /\ Goto("scan", IF n \in allocated THEN "scan" ELSE "load")
    /\ n' = IF n \in allocated THEN n + 1 ELSE n
    /\ UNCHANGED <<hcd, chan, fiq, waiting, status, urb, req, todo, reg, configured, booted>>

(* No channel is free: TransferStageAsync fails and so does the request.   *)
NoChannel ==
    /\ n \notin Channels
    /\ Goto("scan", "idle")
    /\ waiting' = FALSE /\ todo' = <<>>
    /\ n' = 0 /\ urb' = Main /\ req' = "none"
    /\ UNCHANGED <<hcd, chan, fiq, status, reg, configured, booted>>

(* m_nChannelAllocated |= nChannelMask, a load ...                         *)
LoadAllocated ==
    /\ Goto("load", "store")
    /\ reg' = allocated
    /\ UNCHANGED <<hcd, chan, fiq, waiting, status, urb, req, todo, n, configured, booted>>

(* ... and a store.                                                        *)
StoreAllocated ==
    /\ Goto("store", "stage")
    /\ allocated' = reg \cup {n} /\ reg' = {}
    /\ UNCHANGED <<allmask, stage, nextPid, timers, chan, fiq,
                   waiting, status, urb, req, todo, n, configured, booted>>

(* The stage data is filled in.  Setup and status stages have one packet,  *)
(* and so has a report.                                                    *)
SetupStage ==
    /\ Goto("stage", "load_mask")
    /\ \E p \in 1 .. MaxPackets :
        /\ (urb # Main \/ Head(todo) \/ (req # "bulk" /\ nextPid = "setup")) => p = 1
        /\ stage' = [stage EXCEPT ![n] = NewStage(urb, Head(todo), p)]
    /\ UNCHANGED <<allocated, allmask, nextPid, timers, chan, fiq,
                   waiting, status, urb, req, todo, n, reg, configured, booted>>

(* DWHCIDeviceEnableChannelInterrupt, a load ...                           *)
LoadMask ==
    /\ Goto("load_mask", "store_mask")
    /\ reg' = allmask
    /\ UNCHANGED <<hcd, chan, fiq, waiting, status, urb, req, todo, n, configured, booted>>

(* Faulty variant: the loaded value is stored without the channel's bit.   *)
StoreMaskLost ==
    /\ Goto("store_mask", "start")
    /\ allmask' = reg /\ reg' = {}
    /\ UNCHANGED <<allocated, stage, nextPid, timers, chan, fiq,
                   waiting, status, urb, req, todo, n, configured, booted>>

(* ... and a store.                                                        *)
StoreMask ==
    /\ Goto("store_mask", "start")
    /\ allmask' = reg \cup {n} /\ reg' = {}
    /\ UNCHANGED <<allocated, stage, nextPid, timers, chan, fiq,
                   waiting, status, urb, req, todo, n, configured, booted>>

(* The end of TransferStageAsync: the first transaction is started.        *)
StartStage ==
    /\ Goto("start", IF urb = Main THEN "wait" ELSE "idle")
    /\ LET s == StartTransaction(Begun(stage[n]), chan[n]) IN
        /\ stage' = [stage EXCEPT ![n] = s.st]
        /\ chan' = [chan EXCEPT ![n] = s.ch]
    /\ todo' = Tail(todo) /\ n' = 0
    /\ urb' = Main
    /\ UNCHANGED <<allocated, allmask, nextPid, timers, fiq,
                   waiting, status, req, reg, configured, booted>>

(* The loop on m_bWaiting ends; the next stage follows a successful one.   *)
StageDone ==
    /\ ~waiting
    /\ Goto("wait", IF status = 1 /\ todo # <<>> THEN "submit" ELSE "idle")
    /\ todo' = IF status = 1 THEN todo ELSE <<>>
    /\ req' = IF status = 1 /\ todo # <<>> THEN req ELSE "none"
    /\ status' = 0
    /\ UNCHANGED <<hcd, chan, fiq, waiting, urb, n, reg, configured, booted>>

(* kernel_main unmasks IRQs on core 0: from here on timers run.            *)
BootDone ==
    /\ Goto("idle", "idle")
    /\ ~booted /\ booted' = TRUE
    /\ UNCHANGED <<hcd, chan, fiq, waiting, status, urb, req, todo, n, reg, configured>>

(* DWHCIDeviceTimerHandler: the interval of a periodic request is over.    *)
TimerHandler(c) ==
    /\ Goto("idle", "idle")
    /\ booted /\ c \in timers
    /\ timers' = timers \ {c}
    /\ LET s == StartTransaction(Begun(stage[c]), chan[c]) IN
        /\ stage' = [stage EXCEPT ![c] = s.st]
        /\ chan' = [chan EXCEPT ![c] = s.ch]
    /\ UNCHANGED <<allocated, allmask, nextPid, base, fiq>>

-----------------------------------------------------------------------------
(* The interrupt handler.                                                  *)

Raised(c) == chan[c].int \cap chan[c].mask # {}

(* The FIQ is taken and DWHCIDeviceInterruptHandler reads ALLCHAN_INT,     *)
(* which shows raised channels whether or not ALLCHAN_INT_MASK lets them   *)
(* interrupt.                                                              *)
Interrupt ==
    /\ fiq = {}
    /\ \E c \in allmask : Raised(c)
    /\ fiq' = {c \in Channels : Raised(c)}
    /\ UNCHANGED <<base, hcd, chan>>

(* The loop of the handler serves the channels in ascending order.         *)
Serving(c) == c \in fiq /\ (\A d \in fiq : c <= d) /\ fiq' = fiq \ {c}

(* Faulty variant: the channel's own mask stays open while it is served.   *)
ClosedNot(c) == chan[c]

(* The handler first closes the channel's own mask.                        *)
Closed(c) == [chan[c] EXCEPT !.mask = {}]

(* Faulty variant: a driver gives up after a failed report.                *)
ResubmitsOnSuccess(u, ok) == u # Main /\ ok = 1

(* The completion routines of the keyboard, mouse, gamepad and MIDI        *)
(* drivers end with StartRequest whatever the status was.                  *)
Resubmits(u, ok) == u # Main

(* Faulty variant: the channel's interrupt is disabled after the           *)
(* completion routine.                                                     *)
MaskAfterCompletionLate(c, d, again) == (IF again THEN allmask \cup {d} ELSE allmask) \ {c}

(* DWHCIDeviceDisableChannelInterrupt(c), and EnableChannelInterrupt(d) if *)
(* the completion routine submits again.                                   *)
MaskAfterCompletion(c, d, again) == (allmask \ {c}) \cup IF again THEN {d} ELSE {}

(* DWHCITransferStageDataTransactionComplete and USBEndpointSkipPID for    *)
(* the control endpoint.                                                   *)
SkipPid(st) == IF st.urb # Main \/ req = "bulk" THEN nextPid
               ELSE IF st.statusStage THEN "setup" ELSE "data"

(* The end of a stage: the channel's interrupt is disabled, the stage data *)
(* cleared, the channel freed and the completion routine called.  That of  *)
(* Main, DWHCIDeviceCompletionRoutine, ends the wait; the others submit    *)
(* their request again.                                                    *)
Complete(c, ok) ==
    LET u == stage[c].urb
        again == Resubmits(u, ok)
        d == FirstFree(allocated \ {c})
        s == StartTransaction(Begun(NewStage(u, FALSE, 1)), IF d = c THEN Closed(c) ELSE chan[d])
    IN  /\ allmask' = MaskAfterCompletion(c, d, again)
        /\ allocated' = (allocated \ {c}) \cup IF again THEN {d} ELSE {}
        /\ stage' = IF again THEN [stage EXCEPT ![c] = FreeStage, ![d] = s.st]
                    ELSE [stage EXCEPT ![c] = FreeStage]
        /\ chan' = IF again THEN [chan EXCEPT ![c] = Closed(c), ![d] = s.ch]
                   ELSE [chan EXCEPT ![c] = Closed(c)]
        /\ waiting' = IF u = Main THEN FALSE ELSE waiting
        /\ status' = IF u = Main THEN ok ELSE status
        /\ UNCHANGED <<timers, pc, urb, req, todo, n, reg, configured, booted>>

(* The handler starts another transaction of the stage.                    *)
Continue(c, st) ==
    LET s == StartTransaction(st, Closed(c))
    IN  /\ stage' = [stage EXCEPT ![c] = s.st]
        /\ chan' = [chan EXCEPT ![c] = s.ch]
        /\ UNCHANGED <<allocated, allmask, timers, base>>

(* The handler starts a kernel timer for the endpoint's interval.          *)
Delay(c, st) ==
    /\ stage' = [stage EXCEPT ![c] = [st EXCEPT !.state = "delay"]]
    /\ chan' = [chan EXCEPT ![c] = Closed(c)]
    /\ timers' = timers \cup {c}
    /\ UNCHANGED <<allocated, allmask, base>>

(* The channel that StartTransaction had disabled has halted.              *)
ServeDisabled(c) ==
    /\ Serving(c)
    /\ stage[c].sub = "disable"
    /\ LET s == StartChannel(stage[c], Closed(c)) IN
        /\ stage' = [stage EXCEPT ![c] = s.st]
        /\ chan' = [chan EXCEPT ![c] = s.ch]
    /\ UNCHANGED <<allocated, allmask, timers, nextPid, base>>

Answered(c, state) ==
    /\ Serving(c)
    /\ stage[c].sub = "transaction" /\ stage[c].state = state
    /\ chan[c].int # {"halted"}

Has(c, bits) == chan[c].int \cap bits # {}

(* The channel halted without an answer: the transaction is restarted.     *)
ServeHalted(c) ==
    /\ Serving(c)
    /\ stage[c].sub = "transaction" /\ chan[c].int = {"halted"}
    /\ Continue(c, stage[c])
    /\ UNCHANGED nextPid

(* An error ends the stage in every state, NAK and NYET in a start split.  *)
ServeFailed(c) ==
    /\ \E state \in {"nosplit", "start", "complete"} :
        /\ Answered(c, state)
        /\ Has(c, IF state = "start" THEN {"err", "nak", "nyet"} ELSE {"err"})
    /\ Complete(c, 0)
    /\ UNCHANGED nextPid

(* A periodic device has nothing to report yet.                            *)
ServeNoReport(c) ==
    /\ Answered(c, "nosplit")
    /\ ~Has(c, {"err"}) /\ Has(c, {"nak", "nyet"}) /\ IsPeriodic(stage[c].urb)
    /\ Delay(c, stage[c])
    /\ UNCHANGED nextPid

(* A transfer without split transactions is complete.                      *)
ServeComplete(c) ==
    /\ Answered(c, "nosplit")
    /\ ~Has(c, {"err"}) /\ ~(Has(c, {"nak", "nyet"}) /\ IsPeriodic(stage[c].urb))
    /\ Complete(c, 1)
    /\ nextPid' = SkipPid(stage[c])

(* The hub has accepted the start split; CompleteSplit of the frame        *)
(* scheduler sets the number of retries, a periodic one by the frame.      *)
ServeStartSplit(c) ==
    /\ Answered(c, "start")
    /\ ~Has(c, {"err", "nak", "nyet"})
    /\ \E t \in IF IsPeriodic(stage[c].urb) THEN {2, 3} ELSE {3} :
        Continue(c, [stage[c] EXCEPT !.state = "complete", !.sched = "completing", !.tries = t])
    /\ UNCHANGED nextPid

(* TransactionComplete of the frame scheduler in a complete split.  NAK    *)
(* fails a periodic one at once and is retried otherwise.                  *)
SplitAnswer(c) ==
    LET st == stage[c] IN
    IF Has(c, {"xfer"}) THEN [st EXCEPT !.sched = "done", !.packets = @ - 1]
    ELSE IF st.tries = 0 \/ (Has(c, {"nak"}) /\ ~Has(c, {"nyet", "ack"}) /\ IsPeriodic(st.urb))
    THEN [st EXCEPT !.sched = "failed", !.tries = 0]
    ELSE [st EXCEPT !.sched = "retry", !.tries = @ - 1]

SplitAnswered(c) == Answered(c, "complete") /\ ~Has(c, {"err"})

(* An answer with ACK alone moves the PID on as well.                      *)
SplitPid(c) == IF Has(c, {"nak", "nyet"}) THEN nextPid ELSE SkipPid(stage[c])

(* The complete split is sent again.                                       *)
ServeRetry(c) ==
    /\ SplitAnswered(c)
    /\ SplitAnswer(c).sched = "retry"
    /\ Continue(c, SplitAnswer(c))
    /\ nextPid' = SplitPid(c)

(* LeaveCompleteSplit: after a cycle that did not end the stage a periodic *)
(* request waits for its interval, another one begins the next cycle.      *)
ServeNextCycle(c) ==
    /\ SplitAnswered(c)
    /\ SplitAnswer(c).sched \in {"done", "failed"} /\ SplitAnswer(c).packets > 0
    /\ IF IsPeriodic(stage[c].urb) THEN Delay(c, SplitAnswer(c))
       ELSE Continue(c, Begun(SplitAnswer(c)))
    /\ nextPid' = SplitPid(c)

(* LeaveCompleteSplit: the last packet has been transferred.               *)
ServeSplitComplete(c) ==
    /\ SplitAnswered(c)
    /\ SplitAnswer(c).sched = "done" /\ SplitAnswer(c).packets = 0
    /\ Complete(c, 1)
    /\ nextPid' = SplitPid(c)

Serve ==
    \E c \in Channels :
        \/ ServeDisabled(c) \/ ServeHalted(c) \/ ServeFailed(c) \/ ServeNoReport(c)
        \/ ServeComplete(c) \/ ServeStartSplit(c) \/ ServeRetry(c) \/ ServeNextCycle(c)
        \/ ServeSplitComplete(c)

-----------------------------------------------------------------------------
(* The host controller and the devices.                                    *)

(* An answer to the running transaction; the channel may halt with it.     *)
Answer(c, bits) ==
    /\ chan[c].enable /\ ~chan[c].disable /\ chan[c].int = {}
    /\ \E halts \in BOOLEAN :
        chan' = [chan EXCEPT ![c].int = bits \cup (IF halts THEN {"halted"} ELSE {}),
                             ![c].enable = ~halts]
    /\ UNCHANGED <<base, hcd, fiq>>

(* The hub takes a start split.                                            *)
HwAccepts(c) == chan[c].split = "start" /\ Answer(c, {"ack"})

(* The data is transferred.                                                *)
HwTransfers(c) == chan[c].split # "start" /\ Answer(c, {"xfer", "ack"})

(* The device or the hub is not ready.  The controller itself repeats a    *)
(* transaction that is neither split nor periodic.                         *)
HwNotReady(c) ==
    \/ (chan[c].split # "no" \/ IsPeriodic(stage[c].urb)) /\ Answer(c, {"nak"})
    \/ chan[c].split # "no" /\ Answer(c, {"nyet"})
    \/ chan[c].split = "complete" /\ Answer(c, {"ack"})

HwFails(c) == Answer(c, {"err"})

(* The channel halts: it was told to, its transaction is over, or for a    *)
(* reason of its own, in which case the transaction has to be restarted.   *)
HwHalts(c) ==
    /\ chan[c].enable
    /\ chan' = [chan EXCEPT ![c].int = @ \cup {"halted"}, ![c].enable = FALSE, ![c].disable = FALSE]
    /\ UNCHANGED <<base, hcd, fiq>>

-----------------------------------------------------------------------------
BaseStep ==
    \/ TransferStage \/ ScanChannel \/ NoChannel \/ LoadAllocated \/ StoreAllocated
    \/ SetupStage \/ LoadMask \/ StoreMask \/ StartStage \/ StageDone

Controller ==
    \E c \in Channels : HwAccepts(c) \/ HwTransfers(c) \/ HwNotReady(c) \/ HwFails(c) \/ HwHalts(c)

Next ==
    \/ \E r \in Requests : SubmitBlocking(r)
    \/ \E h \in Hids : SubmitAsync(h)
    \/ BaseStep
    \/ BootDone
    \/ \E c \in Channels : TimerHandler(c)
    \/ Interrupt
    \/ Serve
    \/ Controller

Spec == Init /\ [][Next]_vars

(* The handler runs once it is entered and is entered once it is pending.  *)
(* The base context makes a step again and again between interrupts: a USB *)
(* transaction takes longer than the instructions of a step.  A device     *)
(* that is asked often enough answers, so a channel is not refused, failed *)
(* or halted for ever.                                                     *)
FairSpec ==
    /\ Spec
    /\ WF_vars(Interrupt) /\ WF_vars(Serve) /\ SF_vars(BaseStep)
    /\ \A c \in Channels : /\ SF_vars(HwAccepts(c)) /\ SF_vars(HwTransfers(c))
                           /\ WF_vars(HwHalts(c))

-----------------------------------------------------------------------------
(* Properties.                                                             *)

Stages == [urb : Urbs \cup {None}, statusStage : BOOLEAN, state : States,
           sub : {"disable", "transaction"}, packets : 0 .. MaxPackets,
           sched : SchedStates, tries : 0 .. 3]

(* Every variable stays in its range: channel numbers below m_nChannels,   *)
(* the packet and retry counters of the stage data never below zero.       *)
TypeOK ==
    /\ allocated \subseteq Channels /\ allmask \subseteq Channels
    /\ stage \in [Channels -> Stages]
    /\ chan \in [Channels -> [enable : BOOLEAN, disable : BOOLEAN, int : SUBSET Bits,
                              mask : SUBSET Bits, split : {"no", "start", "complete"}]]
    /\ waiting \in BOOLEAN /\ status \in {0, 1} /\ nextPid \in {"setup", "data"}
    /\ pc \in {"idle", "submit", "scan", "load", "store", "stage", "load_mask", "store_mask",
               "start", "wait"}
    /\ urb \in Urbs /\ req \in {"data", "none", "bulk"} /\ todo \in Seq(BOOLEAN)
    /\ n \in 0 .. NumChannels /\ reg \subseteq Channels
    /\ fiq \subseteq Channels /\ timers \subseteq Channels /\ configured \subseteq Hids
    /\ booted \in BOOLEAN

(* The base context has taken channel n and not yet started it.            *)
Taken == IF pc \in {"stage", "load_mask", "store_mask", "start"} THEN {n} ELSE {}

InUse == {c \in Channels : stage[c].urb # None}

(* No two requests share a channel, no channel is handed to a second       *)
(* request while one uses it and none is lost, although the interrupt      *)
(* handler frees and allocates channels in the middle of the critical      *)
(* section of AllocateChannel.                                             *)
ChannelsExclusive ==
    /\ \A c, d \in InUse : stage[c].urb = stage[d].urb => c = d
    /\ \A c \in Taken : stage[c].urb \in {None, urb}
    /\ allocated = InUse \cup Taken

(* A channel that can raise an interrupt has its bit in ALLCHAN_INT_MASK:  *)
(* no read-modify-write of the mask loses the bit of another channel, and  *)
(* no bit outlives its request.                                            *)
InterruptsKept ==
    /\ \A c \in Channels : chan[c].mask # {} => c \in allmask
    /\ allmask \subseteq allocated

(* The assertions of the driver: a served channel has a request and is in  *)
(* a state that expects an answer, a freed one was allocated, a timer      *)
(* finds its request delayed, and m_bWaiting is clear when a stage begins. *)
AssertsHold ==
    /\ \A c \in fiq : stage[c].urb # None /\ stage[c].state # "delay" /\ c \in allocated
    /\ \A c \in timers : stage[c].urb # None /\ stage[c].state = "delay"
    /\ pc \in {"idle", "submit"} => ~waiting

(* "channel must be disabled" before StartChannel programs it: a step that *)
(* enables a channel finds it disabled by the controller.                  *)
ReprogramsHalted ==
    [][\A c \in Channels : chan[c].int # {} /\ chan'[c].int = {} => ~chan[c].enable]_vars

(* A blocking request returns: the loop on m_bWaiting in TransferStage     *)
(* does not run for ever.                                                  *)
BlockingReturns == waiting ~> ~waiting

(* The assertion m_pBufferPointer # 0 of the stage data's constructor: the *)
(* first stage of a control request without data takes its buffer from the *)
(* setup packet, so the endpoint must be at its setup PID.                 *)
StageHasBuffer ==
    pc = "stage" /\ urb = Main /\ req = "none" /\ ~Head(todo) => nextPid = "setup"
=============================================================================
