-------------------------- MODULE UsbTransferProofs --------------------------
(***************************************************************************)
(* Proofs about UsbTransfer, for every number of channels, every finite    *)
(* set of drivers with a report request and every length of a data stage.  *)
(***************************************************************************)
EXTENDS UsbTransfer, SequenceTheorems, TLAPS

ChannelRegs == [enable : BOOLEAN, disable : BOOLEAN, int : SUBSET Bits,
                mask : SUBSET Bits, split : {"no", "start", "complete"}]

-----------------------------------------------------------------------------
(* The inductive invariant.                                                *)

(* The local variables of the base context: the channels that its scan has *)
(* passed are in use, the one it has found is not, and what it has loaded  *)
(* is still what the FIQ would find.                                       *)
ControlInv ==
    /\ pc \in {"idle", "submit", "wait"} => urb = Main
    /\ pc \notin {"idle", "wait"} => todo # <<>>
    /\ waiting => urb = Main /\ pc \notin {"idle", "submit"}
    /\ urb = Main /\ pc \notin {"idle", "submit", "wait"} => waiting
    /\ pc \in {"load", "store", "stage", "load_mask", "store_mask", "start"} => n \in Channels
    /\ pc \in {"scan", "load", "store"} => \A d \in Channels : d < n => d \in allocated
    /\ pc \in {"load", "store"} => n \notin allocated
    /\ pc = "store" => reg = allocated
    /\ pc = "store_mask" => reg = allmask

(* The channels in use are the lowest ones, and the one of the blocking    *)
(* request, or the one just taken, is the last of them.  This is why a     *)
(* report request that is submitted again in the FIQ gets its own channel  *)
(* back, and the base context's load and store see the same bits.          *)
LowestInUse ==
    /\ \A c \in allocated, d \in Channels : d < c => d \in allocated
    /\ \A c \in Channels : stage[c].urb = Main \/ c \in Taken => \A d \in allocated : d <= c

(* A request that has a channel is being started or has been, and waits    *)
(* for its end.                                                            *)
OwnerInv ==
    /\ \A c \in Channels :
          /\ stage[c].urb = Main => waiting /\ (pc = "wait" \/ c \in Taken)
          /\ stage[c].urb \in Hids => stage[c].urb \in configured
          /\ stage[c].urb = urb /\ urb # Main => c \in Taken
    /\ urb # Main => urb \in configured
    /\ pc = "stage" => stage[n].urb = None
    /\ pc \in {"load_mask", "store_mask", "start"} =>
          stage[n].urb = urb /\ stage[n].state # "delay"

(* ALLCHAN_INT_MASK has the channels in use, but for the one that the base *)
(* context has still to add, and only these can raise an interrupt.        *)
MaskInv ==
    /\ allmask = allocated \ IF pc \in {"stage", "load_mask", "store_mask"} THEN {n} ELSE {}
    /\ \A c \in Channels : chan[c].mask # {} => c \in allmask /\ c \notin Taken

(* A stage and the registers of its channel fit each other: an enabled     *)
(* channel has not halted, a channel that is being disabled interrupts     *)
(* with its halt only, and a delayed one not at all.                       *)
Fits(st, ch) ==
    /\ st \in Stages /\ ch \in ChannelRegs
    /\ ch.enable => "halted" \notin ch.int
    /\ st.sub = "disable" => ch.mask \subseteq {"halted"}
    /\ st.state = "delay" => ch.mask = {}
    /\ st.urb # None => st.packets > 0

(* What the handler has read stays true until it comes to the channel, and *)
(* a timer runs for a delayed request only.                                *)
ServiceInv ==
    /\ \A c \in Channels : Fits(stage[c], chan[c])
    /\ \A c \in fiq : Raised(c)
    /\ \A c \in timers : stage[c].urb # None /\ stage[c].state = "delay"

UsbInv ==
    /\ TypeOK /\ ControlInv /\ LowestInUse /\ OwnerInv /\ ChannelsExclusive
    /\ MaskInv /\ ServiceInv

-----------------------------------------------------------------------------
(* Operations on one channel.                                              *)

LEMMA MaskIsNotEmpty ==
    ASSUME NEW u
    PROVE  StatusMask(u) \in SUBSET Bits /\ StatusMask(u) # {}
  BY DEF StatusMask, Bits

LEMMA StartChannelFits ==
    ASSUME NEW st, NEW ch, Fits(st, ch), st.state # "delay"
    PROVE  LET s == StartChannel(st, ch)
           IN  /\ Fits(s.st, s.ch)
               /\ s.st.urb = st.urb /\ s.st.state = st.state
<1> DEFINE s == StartChannel(st, ch)
<1>1. st \in Stages /\ ch \in ChannelRegs /\ (st.urb # None => st.packets > 0)
  BY DEF Fits
<1>2. /\ s.st \in Stages /\ s.st.urb = st.urb /\ s.st.state = st.state
      /\ s.st.sub = "transaction" /\ s.st.packets = st.packets
  BY <1>1 DEF StartChannel, Stages
<1>3. s.ch \in ChannelRegs /\ s.ch.int = {}
  BY <1>1, MaskIsNotEmpty DEF StartChannel, ChannelRegs
<1> HIDE DEF s
<1>4. Fits(s.st, s.ch)
  BY <1>1, <1>2, <1>3 DEF Fits
<1> QED BY <1>2, <1>4 DEF s

(* DWHCIDeviceStartTransaction keeps the request, opens the mask for the   *)
(* halt alone if the channel is enabled, and programs it only if it is not. *)
LEMMA StartTransactionFits ==
    ASSUME NEW st, NEW ch, Fits(st, ch), st.state # "delay"
    PROVE  LET s == StartTransaction(st, ch)
           IN  /\ Fits(s.st, s.ch)
               /\ s.st.urb = st.urb /\ s.st.state = st.state
               /\ ch.int # {} /\ s.ch.int = {} => ~ch.enable
<1> DEFINE s == StartTransaction(st, ch)
<1>1. st \in Stages /\ ch \in ChannelRegs /\ (st.urb # None => st.packets > 0)
  BY DEF Fits
<1>2. CASE ch.enable
  <2>1. s = [st |-> [st EXCEPT !.sub = "disable"],
             ch |-> [ch EXCEPT !.disable = TRUE, !.mask = {"halted"}]]
    BY <1>2 DEF StartTransaction
  <2>2. /\ s.st \in Stages /\ s.st.urb = st.urb /\ s.st.state = st.state
        /\ s.st.packets = st.packets
    BY <1>1, <2>1 DEF Stages
  <2>3. /\ s.ch \in ChannelRegs /\ s.ch.int = ch.int /\ s.ch.enable = ch.enable
        /\ s.ch.mask = {"halted"}
    <3>1. {"halted"} \in SUBSET Bits
      BY DEF Bits
    <3>2. s.ch = [ch EXCEPT !.disable = TRUE, !.mask = {"halted"}]
      BY <2>1
    <3> HIDE DEF s
    <3> QED BY <1>1, <3>1, <3>2 DEF ChannelRegs
  <2> HIDE DEF s
  <2>4. Fits(s.st, s.ch)
    BY <1>1, <2>2, <2>3 DEF Fits
  <2> QED BY <2>2, <2>3, <2>4 DEF s
<1>3. CASE ~ch.enable
  <2>1. s = StartChannel(st, ch)
    BY <1>3 DEF StartTransaction
  <2> QED BY <1>3, <2>1, StartChannelFits
<1> QED BY <1>2, <1>3

LEMMA BegunFits ==
    ASSUME NEW st, NEW ch, Fits(st, ch)
    PROVE  Begun(st).urb = st.urb /\ Begun(st).state # "delay" /\ Fits(Begun(st), ch)
<1>1. st \in Stages
  BY DEF Fits
<1>2. /\ Begun(st) \in Stages /\ Begun(st).urb = st.urb /\ Begun(st).state # "delay"
      /\ Begun(st).sub = st.sub /\ Begun(st).packets = st.packets
  BY <1>1 DEF Begun, Stages, States, SchedStates
<1> QED BY <1>2 DEF Fits

LEMMA ClosedFits ==
    ASSUME NEW c \in Channels, Fits(stage[c], chan[c]), NEW st \in Stages,
           st.urb # None => st.packets > 0
    PROVE  /\ Fits(st, Closed(c)) /\ Closed(c).mask = {}
           /\ Closed(c).enable = chan[c].enable /\ Closed(c).int = chan[c].int
<1>1. chan[c] \in ChannelRegs
  BY DEF Fits
<1>2. /\ Closed(c) \in ChannelRegs /\ Closed(c).mask = {}
      /\ Closed(c).enable = chan[c].enable /\ Closed(c).int = chan[c].int
  BY <1>1 DEF Closed, ChannelRegs
<1> QED BY <1>2 DEF Fits

LEMMA NewStageFits ==
    ASSUME NEW u \in Urbs, NEW b \in BOOLEAN, NEW p \in 1 .. MaxPackets
    PROVE  /\ NewStage(u, b, p) \in Stages
           /\ NewStage(u, b, p).urb = u /\ NewStage(u, b, p).packets = p
           /\ NewStage(u, b, p).state = "nosplit" /\ NewStage(u, b, p).sub = "disable"
<1>1. p \in 0 .. MaxPackets /\ 0 \in 0 .. 3
  BY UsbConstants
<1> QED BY <1>1 DEF NewStage, FreeStage, Stages, States, SchedStates

LEMMA ReportStageFits ==
    ASSUME NEW u \in Urbs, NEW ch \in ChannelRegs, ch.enable => "halted" \notin ch.int, ch.mask = {}
    PROVE  NewStage(u, FALSE, 1).urb = u /\ Fits(NewStage(u, FALSE, 1), ch)
<1> DEFINE st == NewStage(u, FALSE, 1)
<1>1. 1 \in 0 .. MaxPackets /\ 0 \in 0 .. 3
  BY UsbConstants
<1>2. st \in Stages /\ st.urb = u /\ st.packets = 1
  BY <1>1 DEF NewStage, FreeStage, Stages, States, SchedStates
<1> HIDE DEF st
<1>3. Fits(st, ch)
  BY <1>2 DEF Fits
<1> QED BY <1>2, <1>3 DEF st

LEMMA FreeStageFits ==
    FreeStage \in Stages /\ FreeStage.urb = None /\ FreeStage.state = "nosplit"
<1>1. 0 \in 0 .. MaxPackets /\ 0 \in 0 .. 3
  BY UsbConstants
<1> QED BY <1>1 DEF FreeStage, Stages, States, SchedStates

(* With the lowest channels in use, the first free channel after one of    *)
(* them was freed is that one.                                             *)
LEMMA FreedIsFirst ==
    ASSUME NEW A \in SUBSET Channels, NEW c \in A,
           \A d \in Channels : d < c => d \in A
    PROVE  FirstFree(A \ {c}) = c
<1> DEFINE free == Channels \ (A \ {c})
<1>1. c \in free /\ \A d \in free : c <= d
  BY UsbConstants DEF Channels
<1>2. \A x \in free : (\A d \in free : x <= d) => x = c
  BY <1>1, UsbConstants DEF Channels
<1> QED BY <1>1, <1>2 DEF FirstFree

-----------------------------------------------------------------------------
(* The first state, and steps of the base context that only move on.       *)

LEMMA InitUsbInv == Init => UsbInv
<1> SUFFICES ASSUME Init
             PROVE  UsbInv
  OBVIOUS
<1>1. \A c \in Channels : stage[c] = FreeStage /\ chan[c] = IdleChannel
  BY DEF Init
<1>2. IdleChannel \in ChannelRegs /\ IdleChannel.mask = {} /\ IdleChannel.enable = FALSE
  BY DEF IdleChannel, ChannelRegs
<1>3. TypeOK
  <2>1. stage \in [Channels -> Stages] /\ chan \in [Channels -> ChannelRegs]
    BY <1>2, FreeStageFits DEF Init
  <2>2. urb \in Urbs /\ n \in 0 .. NumChannels /\ todo \in Seq(BOOLEAN)
    BY UsbConstants DEF Init, Urbs
  <2>3. waiting \in BOOLEAN /\ booted \in BOOLEAN
    BY DEF Init
  <2> QED BY <2>1, <2>2, <2>3 DEF Init, TypeOK, ChannelRegs
<1>4. ControlInv
  BY DEF Init, ControlInv
<1>5. InUse = {} /\ Taken = {}
  BY <1>1, FreeStageFits DEF Init, InUse, Taken
<1>6. LowestInUse /\ OwnerInv /\ ChannelsExclusive
  BY <1>1, <1>5, FreeStageFits, UsbConstants
     DEF Init, LowestInUse, OwnerInv, ChannelsExclusive, Main, None
<1>7. MaskInv
  BY <1>1, <1>2 DEF Init, MaskInv
<1>8. ServiceInv
  BY <1>1, <1>2, FreeStageFits DEF Init, ServiceInv, Fits
<1> QED BY <1>3, <1>4, <1>6, <1>7, <1>8 DEF UsbInv

(* The stages and channels are as they were.                               *)
LEMMA ServiceKept ==
    ASSUME ServiceInv, UNCHANGED <<stage, chan, fiq, timers>>
    PROVE  ServiceInv'
  BY DEF ServiceInv, Raised

(* The base context goes on outside the stretch in which it holds a        *)
(* channel, and changes nothing that the FIQ uses.                         *)
LEMMA SharedKept ==
    ASSUME UsbInv, UNCHANGED <<hcd, chan, fiq>>, pc # "wait" \/ ~waiting,
           pc \notin {"stage", "load_mask", "store_mask", "start"},
           pc' \notin {"stage", "load_mask", "store_mask", "start"}
    PROVE  /\ LowestInUse' /\ ChannelsExclusive' /\ MaskInv' /\ ServiceInv'
           /\ UNCHANGED <<allocated, allmask, stage, timers, nextPid>>
           /\ Taken = {} /\ Taken' = {}
           /\ \A c \in Channels : stage[c].urb # Main
<1>1. UNCHANGED <<allocated, allmask, stage, timers, nextPid>>
  BY DEF hcd
<1>2. Taken = {} /\ Taken' = {} /\ InUse' = InUse
  BY <1>1 DEF Taken, InUse
<1>3. \A c \in Channels : stage[c].urb # Main
  BY <1>2 DEF UsbInv, OwnerInv
<1>4. LowestInUse' /\ ChannelsExclusive'
  BY <1>1, <1>2 DEF UsbInv, LowestInUse, ChannelsExclusive
<1>5. MaskInv'
  BY <1>1, <1>2 DEF UsbInv, MaskInv
<1>6. ServiceInv'
  BY <1>1, ServiceKept DEF UsbInv
<1> QED BY <1>1, <1>2, <1>3, <1>4, <1>5, <1>6

LEMMA SubmitBlockingInv ==
    ASSUME UsbInv, NEW r \in Requests, SubmitBlocking(r)
    PROVE  UsbInv'
<1>1. /\ pc = "idle" /\ pc' = "submit" /\ urb' = Main /\ req' = r /\ status' = 0
      /\ UNCHANGED <<hcd, chan, fiq, waiting, n, reg, configured, booted>>
  BY DEF SubmitBlocking, Goto
<1>2. /\ LowestInUse' /\ ChannelsExclusive' /\ MaskInv' /\ ServiceInv'
      /\ UNCHANGED <<allocated, allmask, stage, timers, nextPid>>
      /\ Taken = {} /\ Taken' = {} /\ \A c \in Channels : stage[c].urb # Main
  BY <1>1, SharedKept
<1>3. r \in {"data", "none", "bulk"}
  BY UsbConstants
<1>4. todo' \in Seq(BOOLEAN) /\ todo' # <<>>
  <2>1. CASE r = "data"
    <3>1. todo' = <<FALSE, FALSE, TRUE>>
      BY <2>1 DEF SubmitBlocking
    <3> QED BY <3>1
  <2>2. CASE r = "none"
    <3>1. todo' = <<FALSE, TRUE>>
      BY <2>2 DEF SubmitBlocking
    <3> QED BY <3>1
  <2>3. CASE r = "bulk"
    <3>1. todo' = <<FALSE>>
      BY <2>3 DEF SubmitBlocking
    <3> QED BY <3>1
  <2> QED BY <1>3, <2>1, <2>2, <2>3
<1>5. TypeOK'
  BY <1>1, <1>2, <1>3, <1>4 DEF UsbInv, TypeOK, Urbs
<1>6. ControlInv'
  BY <1>1, <1>2, <1>4 DEF UsbInv, ControlInv
<1>7. OwnerInv'
  BY <1>1, <1>2 DEF UsbInv, OwnerInv
<1> QED BY <1>2, <1>5, <1>6, <1>7 DEF UsbInv

(* The driver's request has no channel yet: it is submitted only once.     *)
LEMMA SubmitAsyncInv ==
    ASSUME UsbInv, NEW h \in Hids, SubmitAsync(h)
    PROVE  UsbInv'
<1>1. /\ pc = "idle" /\ pc' = "scan" /\ urb' = h /\ todo' = <<FALSE>> /\ n' = 0
      /\ h \notin configured /\ configured' = configured \cup {h}
      /\ UNCHANGED <<hcd, chan, fiq, waiting, status, req, reg, booted>>
  BY DEF SubmitAsync, Goto
<1>2. /\ LowestInUse' /\ ChannelsExclusive' /\ MaskInv' /\ ServiceInv'
      /\ UNCHANGED <<allocated, allmask, stage, timers, nextPid>>
      /\ Taken = {} /\ Taken' = {} /\ \A c \in Channels : stage[c].urb # Main
  BY <1>1, SharedKept
<1>3. todo' \in Seq(BOOLEAN) /\ todo' # <<>>
  BY <1>1
<1>4. n' \in 0 .. NumChannels /\ \A d \in Channels : ~(d < n')
  BY <1>1, UsbConstants DEF Channels
<1>5. ~waiting /\ h # Main
  BY <1>1, UsbConstants DEF UsbInv, ControlInv
<1>6. TypeOK'
  BY <1>1, <1>2, <1>3, <1>4 DEF UsbInv, TypeOK, Urbs
<1>7. ControlInv'
  BY <1>1, <1>2, <1>3, <1>4, <1>5 DEF UsbInv, ControlInv
<1>8. OwnerInv'
  BY <1>1, <1>2, <1>5 DEF UsbInv, OwnerInv
<1> QED BY <1>2, <1>6, <1>7, <1>8 DEF UsbInv

LEMMA TransferStageInv ==
    ASSUME UsbInv, TransferStage
    PROVE  UsbInv'
<1>1. /\ pc = "submit" /\ pc' = "scan" /\ waiting' = TRUE /\ n' = 0
      /\ UNCHANGED <<hcd, chan, fiq, status, urb, req, todo, reg, configured, booted>>
  BY DEF TransferStage, Goto
<1>2. /\ LowestInUse' /\ ChannelsExclusive' /\ MaskInv' /\ ServiceInv'
      /\ UNCHANGED <<allocated, allmask, stage, timers, nextPid>>
      /\ Taken = {} /\ Taken' = {} /\ \A c \in Channels : stage[c].urb # Main
  BY <1>1, SharedKept
<1>3. n' \in 0 .. NumChannels /\ \A d \in Channels : ~(d < n')
  BY <1>1, UsbConstants DEF Channels
<1>4. urb = Main /\ todo # <<>>
  BY <1>1 DEF UsbInv, ControlInv
<1>5. TypeOK'
  BY <1>1, <1>2, <1>3 DEF UsbInv, TypeOK
<1>6. ControlInv'
  BY <1>1, <1>2, <1>3, <1>4 DEF UsbInv, ControlInv
<1>7. OwnerInv'
  BY <1>1, <1>2, <1>4 DEF UsbInv, OwnerInv
<1> QED BY <1>2, <1>5, <1>6, <1>7 DEF UsbInv

(* One test of the scan: the channels behind it are in use.                *)
LEMMA ScanChannelInv ==
    ASSUME UsbInv, ScanChannel
    PROVE  UsbInv'
<1>1. /\ n \in Channels /\ pc = "scan" /\ pc' = (IF n \in allocated THEN "scan" ELSE "load")
      /\ n' = (IF n \in allocated THEN n + 1 ELSE n)
      /\ UNCHANGED <<hcd, chan, fiq, waiting, status, urb, req, todo, reg, configured, booted>>
  BY DEF ScanChannel, Goto
<1>2. /\ LowestInUse' /\ ChannelsExclusive' /\ MaskInv' /\ ServiceInv'
      /\ UNCHANGED <<allocated, allmask, stage, timers, nextPid>>
      /\ Taken = {} /\ Taken' = {} /\ \A c \in Channels : stage[c].urb # Main
  BY <1>1, SharedKept
<1>3. n' \in 0 .. NumChannels
  BY <1>1, UsbConstants DEF Channels
<1>4. \A d \in Channels : d < n' => d \in allocated
  <2>1. \A d \in Channels : d < n => d \in allocated
    BY <1>1 DEF UsbInv, ControlInv
  <2>2. \A d \in Channels : d < n + 1 => d < n \/ d = n
    BY <1>1, UsbConstants DEF Channels
  <2> QED BY <1>1, <2>1, <2>2
<1>5. TypeOK'
  BY <1>1, <1>2, <1>3 DEF UsbInv, TypeOK
<1>6. ControlInv'
  BY <1>1, <1>2, <1>4 DEF UsbInv, ControlInv
<1>7. OwnerInv'
  BY <1>1, <1>2 DEF UsbInv, OwnerInv
<1> QED BY <1>2, <1>5, <1>6, <1>7 DEF UsbInv

LEMMA NoChannelInv ==
    ASSUME UsbInv, NoChannel
    PROVE  UsbInv'
<1>1. /\ pc = "scan" /\ pc' = "idle" /\ waiting' = FALSE /\ todo' = <<>> /\ n' = 0
      /\ urb' = Main /\ req' = "none"
      /\ UNCHANGED <<hcd, chan, fiq, status, reg, configured, booted>>
  BY DEF NoChannel, Goto
<1>2. /\ LowestInUse' /\ ChannelsExclusive' /\ MaskInv' /\ ServiceInv'
      /\ UNCHANGED <<allocated, allmask, stage, timers, nextPid>>
      /\ Taken = {} /\ Taken' = {} /\ \A c \in Channels : stage[c].urb # Main
  BY <1>1, SharedKept
<1>3. n' \in 0 .. NumChannels /\ todo' \in Seq(BOOLEAN)
  BY <1>1, UsbConstants
<1>4. TypeOK'
  BY <1>1, <1>2, <1>3 DEF UsbInv, TypeOK, Urbs
<1>5. ControlInv'
  BY <1>1, <1>2 DEF UsbInv, ControlInv
<1>6. OwnerInv'
  BY <1>1, <1>2 DEF UsbInv, OwnerInv
<1> QED BY <1>2, <1>4, <1>5, <1>6 DEF UsbInv

LEMMA LoadAllocatedInv ==
    ASSUME UsbInv, LoadAllocated
    PROVE  UsbInv'
<1>1. /\ pc = "load" /\ pc' = "store" /\ reg' = allocated
      /\ UNCHANGED <<hcd, chan, fiq, waiting, status, urb, req, todo, n, configured, booted>>
  BY DEF LoadAllocated, Goto
<1>2. /\ LowestInUse' /\ ChannelsExclusive' /\ MaskInv' /\ ServiceInv'
      /\ UNCHANGED <<allocated, allmask, stage, timers, nextPid>>
      /\ Taken = {} /\ Taken' = {} /\ \A c \in Channels : stage[c].urb # Main
  BY <1>1, SharedKept
<1>3. TypeOK'
  BY <1>1, <1>2 DEF UsbInv, TypeOK
<1>4. ControlInv'
  BY <1>1, <1>2 DEF UsbInv, ControlInv
<1>5. OwnerInv'
  BY <1>1, <1>2 DEF UsbInv, OwnerInv
<1> QED BY <1>2, <1>3, <1>4, <1>5 DEF UsbInv

LEMMA StageDoneInv ==
    ASSUME UsbInv, StageDone
    PROVE  UsbInv'
<1>1. /\ ~waiting /\ pc = "wait" /\ status' = 0
      /\ pc' = (IF status = 1 /\ todo # <<>> THEN "submit" ELSE "idle")
      /\ todo' = (IF status = 1 THEN todo ELSE <<>>)
      /\ req' = (IF status = 1 /\ todo # <<>> THEN req ELSE "none")
      /\ UNCHANGED <<hcd, chan, fiq, waiting, urb, n, reg, configured, booted>>
  BY DEF StageDone, Goto
<1>2. /\ LowestInUse' /\ ChannelsExclusive' /\ MaskInv' /\ ServiceInv'
      /\ UNCHANGED <<allocated, allmask, stage, timers, nextPid>>
      /\ Taken = {} /\ Taken' = {} /\ \A c \in Channels : stage[c].urb # Main
  BY <1>1, SharedKept
<1>3. todo' \in Seq(BOOLEAN) /\ req' \in {"data", "none", "bulk"}
  <2>1. <<>> \in Seq(BOOLEAN)
    OBVIOUS
  <2>2. todo \in Seq(BOOLEAN) /\ req \in {"data", "none", "bulk"}
    BY DEF UsbInv, TypeOK
  <2> QED BY <1>1, <2>1, <2>2
<1>4. TypeOK'
  BY <1>1, <1>2, <1>3 DEF UsbInv, TypeOK
<1>5. ControlInv'
  BY <1>1, <1>2 DEF UsbInv, ControlInv
<1>6. OwnerInv'
  BY <1>1, <1>2 DEF UsbInv, OwnerInv
<1> QED BY <1>2, <1>4, <1>5, <1>6 DEF UsbInv

LEMMA BootDoneInv ==
    ASSUME UsbInv, BootDone
    PROVE  UsbInv'
<1>1. /\ pc = "idle" /\ pc' = "idle" /\ booted' = TRUE
      /\ UNCHANGED <<hcd, chan, fiq, waiting, status, urb, req, todo, n, reg, configured>>
  BY DEF BootDone, Goto
<1>2. /\ LowestInUse' /\ ChannelsExclusive' /\ MaskInv' /\ ServiceInv'
      /\ UNCHANGED <<allocated, allmask, stage, timers, nextPid>>
      /\ Taken = {} /\ Taken' = {} /\ \A c \in Channels : stage[c].urb # Main
  BY <1>1, SharedKept
<1>3. TypeOK'
  BY <1>1, <1>2 DEF UsbInv, TypeOK
<1>4. ControlInv'
  BY <1>1, <1>2 DEF UsbInv, ControlInv
<1>5. OwnerInv'
  BY <1>1, <1>2 DEF UsbInv, OwnerInv
<1> QED BY <1>2, <1>3, <1>4, <1>5 DEF UsbInv

-----------------------------------------------------------------------------
(* The base context takes a channel.                                       *)

(* The value that was loaded is still right, although FIQs may have come   *)
(* in between, and the channel is the next one of the lowest.              *)
LEMMA StoreAllocatedInv ==
    ASSUME UsbInv, StoreAllocated
    PROVE  UsbInv'
<1>1. /\ pc = "store" /\ pc' = "stage" /\ allocated' = reg \cup {n} /\ reg' = {}
      /\ UNCHANGED <<allmask, stage, nextPid, timers, chan, fiq,
                     waiting, status, urb, req, todo, n, configured, booted>>
  BY DEF StoreAllocated, Goto
<1>2. /\ reg = allocated /\ n \in Channels /\ n \notin allocated
      /\ \A d \in Channels : d < n => d \in allocated
  BY <1>1 DEF UsbInv, ControlInv
<1>3. allocated \subseteq Channels /\ stage \in [Channels -> Stages]
  BY DEF UsbInv, TypeOK
<1>4. \A d \in allocated : d < n
  BY <1>2, <1>3, UsbConstants DEF UsbInv, LowestInUse, Channels
<1>5. Taken = {} /\ Taken' = {n} /\ InUse' = InUse
  BY <1>1 DEF Taken, InUse
<1>6. allocated = InUse /\ n \notin InUse
  BY <1>2, <1>5 DEF UsbInv, ChannelsExclusive
<1>7. stage[n].urb = None
  BY <1>2, <1>6 DEF InUse
<1>8. TypeOK'
  BY <1>1, <1>2, <1>3 DEF UsbInv, TypeOK
<1>9. ControlInv'
  BY <1>1, <1>2 DEF UsbInv, ControlInv
<1>10. \A c \in Channels : stage[c].urb # Main
  BY <1>1, <1>5 DEF UsbInv, OwnerInv
<1>11. LowestInUse'
  <2>1. ASSUME NEW c \in allocated', NEW d \in Channels, d < c
        PROVE  d \in allocated'
    BY <1>1, <1>2, <2>1 DEF UsbInv, LowestInUse
  <2>2. \A d \in allocated' : d <= n
    BY <1>1, <1>2, <1>3, <1>4, UsbConstants DEF Channels
  <2> QED BY <1>1, <1>5, <1>10, <2>1, <2>2 DEF LowestInUse
<1>12. OwnerInv'
  BY <1>1, <1>5, <1>7, <1>10 DEF UsbInv, OwnerInv
<1>13. ChannelsExclusive'
  BY <1>1, <1>2, <1>5, <1>6, <1>7 DEF UsbInv, ChannelsExclusive
<1>14. MaskInv'
  <2>1. allmask = allocated
    BY <1>1 DEF UsbInv, MaskInv
  <2>2. allocated' \ {n} = allocated
    BY <1>1, <1>2
  <2>3. \A c \in Channels : chan[c].mask # {} => c \in allmask /\ c \notin Taken'
    BY <1>2, <1>5, <2>1 DEF UsbInv, MaskInv
  <2> QED BY <1>1, <2>1, <2>2, <2>3 DEF MaskInv
<1>15. ServiceInv'
  BY <1>1, ServiceKept DEF UsbInv
<1> QED BY <1>8, <1>9, <1>11, <1>12, <1>13, <1>14, <1>15 DEF UsbInv

LEMMA SetupStageInv ==
    ASSUME UsbInv, SetupStage
    PROVE  UsbInv'
<1>1. /\ pc = "stage" /\ pc' = "load_mask"
      /\ UNCHANGED <<allocated, allmask, nextPid, timers, chan, fiq,
                     waiting, status, urb, req, todo, n, reg, configured, booted>>
  BY DEF SetupStage, Goto
<1>2. PICK p \in 1 .. MaxPackets : stage' = [stage EXCEPT ![n] = NewStage(urb, Head(todo), p)]
  BY DEF SetupStage
<1>3. n \in Channels /\ todo # <<>> /\ stage[n].urb = None
  BY <1>1 DEF UsbInv, ControlInv, OwnerInv
<1>4. urb \in Urbs /\ Head(todo) \in BOOLEAN /\ stage \in [Channels -> Stages]
  <2>1. todo \in Seq(BOOLEAN) /\ urb \in Urbs /\ stage \in [Channels -> Stages]
    BY DEF UsbInv, TypeOK
  <2> QED BY <1>3, <2>1
<1> DEFINE new == NewStage(urb, Head(todo), p)
<1>5. /\ new \in Stages /\ new.urb = urb /\ new.packets = p
      /\ new.state = "nosplit" /\ new.sub = "disable"
  BY <1>4, NewStageFits
<1> HIDE DEF new
<1>6. stage' \in [Channels -> Stages] /\ stage'[n] = new
      /\ \A c \in Channels : c # n => stage'[c] = stage[c]
  BY <1>2, <1>3, <1>4, <1>5 DEF new
<1>7. urb # None
  BY <1>4, UsbConstants DEF Urbs, Main, None
<1>8. Taken = {n} /\ Taken' = {n} /\ InUse' = InUse \cup {n}
  BY <1>1, <1>3, <1>5, <1>6, <1>7 DEF Taken, InUse
<1>9. \A c \in Channels : c # n => stage[c].urb # urb
  BY <1>1, <1>8 DEF UsbInv, OwnerInv
<1>10. TypeOK'
  BY <1>1, <1>6 DEF UsbInv, TypeOK
<1>11. ControlInv'
  BY <1>1 DEF UsbInv, ControlInv
<1>12. LowestInUse'
  BY <1>1, <1>3, <1>6, <1>8 DEF UsbInv, LowestInUse
<1>13. OwnerInv'
  <2>1. urb = Main => waiting
    BY <1>1 DEF UsbInv, ControlInv
  <2>2. urb \in Hids => urb \in configured
    BY UsbConstants DEF UsbInv, OwnerInv
  <2> QED BY <1>1, <1>5, <1>6, <1>8, <1>9, <2>1, <2>2 DEF UsbInv, OwnerInv
<1>14. ChannelsExclusive'
  <2>1. ASSUME NEW c \in InUse', NEW d \in InUse', stage'[c].urb = stage'[d].urb
        PROVE  c = d
    <3>1. c \in Channels /\ d \in Channels
      BY DEF InUse
    <3>2. CASE c = n \/ d = n
      BY <1>5, <1>6, <1>9, <2>1, <3>1, <3>2
    <3>3. CASE c # n /\ d # n
      BY <1>6, <1>8, <2>1, <3>1, <3>3 DEF UsbInv, ChannelsExclusive
    <3> QED BY <3>2, <3>3
  <2>2. \A c \in Taken' : stage'[c].urb \in {None, urb'}
    BY <1>1, <1>5, <1>6, <1>8
  <2>3. allocated' = InUse' \cup Taken'
    BY <1>1, <1>8 DEF UsbInv, ChannelsExclusive
  <2> QED BY <2>1, <2>2, <2>3 DEF ChannelsExclusive
<1>15. MaskInv'
  BY <1>1, <1>8 DEF UsbInv, MaskInv
<1>16. ServiceInv'
  <2>1. chan[n].mask = {} /\ Fits(stage[n], chan[n])
    BY <1>3, <1>8 DEF UsbInv, MaskInv, ServiceInv
  <2>2. Fits(new, chan[n])
    BY <1>5, <2>1, UsbConstants DEF Fits
  <2>3. n \notin timers
    BY <1>3 DEF UsbInv, ServiceInv
  <2>4. \A c \in timers : c \in Channels
    BY DEF UsbInv, TypeOK
  <2> QED BY <1>1, <1>6, <2>2, <2>3, <2>4 DEF UsbInv, ServiceInv, Raised
<1> QED BY <1>10, <1>11, <1>12, <1>13, <1>14, <1>15, <1>16 DEF UsbInv

LEMMA LoadMaskInv ==
    ASSUME UsbInv, LoadMask
    PROVE  UsbInv'
<1>1. /\ pc = "load_mask" /\ pc' = "store_mask" /\ reg' = allmask
      /\ UNCHANGED <<hcd, chan, fiq, waiting, status, urb, req, todo, n, configured, booted>>
      /\ UNCHANGED <<allocated, allmask, stage, nextPid, timers>>
  BY DEF LoadMask, Goto, hcd
<1>2. Taken = {n} /\ Taken' = {n} /\ InUse' = InUse
  BY <1>1 DEF Taken, InUse
<1>3. TypeOK'
  BY <1>1 DEF UsbInv, TypeOK
<1>4. ControlInv'
  BY <1>1 DEF UsbInv, ControlInv
<1>5. LowestInUse' /\ OwnerInv' /\ ChannelsExclusive'
  BY <1>1, <1>2 DEF UsbInv, LowestInUse, OwnerInv, ChannelsExclusive
<1>6. MaskInv'
  BY <1>1, <1>2 DEF UsbInv, MaskInv
<1>7. ServiceInv'
  BY <1>1, ServiceKept DEF UsbInv
<1> QED BY <1>3, <1>4, <1>5, <1>6, <1>7 DEF UsbInv

(* No bit is lost: the mask that was loaded is still the one to add to.    *)
LEMMA StoreMaskInv ==
    ASSUME UsbInv, StoreMask
    PROVE  UsbInv'
<1>1. /\ pc = "store_mask" /\ pc' = "start" /\ allmask' = reg \cup {n} /\ reg' = {}
      /\ UNCHANGED <<allocated, stage, nextPid, timers, chan, fiq,
                     waiting, status, urb, req, todo, n, configured, booted>>
  BY DEF StoreMask, Goto
<1>2. reg = allmask /\ n \in Channels
  BY <1>1 DEF UsbInv, ControlInv
<1>3. Taken = {n} /\ Taken' = {n} /\ InUse' = InUse
  BY <1>1 DEF Taken, InUse
<1>4. TypeOK'
  BY <1>1, <1>2 DEF UsbInv, TypeOK
<1>5. ControlInv'
  BY <1>1 DEF UsbInv, ControlInv
<1>6. LowestInUse' /\ OwnerInv' /\ ChannelsExclusive'
  BY <1>1, <1>3 DEF UsbInv, LowestInUse, OwnerInv, ChannelsExclusive
<1>7. MaskInv'
  <2>1. n \in allocated
    BY <1>3 DEF UsbInv, ChannelsExclusive
  <2> QED BY <1>1, <1>2, <1>3, <2>1 DEF UsbInv, MaskInv
<1>8. ServiceInv'
  BY <1>1, ServiceKept DEF UsbInv
<1> QED BY <1>4, <1>5, <1>6, <1>7, <1>8 DEF UsbInv

-----------------------------------------------------------------------------
(* Steps that change the stage and the registers of one channel.           *)

Replaced(c, st, ch) ==
    /\ stage' = [stage EXCEPT ![c] = st]
    /\ chan' = [chan EXCEPT ![c] = ch]

LEMMA ReplacedFacts ==
    ASSUME UsbInv, NEW c \in Channels, NEW st, NEW ch, Fits(st, ch), Replaced(c, st, ch)
    PROVE  /\ stage' \in [Channels -> Stages] /\ chan' \in [Channels -> ChannelRegs]
           /\ stage'[c] = st /\ chan'[c] = ch
           /\ \A d \in Channels : d # c => stage'[d] = stage[d] /\ chan'[d] = chan[d]
<1>1. stage \in [Channels -> Stages] /\ chan \in [Channels -> ChannelRegs]
  BY DEF UsbInv, TypeOK, ChannelRegs
<1>2. st \in Stages /\ ch \in ChannelRegs
  BY DEF Fits
<1> QED BY <1>1, <1>2 DEF Replaced

(* The other channels are served as before.                                *)
LEMMA ServiceReplaced ==
    ASSUME UsbInv, NEW c \in Channels, NEW st, NEW ch, Fits(st, ch), Replaced(c, st, ch),
           \A d \in fiq' : d \in fiq /\ (d = c => ch.int \cap ch.mask # {}),
           \A d \in timers' : d \in timers \/ d = c,
           c \in timers' => st.urb # None /\ st.state = "delay"
    PROVE  ServiceInv'
<1>1. /\ stage'[c] = st /\ chan'[c] = ch
      /\ \A d \in Channels : d # c => stage'[d] = stage[d] /\ chan'[d] = chan[d]
  BY ReplacedFacts
<1>2. fiq \subseteq Channels /\ timers \subseteq Channels
  BY DEF UsbInv, TypeOK
<1>3. \A d \in Channels : Fits(stage'[d], chan'[d])
  BY <1>1 DEF UsbInv, ServiceInv
<1>4. \A d \in fiq' : chan'[d].int \cap chan'[d].mask # {}
  BY <1>1, <1>2 DEF UsbInv, ServiceInv, Raised
<1>5. \A d \in timers' : stage'[d].urb # None /\ stage'[d].state = "delay"
  BY <1>1, <1>2 DEF UsbInv, ServiceInv
<1> QED BY <1>3, <1>4, <1>5 DEF ServiceInv, Raised

(* A step that keeps the request of the channel and who holds it.  Its     *)
(* mask may be opened only if the channel is in ALLCHAN_INT_MASK.          *)
LEMMA SameOwner ==
    ASSUME UsbInv, NEW c \in Channels, NEW st, NEW ch, Fits(st, ch), Replaced(c, st, ch),
           st.urb = stage[c].urb, st.state = stage[c].state \/ c \notin Taken,
           ch.mask # {} => c \in allmask /\ c \notin Taken,
           UNCHANGED <<allocated, allmask, base>>
    PROVE  /\ ControlInv' /\ LowestInUse' /\ OwnerInv' /\ ChannelsExclusive' /\ MaskInv'
           /\ Taken' = Taken /\ InUse' = InUse
<1>1. /\ stage'[c] = st /\ chan'[c] = ch
      /\ \A d \in Channels : d # c => stage'[d] = stage[d] /\ chan'[d] = chan[d]
  BY ReplacedFacts
<1>2. \A d \in Channels : stage'[d].urb = stage[d].urb
  BY <1>1
<1>3. UNCHANGED <<waiting, status, pc, urb, req, todo, n, reg, configured, booted>>
  BY DEF base
<1>4. Taken' = Taken /\ InUse' = InUse
  BY <1>2, <1>3 DEF Taken, InUse
<1>5. ControlInv'
  BY <1>3 DEF UsbInv, ControlInv
<1>6. LowestInUse'
  BY <1>2, <1>4 DEF UsbInv, LowestInUse
<1>7. OwnerInv'
  <2>1. pc \in {"load_mask", "store_mask", "start"} => stage'[n].state = stage[n].state
    BY <1>1 DEF UsbInv, ControlInv, Taken
  <2> QED BY <1>2, <1>3, <1>4, <2>1 DEF UsbInv, OwnerInv, ControlInv
<1>8. ChannelsExclusive'
  <2>1. InUse \subseteq Channels /\ Taken \subseteq Channels
    BY DEF InUse, Taken, UsbInv, ControlInv
  <2> QED BY <1>2, <1>3, <1>4, <2>1 DEF UsbInv, ChannelsExclusive
<1>9. MaskInv'
  BY <1>1, <1>3, <1>4 DEF UsbInv, MaskInv
<1> QED BY <1>4, <1>5, <1>6, <1>7, <1>8, <1>9

LEMMA StartStageInv ==
    ASSUME UsbInv, StartStage
    PROVE  /\ UsbInv'
           /\ \A c \in Channels : chan[c].int # {} /\ chan'[c].int = {} => ~chan[c].enable
<1> DEFINE s == StartTransaction(Begun(stage[n]), chan[n])
<1>1. /\ pc = "start" /\ pc' = (IF urb = Main THEN "wait" ELSE "idle")
      /\ Replaced(n, s.st, s.ch) /\ todo' = Tail(todo) /\ n' = 0 /\ urb' = Main
      /\ UNCHANGED <<allocated, allmask, nextPid, timers, fiq,
                     waiting, status, req, reg, configured, booted>>
  BY DEF StartStage, Goto, Replaced
<1>2. n \in Channels /\ todo # <<>> /\ stage[n].urb = urb /\ fiq = {}
  BY <1>1 DEF UsbInv, ControlInv, OwnerInv, StartStage, Goto
<1>3. Fits(stage[n], chan[n])
  BY <1>2 DEF UsbInv, ServiceInv
<1>4. /\ Fits(Begun(stage[n]), chan[n]) /\ Begun(stage[n]).urb = urb
      /\ Begun(stage[n]).state # "delay"
  BY <1>2, <1>3, BegunFits
<1>5. /\ Fits(s.st, s.ch) /\ s.st.urb = urb /\ s.st.state # "delay"
      /\ chan[n].int # {} /\ s.ch.int = {} => ~chan[n].enable
  BY <1>4, StartTransactionFits
<1> HIDE DEF s
<1>6. /\ stage' \in [Channels -> Stages] /\ chan' \in [Channels -> ChannelRegs]
      /\ stage'[n] = s.st /\ chan'[n] = s.ch
      /\ \A d \in Channels : d # n => stage'[d] = stage[d] /\ chan'[d] = chan[d]
  BY <1>1, <1>2, <1>5, ReplacedFacts
<1>7. \A d \in Channels : stage'[d].urb = stage[d].urb
  BY <1>2, <1>5, <1>6
<1>8. Taken = {n} /\ Taken' = {} /\ InUse' = InUse
  BY <1>1, <1>7 DEF Taken, InUse
<1>9. n \in InUse
  <2>1. urb # None
    BY UsbConstants DEF UsbInv, TypeOK, Urbs, Main, None
  <2> QED BY <1>2, <2>1 DEF InUse
<1>10. TypeOK'
  <2>1. todo' \in Seq(BOOLEAN)
    <3>1. todo \in Seq(BOOLEAN)
      BY DEF UsbInv, TypeOK
    <3> QED BY <1>1, <1>2, <3>1
  <2>2. n' \in 0 .. NumChannels
    BY <1>1, UsbConstants
  <2> QED BY <1>1, <1>6, <2>1, <2>2 DEF UsbInv, TypeOK, ChannelRegs, Urbs
<1>11. ControlInv'
  BY <1>1 DEF UsbInv, ControlInv
<1>12. LowestInUse'
  BY <1>1, <1>7, <1>8 DEF UsbInv, LowestInUse
<1>13. OwnerInv'
  BY <1>1, <1>2, <1>7, <1>8 DEF UsbInv, OwnerInv
<1>14. ChannelsExclusive'
  <2>1. InUse \subseteq Channels
    BY DEF InUse
  <2> QED BY <1>1, <1>7, <1>8, <1>9, <2>1 DEF UsbInv, ChannelsExclusive
<1>15. MaskInv'
  <2>1. n \in allmask
    BY <1>1, <1>8 DEF UsbInv, MaskInv, ChannelsExclusive
  <2> QED BY <1>1, <1>6, <1>8, <2>1 DEF UsbInv, MaskInv
<1>16. ServiceInv'
  <2>1. n \notin timers
    BY <1>1 DEF UsbInv, OwnerInv, ServiceInv
  <2> QED BY <1>1, <1>2, <1>5, <2>1, ServiceReplaced
<1> QED BY <1>5, <1>6, <1>10, <1>11, <1>12, <1>13, <1>14, <1>15, <1>16 DEF UsbInv

LEMMA TimerHandlerInv ==
    ASSUME UsbInv, NEW c \in Channels, TimerHandler(c)
    PROVE  /\ UsbInv'
           /\ \A d \in Channels : chan[d].int # {} /\ chan'[d].int = {} => ~chan[d].enable
<1> DEFINE s == StartTransaction(Begun(stage[c]), chan[c])
<1>1. /\ pc = "idle" /\ c \in timers /\ timers' = timers \ {c} /\ fiq = {}
      /\ Replaced(c, s.st, s.ch) /\ UNCHANGED <<allocated, allmask, nextPid, base, fiq>>
  BY DEF TimerHandler, Goto, Replaced
<1>2. Fits(stage[c], chan[c]) /\ stage[c].urb # None /\ Taken = {}
  BY <1>1 DEF UsbInv, ServiceInv, Taken
<1>3. /\ Fits(Begun(stage[c]), chan[c]) /\ Begun(stage[c]).urb = stage[c].urb
      /\ Begun(stage[c]).state # "delay"
  BY <1>2, BegunFits
<1>4. /\ Fits(s.st, s.ch) /\ s.st.urb = stage[c].urb
      /\ chan[c].int # {} /\ s.ch.int = {} => ~chan[c].enable
  BY <1>3, StartTransactionFits
<1> HIDE DEF s
<1>5. c \in allmask /\ c \notin Taken
  BY <1>1, <1>2 DEF UsbInv, MaskInv, ChannelsExclusive, InUse
<1>6. ControlInv' /\ LowestInUse' /\ OwnerInv' /\ ChannelsExclusive' /\ MaskInv'
  BY <1>1, <1>4, <1>5, SameOwner
<1>7. ServiceInv'
  BY <1>1, <1>4, ServiceReplaced
<1>8. /\ stage' \in [Channels -> Stages] /\ chan' \in [Channels -> ChannelRegs]
      /\ chan'[c] = s.ch /\ \A d \in Channels : d # c => chan'[d] = chan[d]
  BY <1>1, <1>4, ReplacedFacts
<1>9. TypeOK'
  BY <1>1, <1>8 DEF UsbInv, TypeOK, ChannelRegs, base
<1> QED BY <1>4, <1>6, <1>7, <1>8, <1>9 DEF UsbInv

-----------------------------------------------------------------------------
(* The interrupt handler.                                                  *)

LEMMA InterruptInv ==
    ASSUME UsbInv, Interrupt
    PROVE  UsbInv'
<1>1. fiq' = {c \in Channels : Raised(c)} /\ UNCHANGED <<base, hcd, chan>>
  BY DEF Interrupt
<1>2. UNCHANGED <<allocated, allmask, stage, nextPid, timers>>
      /\ UNCHANGED <<waiting, status, pc, urb, req, todo, n, reg, configured, booted>>
  BY <1>1 DEF base, hcd
<1>3. Taken' = Taken /\ InUse' = InUse
  BY <1>2 DEF Taken, InUse
<1>4. TypeOK' /\ ControlInv'
  BY <1>1, <1>2 DEF UsbInv, TypeOK, ControlInv
<1>5. LowestInUse' /\ OwnerInv' /\ ChannelsExclusive'
  BY <1>2, <1>3 DEF UsbInv, LowestInUse, OwnerInv, ChannelsExclusive
<1>6. MaskInv'
  BY <1>1, <1>2, <1>3 DEF UsbInv, MaskInv
<1>7. ServiceInv'
  BY <1>1, <1>2 DEF UsbInv, ServiceInv, Raised
<1> QED BY <1>4, <1>5, <1>6, <1>7 DEF UsbInv

(* A channel that the handler comes to has a request that the base context *)
(* has let go of, and that expects an answer.                              *)
LEMMA ServedChannel ==
    ASSUME UsbInv, NEW c \in fiq
    PROVE  /\ c \in Channels /\ c \in allocated /\ c \in allmask /\ c \notin Taken
           /\ stage[c].urb \in Urbs /\ stage[c].urb # None /\ stage[c].state # "delay"
           /\ c \notin timers /\ Fits(stage[c], chan[c])
           /\ stage[c].sub = "disable" => ~chan[c].enable
<1>1. c \in Channels /\ stage \in [Channels -> Stages]
  BY DEF UsbInv, TypeOK
<1>2. Raised(c) /\ Fits(stage[c], chan[c])
  BY <1>1 DEF UsbInv, ServiceInv
<1>3. c \in allmask /\ c \notin Taken
  BY <1>1, <1>2 DEF UsbInv, MaskInv, Raised
<1>4. c \in allocated /\ c \in InUse
  BY <1>3 DEF UsbInv, MaskInv, ChannelsExclusive
<1>5. stage[c].urb # None /\ stage[c].urb \in Urbs
  BY <1>1, <1>4 DEF InUse, Stages
<1>6. stage[c].state # "delay"
  BY <1>2 DEF Fits, Raised
<1>7. c \notin timers
  BY <1>6 DEF UsbInv, ServiceInv
<1>8. stage[c].sub = "disable" => ~chan[c].enable
  BY <1>2 DEF Fits, Raised
<1> QED BY <1>1, <1>2, <1>3, <1>4, <1>5, <1>6, <1>7, <1>8

(* What the handler does to a channel whose stage goes on, or whose report *)
(* request is submitted again.                                             *)
GoesOn(c) ==
    /\ c \in fiq /\ fiq' = fiq \ {c}
    /\ \E st, ch : /\ Replaced(c, st, ch) /\ Fits(st, ch) /\ st.urb = stage[c].urb
                   /\ \/ timers' = timers
                      \/ timers' = timers \cup {c} /\ st.state = "delay"
                   /\ chan[c].int # {} /\ ch.int = {} => ~chan[c].enable
    /\ nextPid' \in {"setup", "data"}
    /\ UNCHANGED <<allocated, allmask, base>>

(* What it does at the end of a stage of the blocking request.             *)
EndsWait(c) ==
    /\ c \in fiq /\ fiq' = fiq \ {c} /\ stage[c].urb = Main
    /\ Replaced(c, FreeStage, Closed(c))
    /\ allocated' = allocated \ {c} /\ allmask' = allmask \ {c}
    /\ waiting' = FALSE /\ status' \in {0, 1} /\ nextPid' \in {"setup", "data"}
    /\ UNCHANGED <<timers, pc, urb, req, todo, n, reg, configured, booted>>

LEMMA GoesOnInv ==
    ASSUME UsbInv, NEW c, GoesOn(c)
    PROVE  /\ UsbInv'
           /\ \A d \in Channels : chan[d].int # {} /\ chan'[d].int = {} => ~chan[d].enable
<1>1. /\ c \in fiq /\ fiq' = fiq \ {c} /\ nextPid' \in {"setup", "data"}
      /\ UNCHANGED <<allocated, allmask, base>>
  BY DEF GoesOn
<1>2. PICK st, ch : /\ Replaced(c, st, ch) /\ Fits(st, ch) /\ st.urb = stage[c].urb
                    /\ \/ timers' = timers
                       \/ timers' = timers \cup {c} /\ st.state = "delay"
                    /\ chan[c].int # {} /\ ch.int = {} => ~chan[c].enable
  BY DEF GoesOn
<1>3. /\ c \in Channels /\ c \in allmask /\ c \notin Taken /\ stage[c].urb # None
      /\ c \notin timers
  BY <1>1, ServedChannel
<1>4. ControlInv' /\ LowestInUse' /\ OwnerInv' /\ ChannelsExclusive' /\ MaskInv'
  BY <1>1, <1>2, <1>3, SameOwner
<1>5. ServiceInv'
  BY <1>1, <1>2, <1>3, ServiceReplaced
<1>6. /\ stage' \in [Channels -> Stages] /\ chan' \in [Channels -> ChannelRegs]
      /\ chan'[c] = ch /\ \A d \in Channels : d # c => chan'[d] = chan[d]
  BY <1>2, <1>3, ReplacedFacts
<1>7. TypeOK'
  BY <1>1, <1>2, <1>3, <1>6 DEF UsbInv, TypeOK, ChannelRegs, base
<1> QED BY <1>2, <1>4, <1>5, <1>6, <1>7 DEF UsbInv

LEMMA EndsWaitInv ==
    ASSUME UsbInv, NEW c, EndsWait(c)
    PROVE  /\ UsbInv'
           /\ \A d \in Channels : chan[d].int # {} /\ chan'[d].int = {} => ~chan[d].enable
<1>1. /\ c \in fiq /\ fiq' = fiq \ {c} /\ stage[c].urb = Main
      /\ Replaced(c, FreeStage, Closed(c))
      /\ allocated' = allocated \ {c} /\ allmask' = allmask \ {c}
      /\ waiting' = FALSE /\ status' \in {0, 1} /\ nextPid' \in {"setup", "data"}
      /\ UNCHANGED <<timers, pc, urb, req, todo, n, reg, configured, booted>>
  BY DEF EndsWait
<1>2. /\ c \in Channels /\ c \in allocated /\ c \in allmask /\ c \notin Taken
      /\ Fits(stage[c], chan[c]) /\ c \notin timers
  BY <1>1, ServedChannel
<1>3. /\ Fits(FreeStage, Closed(c)) /\ Closed(c).mask = {} /\ Closed(c).int = chan[c].int
      /\ FreeStage.urb = None
  BY <1>2, FreeStageFits, ClosedFits
<1>4. /\ stage' \in [Channels -> Stages] /\ chan' \in [Channels -> ChannelRegs]
      /\ stage'[c] = FreeStage /\ chan'[c] = Closed(c)
      /\ \A d \in Channels : d # c => stage'[d] = stage[d] /\ chan'[d] = chan[d]
  BY <1>1, <1>2, <1>3, ReplacedFacts
<1>5. pc = "wait" /\ Taken = {} /\ Taken' = {}
  BY <1>1, <1>2 DEF UsbInv, OwnerInv, Taken
<1>6. InUse' = InUse \ {c}
  BY <1>2, <1>3, <1>4 DEF InUse
<1>7. \A d \in Channels : stage'[d].urb # Main
  <2>1. \A d \in Channels : stage[d].urb = Main => d = c
    BY <1>1, <1>2 DEF UsbInv, ChannelsExclusive, InUse, Main, None
  <2> QED BY <1>3, <1>4, <2>1 DEF Main, None
<1>8. TypeOK'
  BY <1>1, <1>4 DEF UsbInv, TypeOK, ChannelRegs
<1>9. ControlInv'
  BY <1>1, <1>5 DEF UsbInv, ControlInv
<1>10. LowestInUse'
  <2>1. \A d \in allocated : d <= c
    BY <1>1, <1>2 DEF UsbInv, LowestInUse
  <2>2. allocated \subseteq Channels
    BY DEF UsbInv, TypeOK
  <2>3. ASSUME NEW a \in allocated', NEW d \in Channels, d < a
        PROVE  d \in allocated'
    <3>1. d \in allocated
      BY <1>1, <2>3 DEF UsbInv, LowestInUse
    <3>2. d # c
      BY <1>1, <1>2, <2>1, <2>2, <2>3, UsbConstants DEF Channels
    <3> QED BY <1>1, <3>1, <3>2
  <2> QED BY <1>5, <1>7, <2>3 DEF LowestInUse
<1>11. OwnerInv'
  <2>1. urb = Main
    BY <1>5 DEF UsbInv, ControlInv
  <2>2. \A d \in Channels : stage'[d].urb \in Hids => stage'[d].urb \in configured
    BY <1>3, <1>4, UsbConstants DEF UsbInv, OwnerInv
  <2> QED BY <1>1, <1>5, <1>7, <2>1, <2>2 DEF OwnerInv
<1>12. ChannelsExclusive'
  BY <1>1, <1>4, <1>5, <1>6 DEF UsbInv, ChannelsExclusive, InUse
<1>13. MaskInv'
  BY <1>1, <1>2, <1>3, <1>4, <1>5 DEF UsbInv, MaskInv
<1>14. ServiceInv'
  BY <1>1, <1>2, <1>3, ServiceReplaced
<1> QED BY <1>3, <1>4, <1>8, <1>9, <1>10, <1>11, <1>12, <1>13, <1>14 DEF UsbInv

(* The end of a stage.  A report request gets the channel that it has just *)
(* given back, so that neither m_nChannelAllocated nor ALLCHAN_INT_MASK    *)
(* has changed when the handler returns.                                   *)
LEMMA CompleteKind ==
    ASSUME UsbInv, NEW c \in fiq, fiq' = fiq \ {c}, NEW ok \in {0, 1}, Complete(c, ok),
           nextPid' \in {"setup", "data"}
    PROVE  GoesOn(c) \/ EndsWait(c)
<1> DEFINE u == stage[c].urb
           d == FirstFree(allocated \ {c})
           new == Begun(NewStage(u, FALSE, 1))
           s == StartTransaction(new, IF d = c THEN Closed(c) ELSE chan[d])
<1>1. /\ c \in Channels /\ c \in allocated /\ c \in allmask
      /\ u \in Urbs /\ c \notin timers /\ Fits(stage[c], chan[c])
  BY ServedChannel
<1>2. allocated \subseteq Channels /\ stage \in [Channels -> Stages]
      /\ chan \in [Channels -> ChannelRegs]
  BY DEF UsbInv, TypeOK, ChannelRegs
<1>3. CASE u = Main
  <2>1. ~Resubmits(u, ok)
    BY <1>3 DEF Resubmits
  <2>2. /\ allmask' = allmask \ {c} /\ allocated' = allocated \ {c}
        /\ stage' = [stage EXCEPT ![c] = FreeStage] /\ chan' = [chan EXCEPT ![c] = Closed(c)]
        /\ waiting' = FALSE /\ status' = ok
        /\ UNCHANGED <<timers, pc, urb, req, todo, n, reg, configured, booted>>
    BY <1>3, <2>1 DEF Complete, MaskAfterCompletion
  <2> QED BY <1>3, <2>2 DEF EndsWait, Replaced
<1>4. CASE u # Main
  <2>1. Resubmits(u, ok)
    BY <1>4 DEF Resubmits
  <2>2. d = c
    BY <1>1, <1>2, FreedIsFirst DEF UsbInv, LowestInUse
  <2>3. /\ allmask' = (allmask \ {c}) \cup {d} /\ allocated' = (allocated \ {c}) \cup {d}
        /\ stage' = [stage EXCEPT ![c] = FreeStage, ![d] = s.st]
        /\ chan' = [chan EXCEPT ![c] = Closed(c), ![d] = s.ch]
        /\ waiting' = waiting /\ status' = status
        /\ UNCHANGED <<timers, pc, urb, req, todo, n, reg, configured, booted>>
    BY <1>4, <2>1 DEF Complete, MaskAfterCompletion
  <2>4. /\ Closed(c) \in ChannelRegs /\ Closed(c).mask = {}
        /\ Closed(c).enable = chan[c].enable /\ Closed(c).int = chan[c].int
    BY <1>1, <1>2 DEF Closed, ChannelRegs
  <2>5. chan[c].enable => "halted" \notin chan[c].int
    BY <1>1 DEF Fits
  <2>6. NewStage(u, FALSE, 1).urb = u /\ Fits(NewStage(u, FALSE, 1), Closed(c))
    BY <1>1, <2>4, <2>5, ReportStageFits
  <2>7. Fits(new, Closed(c)) /\ new.urb = u /\ new.state # "delay"
    BY <2>6, BegunFits
  <2> DEFINE t == StartTransaction(new, Closed(c))
  <2>8. s = t
    BY <2>2
  <2> HIDE DEF new
  <2>9. Fits(t.st, t.ch) /\ t.st.urb = u /\ (chan[c].int # {} /\ t.ch.int = {} => ~chan[c].enable)
    BY <2>4, <2>7, StartTransactionFits
  <2> HIDE DEF s, t, d
  <2>10. stage' = [stage EXCEPT ![c] = t.st] /\ chan' = [chan EXCEPT ![c] = t.ch]
    BY <1>2, <2>2, <2>3, <2>8
  <2>11. allmask' = allmask /\ allocated' = allocated
    BY <1>1, <2>2, <2>3
  <2> QED BY <2>3, <2>9, <2>10, <2>11 DEF GoesOn, Replaced, base
<1> QED BY <1>3, <1>4

(* Another transaction of the stage.                                       *)
LEMMA ContinueKind ==
    ASSUME UsbInv, NEW c \in fiq, fiq' = fiq \ {c}, NEW st \in Stages,
           st.urb = stage[c].urb, st.packets > 0, st.state # "delay", Continue(c, st),
           nextPid' \in {"setup", "data"}
    PROVE  GoesOn(c)
<1> DEFINE s == StartTransaction(st, Closed(c))
<1>1. c \in Channels /\ Fits(stage[c], chan[c])
  BY ServedChannel
<1>2. /\ Fits(st, Closed(c))
      /\ Closed(c).enable = chan[c].enable /\ Closed(c).int = chan[c].int
  BY <1>1, ClosedFits
<1>3. Fits(s.st, s.ch) /\ s.st.urb = st.urb /\ (chan[c].int # {} /\ s.ch.int = {} => ~chan[c].enable)
  BY <1>2, StartTransactionFits
<1>4. Replaced(c, s.st, s.ch) /\ UNCHANGED <<allocated, allmask, timers, base>>
  BY DEF Continue, Replaced
<1> HIDE DEF s
<1> QED BY <1>3, <1>4 DEF GoesOn

(* The request waits for its interval.                                     *)
LEMMA DelayKind ==
    ASSUME UsbInv, NEW c \in fiq, fiq' = fiq \ {c}, NEW st \in Stages,
           st.urb = stage[c].urb, st.packets > 0, Delay(c, st),
           nextPid' \in {"setup", "data"}
    PROVE  GoesOn(c)
<1> DEFINE new == [st EXCEPT !.state = "delay"]
<1>1. c \in Channels /\ Fits(stage[c], chan[c])
  BY ServedChannel
<1>2. /\ new \in Stages /\ new.urb = stage[c].urb /\ new.packets = st.packets
      /\ new.state = "delay"
  BY DEF Stages, States
<1>3. Replaced(c, new, Closed(c)) /\ timers' = timers \cup {c} /\ UNCHANGED <<allocated, allmask, base>>
  BY DEF Delay, Replaced
<1> HIDE DEF new
<1>4. Fits(new, Closed(c)) /\ Closed(c).int = chan[c].int
  BY <1>1, <1>2, ClosedFits
<1> QED BY <1>2, <1>3, <1>4 DEF GoesOn

(* The frame scheduler's answer keeps the request and counts within its    *)
(* bounds.                                                                 *)
LEMMA SplitAnswerType ==
    ASSUME UsbInv, NEW c \in fiq
    PROVE  /\ SplitAnswer(c) \in Stages /\ SplitAnswer(c).urb = stage[c].urb
           /\ SplitAnswer(c).state = stage[c].state
           /\ SplitAnswer(c).sched # "done" => SplitAnswer(c).packets > 0
<1>1. c \in Channels /\ Fits(stage[c], chan[c]) /\ stage[c].urb # None
  BY ServedChannel
<1> DEFINE st == stage[c]
<1>2. st \in Stages /\ st.packets > 0
  BY <1>1 DEF Fits
<1>3. st.packets \in 0 .. MaxPackets /\ st.tries \in 0 .. 3
  BY <1>2 DEF Stages
<1>4. /\ st.packets - 1 \in 0 .. MaxPackets
      /\ st.tries # 0 => st.tries - 1 \in 0 .. 3
  BY <1>2, <1>3, UsbConstants
<1>5. \/ SplitAnswer(c) = [st EXCEPT !.sched = "done", !.packets = st.packets - 1]
      \/ SplitAnswer(c) = [st EXCEPT !.sched = "failed", !.tries = 0]
      \/ st.tries # 0 /\ SplitAnswer(c) = [st EXCEPT !.sched = "retry", !.tries = st.tries - 1]
  BY <1>2 DEF SplitAnswer, Stages
<1> HIDE DEF st
<1>6. CASE SplitAnswer(c) = [st EXCEPT !.sched = "done", !.packets = st.packets - 1]
  BY <1>2, <1>4, <1>6 DEF Stages, SchedStates, st
<1>7. CASE SplitAnswer(c) = [st EXCEPT !.sched = "failed", !.tries = 0]
  <2>1. 0 \in 0 .. 3
    OBVIOUS
  <2> QED BY <1>2, <1>7, <2>1 DEF Stages, SchedStates, st
<1>8. CASE st.tries # 0 /\ SplitAnswer(c) = [st EXCEPT !.sched = "retry", !.tries = st.tries - 1]
  BY <1>2, <1>4, <1>8 DEF Stages, SchedStates, st
<1> QED BY <1>5, <1>6, <1>7, <1>8

LEMMA ServeKind ==
    ASSUME UsbInv, Serve
    PROVE  \E c \in Channels : GoesOn(c) \/ EndsWait(c)
<1>1. PICK c \in Channels :
        \/ ServeDisabled(c) \/ ServeHalted(c) \/ ServeFailed(c) \/ ServeNoReport(c)
        \/ ServeComplete(c) \/ ServeStartSplit(c) \/ ServeRetry(c) \/ ServeNextCycle(c)
        \/ ServeSplitComplete(c)
  BY DEF Serve
<1>2. c \in fiq /\ fiq' = fiq \ {c}
  BY <1>1 DEF ServeDisabled, ServeHalted, ServeFailed, ServeNoReport, ServeComplete,
              ServeStartSplit, ServeRetry, ServeNextCycle, ServeSplitComplete, SplitAnswered,
              Answered, Serving
<1>3. /\ stage[c].urb # None /\ stage[c].state # "delay" /\ Fits(stage[c], chan[c])
      /\ stage[c].sub = "disable" => ~chan[c].enable
  BY <1>2, ServedChannel
<1>4. stage[c] \in Stages /\ stage[c].packets > 0
  BY <1>3 DEF Fits
<1>5. /\ nextPid \in {"setup", "data"} /\ SkipPid(stage[c]) \in {"setup", "data"}
      /\ SplitPid(c) \in {"setup", "data"}
  BY DEF UsbInv, TypeOK, SkipPid, SplitPid
<1>6. /\ SplitAnswer(c) \in Stages /\ SplitAnswer(c).urb = stage[c].urb
      /\ SplitAnswer(c).state = stage[c].state
      /\ SplitAnswer(c).sched # "done" => SplitAnswer(c).packets > 0
  BY <1>2, SplitAnswerType
<1>7. CASE ServeDisabled(c)
  <2> DEFINE s == StartChannel(stage[c], Closed(c))
  <2>1. /\ Replaced(c, s.st, s.ch) /\ stage[c].sub = "disable"
        /\ UNCHANGED <<allocated, allmask, timers, nextPid, base>>
    BY <1>7 DEF ServeDisabled, Replaced
  <2>2. Fits(stage[c], Closed(c))
    BY <1>3, <1>4, ClosedFits
  <2>3. Fits(s.st, s.ch) /\ s.st.urb = stage[c].urb
    BY <1>3, <2>2, StartChannelFits
  <2> HIDE DEF s
  <2> QED BY <1>2, <1>3, <1>5, <2>1, <2>3 DEF GoesOn
<1>8. CASE ServeHalted(c)
  BY <1>2, <1>3, <1>4, <1>5, <1>8, ContinueKind DEF ServeHalted
<1>9. CASE ServeFailed(c)
  BY <1>2, <1>5, <1>9, CompleteKind DEF ServeFailed
<1>10. CASE ServeNoReport(c)
  BY <1>2, <1>4, <1>5, <1>10, DelayKind DEF ServeNoReport
<1>11. CASE ServeComplete(c)
  BY <1>2, <1>5, <1>11, CompleteKind DEF ServeComplete
<1>12. CASE ServeStartSplit(c)
  <2>1. PICK t \in {2, 3} :
           Continue(c, [stage[c] EXCEPT !.state = "complete", !.sched = "completing", !.tries = t])
    BY <1>12 DEF ServeStartSplit
  <2> DEFINE st == [stage[c] EXCEPT !.state = "complete", !.sched = "completing", !.tries = t]
  <2>2. t \in 0 .. 3
    OBVIOUS
  <2>3. /\ st \in Stages /\ st.urb = stage[c].urb /\ st.packets = stage[c].packets
        /\ st.state = "complete"
    BY <1>4, <2>2 DEF Stages, States, SchedStates
  <2>4. Continue(c, st) /\ nextPid' = nextPid
    BY <1>12, <2>1 DEF ServeStartSplit
  <2> HIDE DEF st
  <2> QED BY <1>2, <1>4, <1>5, <2>3, <2>4, ContinueKind
<1>13. CASE ServeRetry(c)
  <2>1. SplitAnswer(c).sched = "retry" /\ Continue(c, SplitAnswer(c)) /\ nextPid' = SplitPid(c)
    BY <1>13 DEF ServeRetry
  <2> QED BY <1>2, <1>3, <1>5, <1>6, <2>1, ContinueKind
<1>14. CASE ServeNextCycle(c)
  <2>1. SplitAnswer(c).packets > 0 /\ nextPid' \in {"setup", "data"}
    BY <1>5, <1>14 DEF ServeNextCycle
  <2>2. CASE Delay(c, SplitAnswer(c))
    BY <1>2, <1>6, <2>1, <2>2, DelayKind
  <2>3. CASE Continue(c, Begun(SplitAnswer(c)))
    <3> DEFINE st == Begun(SplitAnswer(c))
    <3>1. /\ st \in Stages /\ st.urb = stage[c].urb /\ st.packets > 0 /\ st.state # "delay"
      BY <1>6, <2>1 DEF Begun, Stages, States, SchedStates
    <3> HIDE DEF st
    <3> QED BY <1>2, <2>1, <2>3, <3>1, ContinueKind DEF st
  <2> QED BY <1>14, <2>2, <2>3 DEF ServeNextCycle
<1>15. CASE ServeSplitComplete(c)
  BY <1>2, <1>5, <1>15, CompleteKind DEF ServeSplitComplete
<1> QED BY <1>1, <1>7, <1>8, <1>9, <1>10, <1>11, <1>12, <1>13, <1>14, <1>15

-----------------------------------------------------------------------------
(* The controller changes the pending bits and the enable bit only.        *)

LEMMA RegistersChange ==
    ASSUME UsbInv, NEW c \in Channels, NEW bits \in SUBSET Bits, NEW e \in BOOLEAN,
           NEW dis \in BOOLEAN, NEW ch,
           ch = [chan[c] EXCEPT !.int = bits, !.enable = e, !.disable = dis],
           e => "halted" \notin bits, chan[c].int \subseteq bits,
           chan' = [chan EXCEPT ![c] = ch], UNCHANGED <<base, hcd, fiq>>
    PROVE  UsbInv'
<1>1. /\ UNCHANGED <<allocated, allmask, stage, nextPid, timers>>
      /\ UNCHANGED <<waiting, status, pc, urb, req, todo, n, reg, configured, booted>>
  BY DEF base, hcd
<1>2. Fits(stage[c], chan[c]) /\ stage \in [Channels -> Stages] /\ chan[c] \in ChannelRegs
  BY DEF UsbInv, ServiceInv, TypeOK, ChannelRegs
<1>3. /\ ch \in ChannelRegs /\ ch.mask = chan[c].mask /\ ch.int = bits /\ ch.enable = e
  BY <1>2 DEF ChannelRegs
<1>4. Fits(stage[c], ch)
  BY <1>2, <1>3 DEF Fits
<1>5. Replaced(c, stage[c], ch)
  BY <1>1, <1>2 DEF Replaced
<1>6. ch.mask # {} => c \in allmask /\ c \notin Taken
  BY <1>3 DEF UsbInv, MaskInv
<1>7. ControlInv' /\ LowestInUse' /\ OwnerInv' /\ ChannelsExclusive' /\ MaskInv'
  BY <1>1, <1>4, <1>5, <1>6, SameOwner
<1>8. ServiceInv'
  <2>1. c \in fiq => ch.int \cap ch.mask # {}
    BY <1>3 DEF UsbInv, ServiceInv, Raised
  <2>2. c \in timers => stage[c].urb # None /\ stage[c].state = "delay"
    BY DEF UsbInv, ServiceInv
  <2>3. \A d \in fiq' : d \in fiq /\ (d = c => ch.int \cap ch.mask # {})
    BY <2>1
  <2>4. \A d \in timers' : d \in timers \/ d = c
    BY <1>1
  <2>5. c \in timers' => stage[c].urb # None /\ stage[c].state = "delay"
    BY <1>1, <2>2
  <2> QED BY <1>4, <1>5, <2>3, <2>4, <2>5, ServiceReplaced
<1>9. chan' \in [Channels -> ChannelRegs]
  BY <1>4, <1>5, ReplacedFacts
<1>10. TypeOK'
  BY <1>1, <1>9 DEF UsbInv, TypeOK, ChannelRegs
<1> QED BY <1>7, <1>8, <1>10 DEF UsbInv

LEMMA AnswerInv ==
    ASSUME UsbInv, NEW c \in Channels, NEW bits \in SUBSET (Bits \ {"halted"}), bits # {},
           Answer(c, bits)
    PROVE  /\ UsbInv'
           /\ \A d \in Channels : chan[d].int # {} /\ chan'[d].int = {} => ~chan[d].enable
<1>1. PICK halts \in BOOLEAN :
         chan' = [chan EXCEPT ![c].int = bits \cup (IF halts THEN {"halted"} ELSE {}),
                              ![c].enable = ~halts]
  BY DEF Answer
<1>2. chan[c].int = {} /\ UNCHANGED <<base, hcd, fiq>> /\ chan \in [Channels -> ChannelRegs]
  BY DEF Answer, UsbInv, TypeOK, ChannelRegs
<1> DEFINE all == bits \cup (IF halts THEN {"halted"} ELSE {})
           e == ~halts
           dis == chan[c].disable
           ch == [chan[c] EXCEPT !.int = all, !.enable = e, !.disable = dis]
<1>3. all \in SUBSET Bits /\ (e => "halted" \notin all) /\ all # {} /\ e \in BOOLEAN
  BY DEF Bits
<1>4. dis \in BOOLEAN
  BY <1>2 DEF ChannelRegs
<1>5. chan' = [chan EXCEPT ![c] = ch]
  BY <1>1, <1>2 DEF ChannelRegs
<1>6. ch.int = all
  BY <1>2 DEF ChannelRegs
<1>7. chan'[c].int # {} /\ \A d \in Channels : d # c => chan'[d] = chan[d]
  BY <1>2, <1>3, <1>5, <1>6
<1> HIDE DEF all, e, dis
<1>8. UsbInv'
  BY <1>2, <1>3, <1>4, <1>5, RegistersChange
<1> QED BY <1>7, <1>8

LEMMA HwHaltsInv ==
    ASSUME UsbInv, NEW c \in Channels, HwHalts(c)
    PROVE  /\ UsbInv'
           /\ \A d \in Channels : chan[d].int # {} /\ chan'[d].int = {} => ~chan[d].enable
<1>1. chan \in [Channels -> ChannelRegs] /\ UNCHANGED <<base, hcd, fiq>>
  BY DEF UsbInv, TypeOK, ChannelRegs, HwHalts
<1> DEFINE bits == chan[c].int \cup {"halted"}
           ch == [chan[c] EXCEPT !.int = bits, !.enable = FALSE, !.disable = FALSE]
<1>2. chan' = [chan EXCEPT ![c] = ch] /\ bits \in SUBSET Bits
  BY <1>1 DEF HwHalts, ChannelRegs, Bits
<1>3. ch.int = bits /\ \A d \in Channels : d # c => chan'[d] = chan[d]
  BY <1>1, <1>2 DEF ChannelRegs
<1>4. chan'[c].int # {}
  BY <1>1, <1>2, <1>3
<1> HIDE DEF bits
<1>5. UsbInv'
  <2>1. chan[c].int \subseteq bits
    BY DEF bits
  <2> QED BY <1>1, <1>2, <2>1, RegistersChange
<1> QED BY <1>3, <1>4, <1>5

LEMMA ControllerInv ==
    ASSUME UsbInv, Controller
    PROVE  /\ UsbInv'
           /\ \A d \in Channels : chan[d].int # {} /\ chan'[d].int = {} => ~chan[d].enable
<1>1. PICK c \in Channels :
        HwAccepts(c) \/ HwTransfers(c) \/ HwNotReady(c) \/ HwFails(c) \/ HwHalts(c)
  BY DEF Controller
<1>2. CASE HwHalts(c)
  BY <1>2, HwHaltsInv
<1>3. CASE ~HwHalts(c)
  <2>1. \E bits \in {{"ack"}, {"xfer", "ack"}, {"nak"}, {"nyet"}, {"err"}} : Answer(c, bits)
    BY <1>1, <1>3 DEF HwAccepts, HwTransfers, HwNotReady, HwFails
  <2>2. \A bits \in {{"ack"}, {"xfer", "ack"}, {"nak"}, {"nyet"}, {"err"}} :
           bits \in SUBSET (Bits \ {"halted"}) /\ bits # {}
    BY DEF Bits
  <2> QED BY <2>1, <2>2, AnswerInv
<1> QED BY <1>2, <1>3

LEMMA UsbInvStep ==
    ASSUME UsbInv, [Next]_vars
    PROVE  /\ UsbInv'
           /\ \A c \in Channels : chan[c].int # {} /\ chan'[c].int = {} => ~chan[c].enable
<1>1. CASE \E r \in Requests : SubmitBlocking(r)
  BY <1>1, SubmitBlockingInv DEF SubmitBlocking
<1>2. CASE \E h \in Hids : SubmitAsync(h)
  BY <1>2, SubmitAsyncInv DEF SubmitAsync
<1>3. CASE BaseStep
  <2>1. CASE StartStage
    BY <2>1, StartStageInv
  <2>2. CASE TransferStage \/ ScanChannel \/ NoChannel \/ LoadAllocated \/ StageDone
    <3>1. chan' = chan
      BY <2>2 DEF TransferStage, ScanChannel, NoChannel, LoadAllocated, StageDone
    <3> QED BY <2>2, <3>1, TransferStageInv, ScanChannelInv, NoChannelInv, LoadAllocatedInv,
               StageDoneInv
  <2>3. CASE StoreAllocated \/ SetupStage \/ LoadMask \/ StoreMask
    <3>1. chan' = chan
      BY <2>3 DEF StoreAllocated, SetupStage, LoadMask, StoreMask
    <3> QED BY <2>3, <3>1, StoreAllocatedInv, SetupStageInv, LoadMaskInv, StoreMaskInv
  <2> QED BY <1>3, <2>1, <2>2, <2>3 DEF BaseStep
<1>4. CASE BootDone
  BY <1>4, BootDoneInv DEF BootDone
<1>5. CASE \E c \in Channels : TimerHandler(c)
  BY <1>5, TimerHandlerInv
<1>6. CASE Interrupt
  BY <1>6, InterruptInv DEF Interrupt
<1>7. CASE Serve
  BY <1>7, ServeKind, GoesOnInv, EndsWaitInv
<1>8. CASE Controller
  BY <1>8, ControllerInv
<1>9. CASE UNCHANGED vars
  <2>1. /\ UNCHANGED <<allocated, allmask, stage, nextPid, timers, chan, fiq>>
        /\ UNCHANGED <<waiting, status, pc, urb, req, todo, n, reg, configured, booted>>
    BY <1>9 DEF vars, base, hcd
  <2>2. Taken' = Taken /\ InUse' = InUse
    BY <2>1 DEF Taken, InUse
  <2>3. TypeOK' /\ ControlInv'
    BY <2>1 DEF UsbInv, TypeOK, ControlInv
  <2>4. LowestInUse' /\ OwnerInv' /\ ChannelsExclusive' /\ MaskInv'
    BY <2>1, <2>2 DEF UsbInv, LowestInUse, OwnerInv, ChannelsExclusive, MaskInv
  <2>5. ServiceInv'
    BY <2>1, ServiceKept DEF UsbInv
  <2> QED BY <2>1, <2>3, <2>4, <2>5 DEF UsbInv
<1> QED BY <1>1, <1>2, <1>3, <1>4, <1>5, <1>6, <1>7, <1>8, <1>9 DEF Next

-----------------------------------------------------------------------------
(* The theorems.                                                           *)

(* Type correctness and the rest of the inductive invariant.               *)
THEOREM UsbInvHolds == Spec => []UsbInv
<1>1. UsbInv /\ [Next]_vars => UsbInv'
  BY UsbInvStep
<1> QED BY <1>1, InitUsbInv, PTL DEF Spec

(* No two requests share a channel and no channel is lost, although the    *)
(* load and the store of m_nChannelAllocated in AllocateChannel are not    *)
(* protected from the FIQ, which frees and allocates channels itself.      *)
THEOREM ChannelTheorem == Spec => []ChannelsExclusive
<1>1. UsbInv => ChannelsExclusive
  BY DEF UsbInv
<1> QED BY <1>1, UsbInvHolds, PTL

(* No load and store of ALLCHAN_INT_MASK loses the interrupt of a channel  *)
(* in use, and none outlives its request.                                  *)
THEOREM InterruptTheorem == Spec => []InterruptsKept
<1>1. UsbInv => InterruptsKept
  BY DEF UsbInv, MaskInv, InterruptsKept
<1> QED BY <1>1, UsbInvHolds, PTL

(* The assertions of the interrupt handler, of FreeChannel, of the timer   *)
(* handler and of TransferStage never fail.                                *)
THEOREM AssertTheorem == Spec => []AssertsHold
<1>1. UsbInv => AssertsHold
  <2> SUFFICES ASSUME UsbInv
               PROVE  AssertsHold
    OBVIOUS
  <2>1. \A c \in timers : stage[c].urb # None /\ stage[c].state = "delay"
    BY DEF UsbInv, ServiceInv
  <2>2. pc \in {"idle", "submit"} => ~waiting
    BY DEF UsbInv, ControlInv
  <2> QED BY <2>1, <2>2, ServedChannel DEF AssertsHold
<1> QED BY <1>1, UsbInvHolds, PTL

(* StartChannel programs a channel only after the controller has disabled  *)
(* it: it is called for a channel that is not enabled, or by the handler   *)
(* for the halt that StartTransaction has asked for.                       *)
THEOREM HaltTheorem == Spec => ReprogramsHalted
<1>1. UsbInv /\ [Next]_vars =>
        [\A c \in Channels : chan[c].int # {} /\ chan'[c].int = {} => ~chan[c].enable]_vars
  BY UsbInvStep
<1> QED BY <1>1, UsbInvHolds, PTL DEF Spec, ReprogramsHalted
=============================================================================
