----------------------------- MODULE UsbPackets -----------------------------
(***************************************************************************)
(* One endpoint and its requests, packet by packet: the stage data of      *)
(* dwhcixferstagedata.c, the data PID of usbendpoint.c, the request of     *)
(* usbrequest.c and the frame schedulers of split transactions.  Channels  *)
(* and contexts are those of UsbTransfer and left out here.                *)
(*                                                                         *)
(* Bytes are numbered in the order in which device or caller produce them. *)
(* The controller, the hub and the device are external: packets and        *)
(* handshakes may be lost, and a device repeats a packet whose handshake   *)
(* it has not seen, under the same data PID.                               *)
(***************************************************************************)
EXTENDS Integers, Sequences

CONSTANTS
    MaxPacket,    \* m_nMaxPacketSize
    Sizes,        \* buffer lengths of requests
    Shorts,       \* lengths of the short packets that the device may send
    MaxRequests,  \* bound on requests
    MaxPktFaults  \* bound on faults

SetupSize == 8
Unset == 8

ASSUME PacketConstants ==
    /\ MaxPacket \in Nat \ {0}
    /\ Sizes \in SUBSET Nat
    /\ Shorts \in SUBSET (0 .. MaxPacket - 1)

VARIABLES
    type,    \* m_Type: "control", "bulk" or "interrupt"
    split,   \* m_bSplitTransaction
    pid,     \* m_NextPID
    req,     \* the request: [in, len, first, status, result, n]
    stages,  \* its stages: [in, status]
    pc,      \* "idle", "stage", "start", "run" or "delay"
    st,      \* the stage data
    sched,   \* the frame scheduler: [state, tries, next]
    chan,    \* the channel: [bytes, packets, pid, addr, frame, int]
    peer,    \* the device: [tog, next, pkt, open, bad], and its hub: [hub, setup]
    buf,     \* the caller's buffer, as far as it was filled
    mark,    \* the number of the next byte that the caller has not seen or sent
    lost,    \* a request has failed since the PIDs were last set
    odd,     \* a split has had an answer that the driver misreads
    pktFaults

fixed == <<type, split>>
request == <<req, stages>>
pktVars == <<fixed, pid, request, pc, st, sched, chan, peer, buf, mark, lost, odd, pktFaults>>

IsPeriodic == type = "interrupt"
Flip(p) == IF p = "data0" THEN "data1" ELSE "data0"
Smaller(a, b) == IF a < b THEN a ELSE b

(* USBEndpoint and USBEndpoint2.                                           *)
FirstPID(t) == IF t = "control" THEN "setup" ELSE "data0"

GetNextPID(status) == IF status THEN "data1" ELSE pid

(* Faulty variant: one packet per transaction.                             *)
SkipPIDOnce(p, packets, status) ==
    IF status THEN "setup" ELSE IF p = "setup" THEN "data1" ELSE Flip(p)

SkipPID(p, packets, status) ==
    IF status THEN "setup" ELSE IF p = "setup" THEN "data1"
    ELSE IF packets % 2 = 1 THEN Flip(p) ELSE p

-----------------------------------------------------------------------------
(* The stage data.                                                         *)

NoStage == [in |-> FALSE, status |-> FALSE, size |-> 0, total |-> 0, packets |-> 0,
            bytesPer |-> 0, packetsPer |-> 0, state |-> "none"]

(* DWHCITransferStageData: the setup packet, the buffer or an empty status *)
(* packet; one packet per transaction if it is split.                      *)
NewStage(s) ==
    LET size == IF s.status THEN 0 ELSE IF pid = "setup" THEN SetupSize ELSE req.len
        packets == IF s.status THEN 1 ELSE (size + MaxPacket - 1) \div MaxPacket
    IN [in |-> s.in, status |-> s.status, size |-> size, total |-> 0, packets |-> packets,
        bytesPer |-> IF split THEN Smaller(size, MaxPacket) ELSE size,
        packetsPer |-> IF split THEN 1 ELSE packets,
        state |-> IF split THEN "start" ELSE "nosplit"]

Refused(ch) == ch.int \cap {"err", "nak", "nyet"} # {}

(* Packets and bytes that a transaction has moved.  Data that was sent in  *)
(* a split is not counted by the controller: whole packets are assumed.    *)
PacketsMoved == st.packetsPer - chan.packets
BytesMoved ==
    LET n == st.bytesPer - chan.bytes IN
    IF split /\ st.state = "complete" /\ n = 0 /\ st.bytesPer > 0 THEN MaxPacket * PacketsMoved ELSE n

(* DWHCITransferStageDataTransactionComplete.  The difference is unsigned: *)
(* it is large if more was counted than asked for.                         *)
TransactionComplete ==
    IF Refused(chan) THEN st
    ELSE LET total == st.total + BytesMoved IN
         [st EXCEPT !.total = total, !.packets = @ - PacketsMoved,
                    !.bytesPer = IF total <= st.size THEN Smaller(@, st.size - total) ELSE @]

PIDAfter ==
    IF Refused(chan) \/ st.state = "start" THEN pid ELSE SkipPID(pid, PacketsMoved, st.status)

ResultLen(s) == Smaller(s.total, s.size)

-----------------------------------------------------------------------------
(* The frame schedulers.                                                   *)

NoSched == [state |-> "unknown", tries |-> 0, next |-> Unset]
StartSplit(s) == [s EXCEPT !.state = "start", !.next = Unset]

(* TransactionComplete: what a scheduler makes of an answer.               *)
Retried(s) ==
    IF s.tries = 0 THEN [s EXCEPT !.state = "failed"]
    ELSE [s EXCEPT !.state = "retry", !.tries = @ - 1]

PeriodicAnswer(s, int) ==
    IF s.state = "start" THEN [s EXCEPT !.state = "started"]
    ELSE IF "xfer" \in int THEN [s EXCEPT !.state = "done"]
    ELSE IF int \cap {"nyet", "ack"} # {} THEN Retried(s)
    ELSE [s EXCEPT !.state = "failed"]

NonPeriodicAnswer(s, int) ==
    IF s.state = "start" THEN [s EXCEPT !.state = "started"]
    ELSE IF "xfer" \in int THEN [s EXCEPT !.state = "done"]
    ELSE Retried(s)

SchedAnswer(s, int) == IF IsPeriodic THEN PeriodicAnswer(s, int) ELSE NonPeriodicAnswer(s, int)

(* CompleteSplit: the frames in which the hub is asked for the answer.     *)
PeriodicCompleteSplit(s) ==
    CASE s.state = "started" -> [state |-> "completing", tries |-> IF s.next = 5 THEN 2 ELSE 3,
                                 next |-> (s.next + 2) % 8]
      [] s.state = "retry" -> [s EXCEPT !.next = (@ + 1) % 8]
      [] OTHER -> s

NonPeriodicCompleteSplit(s) ==
    IF s.state = "started" THEN [s EXCEPT !.state = "completing", !.tries = 3] ELSE s

CompleteSplit(s) == IF IsPeriodic THEN PeriodicCompleteSplit(s) ELSE NonPeriodicCompleteSplit(s)

(* WaitForFrame of the periodic scheduler: no start split in frame 6.      *)
FramesAfter(s) ==
    IF ~split \/ ~IsPeriodic THEN {Unset}
    ELSE IF s.next # Unset THEN {s.next}
    ELSE {IF f = 6 THEN 7 ELSE f : f \in 0 .. 7}

-----------------------------------------------------------------------------
(* Packets of a control endpoint have room for a setup packet.             *)
PktInit ==
    /\ type \in {"control", "bulk", "interrupt"} /\ split \in BOOLEAN
    /\ type = "control" => MaxPacket >= SetupSize
    /\ pid = FirstPID(type)
    /\ req \in [in : IF type = "interrupt" THEN {TRUE} ELSE BOOLEAN, len : {0}, first : {0},
                status : {0}, result : {0}, n : {0}]
    /\ stages = <<>> /\ pc = "idle"
    /\ st = NoStage /\ sched = NoSched
    /\ chan = [bytes |-> 0, packets |-> 0, pid |-> "setup", addr |-> 0, frame |-> Unset, int |-> {}]
    /\ peer = [tog |-> "data0", next |-> 1, pkt |-> -1, open |-> IF type = "control" THEN "no" ELSE "data",
               bad |-> FALSE, hub |-> Unset, setup |-> FALSE]
    /\ buf = <<>> /\ mark = 1 /\ lost = FALSE /\ odd = FALSE /\ pktFaults = 0

(* USBRequest and SubmitBlockingRequest or SubmitAsyncRequest: the stages. *)
(* Reports of interrupt endpoints fit into a packet.  What a control       *)
(* endpoint does after a failure is the subject of UsbTransfer.            *)
Submit(in, len) ==
    /\ pc = "idle"
    /\ req.n < MaxRequests
    /\ type # "control" => in = req.in /\ len > 0
    /\ IsPeriodic => len <= MaxPacket
    /\ type = "control" => ~lost
    /\ in => len > 0
    /\ req' = [in |-> in, len |-> len, first |-> mark, status |-> 0, result |-> 0, n |-> req.n + 1]
    /\ stages' = LET s(i, status) == [in |-> i, status |-> status] IN
               CASE type # "control" -> <<s(in, FALSE)>>
                 [] type = "control" /\ in -> <<s(FALSE, FALSE), s(TRUE, FALSE), s(FALSE, TRUE)>>
                 [] type = "control" /\ len = 0 -> <<s(FALSE, FALSE), s(TRUE, TRUE)>>
                 [] OTHER -> <<s(FALSE, FALSE), s(FALSE, FALSE), s(TRUE, TRUE)>>
    /\ buf' = <<>>
    /\ pc' = "stage"
    /\ UNCHANGED <<fixed, pid, st, sched, chan, peer, mark, lost, odd, pktFaults>>

(* DWHCIDeviceTransferStageAsync.                                          *)
TransferStage ==
    /\ pc = "stage"
    /\ st' = NewStage(Head(stages))
    /\ stages' = Tail(stages)
    /\ sched' = IF split THEN StartSplit(NoSched) ELSE NoSched
    /\ pc' = "start"
    /\ UNCHANGED <<fixed, pid, req, chan, peer, buf, mark, lost, odd, pktFaults>>

(* What the channel is told, through the getters of the stage data, and    *)
(* DWHCIDeviceStartChannel, which waits for the right frame.               *)
Programmed(f) ==
    [bytes |-> st.bytesPer, packets |-> st.packetsPer, pid |-> GetNextPID(st.status),
     addr |-> st.total, frame |-> f, int |-> {}]

StartChannel ==
    /\ pc = "start"
    /\ \E f \in FramesAfter(sched) :
        /\ sched' = [sched EXCEPT !.next = f]
        /\ chan' = Programmed(f)
    /\ pc' = "run"
    /\ UNCHANGED <<fixed, pid, request, st, peer, buf, mark, lost, odd, pktFaults>>

-----------------------------------------------------------------------------
(* The interrupt handler.                                                  *)

(* A channel that has halted for no other reason is started again.         *)
RestartHalted ==
    /\ pc = "run" /\ chan.int = {"halted"}
    /\ pc' = "start"
    /\ UNCHANGED <<fixed, pid, request, st, sched, chan, peer, buf, mark, lost, odd, pktFaults>>

Handling == pc = "run" /\ chan.int \notin {{}, {"halted"}}

(* The request fails.                                                      *)
Failed ==
    /\ Handling
    /\ IF st.state = "start" THEN Refused(chan) ELSE "err" \in chan.int
    /\ req' = [req EXCEPT !.status = 0]
    /\ stages' = <<>> /\ pc' = "idle" /\ st' = NoStage /\ sched' = NoSched
    /\ lost' = TRUE
    /\ UNCHANGED <<fixed, pid, chan, peer, buf, mark, odd, pktFaults>>

(* The end of a stage, and of the request if it is the last one.           *)
StageDone(s) ==
    /\ req' = [req EXCEPT !.status = 1, !.result = IF s.status THEN @ ELSE ResultLen(s)]
    /\ pc' = IF stages = <<>> THEN "idle" ELSE "stage"
    /\ mark' = IF stages = <<>> THEN req.first + (IF req.in THEN req'.result ELSE req.len) ELSE mark
    /\ st' = NoStage /\ sched' = NoSched

(* A transfer without splits: complete, or nothing to report.              *)
NoSplitDone ==
    /\ Handling /\ st.state = "nosplit"
    /\ "err" \notin chan.int
    /\ IF "nak" \in chan.int
       THEN /\ st' = [TransactionComplete EXCEPT !.state = "delay"]
            /\ pc' = "delay"
            /\ UNCHANGED <<req, mark, sched>>
       ELSE StageDone(TransactionComplete)
    /\ pid' = PIDAfter
    /\ UNCHANGED <<fixed, stages, chan, peer, buf, lost, odd, pktFaults>>

(* The hub has taken the start split.                                      *)
SplitStarted ==
    /\ Handling /\ st.state = "start" /\ ~Refused(chan)
    /\ st' = [TransactionComplete EXCEPT !.state = "complete"]
    /\ sched' = CompleteSplit(SchedAnswer(sched, chan.int))
    /\ pid' = PIDAfter
    /\ pc' = "start"
    /\ UNCHANGED <<fixed, request, chan, peer, buf, mark, lost, odd, pktFaults>>

(* It answers the complete split: the same again, the next packet, or the  *)
(* end of the stage.                                                       *)
SplitCompleted ==
    /\ Handling /\ st.state = "complete" /\ "err" \notin chan.int
    /\ LET s == CompleteSplit(SchedAnswer(sched, chan.int)) IN
       \/ /\ s.state = "retry"
          /\ sched' = s /\ st' = TransactionComplete /\ pc' = "start"
          /\ UNCHANGED <<req, mark>>
       \/ /\ s.state # "retry" /\ TransactionComplete.packets # 0
          /\ pc' = IF IsPeriodic THEN "delay" ELSE "start"
          /\ st' = [TransactionComplete EXCEPT !.state = pc']
          /\ sched' = IF IsPeriodic THEN s ELSE StartSplit(s)
          /\ UNCHANGED <<req, mark>>
       \/ s.state # "retry" /\ TransactionComplete.packets = 0 /\ StageDone(TransactionComplete)
    /\ pid' = PIDAfter
    /\ UNCHANGED <<fixed, stages, chan, peer, buf, lost, odd, pktFaults>>

(* DWHCIDeviceTimerHandler.                                                *)
TimerHandler ==
    /\ pc = "delay"
    /\ st' = [st EXCEPT !.state = IF split THEN "start" ELSE "nosplit"]
    /\ sched' = IF split THEN StartSplit(sched) ELSE sched
    /\ pc' = "start"
    /\ UNCHANGED <<fixed, pid, request, chan, peer, buf, mark, lost, odd, pktFaults>>

(* CLEAR_FEATURE(ENDPOINT_HALT) and USBEndpointResetPID, in the reset of   *)
(* the mass storage driver.                                                *)
ResetPID ==
    /\ pc = "idle" /\ lost /\ type = "bulk"
    /\ pid' = "data0"
    /\ peer' = [peer EXCEPT !.tog = "data0", !.pkt = -1, !.bad = FALSE]
    /\ mark' = peer.next
    /\ lost' = FALSE
    /\ req' = [req EXCEPT !.status = 0]
    /\ UNCHANGED <<fixed, stages, pc, st, sched, chan, buf, odd, pktFaults>>

-----------------------------------------------------------------------------
(* The bus.                                                                *)

ChannelRuns == pc = "run" /\ chan.int = {}
Ends(bits) == chan' = [chan EXCEPT !.int = bits]
Fault == pktFaults < MaxPktFaults /\ pktFaults' = pktFaults + 1

(* Is a start split under way, and may this packet be transferred now?  A  *)
(* hub keeps the answer of a periodic one for the frames 2 to 5 after it;  *)
(* the device has sent it then and will not do so again.                   *)
Starting == split /\ st.state = "start"
Answerable == ~split \/ st.state = "complete"
Kept == IsPeriodic /\ split => (chan.frame - peer.hub) % 8 \in 2 .. 5

(* The channel after a packet of n bytes; the transaction goes on after a  *)
(* full one, if it has more.                                               *)
Moved(n) ==
    LET left == chan.packets - 1
        bytes == IF split /\ ~st.in THEN chan.bytes ELSE chan.bytes - n
    IN [chan EXCEPT !.packets = left, !.bytes = bytes, !.addr = @ + n, !.pid = Flip(@),
                    !.int = IF left = 0 \/ n < MaxPacket THEN {"xfer"} ELSE {}]

(* A hub takes a start split, with the data if there is some, and keeps in *)
(* mind whether it was a setup packet.                                     *)
HubAccepts ==
    /\ ChannelRuns /\ Starting
    /\ Ends({"ack"})
    /\ peer' = [peer EXCEPT !.hub = chan.frame, !.setup = chan.pid = "setup"]
    /\ UNCHANGED <<fixed, pid, request, pc, st, sched, buf, mark, lost, odd, pktFaults>>

(* The device or the hub is not ready.                                     *)
NotReady ==
    /\ ChannelRuns /\ Answerable
    /\ \/ (split \/ IsPeriodic) /\ Ends({"nak"})
       \/ split /\ Ends({"nyet"})
    /\ UNCHANGED <<fixed, pid, request, pc, st, sched, peer, buf, mark, lost, odd, pktFaults>>

(* A hub answers a complete split with ACK alone and has nothing moved.    *)
(* SkipPID then takes a setup packet for one that was sent.                *)
HubAcks ==
    /\ ChannelRuns /\ split /\ st.state = "complete"
    /\ Ends({"ack"})
    /\ odd' = (odd \/ chan.pid = "setup")
    /\ UNCHANGED <<fixed, pid, request, pc, st, sched, peer, buf, mark, lost, pktFaults>>

(* The controller gives up a transaction before its first packet.          *)
Halts ==
    /\ ChannelRuns /\ chan.packets = st.packetsPer
    /\ Ends({"halted"})
    /\ UNCHANGED <<fixed, pid, request, pc, st, sched, peer, buf, mark, lost, odd, pktFaults>>

BusFails ==
    /\ ChannelRuns
    /\ Fault
    /\ Ends({"err"})
    /\ UNCHANGED <<fixed, pid, request, pc, st, sched, peer, buf, mark, lost, odd>>

SetupPacket == IF split THEN peer.setup ELSE chan.pid = "setup"

SetupArrives ==
    /\ ChannelRuns /\ Answerable /\ SetupPacket
    /\ chan' = Moved(SetupSize)
    /\ peer' = [peer EXCEPT !.tog = "data1", !.next = req.first, !.pkt = -1, !.open = "data"]
    /\ UNCHANGED <<fixed, pid, request, pc, st, sched, buf, mark, lost, odd, pktFaults>>

(* The status packet of a control transfer.                                *)
StatusPacket ==
    /\ ChannelRuns /\ Answerable /\ st.status /\ peer.open # "no"
    /\ chan' = Moved(0)
    /\ peer' = [peer EXCEPT !.open = "no"]
    /\ UNCHANGED <<fixed, pid, request, pc, st, sched, buf, mark, lost, odd, pktFaults>>

DataStage == ChannelRuns /\ Answerable /\ ~SetupPacket /\ ~st.status /\ peer.open = "data"

(* A packet for the device, which takes it if it is the one it expects,    *)
(* and acknowledges it in any case; the controller sends it again if that  *)
(* is lost.                                                                *)
DataOut ==
    /\ DataStage /\ ~st.in
    /\ LET n == Smaller(chan.bytes, MaxPacket)
           first == req.first + chan.addr
       IN /\ peer' = IF chan.pid # peer.tog THEN peer
                    ELSE [peer EXCEPT !.tog = Flip(@), !.next = first + n,
                                     !.bad = @ \/ first # peer.next]
          /\ \/ chan' = Moved(n) /\ UNCHANGED pktFaults
             \/ Fault /\ UNCHANGED chan
    /\ UNCHANGED <<fixed, pid, request, pc, st, sched, buf, mark, lost, odd>>

(* A packet of the device, at most as long as asked for; a short one ends  *)
(* the data of a control transfer.  The device goes on to the next one if  *)
(* it sees the handshake.                                                  *)
Lengths == IF peer.pkt # -1 THEN {peer.pkt}
           ELSE {n \in Shorts \union {MaxPacket} : n <= chan.bytes}
Acknowledged(n) ==
    [peer EXCEPT !.tog = Flip(@), !.next = @ + n, !.pkt = -1,
                !.open = IF type = "control" /\ n < MaxPacket THEN "status" ELSE @]

DataIn ==
    /\ DataStage /\ st.in /\ Kept /\ chan.pid = peer.tog
    /\ \E n \in Lengths :
        /\ chan' = Moved(n)
        /\ buf' = [i \in 1 .. chan.addr + n |->
                     IF i > chan.addr THEN peer.next + i - chan.addr - 1
                     ELSE IF i \in DOMAIN buf THEN buf[i] ELSE 0]
        /\ \/ peer' = Acknowledged(n) /\ UNCHANGED pktFaults
           \/ peer' = [peer EXCEPT !.pkt = n] /\ Fault
        /\ odd' = (odd \/ (split /\ n = 0))
    /\ UNCHANGED <<fixed, pid, request, pc, st, sched, mark, lost>>

(* A packet that was sent before, or one that the hub has dropped.  The    *)
(* controller skips it or takes it for an error.                           *)
DataRepeated ==
    /\ DataStage /\ st.in /\ (chan.pid # peer.tog \/ ~Kept)
    /\ \E n \in Lengths : peer' = Acknowledged(n)
    /\ \/ split /\ Ends({"nyet"})
       \/ ~split /\ UNCHANGED chan
       \/ Ends({"err"})
    /\ UNCHANGED <<fixed, pid, request, pc, st, sched, buf, mark, lost, odd, pktFaults>>

(* The device refuses data before a setup packet, and to be asked on after *)
(* the end of its data.                                                    *)
Stalls ==
    /\ ChannelRuns /\ Answerable /\ ~st.status /\ ~SetupPacket /\ peer.open # "data"
    /\ Ends({"err"})
    /\ UNCHANGED <<fixed, pid, request, pc, st, sched, peer, buf, mark, lost, odd, pktFaults>>

PktNext ==
    \/ \E in \in BOOLEAN, len \in Sizes : Submit(in, len)
    \/ TransferStage \/ StartChannel
    \/ RestartHalted \/ Failed \/ NoSplitDone \/ SplitStarted \/ SplitCompleted \/ TimerHandler \/ ResetPID
    \/ HubAccepts \/ NotReady \/ HubAcks \/ Halts \/ BusFails \/ SetupArrives \/ StatusPacket
    \/ DataOut \/ DataIn \/ DataRepeated \/ Stalls

PktSpec == PktInit /\ [][PktNext]_pktVars

-----------------------------------------------------------------------------
(* A request that succeeds has moved the bytes of the stream that follow   *)
(* those of the request before it, each once and in order, and its result  *)
(* length says how many; so the PID of the endpoint is the one that the    *)
(* device expects, however many packets a transaction had, whichever       *)
(* handshakes were lost and whichever of NAK, NYET and ACK alone a hub     *)
(* answers to the complete splits of data and status packets.  Three cases *)
(* are not covered, in which the code goes wrong: after a request that     *)
(* failed the PIDs may differ until they are reset; an empty packet that   *)
(* came over a split is counted as a full one; and ACK alone to the        *)
(* complete split of a setup packet makes SkipPID go on to DATA1 although  *)
(* nothing was moved, and to DATA0 when the packet does get through.       *)
BytesKept ==
    pc = "idle" /\ req.status = 1 /\ ~lost /\ ~odd =>
        IF req.in
        THEN buf = [i \in 1 .. req.result |-> req.first + i - 1]
        ELSE req.result = (IF req.len = 0 THEN SetupSize ELSE req.len)
             /\ peer.next = req.first + req.len /\ ~peer.bad
=============================================================================
