------------------------------- MODULE Ethernet -------------------------------
(***************************************************************************)
(* The drivers of the two Ethernet chips, SMSC951x and LAN7800: Configure, *)
(* the link status and the transfer of frames.  Both drive their chip by   *)
(* reading and writing registers with control messages, while the chip     *)
(* finishes resets and PHY accesses and the link changes in its own time.  *)
(*                                                                         *)
(* A register is the set of its bits that are on.  What a function has yet *)
(* to do is the sequence todo; nValue is val.  Control messages and bulk   *)
(* transfers may fail before or after the chip has acted on them.          *)
(***************************************************************************)
EXTENDS Naturals, Sequences

CONSTANTS
    SendLengths,      \* lengths of the frames that callers send
    WireLengths,      \* lengths of the frames that arrive, with their FCS
    TailLengths,      \* lengths that the bytes in the middle of a frame may pass for
    LeftOver,         \* chips as a boot loader may leave them: [chip, reg, led]
    MaxWait,          \* nTries of the functions that wait for a register
    MaxEthCalls,      \* bound on the number of calls
    MaxChanges,       \* bound on the number of changes of the link
    MaxArrivals,      \* bound on the number of frames that arrive
    MaxEthFaults      \* bound on the number of messages that fail

FrameBufferSize == 1600
PacketSize == 512

Registers ==
    {"ID_REV", "ADDRH", "ADDRL", "LED_GPIO_CFG", "MAC_CR", "TX_CFG", "HW_CFG", "RX_ADDRL",
     "RX_ADDRH", "MAF_LO", "MAF_HI", "BURST_CAP", "BULK_IN_DLY", "USB_CFG0", "FCT_RX_FIFO_END",
     "FCT_TX_FIFO_END", "INT_EP_CTL", "INT_STS", "FLOW", "FCT_FLOW", "RFE_CTL", "PMT_CTL",
     "MAC_TX", "FCT_TX_CTL", "MAC_RX", "FCT_RX_CTL", "MII_ACC", "MII_DATA"}

(* A caller's length is an unsigned, and a frame on the wire fits into the *)
(* buffer.  The registers of a LAN7800 may hold anything; no reset of an   *)
(* SMSC951x runs, whose driver starts none and waits for none.             *)
ASSUME EthernetConstants ==
    /\ SendLengths \subseteq Nat /\ TailLengths \subseteq Nat
    /\ WireLengths \subseteq 0 .. FrameBufferSize - 10
    /\ \A l \in LeftOver :
          /\ l.chip \in {"smsc", "lan"}
          /\ l.reg = [r \in Registers |-> l.reg[r]]
          /\ l.chip = "smsc" => "LRST" \notin l.reg["HW_CFG"] /\ "PHY_RST" \notin l.reg["PMT_CTL"]

VARIABLES
    chip,       \* "smsc" or "lan"
    doing,      \* "configure", "link", "receive", "idle" or "off"
    todo,       \* the register accesses that are left
    val,        \* nValue
    nTries,     \* nTries of a wait
    answer,     \* the last IsLinkUp: "up", "down" or "failed"
    calls,      \* calls so far
    reg,        \* external: registers
    phy,        \* external: registers of the PHY but for the link
    link,       \* external: the cable
    dropped,    \* external: the link was lost since the PHY's status was last read
    seen,       \* states of the link since IsLinkUp was called
    past,       \* its states before, since the call that answered last
    changes,    \* changes of the link so far
    arrived,    \* frames that passed the filter so far
    fifo,       \* external: those that wait in the chip, and how much of them is gone: at
    torn,       \* frames of which a part went with a transfer that failed
    delivered,  \* what callers received: [id, len], and the first byte of the frame in it
    sent,       \* what callers gave to the driver, by length
    wire,       \* external: what the chip has sent, as long as it is not broken: [id, len]
    broken,     \* a transfer has failed after the chip took some of it
    txEnd,      \* bytes of m_pTxBuffer that were ever written
    ethFaults

cable == <<link, dropped, seen, past, changes>>
rx == <<arrived, fifo, torn, delivered>>
tx == <<sent, wire, broken, txEnd>>
frames == <<rx, tx>>
ethDriver == <<doing, todo, val, nTries>>
ethVars == <<chip, ethDriver, answer, calls, reg, phy, cable, frames, ethFaults>>

-----------------------------------------------------------------------------
(* Register accesses.                                                      *)

Op(do, r, a, b) == [do |-> do, reg |-> r, set |-> a, mask |-> b]
ReadReg(r) == <<Op("read", r, {}, {})>>
WriteReg(r, bits) == <<Op("write", r, bits, {})>>
Store(r) == <<Op("store", r, {}, {})>>
Modify(set, clear) == <<Op("modify", "none", set, clear)>>
WaitReg(r, mask, compare) == <<Op("wait", r, compare, mask)>>

ReadWriteReg(r, set, clear) == ReadReg(r) \o Modify(set, clear) \o Store(r)

PHYWaitNotBusy == WaitReg("MII_ACC", {"BUSY"}, {})

(* Faulty variant: the data is fetched while the PHY is being read.        *)
PHYReadEarly(i) == PHYWaitNotBusy \o WriteReg("MII_ACC", {"BUSY", i}) \o ReadReg("MII_DATA")

(* Access to a register i of the PHY, by the two drivers.                  *)
PHYRead(i) ==
    PHYWaitNotBusy \o WriteReg("MII_ACC", {"BUSY", i}) \o PHYWaitNotBusy \o ReadReg("MII_DATA")

SMSC951xPHYRead(i) ==
    PHYWaitNotBusy \o WriteReg("MII_ACC", {"BUSY", i}) \o PHYWaitNotBusy \o ReadReg("MII_DATA")

PHYWrite(i) ==
    PHYWaitNotBusy \o Store("MII_DATA") \o WriteReg("MII_ACC", {"BUSY", "WRITE", i}) \o PHYWaitNotBusy

InitPHY == PHYRead("led") \o Modify({"link1000", "link10-100"}, {"default"}) \o PHYWrite("led")

InitMACAddress ==
    WriteReg("RX_ADDRL", {"mac-lo"}) \o WriteReg("RX_ADDRH", {"mac-hi"})
    \o WriteReg("MAF_LO", {"mac-lo"}) \o WriteReg("MAF_HI", {"mac-hi", "VALID"})

SMSC951xConfigure ==
    WriteReg("ADDRH", {"mac-hi"}) \o WriteReg("ADDRL", {"mac-lo"})
    \o WriteReg("LED_GPIO_CFG", {"SPD", "LNK", "FDX"})
    \o WriteReg("MAC_CR", {"RCVOWN", "TXEN", "RXEN"}) \o WriteReg("TX_CFG", {"ON"})

(* Faulty variant: nobody waits for the end of the reset.                  *)
ResetHWNoWait == ReadWriteReg("HW_CFG", {"LRST"}, {})

ResetHW == ReadWriteReg("HW_CFG", {"LRST"}, {}) \o WaitReg("HW_CFG", {"LRST"}, {})

LAN7800Configure ==
    ReadReg("ID_REV") \o <<Op("check", "none", {"7800"}, {})>>
    \o ResetHW
    \o InitMACAddress
    \o WriteReg("BURST_CAP", {"24"}) \o WriteReg("BULK_IN_DLY", {"0x800"})
    \o ReadWriteReg("HW_CFG", {"LED0", "LED1"}, {"MEF"})
    \o ReadWriteReg("USB_CFG0", {"BCE"}, {"BIR"})
    \o WriteReg("FCT_RX_FIFO_END", {"23"}) \o WriteReg("FCT_TX_FIFO_END", {"23"})
    \o WriteReg("INT_EP_CTL", {}) \o WriteReg("INT_STS", {})
    \o WriteReg("FLOW", {}) \o WriteReg("FCT_FLOW", {})
    \o ReadWriteReg("RFE_CTL", {"BCAST", "PERFECT"}, {})
    \o ReadWriteReg("PMT_CTL", {"PHY_RST"}, {})
    \o WaitReg("PMT_CTL", {"PHY_RST", "READY"}, {"READY"})
    \o ReadWriteReg("MAC_CR", {"AUTO_DUPLEX", "AUTO_SPEED"}, {})
    \o ReadWriteReg("MAC_TX", {"TXEN"}, {}) \o ReadWriteReg("FCT_TX_CTL", {"EN"}, {})
    \o ReadWriteReg("MAC_RX", {"MAX1518", "RXEN"}, {"MAX"}) \o ReadWriteReg("FCT_RX_CTL", {"EN"}, {})
    \o InitPHY

(* Registers after a reset of the chip.                                    *)
PowerOn ==
    [r \in Registers |->
        CASE r = "ID_REV" -> reg[r]
          [] r = "PMT_CTL" -> {"READY"}
          [] r = "USB_CFG0" -> {"BIR"}
          [] r = "MAC_RX" -> {"MAX"}
          [] r = "HW_CFG" /\ chip = "lan" -> {"MEF"}
          [] OTHER -> {}]

EthInit ==
    /\ \E l \in LeftOver : chip = l.chip /\ reg = l.reg /\ phy = [i \in {"led"} |-> l.led]
    /\ todo = IF chip = "lan" THEN LAN7800Configure ELSE SMSC951xConfigure
    /\ doing = "configure" /\ val = {} /\ nTries = MaxWait
    /\ answer = "failed" /\ calls = 0
    /\ link \in BOOLEAN /\ dropped \in BOOLEAN
    /\ seen = {} /\ past = BOOLEAN /\ changes = 0
    /\ arrived = <<>> /\ fifo = <<>> /\ torn = {} /\ delivered = <<>>
    /\ sent = <<>> /\ wire = <<>> /\ broken = FALSE /\ txEnd = 0
    /\ ethFaults = 0

-----------------------------------------------------------------------------
(* The chip.                                                               *)

(* The driver writes a register.  Starting a reset of the PHY makes it     *)
(* not ready.                                                              *)
Written(r, bits) ==
    [reg EXCEPT ![r] = IF r = "PMT_CTL" /\ "PHY_RST" \in bits THEN bits \ {"READY"} ELSE bits]

ResetEnds ==
    /\ "LRST" \in reg["HW_CFG"]
    /\ reg' = PowerOn
    /\ UNCHANGED <<chip, ethDriver, answer, calls, phy, cable, frames, ethFaults>>

PhyResetEnds ==
    /\ "PHY_RST" \in reg["PMT_CTL"]
    /\ reg' = [reg EXCEPT !["PMT_CTL"] = (@ \ {"PHY_RST"}) \cup {"READY"}]
    /\ phy' = [i \in DOMAIN phy |-> {"default"}]
    /\ dropped' = TRUE
    /\ UNCHANGED <<chip, ethDriver, answer, calls, link, seen, past, changes, frames, ethFaults>>

(* The access to the PHY that the busy bit stands for.  The link bit of    *)
(* its status (bit 2 of register 1) stays off after the link was lost      *)
(* until it is read: a first read may tell of a link that is up again.     *)
PhyAccess ==
    /\ "BUSY" \in reg["MII_ACC"]
    /\ \/ /\ "WRITE" \in reg["MII_ACC"]
          /\ phy' = [i \in DOMAIN phy |-> IF i \in reg["MII_ACC"] THEN reg["MII_DATA"] ELSE phy[i]]
          /\ reg' = [reg EXCEPT !["MII_ACC"] = @ \ {"BUSY"}]
          /\ UNCHANGED dropped
       \/ /\ "WRITE" \notin reg["MII_ACC"] /\ "status" \in reg["MII_ACC"]
          /\ reg' = [reg EXCEPT !["MII_ACC"] = @ \ {"BUSY"},
                                !["MII_DATA"] = IF link /\ ~dropped THEN {"link"} ELSE {}]
          /\ dropped' = ~link
          /\ UNCHANGED phy
       \/ /\ "WRITE" \notin reg["MII_ACC"] /\ "status" \notin reg["MII_ACC"]
          /\ reg' = [reg EXCEPT !["MII_ACC"] = @ \ {"BUSY"}, !["MII_DATA"] = phy["led"]]
          /\ UNCHANGED <<phy, dropped>>
    /\ UNCHANGED <<chip, ethDriver, answer, calls, link, seen, past, changes, frames, ethFaults>>

LinkChanges ==
    /\ changes < MaxChanges
    /\ changes' = changes + 1
    /\ link' = ~link
    /\ dropped' = (dropped \/ link)
    /\ seen' = seen \cup {link'}
    /\ UNCHANGED <<chip, ethDriver, answer, calls, reg, phy, past, frames, ethFaults>>

(* A frame for this host comes in, if the receiver is on.                  *)
FrameArrives ==
    /\ Len(arrived) < MaxArrivals
    /\ link /\ doing # "off"
    /\ IF chip = "lan" THEN "RXEN" \in reg["MAC_RX"] /\ "EN" \in reg["FCT_RX_CTL"]
       ELSE "RXEN" \in reg["MAC_CR"]
    /\ \E n \in WireLengths, bad \in BOOLEAN :
          /\ arrived' = Append(arrived, [len |-> n, bad |-> bad])
          /\ fifo' = Append(fifo, [id |-> Len(arrived) + 1, len |-> n, bad |-> bad, at |-> 0])
    /\ UNCHANGED <<chip, ethDriver, answer, calls, reg, phy, cable, torn, delivered, tx, ethFaults>>

-----------------------------------------------------------------------------
(* The driver: one register access after the other.                        *)

More(do) == todo # <<>> /\ Head(todo).do = do
Go == todo' = Tail(todo)

(* The function gives up.                                                  *)
Abandon ==
    /\ doing' = IF doing = "configure" THEN "off" ELSE "idle"
    /\ answer' = IF doing = "link" THEN "failed" ELSE answer
    /\ todo' = <<>>

DoRead ==
    /\ More("read")
    /\ val' = reg[Head(todo).reg]
    /\ Go
    /\ UNCHANGED <<chip, doing, nTries, answer, calls, reg, phy, cable, frames, ethFaults>>

DoModify ==
    /\ More("modify")
    /\ val' = (val \ Head(todo).mask) \cup Head(todo).set
    /\ Go
    /\ UNCHANGED <<chip, doing, nTries, answer, calls, reg, phy, cable, frames, ethFaults>>

Effect == Written(Head(todo).reg, IF Head(todo).do = "store" THEN val ELSE Head(todo).set)

DoWrite ==
    /\ More("write") \/ More("store")
    /\ reg' = Effect
    /\ Go
    /\ UNCHANGED <<chip, doing, val, nTries, answer, calls, phy, cable, frames, ethFaults>>

(* The chip may not be the one that the driver is for.                     *)
CheckId ==
    /\ More("check")
    /\ IF val = Head(todo).set THEN Go /\ UNCHANGED <<doing, answer>> ELSE Abandon
    /\ UNCHANGED <<chip, val, nTries, calls, reg, phy, cable, frames, ethFaults>>

(* One turn of a loop that waits; it gives up before its last read.        *)
DoWait ==
    /\ More("wait")
    /\ LET op == Head(todo) IN
       IF nTries = 1 THEN Abandon /\ nTries' = MaxWait
       ELSE IF reg[op.reg] \cap op.mask = op.set
       THEN Go /\ nTries' = MaxWait /\ UNCHANGED <<doing, answer>>
       ELSE nTries' = nTries - 1 /\ UNCHANGED <<doing, todo, answer>>
    /\ UNCHANGED <<chip, val, calls, reg, phy, cable, frames, ethFaults>>

(* A control message fails; a write may have happened.                     *)
MessageFails ==
    /\ ethFaults < MaxEthFaults /\ ethFaults' = ethFaults + 1
    /\ \/ More("read") /\ UNCHANGED reg
       \/ More("wait") /\ UNCHANGED reg
       \/ (More("write") \/ More("store")) /\ reg' \in {reg, Effect}
    /\ Abandon /\ nTries' = MaxWait
    /\ UNCHANGED <<chip, val, calls, phy, cable, frames>>

Configured ==
    /\ doing = "configure" /\ todo = <<>>
    /\ doing' = "idle"
    /\ UNCHANGED <<chip, todo, val, nTries, answer, calls, reg, phy, cable, frames, ethFaults>>

Called == doing = "idle" /\ calls < MaxEthCalls /\ calls' = calls + 1

IsLinkUp ==
    /\ Called
    /\ doing' = "link" /\ todo' = IF chip = "lan" THEN PHYRead("status") ELSE SMSC951xPHYRead("status")
    /\ seen' = {link}
    /\ past' = IF answer = "failed" THEN past \cup seen ELSE seen
    /\ UNCHANGED <<chip, val, nTries, answer, reg, phy, link, dropped, changes, frames, ethFaults>>

LinkIsKnown ==
    /\ doing = "link" /\ todo = <<>>
    /\ doing' = "idle"
    /\ answer' = IF "link" \in val THEN "up" ELSE "down"
    /\ UNCHANGED <<chip, todo, val, nTries, calls, reg, phy, cable, frames, ethFaults>>

(* Faulty variant: the header is not counted.                              *)
FitsNoHeader(n) == IF chip = "lan" THEN n <= FrameBufferSize ELSE n < FrameBufferSize

Fits(n) == IF chip = "lan" THEN n <= FrameBufferSize - 8 ELSE n < FrameBufferSize - 8

(* The length field of the command word.                                   *)
LengthField(n) == IF chip = "lan" THEN n % 2^20 ELSE n % 2^11

(* SendFrame.  A transfer that fails has moved nothing, the whole frame or *)
(* a part of it.  The data PIDs of chip and driver may then differ, and    *)
(* the chip take the next packets for the rest of the frame: what it sends *)
(* from there on is not modelled.                                          *)
SendFrame(n) ==
    /\ Called
    /\ IF Fits(n)
       THEN /\ sent' = Append(sent, n)
            /\ txEnd' = IF n + 8 > txEnd THEN n + 8 ELSE txEnd
            /\ LET out == IF broken THEN wire
                         ELSE Append(wire, [id |-> Len(sent'), len |-> LengthField(n)]) IN
               \/ wire' = out /\ UNCHANGED <<broken, ethFaults>>
               \/ /\ ethFaults < MaxEthFaults /\ ethFaults' = ethFaults + 1
                  /\ \/ UNCHANGED <<wire, broken>>
                     \/ wire' = out /\ broken' = TRUE
                     \/ n + 8 > PacketSize /\ wire' = wire /\ broken' = TRUE
       ELSE UNCHANGED <<tx, ethFaults>>
    /\ UNCHANGED <<chip, ethDriver, answer, reg, phy, cable, rx>>

(* ReceiveFrame asks for data ...                                          *)
ReceiveFrame ==
    /\ Called
    /\ doing' = "receive"
    /\ UNCHANGED <<chip, todo, val, nTries, answer, reg, phy, cable, frames, ethFaults>>

(* ... and the chip has a frame, or what an earlier transfer left of it.   *)
(* The driver takes the first bytes for the header; it drops what is too   *)
(* short for one, frames with errors and those without data, and takes off *)
(* the header and the FCS of others.  The length that the header claims is *)
(* not compared with that of the transfer, but in an assertion.            *)
RxHeader == IF chip = "lan" THEN 10 ELSE 4
ChipHeader == IF chip = "lan" THEN 10 ELSE 4

(* Faulty variant: a frame may be empty.                                   *)
AcceptedEmpty(nResultLength, bad, nFrameLength) == nResultLength >= RxHeader /\ ~bad

Accepted(nResultLength, bad, nFrameLength) ==
    nResultLength >= RxHeader /\ ~bad /\ nFrameLength > 4

FrameReceived ==
    /\ doing = "receive" /\ fifo # <<>>
    /\ doing' = "idle"
    /\ fifo' = Tail(fifo)
    /\ LET f == Head(fifo) IN
       \E bad \in IF f.at = 0 THEN {f.bad} ELSE BOOLEAN, n \in IF f.at = 0 THEN {f.len} ELSE TailLengths :
          delivered' = IF Accepted(ChipHeader + f.len - f.at, bad, n)
                       THEN Append(delivered, [id |-> f.id, first |-> f.at + RxHeader - ChipHeader,
                                               len |-> n - 4])
                       ELSE delivered
    /\ UNCHANGED <<chip, todo, val, nTries, answer, calls, reg, phy, cable, arrived, torn, tx, ethFaults>>

(* The transfer fails: nothing of the frame is gone, all of it or its      *)
(* first packets.                                                          *)
ReceptionFails ==
    /\ doing = "receive" /\ fifo # <<>>
    /\ ethFaults < MaxEthFaults /\ ethFaults' = ethFaults + 1
    /\ doing' = "idle"
    /\ LET f == Head(fifo) IN
       \/ UNCHANGED <<fifo, torn>>
       \/ fifo' = Tail(fifo) /\ UNCHANGED torn
       \/ /\ \E k \in 1 .. FrameBufferSize \div PacketSize :
                /\ f.at < k * PacketSize /\ k * PacketSize <= ChipHeader + f.len
                /\ fifo' = <<[f EXCEPT !.at = k * PacketSize]>> \o Tail(fifo)
          /\ torn' = torn \cup {f.id}
    /\ UNCHANGED <<chip, todo, val, nTries, answer, calls, reg, phy, cable, arrived, delivered, tx>>

(* An empty packet, which the chip sends unless BIR is on.                 *)
NothingReceived ==
    /\ doing = "receive" /\ fifo = <<>>
    /\ chip = "lan" => "BIR" \notin reg["USB_CFG0"]
    /\ doing' = "idle"
    /\ UNCHANGED <<chip, todo, val, nTries, answer, calls, reg, phy, cable, frames, ethFaults>>

EthNext ==
    \/ ResetEnds \/ PhyResetEnds \/ PhyAccess \/ LinkChanges \/ FrameArrives
    \/ DoRead \/ DoModify \/ DoWrite \/ CheckId \/ DoWait \/ MessageFails
    \/ Configured \/ IsLinkUp \/ LinkIsKnown
    \/ ReceiveFrame \/ FrameReceived \/ ReceptionFails \/ NothingReceived
    \/ \E n \in SendLengths : SendFrame(n)

EthSpec == EthInit /\ [][EthNext]_ethVars

-----------------------------------------------------------------------------
(* A configured chip has its address and filter, single frames per packet, *)
(* an answer for polls without a frame (BIR is off, or ReceiveFrame would  *)
(* wait for ever), and its receiver and transmitter on, whatever it was    *)
(* left with and however long its resets took: no reset undoes what was    *)
(* written.                                                                *)
ConfigurationKept ==
    doing \in {"idle", "link", "receive"} =>
        IF chip = "smsc"
        THEN /\ reg["ADDRH"] = {"mac-hi"} /\ reg["ADDRL"] = {"mac-lo"}
             /\ {"TXEN", "RXEN"} \subseteq reg["MAC_CR"] /\ "ON" \in reg["TX_CFG"]
        ELSE /\ reg["MAF_HI"] = {"mac-hi", "VALID"} /\ reg["MAF_LO"] = {"mac-lo"}
             /\ reg["RX_ADDRH"] = {"mac-hi"} /\ reg["RX_ADDRL"] = {"mac-lo"}
             /\ reg["RFE_CTL"] = {"BCAST", "PERFECT"}
             /\ {"LRST", "MEF"} \cap reg["HW_CFG"] = {}
             /\ "BIR" \notin reg["USB_CFG0"]
             /\ reg["PMT_CTL"] = {"READY"}
             /\ "RXEN" \in reg["MAC_RX"] /\ "EN" \in reg["FCT_RX_CTL"]
             /\ "TXEN" \in reg["MAC_TX"] /\ "EN" \in reg["FCT_TX_CTL"]
             /\ phy["led"] = {"link1000", "link10-100"}

(* IsLinkUp is right about the link although accesses to the PHY take      *)
(* their time and calls fail half-way: "up" is a state that the link had   *)
(* during the call, never what an earlier access has left in the data      *)
(* register.  "down" is one that it had since the call before that has     *)
(* answered, and not always during this one: the PHY remembers that the    *)
(* link was lost until its status is read, and IsLinkUp reads it once.     *)
LinkTruth ==
    doing = "idle" /\ answer # "failed" =>
        /\ answer = "up" => TRUE \in seen
        /\ answer = "down" => FALSE \in past \cup seen

(* No frame is delivered twice or out of order.  One that is delivered is  *)
(* all of the frame but its FCS and had no error, unless a transfer failed *)
(* in the middle of it: the driver takes the rest for a frame then.  The   *)
(* chip sends what callers gave to SendFrame, in order and at most once,   *)
(* until a transfer to it fails half-way; the transmit buffer is not       *)
(* overrun.                                                                *)
FramesIntact ==
    /\ \A i \in DOMAIN delivered :
          LET d == delivered[i] IN
          /\ \/ d.id \in torn
             \/ d.first = 0 /\ d.len > 0 /\ d.len + 4 = arrived[d.id].len /\ ~arrived[d.id].bad
          /\ \A j \in 1 .. i - 1 : delivered[j].id < d.id
    /\ \A i \in DOMAIN wire :
          /\ wire[i].len = sent[wire[i].id]
          /\ \A j \in 1 .. i - 1 : wire[j].id < wire[i].id
    /\ txEnd <= FrameBufferSize
=============================================================================
