----------------------------- MODULE MassStorage -----------------------------
(***************************************************************************)
(* The bulk-only mass storage driver: Configure, and reads and writes with *)
(* their retries and resets.  One task at a time calls the driver; what    *)
(* makes it hard are the transfers, each of which may fail before or after *)
(* its packet has arrived, and a device that keeps what nobody fetched.    *)
(*                                                                         *)
(* Sizes are in bytes.  A packet of the device is [kind, size, val] or a   *)
(* status wrapper [kind, size, tag, passed, residue].  32-bit block        *)
(* addresses are taken modulo AddrMod, the 16-bit length modulo LenMod.    *)
(***************************************************************************)
EXTENDS Naturals, Sequences

CONSTANTS
    Offsets, Counts,  \* what callers ask for
    Lasts,            \* the last block address that devices return
    DeviceTypes,      \* peripheral device types, 0 is direct access
    BlockSizes,       \* block lengths of devices
    AddrMod, LenMod,
    ReadyTries,       \* nTries of Configure
    Tries,            \* nTries of Read and Write
    MaxCalls,         \* bound on the number of calls
    MaxFaults         \* bound on the number of transfers that fail

(* Block addresses have 32 bits and lengths 16.                            *)
ASSUME MassConstants ==
    /\ AddrMod \in Nat \ {0}
    /\ LenMod \in Nat \ {0}
    /\ Offsets \subseteq Nat
    /\ Counts \subseteq Nat
    /\ Lasts \subseteq Nat
    /\ DeviceTypes \subseteq Nat

BlockSize == 512
MaxOffset == AddrMod * BlockSize - 1
StatusSize == 13

VARIABLES
    at,       \* whose Command runs: "inquiry", "ready", "sense", "capacity",
              \* "try", or "reset", "idle", "off"
    step,     \* inside Command: "cbw", "data" or "csw"
    cmd,      \* the command block and its buffer: [op, lba, len, size]
    got,      \* nResult of the data transfer
    tag,      \* m_nCWBTag
    tries,    \* nTries
    count,    \* m_nBlockCount
    call,     \* the call of the library: [op, off, n, id]
    buffer,   \* the caller's buffer
    result,   \* the last call returned nCount
    dev,      \* external: [stage, queue, cmd, tag, type, last, size]
    medium,   \* external: the blocks of the device
    faults    \* transfers that failed so far

vars == <<at, step, cmd, got, tag, tries, count, call, buffer, result, dev, medium, faults>>
caller == <<tries, count, call, result>>

(* Buffer sizes of the SCSI commands other than reads and writes.          *)
Size(op) == CASE op = "inquiry" -> 36 [] op = "sense" -> 18 [] op = "capacity" -> 8 [] OTHER -> 0

Command(op) == [op |-> op, lba |-> 0, len |-> 0, size |-> Size(op)]

NoCall == [op |-> "none", off |-> 0, n |-> 0, id |-> 0]

Init ==
    /\ at = "inquiry" /\ step = "cbw" /\ cmd = Command("inquiry")
    /\ got = 0 /\ tag = 0 /\ tries = ReadyTries /\ count = 0
    /\ call = NoCall /\ buffer = <<>> /\ result = FALSE /\ faults = 0
    /\ dev \in [stage : {"idle"}, queue : {<<>>}, cmd : {Command("ready")}, tag : {0},
                type : DeviceTypes, last : Lasts, size : BlockSizes]
    /\ medium = [b \in 0 .. dev.last |-> <<0, b>>]

-----------------------------------------------------------------------------
(* The device.                                                             *)

Data(n, v) == [kind |-> "data", size |-> n, val |-> v]
Status(t, ok, n) == [kind |-> "csw", size |-> StatusSize, tag |-> t, passed |-> ok, residue |-> n]

Blocks(c) == c.lba .. c.lba + c.len - 1

(* A read may fail, and one that is shorter than the buffer may be padded. *)
ReadAnswers(c, t) ==
    LET bytes == c.len * BlockSize
        blocks == [k \in 1 .. c.len |-> medium[c.lba + k - 1]]
    IN {<<Status(t, FALSE, c.size)>>}
       \cup {<<Data(s, blocks), Status(t, TRUE, c.size - bytes)>> :
                s \in {n \in {bytes, c.size} : Blocks(c) \subseteq DOMAIN medium}}

(* What a device answers to a command with no data or data to the host.    *)
Answers(c, t) ==
    CASE c.op = "inquiry"  -> {<<Data(36, <<dev.type>>), Status(t, TRUE, 0)>>}
      [] c.op = "sense"    -> {<<Data(18, <<>>), Status(t, TRUE, 0)>>}
      [] c.op = "capacity" -> {<<Data(8, <<dev.last>>), Status(t, TRUE, 0)>>}
      [] c.op = "read" /\ c.size > 0 -> ReadAnswers(c, t)
      [] OTHER -> {<<Status(t, ok, c.size)>> : ok \in BOOLEAN}

(* A command block arrives.  A device that waits for data takes it as a    *)
(* packet that is too short.                                               *)
TakeCommand(c, t) ==
    \/ /\ dev.stage = "idle"
       /\ IF c.op = "write" /\ c.size > 0
          THEN dev' = [dev EXCEPT !.stage = "data", !.cmd = c, !.tag = t]
          ELSE \E a \in Answers(c, t) : dev' = [dev EXCEPT !.queue = @ \o a]
       /\ UNCHANGED medium
    \/ /\ dev.stage = "data"
       /\ dev' = [dev EXCEPT !.stage = "idle",
                             !.queue = Append(@, Status(dev.tag, TRUE, dev.cmd.size))]
       /\ UNCHANGED medium

(* Data for the device: the blocks of the command are written, or none.    *)
TakeData(blocks) ==
    LET c == dev.cmd
        done(ok) == dev' = [dev EXCEPT !.stage = "idle",
                              !.queue = Append(@, Status(dev.tag, ok, c.size - c.len * BlockSize))]
    IN /\ dev.stage = "data"
       /\ \/ /\ Blocks(c) \subseteq DOMAIN medium
             /\ medium' = [b \in DOMAIN medium |->
                              IF b \in Blocks(c) THEN blocks[b - c.lba + 1] ELSE medium[b]]
             /\ done(TRUE)
          \/ UNCHANGED medium /\ done(FALSE)

Stall == dev' = [dev EXCEPT !.stage = "stalled"] /\ UNCHANGED medium

(* A packet leaves the device.                                             *)
Fetch == dev' = [dev EXCEPT !.queue = Tail(@)] /\ UNCHANGED medium

(* Bulk-only mass storage reset.                                           *)
DeviceReset == dev' = [dev EXCEPT !.stage = "idle", !.queue = <<>>]

-----------------------------------------------------------------------------
(* What the callers of Command do with its result.                         *)

Begin(who, c) == at' = who /\ step' = "cbw" /\ cmd' = c
Rest(who) == at' = who /\ UNCHANGED <<step, cmd>>

(* Faulty variant: no limit for the offset.                                *)
AcceptableAny(c) == c.off % BlockSize = 0 /\ c.n % BlockSize = 0

(* The command of a try, or no command if the offset or the count is not   *)
(* aligned or the offset is too large.                                     *)
Acceptable(c) == c.off % BlockSize = 0 /\ c.off <= MaxOffset /\ c.n % BlockSize = 0

TryCommand(c) == [op |-> c.op, lba |-> (c.off \div BlockSize) % AddrMod,
                  len |-> (c.n \div BlockSize) % LenMod, size |-> c.n]

(* TryRead or TryWrite starts; a refused one leads to a reset as well.     *)
Try(c) ==
    IF Acceptable(c) THEN Begin("try", TryCommand(c)) ELSE Rest("reset")

(* A medium with 2^32 blocks does not fit.                                 *)
Capacity(last) ==
    IF last = AddrMod - 1 THEN Rest("off") /\ count' = last
    ELSE count' = (last + 1) % AddrMod /\ Rest("idle")

(* Command returns r, -1 for a failure (none is TRUE in that case).        *)
Return(none, r) ==
    \/ /\ at = "inquiry"
       /\ IF ~none /\ r = 36 /\ buffer[1] = 0 THEN Begin("ready", Command("ready")) ELSE Rest("off")
       /\ tries' = ReadyTries - 1
       /\ UNCHANGED <<count, call, result>>
    \/ /\ at = "ready"
       /\ IF none THEN Begin("sense", Command("sense")) ELSE Begin("capacity", Command("capacity"))
       /\ UNCHANGED caller
    \/ /\ at = "sense"
       /\ tries' = tries - 1
       /\ IF none \/ tries = 1 THEN Rest("off") ELSE Begin("ready", Command("ready"))
       /\ UNCHANGED <<count, call, result>>
    \/ /\ at = "capacity"
       /\ IF ~none /\ r = 8 /\ dev.size = BlockSize THEN Capacity(buffer[1])
          ELSE Rest("off") /\ UNCHANGED count
       /\ UNCHANGED <<tries, call, result>>
    \/ /\ at = "try"
       /\ IF ~none /\ (call.op = "read" => r = call.n)
          THEN Rest("idle") /\ result' = TRUE
          ELSE Rest("reset") /\ UNCHANGED result
       /\ UNCHANGED <<tries, count, call>>

Fail == Return(TRUE, 0)
Running == at \notin {"idle", "off", "reset"}
MayFail == faults < MaxFaults /\ faults' = faults + 1

-----------------------------------------------------------------------------
(* USBBulkOnlyMassStorageDeviceCommand.                                    *)

(* The command block wrapper goes out under a new tag.                     *)
SendCommand ==
    /\ Running /\ step = "cbw"
    /\ tag' = tag + 1
    /\ TakeCommand(cmd, tag')
    /\ step' = IF cmd.size > 0 THEN "data" ELSE "csw"
    /\ got' = 0
    /\ UNCHANGED <<at, cmd, caller, buffer, faults>>

(* It fails, on the way or on the way back; a stalled device takes none.   *)
SendFails ==
    /\ Running /\ step = "cbw"
    /\ tag' = tag + 1
    /\ \/ MayFail /\ (TakeCommand(cmd, tag') \/ UNCHANGED <<dev, medium>>)
       \/ dev.stage = "stalled" /\ UNCHANGED <<dev, medium, faults>>
    /\ Fail
    /\ UNCHANGED <<got, buffer>>

MoreData == Running /\ step = "data"

(* The data transfer; what is too long for the buffer fails.               *)
SendData ==
    /\ MoreData /\ cmd.op = "write"
    /\ TakeData(buffer)
    /\ got' = cmd.size /\ step' = "csw"
    /\ UNCHANGED <<at, cmd, tag, caller, buffer, faults>>

ReceiveData ==
    /\ MoreData /\ cmd.op # "write"
    /\ dev.queue # <<>> /\ Head(dev.queue).size <= cmd.size
    /\ LET p == Head(dev.queue) IN
       got' = p.size /\ buffer' = IF p.kind = "data" THEN p.val ELSE <<>>
    /\ Fetch
    /\ step' = "csw"
    /\ UNCHANGED <<at, cmd, tag, caller, faults>>

(* A fault, a device that does not expect data or has none to send, or a   *)
(* packet that is longer than the buffer.                                  *)
DataFails ==
    /\ MoreData
    /\ \/ MayFail /\ cmd.op = "write" /\ (TakeData(buffer) \/ UNCHANGED <<dev, medium>>)
       \/ MayFail /\ cmd.op # "write" /\ ((dev.queue # <<>> /\ Fetch) \/ UNCHANGED <<dev, medium>>)
       \/ cmd.op = "write" /\ dev.stage # "data" /\ Stall /\ UNCHANGED faults
       \/ cmd.op # "write" /\ dev.queue = <<>> /\ UNCHANGED <<dev, medium, faults>>
       \/ /\ cmd.op # "write" /\ dev.queue # <<>> /\ Head(dev.queue).size > cmd.size
          /\ Fetch /\ UNCHANGED faults
    /\ Fail
    /\ UNCHANGED <<got, tag, buffer>>

(* Faulty variant: any status counts.                                      *)
MatchesAnyTag(p) == p.kind = "csw" /\ p.passed /\ p.residue = 0

(* The checks of the status wrapper: size, signature, tag, status and      *)
(* residue.                                                                *)
Matches(p) == p.kind = "csw" /\ p.tag = tag /\ p.passed /\ p.residue = 0

ReceiveStatus ==
    /\ Running /\ step = "csw"
    /\ dev.queue # <<>>
    /\ Fetch
    /\ Return(~Matches(Head(dev.queue)), got)
    /\ UNCHANGED <<got, tag, buffer, faults>>

StatusFails ==
    /\ Running /\ step = "csw"
    /\ \/ MayFail /\ ((dev.queue # <<>> /\ Fetch) \/ UNCHANGED <<dev, medium>>)
       \/ dev.queue = <<>> /\ UNCHANGED <<dev, medium, faults>>
    /\ Fail
    /\ UNCHANGED <<got, tag, buffer>>

-----------------------------------------------------------------------------
(* USPiMassStorageDeviceRead and Write: Seek, then up to Tries tries.      *)

Call(op, off, n) ==
    /\ at = "idle"
    /\ call.id < MaxCalls
    /\ call' = [op |-> op, off |-> off, n |-> n, id |-> call.id + 1]
    /\ buffer' = IF op = "write" THEN [k \in 1 .. n \div BlockSize |-> <<call'.id, k>>] ELSE <<>>
    /\ tries' = Tries
    /\ Try(call')
    /\ UNCHANGED <<got, tag, count, result, dev, medium, faults>>

(* Reset after a failed try: the reset and the two requests that clear a   *)
(* halt have to succeed, or the call returns their status.  The device may *)
(* have been reset even so.                                                *)
ResetDone ==
    /\ at = "reset"
    /\ DeviceReset
    /\ tries' = tries - 1
    /\ IF tries = 1 THEN Rest("idle") /\ result' = FALSE
       ELSE Try(call) /\ UNCHANGED result
    /\ UNCHANGED <<got, tag, count, call, buffer, medium, faults>>

ResetFails ==
    /\ at = "reset"
    /\ MayFail
    /\ DeviceReset \/ UNCHANGED dev
    /\ Rest("idle") /\ result' = FALSE
    /\ UNCHANGED <<got, tag, tries, count, call, buffer, medium>>

Next ==
    \/ SendCommand \/ SendFails \/ SendData \/ ReceiveData \/ DataFails
    \/ ReceiveStatus \/ StatusFails
    \/ \E op \in {"read", "write"}, off \in Offsets, n \in Counts : Call(op, off, n)
    \/ ResetDone \/ ResetFails

Spec == Init /\ [][Next]_vars

-----------------------------------------------------------------------------
Returned(op) == at = "idle" /\ call.op = op /\ result

(* The blocks that a call is about.                                        *)
Addressed == [k \in 1 .. call.n \div BlockSize |-> call.off \div BlockSize + k - 1]

(* A read that returns the number of bytes that were asked for has put the *)
(* addressed blocks of the medium into the buffer: stale data, a stale     *)
(* status, padding and a length of more than 16 bits are all noticed.      *)
ReadRight ==
    Returned("read") => /\ \A k \in DOMAIN Addressed : Addressed[k] \in DOMAIN medium
                        /\ buffer = [k \in DOMAIN Addressed |-> medium[Addressed[k]]]

(* A write that returns the number of bytes has written every addressed    *)
(* block with what the caller gave.                                        *)
WriteRight ==
    Returned("write") => \A k \in DOMAIN Addressed :
                            /\ Addressed[k] \in DOMAIN medium
                            /\ medium[Addressed[k]] = <<call.id, k>>

(* What USPiMassStorageDeviceRead and Write promise when they succeed.     *)
TransfersRight == ReadRight /\ WriteRight

(* Whatever fails, blocks change only through the call that addresses them *)
(* and only to what it wants them to be.                                   *)
ChangesAddressed ==
    \A b \in DOMAIN medium : medium'[b] # medium[b] =>
        \E k \in DOMAIN Addressed : Addressed[k] = b /\ medium'[b] = <<call.id, k>>
OnlyAddressed == [][ChangesAddressed]_vars
=============================================================================
