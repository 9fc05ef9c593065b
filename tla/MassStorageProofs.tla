-------------------------- MODULE MassStorageProofs --------------------------
(***************************************************************************)
(* Proofs about MassStorage, for every size of the medium, of the block    *)
(* address and of the length field, any number of tries, calls and faults: *)
(* a call that succeeds has moved the blocks it names, and no fault and no *)
(* retry changes another block.                                            *)
(***************************************************************************)
EXTENDS MassStorage, Integers, SequenceTheorems, TLAPS

-----------------------------------------------------------------------------
(* The inductive invariant.                                                *)

Block == Nat \X Nat
Contents == Seq(Nat \cup Block)
Packet ==
    [kind : {"data"}, size : Nat, val : Contents]
    \cup [kind : {"csw"}, size : {StatusSize}, tag : Nat, passed : BOOLEAN, residue : Int]
Ops == {"inquiry", "ready", "sense", "capacity"}
CommandBlock == [op : Ops \cup {"read", "write"}, lba : Nat, len : Nat, size : Nat]
Device ==
    [stage : {"idle", "data", "stalled"}, queue : Seq(Packet), cmd : CommandBlock,
     tag : Nat, type : Nat, last : Nat, size : BlockSizes]

TypeInv ==
    /\ at \in Ops \cup {"try", "reset", "idle", "off"}
    /\ step \in {"cbw", "data", "csw"}
    /\ cmd \in CommandBlock
    /\ tag \in Nat
    /\ call \in [op : {"none", "read", "write"}, off : Nat, n : Nat, id : Nat]
    /\ buffer \in Contents
    /\ result \in BOOLEAN
    /\ dev \in Device
    /\ medium \in [0 .. dev.last -> Block]

(* What the caller of Command asked for, and what is in its buffer.        *)
Given == [k \in 1 .. call.n \div BlockSize |-> <<call.id, k>>]

CallInv ==
    /\ at \in Ops => cmd = Command(at) /\ call.op = "none"
    /\ at = "try" => cmd = TryCommand(call) /\ Acceptable(call) /\ call.op # "none"
    /\ at = "reset" => call.op # "none"
    /\ Running /\ step = "data" => cmd.size > 0
    /\ call.op = "write" => buffer = Given
    /\ call.op = "read" /\ call.n = 0 => buffer = <<>>

(* No status in the device is of a later command than the last one sent.   *)
TagInv ==
    /\ \A i \in 1 .. Len(dev.queue) : dev.queue[i].kind = "csw" => dev.queue[i].tag <= tag
    /\ dev.stage = "data" => dev.tag <= tag

(* A good status of the command that is under way.                         *)
Good(p) == p.kind = "csw" /\ p.tag = tag /\ p.passed

(* The blocks that a command names.                                        *)
Named(c) == [k \in 1 .. c.len |-> medium[c.lba + k - 1]]

(* The status tells how much was not moved, and the blocks exist.          *)
Told(p) == p.residue = cmd.size - cmd.len * BlockSize /\ Blocks(cmd) \subseteq DOMAIN medium

(* A good status is always behind the data of its command, so a driver     *)
(* that took something else for the data does not find it next.            *)
AnswerInv ==
    at = "try" =>
        /\ step = "data" /\ cmd.op = "read" =>
              /\ dev.queue # <<>> => ~Good(dev.queue[1])
              /\ Len(dev.queue) >= 2 /\ Good(dev.queue[2]) =>
                    /\ dev.queue[1].kind = "data" /\ dev.queue[1].val = Named(cmd)
                    /\ Told(dev.queue[2])
        /\ step = "data" /\ dev.stage = "data" => cmd.op = "write" /\ dev.cmd = cmd /\ dev.tag = tag
        /\ step = "data" /\ cmd.op = "write" => \A i \in 1 .. Len(dev.queue) : ~Good(dev.queue[i])
        /\ step = "csw" /\ cmd.size > 0 /\ dev.queue # <<>> /\ Good(dev.queue[1]) =>
              /\ Told(dev.queue[1])
              /\ cmd.op = "read" => buffer = Named(cmd)
              /\ cmd.op = "write" => \A k \in 1 .. cmd.len : medium[cmd.lba + k - 1] = buffer[k]

MassInv == TypeInv /\ CallInv /\ TagInv /\ AnswerInv /\ TransfersRight

-----------------------------------------------------------------------------
(* Commands and packets.                                                   *)

(* x % M is x below M, and never more than x.                              *)
LEMMA ModBelow ==
    ASSUME NEW M \in Nat \ {0}, NEW x \in Nat
    PROVE  /\ x % M \in Nat
           /\ x % M <= x
           /\ x < M => x % M = x
<1>1. CASE x < M
  BY <1>1
<1>2. CASE x >= M
  <2>1. x % M \in 0 .. M - 1
    OBVIOUS
  <2> QED BY <1>2, <2>1
<1> QED BY <1>1, <1>2

(* The command of an acceptable call names the first block of the call;    *)
(* its length is that of the call unless it does not fit its field.        *)
LEMMA CommandExact ==
    ASSUME NEW c \in [op : {"none", "read", "write"}, off : Nat, n : Nat, id : Nat],
           Acceptable(c)
    PROVE  /\ TryCommand(c).lba = c.off \div BlockSize
           /\ TryCommand(c).len <= c.n \div BlockSize
           /\ TryCommand(c).lba \in Nat /\ TryCommand(c).len \in Nat
           /\ TryCommand(c).size = c.n /\ TryCommand(c).op = c.op
           /\ c.n - TryCommand(c).len * BlockSize = 0 => TryCommand(c).len = c.n \div BlockSize
<1> DEFINE b == c.off \div BlockSize
           l == c.n \div BlockSize
<1>1. c.off \in Nat /\ c.n \in Nat
  OBVIOUS
<1>2. b \in Nat /\ l \in Nat /\ b < AddrMod /\ c.n = l * BlockSize
  BY <1>1, MassConstants DEF Acceptable, MaxOffset, BlockSize
<1>3. b % AddrMod = b /\ l % LenMod \in Nat /\ l % LenMod <= l
  BY <1>2, ModBelow, MassConstants
<1>4. /\ TryCommand(c).lba = b % AddrMod
      /\ TryCommand(c).len = l % LenMod
      /\ TryCommand(c).size = c.n
      /\ TryCommand(c).op = c.op
  BY DEF TryCommand
<1> HIDE DEF b, l
<1>5. c.n - (l % LenMod) * BlockSize = 0 => l % LenMod = l
  <2> DEFINE x == l % LenMod
  <2>1. x \in Nat
    BY <1>3
  <2> HIDE DEF x
  <2>2. c.n - x * BlockSize = 0 => x = l
    BY <1>2, <2>1 DEF BlockSize
  <2> QED BY <2>2 DEF x
<1> QED BY <1>2, <1>3, <1>4, <1>5 DEF b, l

(* Packets are well formed.                                                *)
LEMMA StatusIs ==
    ASSUME NEW t \in Nat, NEW ok \in BOOLEAN, NEW n \in Int
    PROVE  /\ Status(t, ok, n) \in Packet
           /\ Status(t, ok, n).kind = "csw" /\ Status(t, ok, n).tag = t
           /\ Status(t, ok, n).passed = ok /\ Status(t, ok, n).residue = n
  BY DEF Status, Packet, StatusSize

LEMMA DataIs ==
    ASSUME NEW n \in Nat, NEW v \in Contents
    PROVE  /\ Data(n, v) \in Packet
           /\ Data(n, v).kind = "data" /\ Data(n, v).val = v
  BY DEF Data, Packet

(* What a device answers to a command: its status comes last, and a good   *)
(* status of a read comes after the blocks.                                *)
ReadAnswer(c, a) ==
    \/ /\ Len(a) = 1
       /\ a[1].kind = "csw" /\ ~a[1].passed
    \/ /\ Len(a) = 2
       /\ a[1].kind = "data" /\ a[1].val = Named(c)
       /\ a[2].kind = "csw" /\ a[2].residue = c.size - c.len * BlockSize
       /\ Blocks(c) \subseteq DOMAIN medium

LEMMA AnswersAre ==
    ASSUME TypeInv, NEW c \in CommandBlock, NEW t \in Nat, NEW a \in Answers(c, t)
    PROVE  /\ a \in Seq(Packet)
           /\ \A i \in 1 .. Len(a) : a[i].kind = "csw" => a[i].tag = t
           /\ c.op = "read" /\ c.size > 0 => ReadAnswer(c, a)
<1>1. /\ c.size \in Nat /\ c.len \in Nat /\ c.lba \in Nat
      /\ dev.type \in Nat /\ dev.last \in Nat
  BY DEF CommandBlock, TypeInv, Device
<1>2. ASSUME NEW n \in Nat, NEW v \in Contents, NEW ok \in BOOLEAN, NEW m \in Int,
             a = <<Data(n, v), Status(t, ok, m)>>
      PROVE  /\ a \in Seq(Packet)
             /\ Len(a) = 2 /\ a[1] = Data(n, v) /\ a[2] = Status(t, ok, m)
             /\ \A i \in 1 .. Len(a) : a[i].kind = "csw" => a[i].tag = t
  BY <1>2, DataIs, StatusIs
<1>3. ASSUME NEW ok \in BOOLEAN, NEW m \in Int, a = <<Status(t, ok, m)>>
      PROVE  /\ a \in Seq(Packet)
             /\ Len(a) = 1 /\ a[1] = Status(t, ok, m)
             /\ \A i \in 1 .. Len(a) : a[i].kind = "csw" => a[i].tag = t
  BY <1>3, StatusIs
<1>4. <<dev.type>> \in Contents /\ <<>> \in Contents /\ <<dev.last>> \in Contents
  BY <1>1 DEF Contents
<1>n. 36 \in Nat /\ 18 \in Nat /\ 8 \in Nat /\ 0 \in Int /\ c.size \in Int
  BY <1>1
<1>t. TRUE \in BOOLEAN /\ FALSE \in BOOLEAN
  OBVIOUS
<1>5. CASE c.op = "inquiry"
  <2>1. a = <<Data(36, <<dev.type>>), Status(t, TRUE, 0)>>
    BY <1>5 DEF Answers
  <2>2. a \in Seq(Packet) /\ \A i \in 1 .. Len(a) : a[i].kind = "csw" => a[i].tag = t
    BY <1>2, <1>4, <1>n, <1>t, <2>1, Zenon
  <2> QED BY <1>5, <2>2
<1>6. CASE c.op = "sense"
  <2>1. a = <<Data(18, <<>>), Status(t, TRUE, 0)>>
    BY <1>6 DEF Answers
  <2>2. a \in Seq(Packet) /\ \A i \in 1 .. Len(a) : a[i].kind = "csw" => a[i].tag = t
    BY <1>2, <1>4, <1>n, <1>t, <2>1, Zenon
  <2> QED BY <1>6, <2>2
<1>7. CASE c.op = "capacity"
  <2>1. a = <<Data(8, <<dev.last>>), Status(t, TRUE, 0)>>
    BY <1>7 DEF Answers
  <2>2. a \in Seq(Packet) /\ \A i \in 1 .. Len(a) : a[i].kind = "csw" => a[i].tag = t
    BY <1>2, <1>4, <1>n, <1>t, <2>1, Zenon
  <2> QED BY <1>7, <2>2
<1>8. CASE c.op = "read" /\ c.size > 0
  <2> DEFINE bytes == c.len * BlockSize
             blocks == [k \in 1 .. c.len |-> medium[c.lba + k - 1]]
  <2>1. \/ /\ Blocks(c) \subseteq DOMAIN medium
           /\ \E s \in {bytes, c.size} : a = <<Data(s, blocks), Status(t, TRUE, c.size - bytes)>>
        \/ a = <<Status(t, FALSE, c.size)>>
    <3>1. a \in ReadAnswers(c, t)
      BY <1>8 DEF Answers
    <3> QED BY <3>1 DEF ReadAnswers
  <2>2. bytes \in Nat /\ c.size - bytes \in Int
    BY <1>1 DEF BlockSize
  <2>3. Blocks(c) \subseteq DOMAIN medium => blocks \in Contents
    <3> HAVE Blocks(c) \subseteq DOMAIN medium
    <3>1. \A k \in 1 .. c.len : medium[c.lba + k - 1] \in Nat \cup Block
      <4> TAKE k \in 1 .. c.len
      <4>1. c.lba + k - 1 \in Blocks(c)
        BY <1>1 DEF Blocks
      <4> QED BY <4>1 DEF TypeInv
    <3> HIDE DEF blocks
    <3>2. blocks \in [1 .. c.len -> Nat \cup Block]
      BY <3>1 DEF blocks
    <3> QED BY <1>1, <3>2 DEF Contents
  <2>4. blocks = Named(c)
    BY DEF Named
  <2> HIDE DEF blocks
  <2>5. ASSUME Blocks(c) \subseteq DOMAIN medium,
               NEW s \in {bytes, c.size}, a = <<Data(s, blocks), Status(t, TRUE, c.size - bytes)>>
        PROVE  /\ a \in Seq(Packet)
               /\ \A i \in 1 .. Len(a) : a[i].kind = "csw" => a[i].tag = t
               /\ ReadAnswer(c, a)
    <3>1. s \in Nat
      BY <1>1, <2>2
    <3>2. /\ a \in Seq(Packet)
          /\ Len(a) = 2 /\ a[1] = Data(s, blocks) /\ a[2] = Status(t, TRUE, c.size - bytes)
          /\ \A i \in 1 .. Len(a) : a[i].kind = "csw" => a[i].tag = t
      BY <1>2, <2>2, <2>3, <2>5, <3>1
    <3>3. a[1].kind = "data" /\ a[1].val = blocks
      BY <2>3, <2>5, <3>1, <3>2, DataIs
    <3>4. a[2].kind = "csw" /\ a[2].residue = c.size - bytes
      BY <3>2 DEF Status
    <3> QED BY <2>4, <2>5, <3>2, <3>3, <3>4 DEF ReadAnswer
  <2>6. CASE a = <<Status(t, FALSE, c.size)>>
    <3>1. /\ a \in Seq(Packet) /\ Len(a) = 1 /\ a[1] = Status(t, FALSE, c.size)
          /\ \A i \in 1 .. Len(a) : a[i].kind = "csw" => a[i].tag = t
      BY <1>n, <1>t, <1>3, <2>6, Zenon
    <3>2. a[1].kind = "csw" /\ ~a[1].passed
      BY <3>1 DEF Status
    <3> QED BY <3>1, <3>2 DEF ReadAnswer
  <2> QED BY <2>1, <2>5, <2>6
<1>9. CASE c.op \in {"ready", "write"} \/ (c.op = "read" /\ ~(c.size > 0))
  <2>1. PICK ok \in BOOLEAN : a = <<Status(t, ok, c.size)>>
    BY <1>9 DEF Answers
  <2> QED BY <1>1, <1>3, <1>9, <2>1
<1> QED BY <1>5, <1>6, <1>7, <1>8, <1>9 DEF CommandBlock, Ops

(* The commands of Configure are well formed.                              *)
LEMMA CommandIs ==
    ASSUME NEW op \in Ops
    PROVE  Command(op) \in CommandBlock /\ Command(op).op = op
<1>1. Size(op) \in Nat
  BY DEF Size, Ops
<1> QED BY <1>1 DEF Command, CommandBlock

-----------------------------------------------------------------------------
(* The device.                                                             *)

(* A packet leaves at the front.                                           *)
LEMMA Fetched ==
    ASSUME TypeInv, dev.queue # <<>>, Fetch
    PROVE  /\ dev' \in Device /\ medium' = medium
           /\ dev'.stage = dev.stage /\ dev'.tag = dev.tag /\ dev'.cmd = dev.cmd
           /\ dev'.last = dev.last
           /\ Len(dev.queue) \in Nat \ {0}
           /\ Len(dev'.queue) = Len(dev.queue) - 1
           /\ \A i \in 1 .. Len(dev'.queue) : dev'.queue[i] = dev.queue[i + 1]
<1>1. dev \in Device /\ dev.queue \in Seq(Packet)
  BY DEF TypeInv, Device
<1>2. /\ Tail(dev.queue) \in Seq(Packet)
      /\ Len(dev.queue) \in Nat \ {0}
      /\ Len(Tail(dev.queue)) = Len(dev.queue) - 1
      /\ \A i \in 1 .. Len(Tail(dev.queue)) : Tail(dev.queue)[i] = dev.queue[i + 1]
  BY <1>1
<1>3. dev' = [dev EXCEPT !.queue = Tail(dev.queue)] /\ medium' = medium
  BY DEF Fetch
<1> QED BY <1>1, <1>2, <1>3 DEF Device

(* A status is put at the end.                                             *)
LEMMA Appended ==
    ASSUME NEW q \in Seq(Packet), NEW p \in Packet
    PROVE  /\ Append(q, p) \in Seq(Packet)
           /\ Len(q) \in Nat
           /\ Len(Append(q, p)) = Len(q) + 1
           /\ \A i \in 1 .. Len(q) : Append(q, p)[i] = q[i]
           /\ Append(q, p)[Len(q) + 1] = p
  OBVIOUS

(* A command block arrives: the device waits for data, answers behind what *)
(* it still has, or takes the block for the data it waits for.             *)
LEMMA CommandTaken ==
    ASSUME TypeInv, NEW c \in CommandBlock, NEW t \in Nat, TakeCommand(c, t)
    PROVE  /\ dev' \in Device /\ medium' = medium /\ dev'.last = dev.last
           /\ \/ /\ c.op = "write" /\ c.size > 0
                 /\ dev'.stage = "data" /\ dev'.cmd = c /\ dev'.tag = t
                 /\ dev'.queue = dev.queue
              \/ /\ ~(c.op = "write" /\ c.size > 0)
                 /\ dev'.stage = "idle"
                 /\ \E a \in Answers(c, t) : dev'.queue = dev.queue \o a
              \/ /\ dev.stage = "data" /\ dev'.stage = "idle"
                 /\ \E p \in Packet : /\ p.kind = "csw" /\ p.tag = dev.tag
                                     /\ dev'.queue = Append(dev.queue, p)
<1>1. /\ dev \in Device /\ dev.queue \in Seq(Packet) /\ dev.tag \in Nat
      /\ dev.cmd.size \in Int
  BY DEF TypeInv, Device, CommandBlock
<1>2. CASE dev.stage = "idle" /\ c.op = "write" /\ c.size > 0
  <2>1. dev' = [dev EXCEPT !.stage = "data", !.cmd = c, !.tag = t] /\ medium' = medium
    BY <1>2 DEF TakeCommand
  <2> QED BY <1>1, <1>2, <2>1 DEF Device
<1>3. CASE dev.stage = "idle" /\ ~(c.op = "write" /\ c.size > 0)
  <2>1. PICK a \in Answers(c, t) : dev' = [dev EXCEPT !.queue = dev.queue \o a]
    BY <1>3 DEF TakeCommand
  <2>2. medium' = medium
    BY <1>3 DEF TakeCommand
  <2>3. dev.queue \o a \in Seq(Packet)
    <3>1. a \in Seq(Packet)
      BY AnswersAre
    <3> QED BY <1>1, <3>1
  <2> QED BY <1>1, <1>3, <2>1, <2>2, <2>3 DEF Device
<1>4. CASE dev.stage = "data"
  <2> DEFINE p == Status(dev.tag, TRUE, dev.cmd.size)
  <2>1. /\ dev' = [dev EXCEPT !.stage = "idle", !.queue = Append(dev.queue, p)]
        /\ medium' = medium
    BY <1>4 DEF TakeCommand
  <2>2. TRUE \in BOOLEAN
    OBVIOUS
  <2>3. p \in Packet
    BY <1>1, <2>2, StatusIs, Zenon
  <2>4. p.kind = "csw" /\ p.tag = dev.tag
    BY DEF Status
  <2> HIDE DEF p
  <2>5. Append(dev.queue, p) \in Seq(Packet)
    BY <1>1, <2>3
  <2> QED BY <1>1, <1>4, <2>1, <2>3, <2>4, <2>5 DEF Device
<1> QED BY <1>2, <1>3, <1>4 DEF TakeCommand

(* The statuses of a device that took a command are no later than it.      *)
LEMMA CommandTags ==
    ASSUME TypeInv, TagInv, TakeCommand(cmd, tag + 1), tag' = tag + 1
    PROVE  TagInv'
<1>1. /\ cmd \in CommandBlock /\ tag \in Nat /\ tag + 1 \in Nat
      /\ dev \in Device /\ dev.queue \in Seq(Packet) /\ dev.tag \in Nat
      /\ dev'.stage = "data" => dev'.tag <= tag'
  <2>1. /\ cmd \in CommandBlock /\ tag \in Nat /\ tag + 1 \in Nat
        /\ dev \in Device /\ dev.queue \in Seq(Packet) /\ dev.tag \in Nat
    BY DEF TypeInv, Device
  <2> QED BY <2>1, CommandTaken
<1>2. \A i \in 1 .. Len(dev.queue) : dev.queue[i] \in Packet
  BY <1>1
<1>3. ASSUME NEW i \in 1 .. Len(dev.queue), dev.queue[i].kind = "csw"
      PROVE  dev.queue[i].tag <= tag'
  <2>1. dev.queue[i].tag <= tag /\ dev.queue[i].tag \in Nat
    BY <1>2, <1>3 DEF TagInv, Packet
  <2> QED BY <1>1, <2>1
<1>4. CASE dev'.queue = dev.queue
  BY <1>1, <1>3, <1>4 DEF TagInv
<1>5. ASSUME NEW a \in Answers(cmd, tag + 1), dev'.queue = dev.queue \o a
      PROVE  TagInv'
  <2>1. a \in Seq(Packet) /\ \A i \in 1 .. Len(a) : a[i].kind = "csw" => a[i].tag = tag + 1
    BY <1>1, AnswersAre
  <2>2. \A i \in 1 .. Len(dev'.queue) :
           \/ i \in 1 .. Len(dev.queue) /\ dev'.queue[i] = dev.queue[i]
           \/ i - Len(dev.queue) \in 1 .. Len(a) /\ dev'.queue[i] = a[i - Len(dev.queue)]
    BY <1>1, <1>5, <2>1
  <2>3. \A i \in 1 .. Len(dev'.queue) : dev'.queue[i].kind = "csw" => dev'.queue[i].tag <= tag'
    <3> TAKE i \in 1 .. Len(dev'.queue)
    <3> HAVE dev'.queue[i].kind = "csw"
    <3>1. CASE i \in 1 .. Len(dev.queue) /\ dev'.queue[i] = dev.queue[i]
      BY <1>3, <3>1
    <3>2. CASE i - Len(dev.queue) \in 1 .. Len(a) /\ dev'.queue[i] = a[i - Len(dev.queue)]
      <4>1. dev'.queue[i].tag = tag'
        BY <2>1, <3>2
      <4> QED BY <1>1, <4>1
    <3> QED BY <2>2, <3>1, <3>2
  <2> QED BY <1>1, <2>3 DEF TagInv
<1>6. ASSUME NEW p \in Packet, p.kind = "csw", p.tag = dev.tag, dev.stage = "data",
             dev'.queue = Append(dev.queue, p)
      PROVE  TagInv'
  <2>1. p.tag <= tag'
    BY <1>1, <1>6 DEF TagInv
  <2>2. \A i \in 1 .. Len(dev'.queue) :
           \/ i \in 1 .. Len(dev.queue) /\ dev'.queue[i] = dev.queue[i]
           \/ dev'.queue[i] = p
    BY <1>1, <1>6
  <2>3. \A i \in 1 .. Len(dev'.queue) : dev'.queue[i].kind = "csw" => dev'.queue[i].tag <= tag'
    BY <1>3, <2>1, <2>2
  <2> QED BY <1>1, <2>3 DEF TagInv
<1>7. \/ dev'.queue = dev.queue
      \/ \E a \in Answers(cmd, tag + 1) : dev'.queue = dev.queue \o a
      \/ /\ dev.stage = "data"
         /\ \E p \in Packet : /\ p.kind = "csw" /\ p.tag = dev.tag
                             /\ dev'.queue = Append(dev.queue, p)
  BY <1>1, CommandTaken
<1> QED BY <1>4, <1>5, <1>6, <1>7

(* Statuses that leave are no later than the last command either.          *)
LEMMA FetchTags ==
    ASSUME TypeInv, TagInv, dev.queue # <<>>, Fetch, tag' = tag
    PROVE  TagInv'
<1>1. dev.queue \in Seq(Packet)
  BY DEF TypeInv, Device
<1>2. /\ dev'.stage = dev.stage /\ dev'.tag = dev.tag
      /\ Len(dev.queue) \in Nat \ {0}
      /\ Len(dev'.queue) = Len(dev.queue) - 1
      /\ \A i \in 1 .. Len(dev'.queue) : dev'.queue[i] = dev.queue[i + 1]
  BY Fetched
<1>3. \A i \in 1 .. Len(dev'.queue) :
         i + 1 \in 1 .. Len(dev.queue) /\ dev'.queue[i] = dev.queue[i + 1]
  BY <1>2
<1> QED BY <1>2, <1>3 DEF TagInv

(* Data arrives for a write: every block of the command gets the caller's, *)
(* or none does, and the device says which.                                *)
LEMMA DataTaken ==
    ASSUME MassInv, MoreData, cmd.op = "write", TakeData(buffer)
    PROVE  /\ at = "try" /\ call.op = "write"
           /\ dev' \in Device /\ dev'.last = dev.last /\ dev'.stage = "idle"
           /\ medium' \in [0 .. dev.last -> Block]
           /\ ChangesAddressed
           /\ \E p \in Packet :
                 /\ p.kind = "csw" /\ p.tag = tag
                 /\ dev'.queue = Append(dev.queue, p)
                 /\ p.passed => /\ p.residue = cmd.size - cmd.len * BlockSize
                                /\ Blocks(cmd) \subseteq DOMAIN medium'
                                /\ \A k \in 1 .. cmd.len : medium'[cmd.lba + k - 1] = buffer[k]
<1>1. at = "try" /\ cmd = TryCommand(call) /\ Acceptable(call)
  <2>1. at \in Ops \cup {"try"}
    BY DEF MoreData, Running, MassInv, TypeInv
  <2>2. at \in Ops => cmd.op = at
    BY CommandIs DEF MassInv, CallInv
  <2> QED BY <2>1, <2>2 DEF Ops, MassInv, CallInv
<1>2. dev.stage = "data" /\ dev.cmd = cmd /\ dev.tag = tag
  BY <1>1 DEF TakeData, MoreData, MassInv, AnswerInv
<1>3. /\ dev \in Device /\ dev.queue \in Seq(Packet) /\ tag \in Nat /\ dev.last \in Nat
      /\ cmd.size \in Nat /\ cmd.len \in Nat /\ cmd.lba \in Nat
      /\ call \in [op : {"none", "read", "write"}, off : Nat, n : Nat, id : Nat]
      /\ call.id \in Nat /\ call.n \in Nat /\ call.off \in Nat
      /\ medium \in [0 .. dev.last -> Block]
  BY DEF MassInv, TypeInv, Device, CommandBlock
<1>4. /\ cmd.lba = call.off \div BlockSize /\ cmd.len <= call.n \div BlockSize
      /\ call.op = "write"
  BY <1>1, <1>3, CommandExact
<1>5. buffer = Given /\ call.n \div BlockSize \in Nat
  BY <1>3, <1>4 DEF MassInv, CallInv, BlockSize
<1>6. \A k \in 1 .. cmd.len : k \in 1 .. call.n \div BlockSize /\ buffer[k] = <<call.id, k>>
  <2>1. \A k \in 1 .. cmd.len : k \in 1 .. call.n \div BlockSize
    BY <1>3, <1>4, <1>5
  <2> QED BY <1>5, <2>1 DEF Given
<1>7. ASSUME NEW ok \in BOOLEAN,
             dev' = [dev EXCEPT !.stage = "idle",
                       !.queue = Append(@, Status(dev.tag, ok, cmd.size - cmd.len * BlockSize))]
      PROVE  /\ dev' \in Device /\ dev'.last = dev.last /\ dev'.stage = "idle"
             /\ \E p \in Packet :
                   /\ p.kind = "csw" /\ p.tag = tag /\ p.passed = ok
                   /\ dev'.queue = Append(dev.queue, p)
                   /\ p.residue = cmd.size - cmd.len * BlockSize
  <2> DEFINE p == Status(dev.tag, ok, cmd.size - cmd.len * BlockSize)
  <2>1. dev.tag \in Nat /\ cmd.size - cmd.len * BlockSize \in Int
    BY <1>2, <1>3 DEF BlockSize
  <2>2. p \in Packet
    BY <2>1, StatusIs, Zenon
  <2>3. /\ p.kind = "csw" /\ p.tag = tag /\ p.passed = ok
        /\ p.residue = cmd.size - cmd.len * BlockSize
    BY <1>2 DEF Status
  <2> HIDE DEF p
  <2>4. dev' = [dev EXCEPT !.stage = "idle", !.queue = Append(dev.queue, p)]
    BY <1>7 DEF p
  <2>5. Append(dev.queue, p) \in Seq(Packet)
    BY <1>3, <2>2
  <2>6. /\ dev' \in Device /\ dev'.last = dev.last /\ dev'.stage = "idle"
        /\ dev'.queue = Append(dev.queue, p)
    BY <1>3, <2>4, <2>5 DEF Device
  <2> QED BY <2>2, <2>3, <2>6
<1>8. CASE /\ Blocks(cmd) \subseteq DOMAIN medium
           /\ medium' = [b \in DOMAIN medium |->
                            IF b \in Blocks(cmd) THEN buffer[b - cmd.lba + 1] ELSE medium[b]]
           /\ dev' = [dev EXCEPT !.stage = "idle",
                       !.queue = Append(@, Status(dev.tag, TRUE, cmd.size - cmd.len * BlockSize))]
  <2>1. \A b \in Blocks(cmd) : /\ b - cmd.lba + 1 \in 1 .. cmd.len
                               /\ b - cmd.lba + 1 - 1 + cmd.lba = b
    BY <1>3 DEF Blocks
  <2>2. \A b \in Blocks(cmd) : buffer[b - cmd.lba + 1] = <<call.id, b - cmd.lba + 1>>
    BY <1>6, <2>1
  <2>3. medium' \in [0 .. dev.last -> Block]
    <3>1. \A b \in Blocks(cmd) : buffer[b - cmd.lba + 1] \in Block
      <4> TAKE b \in Blocks(cmd)
      <4>1. b - cmd.lba + 1 \in Nat
        BY <1>3, <2>1
      <4>2. <<call.id, b - cmd.lba + 1>> \in Block
        BY <1>3, <4>1 DEF Block
      <4> QED BY <2>2, <4>2
    <3>2. DOMAIN medium = 0 .. dev.last /\ \A b \in DOMAIN medium : medium[b] \in Block
      BY <1>3
    <3> QED BY <1>8, <3>1, <3>2
  <2>4. ChangesAddressed
    <3> SUFFICES ASSUME NEW b \in DOMAIN medium, medium'[b] # medium[b]
                 PROVE  \E k \in DOMAIN Addressed : Addressed[k] = b /\ medium'[b] = <<call.id, k>>
      BY DEF ChangesAddressed
    <3> DEFINE j == b - cmd.lba + 1
    <3>1. b \in Blocks(cmd) /\ medium'[b] = <<call.id, j>>
      BY <1>8, <2>2
    <3>2. j \in 1 .. call.n \div BlockSize /\ cmd.lba + j - 1 = b
      <4>1. b \in Nat /\ j \in 1 .. cmd.len
        BY <1>3, <2>1, <3>1
      <4> QED BY <1>3, <1>6, <4>1
    <3>3. j \in DOMAIN Addressed /\ Addressed[j] = b
      BY <1>4, <3>2 DEF Addressed
    <3> QED BY <3>1, <3>3
  <2>5. \A k \in 1 .. cmd.len : medium'[cmd.lba + k - 1] = buffer[k]
    <3> TAKE k \in 1 .. cmd.len
    <3> DEFINE b == cmd.lba + k - 1
    <3>1. b \in Blocks(cmd) /\ b - cmd.lba + 1 = k
      BY <1>3 DEF Blocks
    <3> HIDE DEF b
    <3>2. medium'[b] = buffer[b - cmd.lba + 1]
      BY <1>8, <3>1
    <3> QED BY <3>1, <3>2 DEF b
  <2>6. DOMAIN medium' = DOMAIN medium
    BY <1>8
  <2>7. TRUE \in BOOLEAN
    OBVIOUS
  <2>8. /\ dev' \in Device /\ dev'.last = dev.last /\ dev'.stage = "idle"
        /\ \E p \in Packet :
              /\ p.kind = "csw" /\ p.tag = tag
              /\ dev'.queue = Append(dev.queue, p)
              /\ p.residue = cmd.size - cmd.len * BlockSize
    BY <1>7, <1>8, <2>7, Zenon
  <2> QED BY <1>1, <1>4, <1>8, <2>3, <2>4, <2>5, <2>6, <2>8
<1>9. CASE /\ medium' = medium
           /\ dev' = [dev EXCEPT !.stage = "idle",
                       !.queue = Append(@, Status(dev.tag, FALSE, cmd.size - cmd.len * BlockSize))]
  <2>1. FALSE \in BOOLEAN
    OBVIOUS
  <2>2. /\ dev' \in Device /\ dev'.last = dev.last /\ dev'.stage = "idle"
        /\ \E p \in Packet :
              /\ p.kind = "csw" /\ p.tag = tag /\ p.passed = FALSE
              /\ dev'.queue = Append(dev.queue, p)
    BY <1>7, <1>9, <2>1, Zenon
  <2>3. ChangesAddressed
    BY <1>9 DEF ChangesAddressed
  <2> QED BY <1>1, <1>3, <1>4, <1>9, <2>2, <2>3
<1> QED BY <1>2, <1>8, <1>9 DEF TakeData

-----------------------------------------------------------------------------
(* What a command returns to.                                              *)

(* A command that returns starts no try, and the call succeeds only with a *)
(* try that did not fail and moved what was asked for.                     *)
LEMMA ReturnsTo ==
    ASSUME MassInv, Running, NEW none \in BOOLEAN, NEW r, Return(none, r)
    PROVE  /\ call' = call
           /\ at' \in Ops \cup {"reset", "idle", "off"}
           /\ at' \in Ops => cmd' = Command(at') /\ step' = "cbw" /\ call.op = "none"
           /\ at' \notin Ops => cmd' = cmd /\ step' = step
           /\ at' = "reset" => call.op # "none"
           /\ result' \in BOOLEAN
           /\ at' = "idle" /\ call.op # "none" => at = "try" /\ ~none
<1>1. at \in Ops \cup {"try"}
  BY DEF MassInv, TypeInv, Running
<1>2. /\ at \in Ops => call.op = "none"
      /\ at = "try" => call.op # "none"
      /\ result \in BOOLEAN
  BY DEF MassInv, CallInv, TypeInv
<1>3. CASE at = "inquiry"
  <2>1. /\ call' = call /\ result' = result
        /\ \/ Begin("ready", Command("ready"))
           \/ Rest("off")
    BY <1>3 DEF Return
  <2> QED BY <1>2, <1>3, <2>1 DEF Begin, Rest, Ops
<1>4. CASE at = "ready"
  <2>1. /\ call' = call /\ result' = result
        /\ \/ Begin("sense", Command("sense"))
           \/ Begin("capacity", Command("capacity"))
    BY <1>4 DEF Return, caller
  <2> QED BY <1>2, <1>4, <2>1 DEF Begin, Ops
<1>5. CASE at = "sense"
  <2>1. /\ call' = call /\ result' = result
        /\ \/ Begin("ready", Command("ready"))
           \/ Rest("off")
    BY <1>5 DEF Return
  <2> QED BY <1>2, <1>5, <2>1 DEF Begin, Rest, Ops
<1>6. CASE at = "capacity"
  <2>1. /\ call' = call /\ result' = result
        /\ Rest("idle") \/ Rest("off")
    BY <1>6 DEF Return, Capacity
  <2> QED BY <1>2, <1>6, <2>1 DEF Rest, Ops
<1>7. CASE at = "try"
  <2>1. CASE ~none /\ (call.op = "read" => r = call.n)
    <3>1. call' = call /\ result' = TRUE /\ Rest("idle")
      BY <1>7, <2>1 DEF Return
    <3> QED BY <1>2, <1>7, <2>1, <3>1 DEF Rest, Ops
  <2>2. CASE ~(~none /\ (call.op = "read" => r = call.n))
    <3>1. call' = call /\ result' = result /\ Rest("reset")
      BY <1>7, <2>2 DEF Return
    <3> QED BY <1>2, <1>7, <3>1 DEF Rest, Ops
  <2> QED BY <2>1, <2>2
<1> QED BY <1>1, <1>3, <1>4, <1>5, <1>6, <1>7 DEF Ops

(* So a return keeps the invariant if the device does, and if what a       *)
(* successful call promises holds.                                         *)
LEMMA ReturnKeeps ==
    ASSUME MassInv, Running, NEW none \in BOOLEAN, NEW r, Return(none, r),
           tag' \in Nat, buffer' = buffer,
           dev' \in Device, medium' \in [0 .. dev'.last -> Block], TagInv',
           at = "try" /\ ~none => TransfersRight'
    PROVE  MassInv'
<1>1. /\ call' = call
      /\ at' \in Ops \cup {"reset", "idle", "off"}
      /\ at' \in Ops => cmd' = Command(at') /\ step' = "cbw" /\ call.op = "none"
      /\ at' \notin Ops => cmd' = cmd /\ step' = step
      /\ at' = "reset" => call.op # "none"
      /\ result' \in BOOLEAN
      /\ at' = "idle" /\ call.op # "none" => at = "try" /\ ~none
  BY ReturnsTo
<1>2. at' # "try"
  BY <1>1 DEF Ops
<1>3. TypeInv'
  <2>1. cmd' \in CommandBlock /\ step' \in {"cbw", "data", "csw"}
    <3>1. CASE at' \in Ops
      BY <1>1, <3>1, CommandIs
    <3>2. CASE at' \notin Ops
      BY <1>1, <3>2 DEF MassInv, TypeInv
    <3> QED BY <3>1, <3>2
  <2> QED BY <1>1, <2>1 DEF MassInv, TypeInv
<1>4. CallInv'
  <2>1. Running' => at' \in Ops
    BY <1>1 DEF Running
  <2>2. call'.op = "write" => buffer' = Given'
    BY <1>1 DEF MassInv, CallInv, Given
  <2>3. call'.op = "read" /\ call'.n = 0 => buffer' = <<>>
    BY <1>1 DEF MassInv, CallInv
  <2> QED BY <1>1, <1>2, <2>1, <2>2, <2>3 DEF CallInv
<1>5. AnswerInv'
  BY <1>2 DEF AnswerInv
<1>6. TransfersRight'
  <2>1. CASE at' = "idle" /\ call.op # "none"
    BY <1>1, <2>1
  <2>2. CASE ~(at' = "idle" /\ call.op # "none")
    <3>1. ~(at' = "idle" /\ call'.op = "read" /\ result')
          /\ ~(at' = "idle" /\ call'.op = "write" /\ result')
      BY <1>1, <2>2
    <3> QED BY <3>1 DEF TransfersRight, ReadRight, WriteRight, Returned
  <2> QED BY <2>1, <2>2
<1> QED BY <1>3, <1>4, <1>5, <1>6 DEF MassInv

-----------------------------------------------------------------------------
(* Each step keeps the invariant.                                          *)

LEMMA InitInv ==
    ASSUME Init
    PROVE  MassInv
<1>1. /\ dev.stage = "idle" /\ dev.queue = <<>> /\ dev.last \in Nat
      /\ dev \in [stage : {"idle"}, queue : {<<>>}, cmd : {Command("ready")}, tag : {0},
                  type : DeviceTypes, last : Lasts, size : BlockSizes]
  BY MassConstants DEF Init
<1>2. Command("ready") \in CommandBlock /\ Command("inquiry") \in CommandBlock
  BY CommandIs DEF Ops
<1>3. dev \in Device
  <2>1. <<>> \in Seq(Packet)
    OBVIOUS
  <2>2. /\ dev = [stage |-> "idle", queue |-> <<>>, cmd |-> Command("ready"), tag |-> 0,
                  type |-> dev.type, last |-> dev.last, size |-> dev.size]
        /\ dev.type \in Nat /\ dev.size \in BlockSizes
    BY <1>1, MassConstants
  <2>3. ASSUME NEW type \in Nat, NEW last \in Nat, NEW size \in BlockSizes, NEW c \in CommandBlock
        PROVE  [stage |-> "idle", queue |-> <<>>, cmd |-> c, tag |-> 0,
                type |-> type, last |-> last, size |-> size] \in Device
    BY <2>1 DEF Device
  <2>4. [stage |-> "idle", queue |-> <<>>, cmd |-> Command("ready"), tag |-> 0,
         type |-> dev.type, last |-> dev.last, size |-> dev.size] \in Device
    BY <1>1, <1>2, <2>2, <2>3
  <2> QED BY <2>2, <2>4, Zenon
<1>4. medium \in [0 .. dev.last -> Block]
  <2>1. medium = [b \in 0 .. dev.last |-> <<0, b>>]
    BY DEF Init
  <2>2. \A b \in 0 .. dev.last : <<0, b>> \in Block
    BY <1>1 DEF Block
  <2> QED BY <2>1, <2>2
<1>5. TypeInv
  <2>1. NoCall \in [op : {"none", "read", "write"}, off : Nat, n : Nat, id : Nat]
    BY DEF NoCall
  <2>2. <<>> \in Contents
    BY DEF Contents
  <2> QED BY <1>2, <1>3, <1>4, <2>1, <2>2 DEF Init, TypeInv, Ops
<1>6. CallInv
  BY DEF Init, CallInv, Ops, NoCall, Running
<1>7. TagInv
  BY <1>1 DEF TagInv
<1>8. AnswerInv /\ TransfersRight
  BY DEF Init, AnswerInv, TransfersRight, ReadRight, WriteRight, Returned
<1> QED BY <1>5, <1>6, <1>7, <1>8 DEF MassInv

LEMMA SendCommandKeeps ==
    ASSUME MassInv, SendCommand
    PROVE  MassInv'
<1>1. /\ at' = at /\ cmd' = cmd /\ call' = call /\ buffer' = buffer /\ result' = result
      /\ tag' = tag + 1 /\ TakeCommand(cmd, tag + 1)
      /\ step' = IF cmd.size > 0 THEN "data" ELSE "csw"
  BY DEF SendCommand, caller
<1>2. /\ TypeInv /\ CallInv /\ TagInv /\ TransfersRight
      /\ cmd \in CommandBlock /\ tag \in Nat /\ tag + 1 \in Nat /\ cmd.size \in Nat
      /\ dev.queue \in Seq(Packet) /\ at \notin {"idle", "off", "reset"}
  BY DEF MassInv, TypeInv, Device, SendCommand, Running, CommandBlock
<1>3. dev' \in Device /\ medium' = medium /\ dev'.last = dev.last
  BY <1>1, <1>2, CommandTaken
<1>4. TypeInv'
  BY <1>1, <1>2, <1>3 DEF TypeInv
<1>5. CallInv'
  BY <1>1, <1>2 DEF CallInv, Given, Running
<1>6. TagInv'
  BY <1>1, <1>2, CommandTags
<1>7. TransfersRight'
  BY <1>1, <1>2 DEF TransfersRight, ReadRight, WriteRight, Returned
<1>8. AnswerInv'
  <2> SUFFICES ASSUME at = "try"
               PROVE  AnswerInv'
    BY <1>1 DEF AnswerInv
  <2>1. \A i \in 1 .. Len(dev.queue) : dev.queue[i].kind = "csw" => dev.queue[i].tag # tag'
    <3> SUFFICES ASSUME NEW i \in 1 .. Len(dev.queue), dev.queue[i].kind = "csw"
                 PROVE  dev.queue[i].tag # tag'
      OBVIOUS
    <3>1. dev.queue[i] \in Packet
      BY <1>2
    <3>2. dev.queue[i].tag \in Nat /\ dev.queue[i].tag <= tag
      BY <1>2, <3>1 DEF Packet, TagInv
    <3> QED BY <1>1, <1>2, <3>2
  <2>2. CASE cmd.size > 0 /\ dev'.queue = dev.queue /\ dev'.cmd = cmd /\ dev'.tag = tag' /\ cmd.op = "write"
    <3>1. (\A i \in 1 .. Len(dev.queue) : ~Good(dev.queue[i]))'
      BY <2>1, <2>2 DEF Good
    <3> QED BY <1>1, <2>2, <3>1 DEF AnswerInv
  <2>3. CASE ~(cmd.size > 0) /\ dev'.stage = "idle"
    BY <1>1, <2>3 DEF AnswerInv
  <2>4. ASSUME NEW a \in Answers(cmd, tag + 1), dev'.queue = dev.queue \o a,
               cmd.size > 0, cmd.op # "write", dev'.stage = "idle"
        PROVE  AnswerInv'
    <3>1. cmd.op = "read"
      BY <1>2, <2>4 DEF CallInv, TryCommand, TypeInv
    <3>2. a \in Seq(Packet) /\ ReadAnswer(cmd, a)
      BY <1>2, <2>4, <3>1, AnswersAre
    <3>3. \A i \in 1 .. Len(dev'.queue) :
             \/ i \in 1 .. Len(dev.queue) /\ dev'.queue[i] = dev.queue[i]
             \/ i - Len(dev.queue) \in 1 .. Len(a) /\ dev'.queue[i] = a[i - Len(dev.queue)]
      BY <1>2, <2>4, <3>2
    <3>4. /\ Len(dev.queue) \in Nat /\ Len(a) \in {1, 2}
          /\ Len(dev'.queue) = Len(dev.queue) + Len(a)
      BY <1>2, <2>4, <3>2 DEF ReadAnswer
    <3>5. ~(a[1].kind = "csw" /\ a[1].passed)
      BY <3>2 DEF ReadAnswer
    <3>6. ~Good(dev.queue[1])'
      <4>1. \/ dev'.queue[1] = dev.queue[1] /\ 1 \in 1 .. Len(dev.queue)
            \/ dev'.queue[1] = a[1]
        BY <3>3, <3>4
      <4> QED BY <2>1, <3>5, <4>1 DEF Good
    <3>7. ASSUME Len(dev'.queue) >= 2, Good(dev.queue[2])'
          PROVE  /\ dev'.queue[1].kind = "data" /\ dev'.queue[1].val = Named(cmd)'
                 /\ Told(dev.queue[2])'
      <4>1. dev'.queue[2].kind = "csw" /\ dev'.queue[2].passed /\ dev'.queue[2].tag = tag'
        BY <3>7 DEF Good
      <4>2. ~(2 \in 1 .. Len(dev.queue) /\ dev'.queue[2] = dev.queue[2])
        BY <2>1, <4>1
      <4>3. 2 - Len(dev.queue) \in 1 .. Len(a) /\ dev'.queue[2] = a[2 - Len(dev.queue)]
        BY <3>3, <3>4, <3>7, <4>2
      <4>4. 2 - Len(dev.queue) # 1
        BY <3>5, <4>1, <4>3
      <4>5. Len(dev.queue) = 0 /\ Len(a) = 2
        BY <3>4, <4>3, <4>4
      <4>6. dev'.queue[1] = a[1] /\ dev'.queue[2] = a[2]
        BY <3>3, <3>4, <4>3, <4>5
      <4>7. /\ a[1].kind = "data" /\ a[1].val = Named(cmd)
            /\ a[2].residue = cmd.size - cmd.len * BlockSize
            /\ Blocks(cmd) \subseteq DOMAIN medium
        BY <3>2, <4>5 DEF ReadAnswer
      <4> QED BY <1>1, <1>3, <4>6, <4>7 DEF Named, Told, Blocks
    <3> QED BY <1>1, <2>4, <3>1, <3>6, <3>7 DEF AnswerInv
  <2>5. ASSUME NEW p \in Packet, p.kind = "csw", p.tag = dev.tag, dev.stage = "data",
               dev'.queue = Append(dev.queue, p), dev'.stage = "idle"
        PROVE  AnswerInv'
    <3>1. p.tag # tag'
      <4>1. dev.tag <= tag /\ dev.tag \in Nat
        BY <1>2, <2>5 DEF TagInv, TypeInv, Device
      <4> QED BY <1>1, <1>2, <2>5, <4>1
    <3>2. \A i \in 1 .. Len(dev'.queue) :
             \/ i \in 1 .. Len(dev.queue) /\ dev'.queue[i] = dev.queue[i]
             \/ dev'.queue[i] = p
      BY <1>2, <2>5
    <3>3. (\A i \in 1 .. Len(dev.queue) : ~Good(dev.queue[i]))'
      BY <2>1, <2>5, <3>1, <3>2 DEF Good
    <3>4. /\ dev'.queue \in Seq(Packet)
          /\ 1 \in 1 .. Len(dev'.queue)
          /\ Len(dev'.queue) >= 2 => 2 \in 1 .. Len(dev'.queue)
      BY <1>2, <2>5
    <3>5. /\ ~Good(dev.queue[1])'
          /\ Len(dev'.queue) >= 2 => ~Good(dev.queue[2])'
      BY <3>3, <3>4
    <3> QED BY <2>5, <3>3, <3>5 DEF AnswerInv
  <2>6. \/ /\ cmd.op = "write" /\ cmd.size > 0
           /\ dev'.cmd = cmd /\ dev'.tag = tag' /\ dev'.queue = dev.queue
        \/ /\ ~(cmd.op = "write" /\ cmd.size > 0) /\ dev'.stage = "idle"
           /\ \E a \in Answers(cmd, tag + 1) : dev'.queue = dev.queue \o a
        \/ /\ dev.stage = "data" /\ dev'.stage = "idle"
           /\ \E p \in Packet : /\ p.kind = "csw" /\ p.tag = dev.tag
                               /\ dev'.queue = Append(dev.queue, p)
    BY <1>1, <1>2, CommandTaken
  <2> QED BY <2>2, <2>3, <2>4, <2>5, <2>6
<1> QED BY <1>4, <1>5, <1>6, <1>7, <1>8 DEF MassInv

LEMMA SendDataKeeps ==
    ASSUME MassInv, SendData
    PROVE  MassInv' /\ ChangesAddressed
<1>1. /\ at' = at /\ cmd' = cmd /\ call' = call /\ buffer' = buffer /\ result' = result
      /\ tag' = tag /\ step' = "csw" /\ step = "data"
      /\ MoreData /\ cmd.op = "write" /\ TakeData(buffer)
  BY DEF SendData, caller, MoreData
<1>2. /\ TypeInv /\ CallInv /\ TagInv /\ AnswerInv
      /\ dev.queue \in Seq(Packet) /\ at \notin {"idle", "off", "reset"} /\ tag \in Nat
  BY <1>1 DEF MassInv, TypeInv, Device, MoreData, Running
<1>3. /\ at = "try" /\ call.op = "write"
      /\ dev' \in Device /\ dev'.last = dev.last /\ dev'.stage = "idle"
      /\ medium' \in [0 .. dev.last -> Block]
      /\ ChangesAddressed
  BY <1>1, DataTaken
<1>4. PICK p \in Packet :
         /\ p.kind = "csw" /\ p.tag = tag
         /\ dev'.queue = Append(dev.queue, p)
         /\ p.passed => /\ p.residue = cmd.size - cmd.len * BlockSize
                        /\ Blocks(cmd) \subseteq DOMAIN medium'
                        /\ \A k \in 1 .. cmd.len : medium'[cmd.lba + k - 1] = buffer[k]
  BY <1>1, DataTaken
<1>5. TypeInv'
  BY <1>1, <1>2, <1>3 DEF TypeInv
<1>6. CallInv'
  BY <1>1, <1>2 DEF CallInv, Given, Running
<1>7. \A i \in 1 .. Len(dev'.queue) :
         \/ i \in 1 .. Len(dev.queue) /\ dev'.queue[i] = dev.queue[i]
         \/ dev'.queue[i] = p
  BY <1>2, <1>4
<1>8. TagInv'
  <2>1. p.tag <= tag'
    BY <1>1, <1>2, <1>4
  <2> QED BY <1>1, <1>2, <1>3, <1>7, <2>1 DEF TagInv
<1>9. TransfersRight'
  BY <1>1, <1>2 DEF TransfersRight, ReadRight, WriteRight, Returned
<1>10. AnswerInv'
  <2>1. \A i \in 1 .. Len(dev.queue) : ~Good(dev.queue[i])
    BY <1>1, <1>2, <1>3 DEF AnswerInv
  <2>2. ASSUME Good(dev.queue[1])'
        PROVE  /\ Told(dev.queue[1])'
               /\ \A k \in 1 .. cmd.len : medium'[cmd.lba + k - 1] = buffer[k]
    <3>1. 1 \in 1 .. Len(dev'.queue)
      BY <1>2, <1>4
    <3>2. /\ dev'.queue[1].kind = "csw" /\ dev'.queue[1].passed
          /\ dev'.queue[1].tag = tag
      BY <1>1, <2>2 DEF Good
    <3>3. dev'.queue[1] = p
      BY <1>7, <2>1, <3>1, <3>2 DEF Good
    <3> QED BY <1>1, <1>4, <3>2, <3>3 DEF Told, Blocks
  <2> QED BY <1>1, <2>2 DEF AnswerInv
<1> QED BY <1>3, <1>5, <1>6, <1>8, <1>9, <1>10 DEF MassInv

(* What is received for a read is its blocks if a good status is next.     *)
LEMMA ReceiveDataKeeps ==
    ASSUME MassInv, ReceiveData
    PROVE  MassInv'
<1> DEFINE p == dev.queue[1]
<1>1. /\ at' = at /\ cmd' = cmd /\ call' = call /\ result' = result
      /\ tag' = tag /\ step' = "csw" /\ step = "data" /\ Running
      /\ cmd.op # "write" /\ dev.queue # <<>> /\ Fetch
      /\ buffer' = IF p.kind = "data" THEN p.val ELSE <<>>
  BY DEF ReceiveData, caller, MoreData
<1>2. /\ TypeInv /\ CallInv /\ TagInv /\ AnswerInv
      /\ dev.queue \in Seq(Packet) /\ at \notin {"idle", "off", "reset"}
      /\ at \in Ops \cup {"try"}
  BY <1>1 DEF MassInv, TypeInv, Device, Running
<1>3. /\ dev' \in Device /\ medium' = medium
      /\ dev'.last = dev.last
      /\ Len(dev.queue) \in Nat \ {0}
      /\ Len(dev'.queue) = Len(dev.queue) - 1
      /\ \A i \in 1 .. Len(dev'.queue) : dev'.queue[i] = dev.queue[i + 1]
  BY <1>1, <1>2, Fetched
<1>4. buffer' \in Contents
  <2>1. p \in Packet
    BY <1>2, <1>3
  <2>2. p.kind = "data" => p.val \in Contents
    BY <2>1 DEF Packet
  <2>3. <<>> \in Contents
    BY DEF Contents
  <2> QED BY <1>1, <2>2, <2>3
<1>5. TypeInv'
  BY <1>1, <1>2, <1>3, <1>4 DEF TypeInv
<1>6. call.op # "write" /\ ~(call.op = "read" /\ call.n = 0)
  <2>1. CASE at \in Ops
    BY <1>2, <2>1 DEF CallInv
  <2>2. CASE at = "try"
    <3>1. cmd.op = call.op /\ cmd.size = call.n /\ cmd.size > 0
      BY <1>1, <1>2, <2>2 DEF CallInv, TryCommand
    <3> QED BY <1>1, <3>1
  <2> QED BY <1>2, <2>1, <2>2
<1>7. CallInv'
  BY <1>1, <1>2, <1>6 DEF CallInv, Running
<1>8. TagInv'
  BY <1>1, <1>2, FetchTags
<1>9. TransfersRight'
  BY <1>1, <1>2 DEF TransfersRight, ReadRight, WriteRight, Returned
<1>10. AnswerInv'
  <2> SUFFICES ASSUME at = "try", dev'.queue # <<>>, Good(dev.queue[1])'
               PROVE  Told(dev.queue[1])' /\ buffer' = Named(cmd)'
    BY <1>1 DEF AnswerInv
  <2>1. cmd.op = "read"
    BY <1>1, <1>2 DEF CallInv, TryCommand, TypeInv
  <2>2. Len(dev.queue) >= 2 /\ dev'.queue[1] = dev.queue[2]
    <3>1. dev'.queue \in Seq(Packet)
      BY <1>3 DEF Device
    <3>2. 1 \in 1 .. Len(dev'.queue)
      BY <3>1
    <3> QED BY <1>3, <3>2
  <2>3. Good(dev.queue[2])
    BY <1>1, <2>2 DEF Good
  <2>4. p.kind = "data" /\ p.val = Named(cmd) /\ Told(dev.queue[2])
    BY <1>1, <1>2, <2>1, <2>2, <2>3 DEF AnswerInv
  <2> QED BY <1>1, <1>3, <2>2, <2>4 DEF Told, Named, Blocks
<1> QED BY <1>5, <1>7, <1>8, <1>9, <1>10 DEF MassInv

(* A status of the last command with nothing left over means that the call *)
(* got what it asked for.                                                  *)
LEMMA ReceiveStatusKeeps ==
    ASSUME MassInv, ReceiveStatus
    PROVE  MassInv'
<1> DEFINE p == dev.queue[1]
<1>1. /\ Running /\ step = "csw" /\ dev.queue # <<>> /\ Fetch
      /\ Return(~Matches(p), got)
      /\ tag' = tag /\ buffer' = buffer
  BY DEF ReceiveStatus
<1>2. /\ TypeInv /\ CallInv /\ TagInv /\ AnswerInv /\ tag \in Nat
      /\ medium \in [0 .. dev.last -> Block]
      /\ call \in [op : {"none", "read", "write"}, off : Nat, n : Nat, id : Nat]
      /\ call.n \in Nat /\ call.off \in Nat
  BY DEF MassInv, TypeInv
<1>3. dev' \in Device /\ medium' = medium /\ dev'.last = dev.last
  BY <1>1, <1>2, Fetched
<1>4. TagInv'
  BY <1>1, <1>2, FetchTags
<1>5. (~Matches(p)) \in BOOLEAN
  BY DEF Matches
<1>6. call' = call
  BY <1>1, <1>5, ReturnsTo
<1>7. ASSUME at = "try", Matches(p)
      PROVE  TransfersRight'
  <2> DEFINE n == call.n \div BlockSize
             b == call.off \div BlockSize
  <2>1. /\ cmd = TryCommand(call) /\ Acceptable(call)
        /\ p.kind = "csw" /\ p.tag = tag /\ p.passed /\ p.residue = 0
    BY <1>2, <1>7 DEF CallInv, Matches
  <2>2. /\ cmd.lba = b /\ cmd.size = call.n /\ cmd.op = call.op
        /\ call.n - cmd.len * BlockSize = 0 => cmd.len = n
    BY <1>2, <2>1, CommandExact
  <2>3. n \in Nat /\ b \in Nat
    BY <1>2 DEF BlockSize
  <2>4. /\ DOMAIN Addressed = 1 .. n
        /\ \A k \in 1 .. n : Addressed[k] = b + k - 1
    BY DEF Addressed
  <2>5. CASE cmd.size > 0
    <3>1. /\ Told(p)
          /\ cmd.op = "read" => buffer = Named(cmd)
          /\ cmd.op = "write" => \A k \in 1 .. cmd.len : medium[cmd.lba + k - 1] = buffer[k]
      BY <1>1, <1>2, <1>7, <2>1, <2>5 DEF AnswerInv, Good
    <3>2. cmd.len = n /\ Blocks(cmd) \subseteq DOMAIN medium
      BY <2>1, <2>2, <3>1 DEF Told
    <3>3. \A k \in 1 .. n : b + k - 1 \in DOMAIN medium
      BY <2>2, <2>3, <3>2 DEF Blocks
    <3>4. call.op = "read" => buffer = [k \in 1 .. n |-> medium[b + k - 1]]
      BY <2>2, <3>1, <3>2 DEF Named
    <3>5. call.op = "write" => \A k \in 1 .. n : medium[b + k - 1] = <<call.id, k>>
      BY <1>2, <2>2, <3>1, <3>2 DEF CallInv, Given
    <3> HIDE DEF n, b
    <3>6. call.op = "read" => buffer = [k \in DOMAIN Addressed |-> medium[Addressed[k]]]
      BY <2>4, <3>4
    <3>7. /\ \A k \in DOMAIN Addressed : Addressed[k] \in DOMAIN medium
          /\ call.op = "write" => \A k \in DOMAIN Addressed : medium[Addressed[k]] = <<call.id, k>>
      BY <2>4, <3>3, <3>5
    <3>8. Addressed' = Addressed
      BY <1>6 DEF Addressed
    <3> QED BY <1>1, <1>3, <1>6, <3>6, <3>7, <3>8 DEF TransfersRight, ReadRight, WriteRight, Returned
  <2>6. CASE ~(cmd.size > 0)
    <3>1. call.n = 0
      BY <1>2, <2>2, <2>6
    <3>2. DOMAIN Addressed = {}
      BY <3>1 DEF Addressed, BlockSize
    <3>3. call.op = "read" => buffer = <<>>
      BY <1>2, <3>1 DEF CallInv
    <3>4. Addressed' = Addressed
      BY <1>6 DEF Addressed
    <3>5. [k \in DOMAIN Addressed |-> medium[Addressed[k]]] = <<>>
      <4>1. \A S : S = {} => [k \in S |-> medium[Addressed[k]]] = <<>>
        OBVIOUS
      <4> QED BY <3>2, <4>1
    <3> QED BY <1>1, <1>3, <1>6, <3>2, <3>3, <3>4, <3>5 DEF TransfersRight, ReadRight, WriteRight, Returned
  <2> QED BY <2>5, <2>6
<1>8. at = "try" /\ ~(~Matches(p)) => TransfersRight'
  BY <1>7
<1> HIDE DEF p
<1> QED BY <1>1, <1>2, <1>3, <1>4, <1>5, <1>8, ReturnKeeps

(* Whatever fails, the call does not succeed with it.                      *)
LEMMA FailKeeps ==
    ASSUME MassInv, Running, Fail, tag' \in Nat, buffer' = buffer,
           dev' \in Device, medium' \in [0 .. dev'.last -> Block], TagInv'
    PROVE  MassInv'
<1>1. Return(TRUE, 0) /\ TRUE \in BOOLEAN
  BY DEF Fail
<1>2. at = "try" /\ ~TRUE => TransfersRight'
  OBVIOUS
<1> QED BY <1>1, <1>2, ReturnKeeps

LEMMA SendFailsKeeps ==
    ASSUME MassInv, SendFails
    PROVE  MassInv' /\ medium' = medium
<1>1. /\ Running /\ Fail /\ tag' = tag + 1 /\ buffer' = buffer
      /\ TakeCommand(cmd, tag + 1) \/ (dev' = dev /\ medium' = medium)
  BY DEF SendFails
<1>2. /\ TypeInv /\ TagInv /\ tag \in Nat /\ cmd \in CommandBlock /\ tag + 1 \in Nat
      /\ dev \in Device /\ dev.queue \in Seq(Packet) /\ dev.tag \in Nat
      /\ medium \in [0 .. dev.last -> Block]
  BY DEF MassInv, TypeInv, Device
<1>3. CASE TakeCommand(cmd, tag + 1)
  <2>1. dev' \in Device /\ medium' = medium /\ dev'.last = dev.last
    BY <1>2, <1>3, CommandTaken
  <2>2. TagInv'
    BY <1>1, <1>2, <1>3, CommandTags
  <2> QED BY <1>1, <1>2, <2>1, <2>2, FailKeeps
<1>4. CASE dev' = dev /\ medium' = medium
  <2>1. TagInv'
    <3>1. \A i \in 1 .. Len(dev.queue) : dev.queue[i] \in Packet
      BY <1>2
    <3>2. \A i \in 1 .. Len(dev.queue) : dev.queue[i].kind = "csw" => dev.queue[i].tag \in Nat
      BY <3>1 DEF Packet
    <3> QED BY <1>1, <1>2, <1>4, <3>2 DEF TagInv
  <2> QED BY <1>1, <1>2, <1>4, <2>1, FailKeeps
<1> QED BY <1>1, <1>3, <1>4

LEMMA DataFailsKeeps ==
    ASSUME MassInv, DataFails
    PROVE  MassInv' /\ ChangesAddressed
<1>1. /\ Running /\ MoreData /\ Fail /\ tag' = tag /\ buffer' = buffer
      /\ \/ cmd.op = "write" /\ TakeData(buffer)
         \/ dev' = dev /\ medium' = medium
         \/ dev.queue # <<>> /\ Fetch
         \/ Stall
  BY DEF DataFails, MoreData
<1>2. /\ TypeInv /\ TagInv /\ tag \in Nat
      /\ dev \in Device /\ dev.queue \in Seq(Packet)
      /\ medium \in [0 .. dev.last -> Block]
  BY DEF MassInv, TypeInv, Device
<1>3. medium' = medium => ChangesAddressed
  BY DEF ChangesAddressed
<1>4. CASE cmd.op = "write" /\ TakeData(buffer)
  <2>1. /\ dev' \in Device /\ dev'.last = dev.last /\ dev'.stage = "idle"
        /\ medium' \in [0 .. dev.last -> Block] /\ ChangesAddressed
        /\ \E p \in Packet : /\ p.kind = "csw" /\ p.tag = tag
                            /\ dev'.queue = Append(dev.queue, p)
    BY <1>1, <1>4, DataTaken
  <2>2. PICK p \in Packet : p.tag = tag /\ dev'.queue = Append(dev.queue, p)
    BY <2>1
  <2>3. \A i \in 1 .. Len(dev'.queue) :
           \/ i \in 1 .. Len(dev.queue) /\ dev'.queue[i] = dev.queue[i]
           \/ dev'.queue[i] = p
    BY <1>2, <2>2
  <2>4. TagInv'
    <3>1. p.tag <= tag'
      BY <1>1, <1>2, <2>2
    <3> QED BY <1>1, <1>2, <2>1, <2>3, <3>1 DEF TagInv
  <2> QED BY <1>1, <1>2, <2>1, <2>4, FailKeeps
<1>5. CASE dev' = dev /\ medium' = medium
  <2>1. TagInv'
    BY <1>1, <1>2, <1>5 DEF TagInv
  <2> QED BY <1>1, <1>2, <1>3, <1>5, <2>1, FailKeeps
<1>6. CASE dev.queue # <<>> /\ Fetch
  <2>1. dev' \in Device /\ medium' = medium /\ dev'.last = dev.last
    BY <1>2, <1>6, Fetched
  <2>2. TagInv'
    BY <1>1, <1>2, <1>6, FetchTags
  <2> QED BY <1>1, <1>2, <1>3, <2>1, <2>2, FailKeeps
<1>7. CASE Stall
  <2>1. /\ dev' \in Device /\ dev'.last = dev.last /\ dev'.queue = dev.queue
        /\ dev'.stage = "stalled" /\ medium' = medium
    BY <1>2, <1>7 DEF Stall, Device
  <2>2. TagInv'
    BY <1>1, <1>2, <2>1 DEF TagInv
  <2> QED BY <1>1, <1>2, <1>3, <2>1, <2>2, FailKeeps
<1> QED BY <1>1, <1>4, <1>5, <1>6, <1>7

LEMMA StatusFailsKeeps ==
    ASSUME MassInv, StatusFails
    PROVE  MassInv' /\ medium' = medium
<1>1. /\ Running /\ Fail /\ tag' = tag /\ buffer' = buffer
      /\ (dev.queue # <<>> /\ Fetch) \/ (dev' = dev /\ medium' = medium)
  BY DEF StatusFails
<1>2. /\ TypeInv /\ TagInv /\ tag \in Nat /\ dev \in Device
      /\ medium \in [0 .. dev.last -> Block]
  BY DEF MassInv, TypeInv
<1>3. CASE dev.queue # <<>> /\ Fetch
  <2>1. dev' \in Device /\ medium' = medium /\ dev'.last = dev.last
    BY <1>2, <1>3, Fetched
  <2>2. TagInv'
    BY <1>1, <1>2, <1>3, FetchTags
  <2> QED BY <1>1, <1>2, <2>1, <2>2, FailKeeps
<1>4. CASE dev' = dev /\ medium' = medium
  <2>1. TagInv'
    BY <1>1, <1>2, <1>4 DEF TagInv
  <2> QED BY <1>1, <1>2, <1>4, <2>1, FailKeeps
<1> QED BY <1>1, <1>3, <1>4

(* TryRead or TryWrite.                                                    *)
LEMMA TryStarts ==
    ASSUME NEW c \in [op : {"read", "write"}, off : Nat, n : Nat, id : Nat], Try(c)
    PROVE  /\ at' \in {"try", "reset"}
           /\ at' = "try" => /\ cmd' = TryCommand(c) /\ cmd' \in CommandBlock
                             /\ Acceptable(c) /\ step' = "cbw"
           /\ at' = "reset" => cmd' = cmd /\ step' = step
<1>1. CASE Acceptable(c)
  <2>1. at' = "try" /\ step' = "cbw" /\ cmd' = TryCommand(c)
    BY <1>1 DEF Try, Begin
  <2>2. c \in [op : {"none", "read", "write"}, off : Nat, n : Nat, id : Nat]
    OBVIOUS
  <2>3. TryCommand(c).lba \in Nat /\ TryCommand(c).len \in Nat
    BY <1>1, <2>2, CommandExact
  <2>4. TryCommand(c) \in CommandBlock
    BY <2>3 DEF TryCommand, CommandBlock
  <2> QED BY <1>1, <2>1, <2>4
<1>2. CASE ~Acceptable(c)
  BY <1>2 DEF Try, Rest
<1> QED BY <1>1, <1>2

LEMMA CallKeeps ==
    ASSUME MassInv,
           NEW op \in {"read", "write"}, NEW off \in Offsets, NEW n \in Counts, Call(op, off, n)
    PROVE  MassInv'
<1>1. /\ call' = [op |-> op, off |-> off, n |-> n, id |-> call.id + 1]
      /\ buffer' = IF op = "write" THEN [k \in 1 .. n \div BlockSize |-> <<call'.id, k>>] ELSE <<>>
      /\ Try(call')
      /\ tag' = tag /\ result' = result /\ dev' = dev /\ medium' = medium
  BY DEF Call
<1>2. /\ TypeInv /\ TagInv /\ call.id \in Nat /\ off \in Nat /\ n \in Nat
  BY MassConstants DEF MassInv, TypeInv
<1>3. /\ call' \in [op : {"read", "write"}, off : Nat, n : Nat, id : Nat]
      /\ call' \in [op : {"none", "read", "write"}, off : Nat, n : Nat, id : Nat]
      /\ call'.op = op /\ call'.n = n /\ call'.id \in Nat
  BY <1>1, <1>2
<1>4. /\ at' \in {"try", "reset"}
      /\ at' = "try" => /\ cmd' = TryCommand(call') /\ cmd' \in CommandBlock
                        /\ Acceptable(call') /\ step' = "cbw"
      /\ at' = "reset" => cmd' = cmd /\ step' = step
  BY <1>1, <1>3, TryStarts
<1>5. buffer' \in Contents
  <2>1. CASE op = "write"
    <3> DEFINE m == n \div BlockSize
    <3>1. m \in Nat
      BY <1>2 DEF BlockSize
    <3>2. \A k \in 1 .. m : <<call'.id, k>> \in Nat \cup Block
      BY <1>3, <3>1 DEF Block
    <3>3. buffer' = [k \in 1 .. m |-> <<call'.id, k>>]
      BY <1>1, <2>1
    <3> HIDE DEF m
    <3>4. buffer' \in [1 .. m -> Nat \cup Block]
      BY <3>2, <3>3
    <3> QED BY <3>1, <3>4 DEF Contents
  <2>2. CASE op # "write"
    <3>1. buffer' = <<>>
      BY <1>1, <2>2
    <3> QED BY <3>1 DEF Contents
  <2> QED BY <2>1, <2>2
<1>6. TypeInv'
  BY <1>1, <1>2, <1>3, <1>4, <1>5 DEF TypeInv
<1>7. CallInv'
  <2>1. call'.op = "write" => buffer' = Given'
    BY <1>1, <1>3 DEF Given
  <2>2. call'.op = "read" => buffer' = <<>>
    BY <1>1, <1>3
  <2> QED BY <1>3, <1>4, <2>1, <2>2 DEF CallInv, Ops, Running
<1>8. TagInv' /\ AnswerInv' /\ TransfersRight'
  BY <1>1, <1>2, <1>4 DEF TagInv, AnswerInv, TransfersRight, ReadRight, WriteRight, Returned
<1> QED BY <1>6, <1>7, <1>8 DEF MassInv

LEMMA ResetKeeps ==
    ASSUME MassInv, ResetDone \/ ResetFails
    PROVE  MassInv' /\ medium' = medium
<1>1. /\ at = "reset" /\ tag' = tag /\ call' = call /\ buffer' = buffer /\ medium' = medium
      /\ DeviceReset \/ dev' = dev
      /\ \/ Rest("idle") /\ result' = FALSE
         \/ Try(call) /\ result' = result
  BY DEF ResetDone, ResetFails
<1>2. /\ TypeInv /\ CallInv /\ TagInv /\ dev \in Device /\ dev.queue \in Seq(Packet)
      /\ call \in [op : {"read", "write"}, off : Nat, n : Nat, id : Nat]
      /\ medium \in [0 .. dev.last -> Block]
  <2>1. call \in [op : {"none", "read", "write"}, off : Nat, n : Nat, id : Nat] /\ call.op # "none"
    BY <1>1 DEF MassInv, TypeInv, CallInv
  <2>2. call \in [op : {"read", "write"}, off : Nat, n : Nat, id : Nat]
    BY <2>1
  <2> QED BY <2>2 DEF MassInv, TypeInv, Device
<1>3. dev' \in Device /\ dev'.last = dev.last /\ TagInv'
  <2>1. CASE DeviceReset
    <3>1. <<>> \in Seq(Packet) /\ Len(<<>>) = 0
      OBVIOUS
    <3>2. /\ dev' \in Device /\ dev'.last = dev.last /\ dev'.queue = <<>> /\ dev'.stage = "idle"
      BY <1>2, <2>1, <3>1 DEF DeviceReset, Device
    <3> QED BY <3>1, <3>2 DEF TagInv
  <2>2. CASE dev' = dev
    BY <1>1, <1>2, <2>2 DEF TagInv
  <2> QED BY <1>1, <2>1, <2>2
<1>4. CASE Rest("idle") /\ result' = FALSE
  <2>1. at' = "idle" /\ step' = step /\ cmd' = cmd /\ result' = FALSE
    BY <1>4 DEF Rest
  <2>2. TypeInv'
    BY <1>1, <1>2, <1>3, <2>1 DEF TypeInv
  <2>3. CallInv'
    BY <1>1, <1>2, <2>1 DEF CallInv, Given, Running, Ops
  <2>4. AnswerInv' /\ TransfersRight'
    BY <2>1 DEF AnswerInv, TransfersRight, ReadRight, WriteRight, Returned
  <2> QED BY <1>1, <1>3, <2>2, <2>3, <2>4 DEF MassInv
<1>5. CASE Try(call) /\ result' = result
  <2>1. /\ at' \in {"try", "reset"}
        /\ at' = "try" => /\ cmd' = TryCommand(call) /\ cmd' \in CommandBlock
                          /\ Acceptable(call) /\ step' = "cbw"
        /\ at' = "reset" => cmd' = cmd /\ step' = step
    BY <1>2, <1>5, TryStarts
  <2>2. TypeInv'
    BY <1>1, <1>2, <1>3, <1>5, <2>1 DEF TypeInv
  <2>3. CallInv'
    BY <1>1, <1>2, <2>1 DEF CallInv, Given, Running, Ops
  <2>4. AnswerInv' /\ TransfersRight'
    BY <2>1 DEF AnswerInv, TransfersRight, ReadRight, WriteRight, Returned
  <2> QED BY <1>1, <1>3, <2>2, <2>3, <2>4 DEF MassInv
<1> QED BY <1>1, <1>4, <1>5

-----------------------------------------------------------------------------
(* One step keeps the invariant and changes only blocks of its call.       *)
LEMMA StepKeeps ==
    ASSUME MassInv, [Next]_vars
    PROVE  MassInv' /\ ChangesAddressed
<1>1. medium' = medium => ChangesAddressed
  BY DEF ChangesAddressed
<1>2. CASE SendCommand
  <2>1. medium' = medium
    BY <1>2 DEF SendCommand, TakeCommand
  <2> QED BY <1>1, <1>2, <2>1, SendCommandKeeps
<1>3. CASE SendFails
  BY <1>1, <1>3, SendFailsKeeps
<1>4. CASE SendData
  BY <1>4, SendDataKeeps
<1>5. CASE ReceiveData
  <2>1. medium' = medium
    BY <1>5 DEF ReceiveData, Fetch
  <2> QED BY <1>1, <1>5, <2>1, ReceiveDataKeeps
<1>6. CASE DataFails
  BY <1>6, DataFailsKeeps
<1>7. CASE ReceiveStatus
  <2>1. medium' = medium
    BY <1>7 DEF ReceiveStatus, Fetch
  <2> QED BY <1>1, <1>7, <2>1, ReceiveStatusKeeps
<1>8. CASE StatusFails
  BY <1>1, <1>8, StatusFailsKeeps
<1>9. ASSUME NEW op \in {"read", "write"}, NEW off \in Offsets, NEW n \in Counts, Call(op, off, n)
      PROVE  MassInv' /\ ChangesAddressed
  <2>1. medium' = medium
    BY <1>9 DEF Call
  <2> QED BY <1>1, <1>9, <2>1, CallKeeps
<1>10. CASE ResetDone \/ ResetFails
  BY <1>1, <1>10, ResetKeeps
<1>11. CASE UNCHANGED vars
  <2>1. TypeInv' = TypeInv
    BY <1>11 DEF vars, TypeInv
  <2>2. CallInv' = CallInv
    BY <1>11 DEF vars, CallInv, Given, Running
  <2>3. TagInv' = TagInv
    BY <1>11 DEF vars, TagInv
  <2>4. AnswerInv' = AnswerInv
    BY <1>11 DEF vars, AnswerInv, Good, Named, Told
  <2>5. TransfersRight' = TransfersRight
    BY <1>11 DEF vars, TransfersRight, ReadRight, WriteRight, Returned, Addressed
  <2>6. medium' = medium
    BY <1>11 DEF vars
  <2> QED BY <1>1, <2>1, <2>2, <2>3, <2>4, <2>5, <2>6 DEF MassInv
<1> QED BY <1>2, <1>3, <1>4, <1>5, <1>6, <1>7, <1>8, <1>9, <1>10, <1>11 DEF Next

(* The inductive invariant holds in every behaviour.                       *)
THEOREM MassInvHolds == Spec => []MassInv
<1>1. Init => MassInv
  BY InitInv
<1>2. MassInv /\ [Next]_vars => MassInv'
  BY StepKeeps
<1> QED BY <1>1, <1>2, PTL DEF Spec

(* USPiMassStorageDeviceRead and Write keep their promise, however many    *)
(* transfers fail, whatever stale data and statuses the device still has,  *)
(* and also when the length does not fit its field: the residue tells.     *)
THEOREM TransferTheorem == Spec => []TransfersRight
<1>1. MassInv => TransfersRight
  BY DEF MassInv
<1> QED BY <1>1, MassInvHolds, PTL

(* No fault, retry or reset makes the driver change a block that its call  *)
(* does not address, or to anything but what the caller gave.              *)
THEOREM AddressedTheorem == Spec => OnlyAddressed
<1>1. MassInv /\ [Next]_vars => [ChangesAddressed]_vars
  BY StepKeeps
<1> QED BY <1>1, MassInvHolds, PTL DEF Spec, OnlyAddressed
=============================================================================
